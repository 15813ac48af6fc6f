-------------------------- MODULE CallBoundaryProofs -------------------------
(***************************************************************************)
(* Proofs about CallBoundary, for every set of threads, every choice of    *)
(* entry points and engine errors, and every bound on the calls.           *)
(***************************************************************************)
EXTENDS CallBoundary, TLAPS

(***************************************************************************)
(* A program is well formed when it reads every argument before it changes *)
(* the database or writes, and when only writes follow a write.            *)
(***************************************************************************)
WellFormed(p) ==
  /\ p \in Seq(Steps)
  /\ \A i, j \in 1..Len(p) :
       i < j => /\ p[i] \in WriteSteps => p[j] \in WriteSteps
                /\ p[i] = "effect" => p[j] \notin ArgSteps

LEMMA LifecycleWellFormed ==
  \A e \in DOMAIN LifecycleProgram : WellFormed(LifecycleProgram[e])
<1>1. WellFormed(LifecycleProgram.OpenMemory)
  BY DEF LifecycleProgram, WellFormed, Steps, ArgSteps, WriteSteps, CodeSteps
<1>2. WellFormed(LifecycleProgram.Open)
  BY DEF LifecycleProgram, WellFormed, Steps, ArgSteps, WriteSteps, CodeSteps
<1>3. WellFormed(LifecycleProgram.OpenReadOnly)
  BY DEF LifecycleProgram, WellFormed, Steps, ArgSteps, WriteSteps, CodeSteps
<1>4. WellFormed(LifecycleProgram.Close)
  BY DEF LifecycleProgram, WellFormed, Steps, ArgSteps, WriteSteps, CodeSteps
<1>5. QED
  BY <1>1, <1>2, <1>3, <1>4 DEF LifecycleProgram

LEMMA IngestWellFormed ==
  \A e \in DOMAIN IngestProgram : WellFormed(IngestProgram[e])
<1>1. WellFormed(IngestProgram.Ingest)
  BY DEF IngestProgram, WellFormed, Steps, ArgSteps, WriteSteps, CodeSteps
<1>2. QED
  BY <1>1 DEF IngestProgram

LEMMA SqlWellFormed ==
  \A e \in DOMAIN SqlProgram : WellFormed(SqlProgram[e])
<1>1. WellFormed(SqlProgram.QuerySql)
  BY DEF SqlProgram, WellFormed, Steps, ArgSteps, WriteSteps, CodeSteps
<1>2. QED
  BY <1>1 DEF SqlProgram

LEMMA OpsWellFormed ==
  \A e \in DOMAIN OpsProgram : WellFormed(OpsProgram[e])
<1>1. WellFormed(OpsProgram.Flush)
  BY DEF OpsProgram, WellFormed, Steps, ArgSteps, WriteSteps, CodeSteps
<1>2. WellFormed(OpsProgram.Maintain)
  BY DEF OpsProgram, WellFormed, Steps, ArgSteps, WriteSteps, CodeSteps
<1>3. WellFormed(OpsProgram.Stats)
  BY DEF OpsProgram, WellFormed, Steps, ArgSteps, WriteSteps, CodeSteps
<1>4. WellFormed(OpsProgram.TableStats)
  BY DEF OpsProgram, WellFormed, Steps, ArgSteps, WriteSteps, CodeSteps
<1>5. QED
  BY <1>1, <1>2, <1>3, <1>4 DEF OpsProgram

LEMMA AdminWellFormed ==
  \A e \in DOMAIN AdminProgram : WellFormed(AdminProgram[e])
<1>1. WellFormed(AdminProgram.Snapshot)
  BY DEF AdminProgram, WellFormed, Steps, ArgSteps, WriteSteps, CodeSteps
<1>2. WellFormed(AdminProgram.DurableThrough)
  BY DEF AdminProgram, WellFormed, Steps, ArgSteps, WriteSteps, CodeSteps
<1>3. WellFormed(AdminProgram.Segments)
  BY DEF AdminProgram, WellFormed, Steps, ArgSteps, WriteSteps, CodeSteps
<1>4. WellFormed(AdminProgram.Export)
  BY DEF AdminProgram, WellFormed, Steps, ArgSteps, WriteSteps, CodeSteps
<1>5. WellFormed(AdminProgram.QuerySqlIpc)
  BY DEF AdminProgram, WellFormed, Steps, ArgSteps, WriteSteps, CodeSteps
<1>6. QED
  BY <1>1, <1>2, <1>3, <1>4, <1>5 DEF AdminProgram

LEMMA TypedWellFormed ==
  \A e \in DOMAIN TypedProgram : WellFormed(TypedProgram[e])
<1>1. WellFormed(TypedProgram.LogsQuery)
  BY DEF TypedProgram, WellFormed, Steps, ArgSteps, WriteSteps, CodeSteps
<1>2. WellFormed(TypedProgram.MetricsInstant)
  BY DEF TypedProgram, WellFormed, Steps, ArgSteps, WriteSteps, CodeSteps
<1>3. QED
  BY <1>1, <1>2 DEF TypedProgram

LEMMA LogWellFormed ==
  \A e \in DOMAIN LogProgram : WellFormed(LogProgram[e])
<1>1. WellFormed(LogProgram.LogsVolume)
  BY DEF LogProgram, WellFormed, Steps, ArgSteps, WriteSteps, CodeSteps
<1>2. WellFormed(LogProgram.LogsPage)
  BY DEF LogProgram, WellFormed, Steps, ArgSteps, WriteSteps, CodeSteps
<1>3. WellFormed(LogProgram.LogsCount)
  BY DEF LogProgram, WellFormed, Steps, ArgSteps, WriteSteps, CodeSteps
<1>4. QED
  BY <1>1, <1>2, <1>3 DEF LogProgram

LEMMA PointsWellFormed ==
  \A e \in DOMAIN PointsProgram : WellFormed(PointsProgram[e])
<1>1. WellFormed(PointsProgram.MetricsPoints)
  BY DEF PointsProgram, WellFormed, Steps, ArgSteps, WriteSteps, CodeSteps
<1>2. QED
  BY <1>1 DEF PointsProgram

LEMMA DiscoveryWellFormed ==
  \A e \in DOMAIN DiscoveryProgram : WellFormed(DiscoveryProgram[e])
<1>1. WellFormed(DiscoveryProgram.AttrNames)
  BY DEF DiscoveryProgram, WellFormed, Steps, ArgSteps, WriteSteps, CodeSteps
<1>2. WellFormed(DiscoveryProgram.AttrValues)
  BY DEF DiscoveryProgram, WellFormed, Steps, ArgSteps, WriteSteps, CodeSteps
<1>3. QED
  BY <1>1, <1>2 DEF DiscoveryProgram

LEMMA LgtmWellFormed ==
  \A e \in DOMAIN LgtmProgram : WellFormed(LgtmProgram[e])
<1>1. WellFormed(LgtmProgram.QueryPromql)
  BY DEF LgtmProgram, WellFormed, Steps, ArgSteps, WriteSteps, CodeSteps
<1>2. WellFormed(LgtmProgram.QueryLogqlLines)
  BY DEF LgtmProgram, WellFormed, Steps, ArgSteps, WriteSteps, CodeSteps
<1>3. WellFormed(LgtmProgram.QueryLogqlSeries)
  BY DEF LgtmProgram, WellFormed, Steps, ArgSteps, WriteSteps, CodeSteps
<1>4. QED
  BY <1>1, <1>2, <1>3 DEF LgtmProgram

LEMMA TraceWellFormed ==
  \A e \in DOMAIN TraceProgram : WellFormed(TraceProgram[e])
<1>1. WellFormed(TraceProgram.QueryTraceql)
  BY DEF TraceProgram, WellFormed, Steps, ArgSteps, WriteSteps, CodeSteps
<1>2. WellFormed(TraceProgram.GetTrace)
  BY DEF TraceProgram, WellFormed, Steps, ArgSteps, WriteSteps, CodeSteps
<1>3. QED
  BY <1>1, <1>2 DEF TraceProgram

LEMMA SetterWellFormed ==
  \A e \in DOMAIN SetterProgram : WellFormed(SetterProgram[e])
<1>1. WellFormed(SetterProgram.SetNumber)
  BY DEF SetterProgram, WellFormed, Steps, ArgSteps, WriteSteps, CodeSteps
<1>2. WellFormed(SetterProgram.SetString)
  BY DEF SetterProgram, WellFormed, Steps, ArgSteps, WriteSteps, CodeSteps
<1>3. WellFormed(SetterProgram.AddPair)
  BY DEF SetterProgram, WellFormed, Steps, ArgSteps, WriteSteps, CodeSteps
<1>4. WellFormed(SetterProgram.AddValues)
  BY DEF SetterProgram, WellFormed, Steps, ArgSteps, WriteSteps, CodeSteps
<1>5. QED
  BY <1>1, <1>2, <1>3, <1>4 DEF SetterProgram

LEMMA ProgramsWellFormed == \A e \in EntryPoint : WellFormed(Program(e))
  BY LifecycleWellFormed,
     IngestWellFormed,
     SqlWellFormed,
     OpsWellFormed,
     AdminWellFormed,
     TypedWellFormed,
     LogWellFormed,
     PointsWellFormed,
     DiscoveryWellFormed,
     LgtmWellFormed,
     TraceWellFormed,
     SetterWellFormed
  DEF EntryPoint, Program
-----------------------------------------------------------------------------
(***************************************************************************)
(* The inductive invariant.  During a call the writes so far are those the *)
(* executed steps performed, every executed argument step accepted its     *)
(* argument, and a change can only have been handed over by an executed    *)
(* step.  After a failure and until the host has read the message the      *)
(* slot still holds the message of the thread's latest call.               *)
(***************************************************************************)
Executed(t) == {Program(entry[t])[i] : i \in 1..(pc[t] - 1)}

InCallInv(t) ==
  host[t] = "in_call" =>
    /\ calls[t] > 0
    /\ pc[t] <= Len(Program(entry[t])) + 1
    /\ wrote[t] = Executed(t) \cap WriteSteps
    /\ Executed(t) \cap bad[t] = {}
    /\ reached[t] => "effect" \in Executed(t)

FailedInv(t) ==
  host[t] \in {"failed", "reading"} =>
    /\ calls[t] > 0
    /\ code[t] # "Ok"
    /\ slot[t] = LatestCall(t)
    /\ host[t] = "reading" => ptr[t] = slot[t]

ReturnedInv(t) ==
  host[t] # "in_call" /\ calls[t] > 0 =>
    wrote[t] = IF code[t] = "Ok" THEN WritesOf(entry[t]) ELSE {}

ArgumentInv(t) ==
  /\ bad[t] \subseteq ArgsOf(entry[t])
  /\ reached[t] \/ wrote[t] # {} => bad[t] = {}

ThreadInv(t) ==
  /\ InCallInv(t)
  /\ FailedInv(t)
  /\ ReturnedInv(t)
  /\ ArgumentInv(t)
  /\ thrown[t].text = thrown[t].call

IInv == TypeOK /\ \A t \in Threads : ThreadInv(t)
-----------------------------------------------------------------------------
(* Lemmas about the operators of the model *)

LEMMA ClassifyIsCode == \A e \in ImbhError : Classify(e) \in Codes \ {"Ok"}
  BY DEF Classify, ImbhError, Categories, Codes

LEMMA FailureIsCode == \A s : FailureCodes(s) \subseteq Codes \ {"Ok"}
<1> SUFFICES ASSUME NEW s PROVE FailureCodes(s) \subseteq Codes \ {"Ok"}
  OBVIOUS
<1>1. {Classify(e) : e \in EngineErrors} \subseteq Codes \ {"Ok"}
  BY ClassifyIsCode, ErrorsAssumption
<1>2. QED
  BY <1>1 DEF FailureCodes, Codes

\* Only a step that is neither an argument nor a write can fail by itself.
LEMMA FailureStep ==
  \A s : FailureCodes(s) # {} => s \notin ArgSteps \cup WriteSteps
  BY DEF FailureCodes, CodeSteps, ArgSteps, WriteSteps

LEMMA ProgramShape ==
  \A e \in EntryPoint :
    /\ Len(Program(e)) \in Nat
    /\ DOMAIN Program(e) = 1..Len(Program(e))
    /\ \A i \in 1..Len(Program(e)) : Program(e)[i] \in Steps
    /\ \A i, j \in 1..Len(Program(e)) :
         i < j => /\ Program(e)[i] \in WriteSteps => Program(e)[j] \in WriteSteps
                  /\ Program(e)[i] = "effect" => Program(e)[j] \notin ArgSteps
  BY ProgramsWellFormed DEF WellFormed

\* The step kinds are disjoint, and a change is neither a check nor a write.
LEMMA StepKinds ==
  /\ ArgSteps \cap WriteSteps = {}
  /\ "effect" \notin ArgSteps \cup WriteSteps
  BY DEF ArgSteps, WriteSteps

LEMMA InitInv == Init => IInv
<1> SUFFICES ASSUME Init PROVE IInv
  OBVIOUS
<1>1. TypeOK
  <2>1. "OpenMemory" \in EntryPoint
    BY DEF EntryPoint, LifecycleProgram
  <2>2. NoError \in [code : Codes, call : Messages \cup {NoMessage},
                     text : Messages \cup {NoMessage}]
    BY DEF NoError, Codes
  <2>3. "Ok" \in Codes
    BY DEF Codes
  <2>4. thrown \in [Threads -> [code : Codes, call : Messages \cup {NoMessage},
                                text : Messages \cup {NoMessage}]]
    BY <2>2 DEF Init
  <2>5. /\ host \in [Threads -> {"idle", "in_call", "failed", "reading"}]
        /\ calls \in [Threads -> 0..MaxCalls]
        /\ entry \in [Threads -> EntryPoint]
        /\ code \in [Threads -> Codes]
    BY <2>1, <2>3, MaxCallsAssumption DEF Init
  <2>6. /\ bad \in [Threads -> SUBSET ArgSteps]
        /\ pc \in [Threads -> Nat \ {0}]
        /\ reached \in [Threads -> BOOLEAN]
        /\ wrote \in [Threads -> SUBSET WriteSteps]
    BY DEF Init
  <2>7. /\ slot \in [Threads -> Messages \cup {NoMessage}]
        /\ ptr \in [Threads -> Messages \cup {NoMessage}]
        /\ recent \in [Threads -> BOOLEAN]
        /\ aborted \in BOOLEAN
    BY DEF Init
  <2>8. QED
    BY <2>4, <2>5, <2>6, <2>7 DEF TypeOK
<1>2. ASSUME NEW t \in Threads PROVE ThreadInv(t)
  BY DEF Init, ThreadInv, InCallInv, FailedInv, ReturnedInv, ArgumentInv, NoError
<1>3. QED
  BY <1>1, <1>2 DEF IInv

(***************************************************************************)
(* What holds of a thread depends on that thread's components only, so a   *)
(* step of one thread keeps it for every other.                            *)
(***************************************************************************)
LEMMA OtherThread ==
  ASSUME NEW u \in Threads, ThreadInv(u),
         host'[u] = host[u], calls'[u] = calls[u], entry'[u] = entry[u],
         bad'[u] = bad[u], pc'[u] = pc[u], reached'[u] = reached[u],
         wrote'[u] = wrote[u], code'[u] = code[u], slot'[u] = slot[u],
         ptr'[u] = ptr[u], thrown'[u] = thrown[u]
  PROVE  ThreadInv(u)'
  BY DEF ThreadInv, InCallInv, FailedInv, ReturnedInv, ArgumentInv, Executed,
         LatestCall
(***************************************************************************)
(* Finish is the return of guard: whatever the code, the host is idle or   *)
(* has failed, and after a failure the slot names the call.                *)
(***************************************************************************)
LEMMA FinishEffect ==
  ASSUME TypeOK, NEW t \in Threads, NEW c \in Codes, Finish(t, c)
  PROVE  /\ host' \in [Threads -> {"idle", "in_call", "failed", "reading"}]
         /\ code' \in [Threads -> Codes]
         /\ slot' \in [Threads -> Messages \cup {NoMessage}]
         /\ recent' \in [Threads -> BOOLEAN]
         /\ host'[t] = IF c = "Ok" THEN "idle" ELSE "failed"
         /\ code'[t] = c
         /\ c # "Ok" => slot'[t] = LatestCall(t)
         /\ \A u \in Threads \ {t} : /\ host'[u] = host[u]
                                     /\ code'[u] = code[u]
                                     /\ slot'[u] = slot[u]
<1>1. calls[t] \in Nat /\ LatestCall(t) \in Messages
  BY MaxCallsAssumption DEF TypeOK, LatestCall, Messages
<1>2. Recorded(t, c) \in Messages \cup {NoMessage}
  BY <1>1 DEF Recorded
<1>3. QED
  BY <1>1, <1>2 DEF Finish, SetSlot, Recorded, TypeOK

LEMMA BeginInv ==
  ASSUME IInv, NEW t \in Threads, NEW e \in Entries,
         NEW b \in SUBSET ArgsOf(e), Begin(t, e, b)
  PROVE  IInv'
<1>1. TypeOK'
  BY EntriesAssumption, MaxCallsAssumption DEF IInv, Begin, TypeOK, reading, ArgsOf
<1>2. ThreadInv(t)'
  <2>1. pc'[t] = 1 /\ entry'[t] = e /\ wrote'[t] = {} /\ ~reached'[t]
    BY DEF IInv, Begin, TypeOK
  <2>2. Executed(t)' = {}
    BY <2>1 DEF Executed
  <2>3. e \in EntryPoint /\ pc'[t] <= Len(Program(e)) + 1
    BY <2>1, EntriesAssumption, ProgramShape
  <2>4. host'[t] = "in_call" /\ calls'[t] > 0 /\ bad'[t] = b
    BY MaxCallsAssumption DEF IInv, Begin, TypeOK
  <2>5. thrown'[t].text = thrown'[t].call
    BY DEF IInv, ThreadInv, Begin, reading
  <2>6. QED
    BY <2>1, <2>2, <2>3, <2>4, <2>5
    DEF ThreadInv, InCallInv, FailedInv, ReturnedInv, ArgumentInv
<1>3. ASSUME NEW u \in Threads \ {t} PROVE ThreadInv(u)'
  <2>1. ThreadInv(u)
    BY DEF IInv
  <2>2. QED
    BY <2>1, OtherThread DEF IInv, TypeOK, Begin, reading
<1>4. QED
  BY <1>1, <1>2, <1>3 DEF IInv
(***************************************************************************)
(* One more step: the executed steps grow by the one at pc.                *)
(***************************************************************************)
LEMMA AdvanceEffect ==
  ASSUME TypeOK, NEW t \in Threads, AtStep(t), Advance(t), UNCHANGED entry
  PROVE  /\ pc' \in [Threads -> Nat \ {0}]
         /\ \A u \in Threads \ {t} : pc'[u] = pc[u]
         /\ pc'[t] <= Len(Program(entry[t])) + 1
         /\ Executed(t)' = Executed(t) \cup {Step(t)}
<1>1. entry[t] \in EntryPoint /\ pc[t] \in Nat \ {0}
  BY DEF TypeOK
<1>2. pc[t] \in 1..Len(Program(entry[t])) /\ Len(Program(entry[t])) \in Nat
  BY <1>1, ProgramShape DEF AtStep
<1>3. pc' = [pc EXCEPT ![t] = pc[t] + 1] /\ entry' = entry
  BY DEF Advance
<1>4. pc'[t] = pc[t] + 1 /\ pc' \in [Threads -> Nat \ {0}]
  BY <1>1, <1>3 DEF TypeOK
<1>5. 1..(pc'[t] - 1) = 1..(pc[t] - 1) \cup {pc[t]}
  BY <1>1, <1>4
<1>6. Executed(t)' = Executed(t) \cup {Step(t)}
  BY <1>3, <1>5 DEF Executed, Step
<1>7. \A u \in Threads \ {t} : pc'[u] = pc[u]
  BY <1>3 DEF TypeOK
<1>8. QED
  BY <1>2, <1>4, <1>6, <1>7

(***************************************************************************)
(* Where the programs' order matters: at a change or a write every         *)
(* argument of the call has been accepted, and at any other step nothing   *)
(* has been written yet.                                                   *)
(***************************************************************************)
LEMMA EffectChecked ==
  ASSUME TypeOK, NEW t \in Threads, ThreadInv(t), AtStep(t), Step(t) = "effect"
  PROVE  bad[t] = {}
<1> DEFINE P == Program(entry[t])
<1>1. entry[t] \in EntryPoint /\ pc[t] \in Nat \ {0}
  BY DEF TypeOK
<1>2. pc[t] \in 1..Len(P) /\ Len(P) \in Nat /\ DOMAIN P = 1..Len(P)
  BY <1>1, ProgramShape DEF AtStep
<1>3. SUFFICES ASSUME NEW a \in bad[t] PROVE FALSE
  OBVIOUS
<1>4. a \in ArgSteps /\ a \notin Executed(t)
  BY DEF ThreadInv, ArgumentInv, InCallInv, AtStep, ArgsOf
<1>5. PICK j \in 1..Len(P) : P[j] = a
  BY <1>2 DEF ThreadInv, ArgumentInv, ArgsOf, StepsOf
<1>6. j >= pc[t]
  BY <1>1, <1>4, <1>5 DEF Executed
<1>7. j # pc[t]
  BY <1>4, <1>5, StepKinds DEF Step
<1>8. pc[t] < j
  BY <1>1, <1>6, <1>7
<1>9. QED
  BY <1>1, <1>2, <1>4, <1>5, <1>8, ProgramShape DEF Step

LEMMA WriteChecked ==
  ASSUME TypeOK, NEW t \in Threads, ThreadInv(t), AtStep(t), Step(t) \in WriteSteps
  PROVE  bad[t] = {}
<1> DEFINE P == Program(entry[t])
<1>1. entry[t] \in EntryPoint /\ pc[t] \in Nat \ {0}
  BY DEF TypeOK
<1>2. pc[t] \in 1..Len(P) /\ Len(P) \in Nat /\ DOMAIN P = 1..Len(P)
  BY <1>1, ProgramShape DEF AtStep
<1>3. SUFFICES ASSUME NEW a \in bad[t] PROVE FALSE
  OBVIOUS
<1>4. a \in ArgSteps /\ a \notin Executed(t)
  BY DEF ThreadInv, ArgumentInv, InCallInv, AtStep, ArgsOf
<1>5. PICK j \in 1..Len(P) : P[j] = a
  BY <1>2 DEF ThreadInv, ArgumentInv, ArgsOf, StepsOf
<1>6. j >= pc[t]
  BY <1>1, <1>4, <1>5 DEF Executed
<1>7. pc[t] # j /\ P[j] \notin WriteSteps
  BY <1>4, <1>5, StepKinds DEF Step
<1>8. QED
  BY <1>1, <1>2, <1>6, <1>7, ProgramShape DEF Step

LEMMA NothingWritten ==
  ASSUME TypeOK, NEW t \in Threads, ThreadInv(t), AtStep(t),
         Step(t) \notin WriteSteps
  PROVE  wrote[t] = {}
<1> DEFINE P == Program(entry[t])
<1>1. entry[t] \in EntryPoint /\ pc[t] \in Nat \ {0}
  BY DEF TypeOK
<1>2. pc[t] \in 1..Len(P) /\ Len(P) \in Nat
  BY <1>1, ProgramShape DEF AtStep
<1>3. SUFFICES ASSUME NEW w \in wrote[t] PROVE FALSE
  OBVIOUS
<1>4. w \in Executed(t) /\ w \in WriteSteps
  BY DEF ThreadInv, InCallInv, AtStep
<1>5. PICK i \in 1..(pc[t] - 1) : P[i] = w
  BY <1>4 DEF Executed
<1>6. i \in 1..Len(P) /\ i < pc[t]
  BY <1>1, <1>2, <1>5
<1>7. QED
  BY <1>1, <1>2, <1>4, <1>5, <1>6, ProgramShape DEF Step

LEMMA AcceptInv ==
  ASSUME IInv, NEW t \in Threads, AcceptArgument(t)
  PROVE  IInv'
<1> USE DEF AcceptArgument, Advance, reading
<1>1. TypeOK' /\ Executed(t)' = Executed(t) \cup {Step(t)}
      /\ pc'[t] <= Len(Program(entry[t])) + 1
  BY AdvanceEffect DEF IInv, TypeOK
<1>2. ThreadInv(t)'
  <2>1. ThreadInv(t) /\ host[t] = "in_call"
    BY DEF IInv, AtStep
  <2>2. Step(t) \notin WriteSteps /\ Step(t) \notin bad[t]
    BY StepKinds
  <2>3. QED
    BY <1>1, <2>1, <2>2
    DEF ThreadInv, InCallInv, FailedInv, ReturnedInv, ArgumentInv, LatestCall
<1>3. ASSUME NEW u \in Threads \ {t} PROVE ThreadInv(u)'
  BY OtherThread, AdvanceEffect DEF IInv
<1>4. QED
  BY <1>1, <1>2, <1>3 DEF IInv

LEMMA RunInv ==
  ASSUME IInv, NEW t \in Threads, RunStep(t)
  PROVE  IInv'
<1> USE DEF RunStep, Advance, reading
<1>1. Executed(t)' = Executed(t) \cup {Step(t)}
      /\ pc' \in [Threads -> Nat \ {0}]
      /\ pc'[t] <= Len(Program(entry[t])) + 1
  BY AdvanceEffect DEF IInv
<1>2. reached[t] \in BOOLEAN /\ reached'[t] = (reached[t] \/ Step(t) = "effect")
      /\ reached' \in [Threads -> BOOLEAN]
  BY DEF IInv, TypeOK
<1>3. TypeOK'
  BY <1>1, <1>2 DEF IInv, TypeOK
<1>4. ThreadInv(t)'
  <2>1. ThreadInv(t) /\ host[t] = "in_call"
    BY DEF IInv, AtStep
  <2>2. Step(t) = "effect" => bad[t] = {}
    BY EffectChecked DEF IInv
  <2>3. Step(t) \notin WriteSteps /\ Step(t) \notin bad[t]
    BY <2>1 DEF IInv, TypeOK, ThreadInv, ArgumentInv, ArgsOf
  <2>4. QED
    BY <1>1, <1>2, <2>1, <2>2, <2>3
    DEF ThreadInv, InCallInv, FailedInv, ReturnedInv, ArgumentInv, LatestCall
<1>5. ASSUME NEW u \in Threads \ {t} PROVE ThreadInv(u)'
  <2>1. reached'[u] = reached[u]
    BY DEF IInv, TypeOK
  <2>2. QED
    BY <2>1, OtherThread, AdvanceEffect DEF IInv
<1>6. QED
  BY <1>3, <1>4, <1>5 DEF IInv

LEMMA WriteInv ==
  ASSUME IInv, NEW t \in Threads, WriteStep(t)
  PROVE  IInv'
<1> USE DEF WriteStep, Advance, reading
<1>1. Executed(t)' = Executed(t) \cup {Step(t)}
      /\ pc' \in [Threads -> Nat \ {0}]
      /\ pc'[t] <= Len(Program(entry[t])) + 1
  BY AdvanceEffect DEF IInv
<1>2. wrote'[t] = wrote[t] \cup {Step(t)} /\ wrote' \in [Threads -> SUBSET WriteSteps]
  BY DEF IInv, TypeOK
<1>3. TypeOK'
  BY <1>1, <1>2 DEF IInv, TypeOK
<1>4. ThreadInv(t)'
  <2>1. ThreadInv(t) /\ host[t] = "in_call"
    BY DEF IInv, AtStep
  <2>2. bad[t] = {}
    BY WriteChecked DEF IInv
  <2>3. QED
    BY <1>1, <1>2, <2>1, <2>2
    DEF ThreadInv, InCallInv, FailedInv, ReturnedInv, ArgumentInv, LatestCall
<1>5. ASSUME NEW u \in Threads \ {t} PROVE ThreadInv(u)'
  <2>1. wrote'[u] = wrote[u]
    BY DEF IInv, TypeOK
  <2>2. QED
    BY <2>1, OtherThread, AdvanceEffect DEF IInv
<1>6. QED
  BY <1>3, <1>4, <1>5 DEF IInv

LEMMA RejectInv ==
  ASSUME IInv, NEW t \in Threads, RejectArgument(t)
  PROVE  IInv'
<1> USE DEF RejectArgument, frame, reading
<1>1. "InvalidArg" \in Codes /\ "InvalidArg" # "Ok"
  BY DEF Codes
<1>2. TypeOK'
  BY <1>1, FinishEffect DEF IInv, TypeOK
<1>3. ThreadInv(t)'
  <2>1. ThreadInv(t) /\ host[t] = "in_call"
    BY DEF IInv, AtStep
  <2>2. Step(t) \notin WriteSteps
    BY <2>1, StepKinds DEF IInv, TypeOK
  <2>3. wrote[t] = {}
    BY <2>1, <2>2, NothingWritten DEF IInv
  <2>4. host'[t] = "failed" /\ code'[t] # "Ok" /\ slot'[t] = LatestCall(t)
    BY <1>1, FinishEffect DEF IInv
  <2>5. QED
    BY <2>1, <2>3, <2>4
    DEF ThreadInv, InCallInv, FailedInv, ReturnedInv, ArgumentInv, LatestCall
<1>4. ASSUME NEW u \in Threads \ {t} PROVE ThreadInv(u)'
  BY <1>1, FinishEffect, OtherThread DEF IInv
<1>5. QED
  BY <1>2, <1>3, <1>4 DEF IInv

LEMMA FailInv ==
  ASSUME IInv, NEW t \in Threads, FailStep(t)
  PROVE  IInv'
<1> USE DEF FailStep, reading
<1>1. PICK c \in FailureCodes(Step(t)) : Finish(t, c)
  OBVIOUS
<1>2. c \in Codes /\ c # "Ok" /\ Step(t) \notin ArgSteps \cup WriteSteps
  BY FailureIsCode, FailureStep
<1>3. reached'[t] = (reached[t] \/ Step(t) = "effect")
      /\ reached' \in [Threads -> BOOLEAN]
  BY DEF IInv, TypeOK
<1>4. TypeOK'
  BY <1>1, <1>2, <1>3, FinishEffect DEF IInv, TypeOK
<1>5. ThreadInv(t)'
  <2>1. ThreadInv(t) /\ host[t] = "in_call"
    BY DEF IInv, AtStep
  <2>2. wrote[t] = {}
    BY <1>2, <2>1, NothingWritten DEF IInv
  <2>3. Step(t) = "effect" => bad[t] = {}
    BY <2>1, EffectChecked DEF IInv
  <2>4. host'[t] = "failed" /\ code'[t] # "Ok" /\ slot'[t] = LatestCall(t)
    BY <1>1, <1>2, FinishEffect DEF IInv
  <2>5. QED
    BY <1>3, <2>1, <2>2, <2>3, <2>4
    DEF ThreadInv, InCallInv, FailedInv, ReturnedInv, ArgumentInv, LatestCall
<1>6. ASSUME NEW u \in Threads \ {t} PROVE ThreadInv(u)'
  <2>1. reached'[u] = reached[u]
    BY DEF IInv, TypeOK
  <2>2. QED
    BY <1>1, <1>2, <2>1, FinishEffect, OtherThread DEF IInv
<1>7. QED
  BY <1>4, <1>5, <1>6 DEF IInv

LEMMA ReturnInv ==
  ASSUME IInv, NEW t \in Threads, ReturnOk(t)
  PROVE  IInv'
<1> USE DEF ReturnOk, frame, reading
<1>1. "Ok" \in Codes
  BY DEF Codes
<1>2. TypeOK'
  BY <1>1, FinishEffect DEF IInv, TypeOK
<1>3. ThreadInv(t)'
  <2>1. ThreadInv(t)
    BY DEF IInv
  <2>2. entry[t] \in EntryPoint
    BY DEF IInv, TypeOK
  <2>3. Executed(t) = StepsOf(entry[t])
    BY <2>2, ProgramShape DEF Executed, StepsOf
  <2>4. wrote[t] = WritesOf(entry[t])
    BY <2>1, <2>3 DEF ThreadInv, InCallInv, WritesOf
  <2>5. host'[t] = "idle" /\ code'[t] = "Ok"
    BY <1>1, FinishEffect DEF IInv
  <2>6. QED
    BY <2>1, <2>4, <2>5
    DEF ThreadInv, InCallInv, FailedInv, ReturnedInv, ArgumentInv
<1>4. ASSUME NEW u \in Threads \ {t} PROVE ThreadInv(u)'
  BY <1>1, FinishEffect, OtherThread DEF IInv
<1>5. QED
  BY <1>2, <1>3, <1>4 DEF IInv

\* The functions outside the guard touch neither the slot nor any call.
LEMMA UnguardedInv ==
  ASSUME IInv, NEW t \in Threads, BuilderCall(t) \/ FreeHandle(t)
  PROVE  IInv'
<1>1. TypeOK'
  BY DEF IInv, TypeOK, BuilderCall, FreeHandle, frame, reading
<1>2. ASSUME NEW u \in Threads PROVE ThreadInv(u)'
  BY OtherThread DEF IInv, BuilderCall, FreeHandle, frame, reading
<1>3. QED
  BY <1>1, <1>2 DEF IInv

LEMMA LastErrorMessageInv ==
  ASSUME IInv, NEW t \in Threads, LastErrorMessage(t)
  PROVE  IInv'
<1> USE DEF LastErrorMessage, frame
<1>1. TypeOK'
  BY DEF IInv, TypeOK
<1>2. ThreadInv(t)'
  BY DEF IInv, TypeOK, ThreadInv, InCallInv, FailedInv, ReturnedInv, ArgumentInv,
         LatestCall
<1>3. ASSUME NEW u \in Threads \ {t} PROVE ThreadInv(u)'
  BY OtherThread DEF IInv, TypeOK
<1>4. QED
  BY <1>1, <1>2, <1>3 DEF IInv

LEMMA ThrowInv ==
  ASSUME IInv, NEW t \in Threads, Throw(t)
  PROVE  IInv'
<1> USE DEF Throw, frame
<1>1. slot[t] = ptr[t] /\ ptr[t] = LatestCall(t) /\ LatestCall(t) \in Messages
  BY MaxCallsAssumption
  DEF IInv, TypeOK, ThreadInv, FailedInv, LatestCall, Messages
<1>2. thrown' = [thrown EXCEPT ![t] = [code |-> code[t], call |-> LatestCall(t),
                                       text |-> LatestCall(t)]]
  BY <1>1
<1>3. TypeOK'
  BY <1>1, <1>2 DEF IInv, TypeOK
<1>4. ThreadInv(t)'
  <2>1. thrown'[t].text = thrown'[t].call
    BY <1>2 DEF IInv, TypeOK
  <2>2. host'[t] = "idle"
    BY DEF IInv, TypeOK
  <2>3. QED
    BY <2>1, <2>2
    DEF IInv, ThreadInv, InCallInv, FailedInv, ReturnedInv, ArgumentInv
<1>5. ASSUME NEW u \in Threads \ {t} PROVE ThreadInv(u)'
  <2>1. thrown'[u] = thrown[u] /\ host'[u] = host[u]
    BY DEF IInv, TypeOK
  <2>2. QED
    BY <2>1, OtherThread DEF IInv
<1>6. QED
  BY <1>3, <1>4, <1>5 DEF IInv

LEMMA NextInv == IInv /\ [Next]_vars => IInv'
<1> SUFFICES ASSUME IInv, [Next]_vars PROVE IInv'
  OBVIOUS
<1>1. CASE UNCHANGED vars
  <2>1. TypeOK'
    BY <1>1 DEF IInv, TypeOK, vars, frame, reading
  <2>2. ASSUME NEW u \in Threads PROVE ThreadInv(u)'
    BY <1>1, OtherThread DEF IInv, vars, frame, reading
  <2>3. QED
    BY <2>1, <2>2 DEF IInv
<1>2. CASE Next
  <2>1. PICK t \in Threads : Call(t) \/ BuilderCall(t) \/ FreeHandle(t)
                             \/ LastErrorMessage(t) \/ Throw(t)
    BY <1>2 DEF Next
  <2>2. CASE Call(t)
    BY <2>2, BeginInv, AcceptInv, RejectInv, RunInv, FailInv, WriteInv, ReturnInv
    DEF Call
  <2>3. QED
    BY <2>1, <2>2, UnguardedInv, LastErrorMessageInv, ThrowInv
<1>3. QED
  BY <1>1, <1>2

-----------------------------------------------------------------------------
(***************************************************************************)
(* The state of the boundary stays well typed: in particular every return  *)
(* code is one of the eleven the header declares, whatever the engine      *)
(* answers.                                                                *)
(***************************************************************************)
THEOREM TypeCorrect == Spec => []TypeOK
<1>1. IInv => TypeOK
  BY DEF IInv
<1>2. QED
  BY <1>1, InitInv, NextInv, PTL DEF Spec

(***************************************************************************)
(* A reported error always carries the message of the call it reports, for *)
(* any number of threads and calls.                                        *)
(***************************************************************************)
THEOREM ReportsAreOwn == Spec => []ReportIsOwn
<1>1. IInv => ReportIsOwn
  BY DEF IInv, ThreadInv, ReportIsOwn
<1>2. QED
  BY <1>1, InitInv, NextInv, PTL DEF Spec

(***************************************************************************)
(* Every entry point is all or nothing on its out-params, wherever a call  *)
(* fails or panics.                                                        *)
(***************************************************************************)
THEOREM CallsAreAllOrNothing == Spec => []AllOrNothing
<1>1. IInv => AllOrNothing
  BY DEF IInv, ThreadInv, ReturnedInv, AllOrNothing
<1>2. QED
  BY <1>1, InitInv, NextInv, PTL DEF Spec

(***************************************************************************)
(* A call with a bad argument has no effect, at every entry point.         *)
(***************************************************************************)
THEOREM ArgumentsAreChecked == Spec => []OnlyCheckedArguments
<1>1. IInv => OnlyCheckedArguments
  BY DEF IInv, ThreadInv, ArgumentInv, OnlyCheckedArguments
<1>2. QED
  BY <1>1, InitInv, NextInv, PTL DEF Spec
-----------------------------------------------------------------------------
(* The refinement of CallContract *)

LEMMA Stutter ==
  ASSUME UNCHANGED <<calls, code, slot>>,
         \A t \in Threads : (host'[t] = "in_call") <=> (host[t] = "in_call")
  PROVE  UNCHANGED [t \in Threads |-> Visible(t)]
BY DEF Visible

LEMMA FinishReports ==
  ASSUME TypeOK, NEW t \in Threads, NEW c \in Codes, host[t] = "in_call",
         Finish(t, c), UNCHANGED calls
  PROVE  Contract!Next
<1>1. /\ host'[t] # "in_call"
      /\ code'[t] = c
      /\ slot'[t] = Recorded(t, c)
      /\ \A u \in Threads \ {t} : /\ host'[u] = host[u]
                                  /\ code'[u] = code[u]
                                  /\ slot'[u] = slot[u]
  BY DEF Finish, SetSlot, TypeOK
<1>2. \A u \in Threads \ {t} : Visible(u)' = Visible(u)
  BY <1>1 DEF Visible
<1>3. calls[t] \in Nat /\ Visible(t).made = calls[t] - 1
  BY MaxCallsAssumption DEF Visible, TypeOK
<1>4. Visible(t)' = [made |-> calls[t], ok |-> c = "Ok", message |-> Recorded(t, c)]
  BY <1>1 DEF Visible
<1>5. Visible(t).made + 1 = calls[t]
  BY <1>3
<1>6. CASE c = "Ok"
  <2>1. Contract!Succeed(t)
    BY <1>2, <1>4, <1>5, <1>6 DEF Contract!Succeed, Recorded
  <2>2. QED
    BY <2>1 DEF Contract!Next
<1>7. CASE c # "Ok"
  <2>1. Contract!Fail(t)
    BY <1>2, <1>4, <1>5, <1>7 DEF Contract!Fail, Recorded, LatestCall
  <2>2. QED
    BY <2>1 DEF Contract!Next
<1>8. QED
  BY <1>6, <1>7

LEMMA NextReports ==
  ASSUME IInv, [Next]_vars
  PROVE  [Contract!Next]_([t \in Threads |-> Visible(t)])
<1> USE DEF IInv
<1>1. CASE UNCHANGED vars
  BY <1>1, Stutter DEF vars
<1>2. ASSUME NEW t \in Threads, NEW e \in Entries, NEW b \in SUBSET ArgsOf(e),
             Begin(t, e, b)
      PROVE  UNCHANGED [u \in Threads |-> Visible(u)]
  <2>1. \A u \in Threads \ {t} : Visible(u)' = Visible(u)
    BY <1>2 DEF Begin, TypeOK, Visible
  <2>2. host[t] # "in_call" /\ host'[t] = "in_call" /\ calls[t] \in Nat
        /\ calls'[t] = calls[t] + 1 /\ code' = code /\ slot' = slot
    BY <1>2, MaxCallsAssumption DEF Begin, TypeOK
  <2>3. (calls[t] + 1) - 1 = calls[t]
    BY <2>2
  <2>4. Visible(t)' = Visible(t)
    BY <2>2, <2>3 DEF Visible
  <2>5. QED
    BY <2>1, <2>4
<1>3. ASSUME NEW t \in Threads,
             AcceptArgument(t) \/ RunStep(t) \/ WriteStep(t) \/ BuilderCall(t)
               \/ FreeHandle(t)
      PROVE  UNCHANGED [u \in Threads |-> Visible(u)]
  BY <1>3, Stutter
  DEF AcceptArgument, RunStep, WriteStep, BuilderCall, FreeHandle, Advance, frame
<1>4. ASSUME NEW t \in Threads, LastErrorMessage(t) \/ Throw(t)
      PROVE  UNCHANGED [u \in Threads |-> Visible(u)]
  BY <1>4, Stutter DEF LastErrorMessage, Throw, TypeOK
<1>5. ASSUME NEW t \in Threads, RejectArgument(t)
      PROVE  Contract!Next
  BY <1>5, FinishReports DEF RejectArgument, AtStep, Codes
<1>6. ASSUME NEW t \in Threads, FailStep(t)
      PROVE  Contract!Next
  BY <1>6, FinishReports, FailureIsCode DEF FailStep, AtStep
<1>7. ASSUME NEW t \in Threads, ReturnOk(t)
      PROVE  Contract!Next
  BY <1>7, FinishReports DEF ReturnOk, Codes
<1>8. QED
  BY <1>1, <1>2, <1>3, <1>4, <1>5, <1>6, <1>7 DEF Next, Call

LEMMA InitReports == Init => Contract!Init
<1> SUFFICES ASSUME Init PROVE Contract!Init
  OBVIOUS
<1>1. ASSUME NEW t \in Threads
      PROVE  Visible(t) = [made |-> 0, ok |-> TRUE, message |-> NoMessage]
  BY DEF Init, Visible
<1>2. QED
  BY <1>1 DEF Contract!Init

(***************************************************************************)
(* The boundary implements its contract: calls of all threads, interleaved *)
(* step by step and mixed with unguarded functions and cleanup, report     *)
(* exactly like calls that complete in one step.                           *)
(***************************************************************************)
THEOREM ContractImplemented == Spec => KeepsContract
  BY InitReports, InitInv, NextInv, NextReports, PTL DEF Spec, KeepsContract, Contract!Spec
==============================================================================
