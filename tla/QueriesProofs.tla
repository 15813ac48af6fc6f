---------------------------- MODULE QueriesProofs ----------------------------
(***************************************************************************)
(* Proofs about the queries: QueryBuilders, for any strings, numbers and   *)
(* number of setter calls, and LgtmQueries, for any points, spans, metric  *)
(* names and kinds.  The two have no state in common.                      *)
(***************************************************************************)
EXTENDS QueryBuilders, LgtmQueries, TLAPS

-----------------------------------------------------------------------------
(***************************************************************************)
(* QueryBuilders                                                           *)
(***************************************************************************)

(* The tables *)

\* Every setter either sets or adds.
LEMMA SetsOrAdds ==
  \A k \in DOMAIN Setters : \A s \in Fields(k) : Setters[k][s].how \in {"set", "add"}
<1>1. \A s \in DOMAIN LogSetters : LogSetters[s].how \in {"set", "add"}
  BY DEF LogSetters, LogFields, AttrFilters, Sets, Adds
<1>2. \A s \in DOMAIN MetricSetters : MetricSetters[s].how \in {"set", "add"}
  BY DEF MetricSetters, Sets, Adds
<1>3. \A s \in DOMAIN SpanMetricsSetters : SpanMetricsSetters[s].how \in {"set", "add"}
  BY DEF SpanMetricsSetters, Sets, Adds
<1>4. \A s \in DOMAIN TraceSetters : TraceSetters[s].how \in {"set", "add"}
  BY DEF TraceSetters, TraceFields, TraceFilters, AttrFilters, Sets, Adds
<1>5. \A s \in DOMAIN PointsSetters : PointsSetters[s].how \in {"set", "add"}
  BY DEF PointsSetters, Sets, Adds
<1> QED BY <1>1, <1>2, <1>3, <1>4, <1>5 DEF Setters, Fields

\* A limit is one number, and the last one counts.
LEMMA LimitIsNumber ==
  \A k \in DOMAIN Setters : "limit" \in Fields(k) => Setters[k]["limit"] = Sets(Value)
<1>1. LogSetters["limit"] = Sets(Value)
  BY DEF LogSetters, LogFields
<1>2. "limit" \notin DOMAIN MetricSetters /\ "limit" \notin DOMAIN SpanMetricsSetters
  BY DEF MetricSetters, SpanMetricsSetters
<1>3. TraceSetters["limit"] = Sets(Value)
  BY DEF TraceSetters, TraceFields
<1>4. PointsSetters["limit"] = Sets(Value)
  BY DEF PointsSetters
<1> QED BY <1>1, <1>2, <1>3, <1>4 DEF Setters, Fields

\* Only a log builder is paged.
LEMMA OnlyLogsPage ==
  \A k \in DOMAIN Setters : "logs_page" \in Runners[k] => k = "Log"
BY DEF Setters, Runners
-----------------------------------------------------------------------------
(* Reading arguments *)

\* What was accepted is passed on as it was meant.
LEMMA AcceptedIsMeant ==
  ASSUME NEW args, NEW c, Accepted(args, c)
  PROVE  ReadAll(args, c) = Meant(args, c)
BY DEF Accepted, ReadAll, Meant, Read, ReadArray, Meaning

LEMMA AcceptedIsClean ==
  ASSUME NEW args, NEW c, Accepted(args, c)
  PROVE  BadText \notin Range(ReadAll(args, c))
BY DEF Accepted, ReadAll, Range

\* What can be said to a setter.
Sayable(k, s) == {Meant(Setters[k][s].args, c) : c \in Calls(Setters[k][s].args)}

\* What is said to a limit is a number.
LEMMA LimitsSayNumbers ==
  ASSUME NEW k \in DOMAIN Setters, "limit" \in Fields(k), NEW v \in Sayable(k, "limit")
  PROVE  v[1] \in Nat
<1>1. Setters[k]["limit"].args = Value
  BY LimitIsNumber DEF Sets
<1>2. PICK c \in Calls(Value) : v = Meant(Value, c)
  BY <1>1 DEF Sayable
<1>3. DOMAIN Value = {1} /\ Value[1] = "value"
  BY DEF Value
<1>4. c[1] \in ArgValues("value")
  BY <1>2, <1>3 DEF Calls
<1>5. v[1] = c[1]
  BY <1>2, <1>3 DEF Meant, Meaning
<1> QED BY <1>4, <1>5, BoundAssumption DEF ArgValues
-----------------------------------------------------------------------------
(* The message and what was said *)

SaidTyped ==
  /\ kind \in DOMAIN Setters
  /\ said \in [Fields(kind) -> Seq(UNION {Sayable(kind, s) : s \in Fields(kind)})]
  /\ \A s \in Fields(kind) : said[s] \in Seq(Sayable(kind, s))

FieldsClean ==
  /\ DOMAIN fields = Fields(kind)
  /\ \A f \in Fields(kind) : /\ fields[f] \in Seq(Sayable(kind, f))
                             /\ \A i \in DOMAIN fields[f] : BadText \notin Range(fields[f][i])
                             /\ Setters[kind][f].how = "set" => Len(fields[f]) <= 1

IInv == SaidTyped /\ FieldsClean /\ MeansWhatWasSaid /\ AskedWhatWasSaid

LEMMA InitInv == Init => IInv
<1> SUFFICES ASSUME Init PROVE IInv
  OBVIOUS
<1>1. SaidTyped
  BY DEF Init, SaidTyped
<1>2. FieldsClean
  BY DEF Init, FieldsClean
<1>3. MeansWhatWasSaid
  BY DEF Init, MeansWhatWasSaid
<1>4. AskedWhatWasSaid
  BY DEF Init, AskedWhatWasSaid
<1> QED BY <1>1, <1>2, <1>3, <1>4 DEF IInv

\* A setter whose arguments were accepted, with the value v they mean.
LEMMA SetterKeeps ==
  ASSUME IInv, NEW s \in Fields(kind), NEW v \in Sayable(kind, s), BadText \notin Range(v),
         fields' = Poke(s, v), said' = [said EXCEPT ![s] = Append(@, v)],
         kind' = kind, issued' = NoQuery
  PROVE  IInv'
<1> USE DEF IInv
<1>1. said'[s] = Append(said[s], v) /\ \A f \in Fields(kind) \ {s} : said'[f] = said[f]
  BY DEF SaidTyped
<1>2. DOMAIN said' = Fields(kind) /\ DOMAIN fields' = Fields(kind)
  BY DEF SaidTyped, FieldsClean, Poke
<1>3. \A f \in Fields(kind) \ {s} : fields'[f] = fields[f]
  BY DEF FieldsClean, Poke, Target
<1>4. fields'[s] = IF Setters[kind][s].how = "set" THEN <<v>> ELSE Append(fields[s], v)
  BY DEF FieldsClean, Poke, Target
<1>5. said'[s] \in Seq(Sayable(kind, s)) /\ said'[s] # <<>> /\ Last(said'[s]) = v
  BY <1>1 DEF SaidTyped, Last
<1>6. SaidTyped'
  <2>1. \A f \in Fields(kind) : said'[f] \in Seq(Sayable(kind, f))
    BY <1>1, <1>5 DEF SaidTyped
  <2>2. said' \in [Fields(kind) -> Seq(UNION {Sayable(kind, f) : f \in Fields(kind)})]
    <3>1. v \in UNION {Sayable(kind, f) : f \in Fields(kind)}
      OBVIOUS
    <3> QED BY <3>1 DEF SaidTyped
  <2> QED BY <2>1, <2>2 DEF SaidTyped, Fields
<1>7. FieldsClean'
  <2>1. /\ fields'[s] \in Seq(Sayable(kind, s))
        /\ \A i \in DOMAIN fields'[s] : BadText \notin Range(fields'[s][i])
        /\ Setters[kind][s].how = "set" => Len(fields'[s]) <= 1
    <3>1. CASE Setters[kind][s].how = "set"
      BY <1>4, <3>1
    <3>2. CASE Setters[kind][s].how # "set"
      <4>1. fields'[s] = Append(fields[s], v) /\ fields[s] \in Seq(Sayable(kind, s))
        BY <1>4, <3>2 DEF FieldsClean
      <4>2. \A i \in DOMAIN fields'[s] : fields'[s][i] = v \/ (i \in DOMAIN fields[s] /\ fields'[s][i] = fields[s][i])
        BY <4>1
      <4> QED BY <3>2, <4>1, <4>2 DEF FieldsClean
    <3> QED BY <3>1, <3>2
  <2>2. \A f \in Fields(kind) \ {s} :
          /\ fields'[f] \in Seq(Sayable(kind, f))
          /\ \A i \in DOMAIN fields'[f] : BadText \notin Range(fields'[f][i])
          /\ Setters[kind][f].how = "set" => Len(fields'[f]) <= 1
    BY <1>3 DEF FieldsClean
  <2> QED BY <1>2, <2>1, <2>2 DEF FieldsClean, Fields
<1>8. MeansWhatWasSaid'
  <2>1. Setters[kind][s].how \in {"set", "add"}
    BY SetsOrAdds DEF SaidTyped
  <2>2. Setters[kind][s].how = "add" => fields[s] = said[s]
    BY DEF MeansWhatWasSaid
  <2>3. fields'[s] = IF Setters[kind][s].how = "add" \/ said'[s] = <<>> THEN said'[s]
                     ELSE <<Last(said'[s])>>
    BY <1>1, <1>4, <1>5, <2>1, <2>2
  <2>4. \A f \in Fields(kind) \ {s} :
          fields'[f] = IF Setters[kind][f].how = "add" \/ said'[f] = <<>> THEN said'[f]
                       ELSE <<Last(said'[f])>>
    BY <1>1, <1>3 DEF MeansWhatWasSaid
  <2> QED BY <2>3, <2>4 DEF MeansWhatWasSaid, Fields
<1>9. AskedWhatWasSaid'
  BY DEF AskedWhatWasSaid
<1> QED BY <1>6, <1>7, <1>8, <1>9

LEMMA RefusalKeeps ==
  ASSUME IInv, UNCHANGED <<kind, fields, said>>, issued' = NoQuery
  PROVE  IInv'
<1>1. SaidTyped' /\ FieldsClean' /\ MeansWhatWasSaid'
  BY DEF IInv, SaidTyped, FieldsClean, MeansWhatWasSaid, Fields
<1>2. AskedWhatWasSaid'
  BY DEF AskedWhatWasSaid
<1> QED BY <1>1, <1>2 DEF IInv

LEMMA CallSetterKeeps == ASSUME IInv, NEW s \in Fields(kind), CallSetter(s) PROVE IInv'
<1> DEFINE args == Setters[kind][s].args
<1>1. PICK c \in Calls(args) :
        IF Accepted(args, c)
        THEN /\ fields' = Poke(s, ReadAll(args, c))
             /\ said' = [said EXCEPT ![s] = Append(@, Meant(args, c))]
        ELSE UNCHANGED <<fields, said>>
  BY DEF CallSetter
<1>2. kind' = kind /\ issued' = NoQuery
  BY DEF CallSetter
<1>3. CASE Accepted(args, c)
  <2>1. Meant(args, c) \in Sayable(kind, s)
    BY DEF Sayable
  <2>2. ReadAll(args, c) = Meant(args, c) /\ BadText \notin Range(Meant(args, c))
    BY <1>3, AcceptedIsMeant, AcceptedIsClean
  <2> QED BY <1>1, <1>2, <1>3, <2>1, <2>2, SetterKeeps
<1>4. CASE ~Accepted(args, c)
  BY <1>1, <1>2, <1>4, RefusalKeeps
<1> QED BY <1>3, <1>4
-----------------------------------------------------------------------------
(* Running *)

\* The limit that counts is that of the latest call of its setter.
LEMMA LimitIsLatest ==
  ASSUME IInv, "limit" \in Fields(kind)
  PROVE  /\ LastOr(fields["limit"], 0) = LastOr(said["limit"], 0)
         /\ LastOr(said["limit"], 0) \in Nat
<1> DEFINE q == said["limit"]
<1>1. q \in Seq(Sayable(kind, "limit"))
  BY DEF IInv, SaidTyped
<1>2. Setters[kind]["limit"].how = "set"
  BY LimitIsNumber DEF IInv, SaidTyped, Sets
<1>3. fields["limit"] = IF q = <<>> THEN <<>> ELSE <<Last(q)>>
  BY <1>2 DEF IInv, MeansWhatWasSaid
<1>4. LastOr(fields["limit"], 0) = LastOr(q, 0)
  BY <1>3 DEF LastOr, Last
<1>5. CASE q = <<>>
  BY <1>4, <1>5 DEF LastOr
<1>6. CASE q # <<>>
  <2>1. Last(q) \in Sayable(kind, "limit")
    BY <1>1, <1>6 DEF Last
  <2>2. Last(q)[1] \in Nat
    BY <2>1, LimitsSayNumbers DEF IInv, SaidTyped
  <2> QED BY <1>4, <1>6, <2>2 DEF LastOr
<1> QED BY <1>5, <1>6

LEMMA AsksWhatWasSaid ==
  ASSUME IInv, NEW entry \in Runners[kind], NEW after, NEW f \in Fields(kind)
  PROVE  QueryOf(entry, kind, fields, after)[f] =
           IF f = "limit" THEN <<<<OrDefault(LastOr(said[f], 0), DefaultLimit(kind))>>>>
           ELSE IF f = "offset" /\ entry = "logs_page" THEN <<<<after>>>>
           ELSE IF Setters[kind][f].how = "set" /\ said[f] # <<>> THEN <<Last(said[f])>>
           ELSE said[f]
<1>1. DOMAIN fields = Fields(kind) /\ kind \in DOMAIN Setters
  BY DEF IInv, FieldsClean, SaidTyped
<1>2. fields[f] = IF Setters[kind][f].how = "set" /\ said[f] # <<>> THEN <<Last(said[f])>>
                  ELSE said[f]
  BY <1>1, SetsOrAdds DEF IInv, MeansWhatWasSaid
<1>3. CASE kind = "Points"
  <2>1. entry # "logs_page"
    BY <1>1, <1>3, OnlyLogsPage
  <2>2. CASE f = "limit"
    BY <1>1, <1>3, <2>2, LimitIsLatest DEF QueryOf, NativePoints, OrDefault
  <2>3. CASE f # "limit"
    BY <1>1, <1>2, <1>3, <2>1, <2>3 DEF QueryOf, NativePoints
  <2> QED BY <2>2, <2>3
<1>4. CASE kind # "Points"
  <2> DEFINE b == ClonedFor(entry, fields, after)
  <2>1. /\ DOMAIN b = Fields(kind)
        /\ f = "limit" => b[f] = fields[f]
        /\ b[f] = IF f = "offset" /\ entry = "logs_page" THEN <<<<after>>>> ELSE fields[f]
    BY <1>1 DEF ClonedFor
  <2>2. QueryOf(entry, kind, fields, after)[f] =
          IF f = "limit" THEN <<<<OrDefault(LastOr(b[f], 0), DefaultLimit(kind))>>>> ELSE b[f]
    BY <1>4, <2>1 DEF QueryOf, Converted
  <2>3. CASE f = "limit"
    BY <2>1, <2>2, <2>3, LimitIsLatest
  <2>4. CASE f # "limit"
    BY <1>2, <2>1, <2>2, <2>4
  <2> QED BY <2>3, <2>4
<1> QED BY <1>3, <1>4

LEMMA RunKeeps ==
  ASSUME IInv, NEW entry \in Runners[kind], NEW after \in Numbers, Run(entry, after)
  PROVE  IInv'
<1>1. UNCHANGED <<kind, fields, said>>
  BY DEF Run
<1>2. CASE OutOfRange(fields)
  BY <1>1, <1>2, RefusalKeeps DEF Run
<1>3. CASE ~OutOfRange(fields)
  <2>1. issued' = [entry |-> entry, after |-> after,
                   query |-> QueryOf(entry, kind, fields, after)]
    BY <1>3 DEF Run
  <2>2. AskedWhatWasSaid'
    BY <1>1, <2>1, AsksWhatWasSaid DEF AskedWhatWasSaid, Fields
  <2>3. SaidTyped' /\ FieldsClean' /\ MeansWhatWasSaid'
    BY <1>1 DEF IInv, SaidTyped, FieldsClean, MeansWhatWasSaid, Fields
  <2> QED BY <2>2, <2>3 DEF IInv
<1> QED BY <1>2, <1>3

LEMMA StutterKeeps == ASSUME IInv, UNCHANGED vars PROVE IInv'
BY DEF vars, IInv, SaidTyped, FieldsClean, MeansWhatWasSaid, AskedWhatWasSaid, Fields

LEMMA AlwaysInv == Spec => []IInv
<1>1. Init => IInv
  BY InitInv
<1>2. IInv /\ [Next]_vars => IInv'
  BY CallSetterKeeps, RunKeeps, StutterKeeps DEF Next
<1> QED BY <1>1, <1>2, PTL DEF Spec

CodeTyped == code \in {"Ok", "InvalidArg", "Refused", "Failed"}

LEMMA AlwaysCodeTyped == Spec => []CodeTyped
<1>1. Init => CodeTyped
  BY DEF Init, CodeTyped
<1>2. CodeTyped /\ [Next]_vars => CodeTyped'
  BY DEF CodeTyped, Next, CallSetter, Run, vars
<1> QED BY <1>1, <1>2, PTL DEF Spec

(***************************************************************************)
(* A field that is set holds one value at most, and no field has a string  *)
(* that could not be read.                                                 *)
(***************************************************************************)
THEOREM TypeCorrect == Spec => []TypeOK
<1>1. IInv /\ CodeTyped => TypeOK
  BY DEF IInv, CodeTyped, SaidTyped, FieldsClean, TypeOK
<1> QED BY <1>1, AlwaysInv, AlwaysCodeTyped, PTL

(***************************************************************************)
(* A builder means what the successful setters said, whatever failed or    *)
(* was run in between: no value of a rejected call, no cursor of a page.   *)
(***************************************************************************)
THEOREM BuildersMeanWhatWasSaid == Spec => []MeansWhatWasSaid
<1>1. IInv => MeansWhatWasSaid
  BY DEF IInv
<1> QED BY <1>1, AlwaysInv, PTL

(***************************************************************************)
(* And so does the query the engine is given, from every entry point.      *)
(***************************************************************************)
THEOREM EngineIsAskedWhatWasSaid == Spec => []AskedWhatWasSaid
<1>1. IInv => AskedWhatWasSaid
  BY DEF IInv
<1> QED BY <1>1, AlwaysInv, PTL
-----------------------------------------------------------------------------
(***************************************************************************)
(* LgtmQueries                                                             *)
(***************************************************************************)

(* Types *)

\* Lines change nothing but the reply.
LEMMA LinesOnlyReply ==
  ASSUME NEW start, NEW end, NEW limit, QueryLogqlLines(start, end, limit)
  PROVE  reply'.of = "lines" /\ UNCHANGED <<points, spans, pending, during, stable, matched>>
<1>1. CASE reply' \in [of : {"lines"}, code : {"Query", "Storage"}]
  BY <1>1 DEF QueryLogqlLines, store
<1>2. CASE \E lines : reply' = [of |-> "lines", code |-> "Ok", lines |-> lines]
  BY <1>2 DEF QueryLogqlLines, store
<1>3. \/ reply' \in [of : {"lines"}, code : {"Query", "Storage"}]
      \/ \E lines : reply' = [of |-> "lines", code |-> "Ok", lines |-> lines]
  BY DEF QueryLogqlLines
<1> QED BY <1>1, <1>2, <1>3

\* The catalog of more points has more entries.
LEMMA CatalogGrows == ASSUME NEW P, NEW Q, P \subseteq Q
                      PROVE  CatalogOf(P) \subseteq CatalogOf(Q)
BY DEF CatalogOf

\* What the binding makes of a step is at least one.
LEMMA StepIsPositive == \A step \in Steps : StepOf(step) \in Nat \ {0}
BY LimitsAssumption DEF StepOf

\* A resolved name is that of a stored metric, and its kind one of the evaluator's.
LEMMA ResolvedIsStored ==
  ASSUME NEW P, NEW r \in PromqlContext(CatalogOf(P))
  PROVE  /\ r.kind \in EvalKinds
         /\ r.storage_name \in {c.metric : c \in CatalogOf(P)}
         /\ r.query_name = QueryName[r.storage_name]
BY DEF PromqlContext, ResolutionOf, EvalKind, EvalKinds

LEMMA InitType == LgtmInit => LgtmTypeOK
BY DEF LgtmInit, LgtmTypeOK, Is

LEMMA BeginKeepsType ==
  ASSUME LgtmTypeOK, NEW name \in Names, NEW step \in Steps, BeginPromql(name, step)
  PROVE  LgtmTypeOK'
<1>1. points' \subseteq Samples /\ spans' \subseteq Spans /\ matched' \subseteq spans'
  BY DEF LgtmTypeOK, BeginPromql, store
<1>2. during' \subseteq CatalogOf(Samples) /\ stable' \subseteq points' \cup Samples
  BY CatalogGrows DEF LgtmTypeOK, BeginPromql, store
<1>3. ~Is("series")'
  BY DEF BeginPromql, Is
<1>4. ASSUME pending' # Nothing
      PROVE  /\ pending'.step \in Nat \ {0} /\ pending'.asked \in Names
             /\ pending'.metric.kind \in EvalKinds
             /\ pending'.metric.storage_name \in {c.metric : c \in during'}
  <2>1. PICK r \in PromqlContext(CatalogOf(points)) :
               pending' = [asked |-> name, metric |-> r, step |-> StepOf(step)]
    BY <1>4 DEF BeginPromql, Idle
  <2>2. during' = CatalogOf(points)
    BY DEF BeginPromql
  <2> QED BY <2>1, <2>2, ResolvedIsStored, StepIsPositive
<1> QED BY <1>1, <1>2, <1>3, <1>4 DEF LgtmTypeOK

LEMMA StoreKeepsType ==
  ASSUME LgtmTypeOK, NEW p \in SUBSET Samples, NEW s \in SUBSET Spans, StoreBecomes(p, s)
  PROVE  LgtmTypeOK'
<1>1. points' \subseteq Samples /\ spans' \subseteq Spans /\ matched' \subseteq spans'
  BY DEF LgtmTypeOK, StoreBecomes
<1>2. during' \subseteq CatalogOf(Samples) /\ stable' \subseteq points' \cup Samples
  BY CatalogGrows DEF LgtmTypeOK, StoreBecomes
<1>3. ~Is("series")'
  BY DEF StoreBecomes, Is
<1>4. pending' = pending /\ (pending # Nothing => during \subseteq during')
  BY DEF StoreBecomes
<1> QED BY <1>1, <1>2, <1>3, <1>4 DEF LgtmTypeOK

LEMMA NextType == LgtmTypeOK /\ [LgtmNext]_lgtmVars => LgtmTypeOK'
<1> SUFFICES ASSUME LgtmTypeOK, [LgtmNext]_lgtmVars PROVE LgtmTypeOK'
  OBVIOUS
<1>1. CASE Ingest
  BY <1>1, StoreKeepsType DEF Ingest, LgtmTypeOK
<1>2. CASE Retire
  <2>1. PICK t \in Times :
              StoreBecomes({s \in points : s.time > t}, {s \in spans : s.time > t})
    BY <1>2 DEF Retire
  <2>2. /\ {s \in points : s.time > t} \in SUBSET Samples
        /\ {s \in spans : s.time > t} \in SUBSET Spans
    BY DEF LgtmTypeOK
  <2> QED BY <2>1, <2>2, StoreKeepsType
<1>3. CASE ExecutePromql
  BY <1>3 DEF ExecutePromql, LgtmTypeOK, Is, store
<1>4. CASE \E name \in Names, step \in Steps : BeginPromql(name, step)
  BY <1>4, BeginKeepsType
<1>5. CASE \E w \in Windows, limit \in Limits : QueryLogqlLines(w[1], w[2], limit)
  BY <1>5, LinesOnlyReply DEF LgtmTypeOK, Is
<1>6. CASE \E step \in Steps : QueryLogqlSeries(step)
  BY <1>6, StepIsPositive DEF QueryLogqlSeries, LgtmTypeOK, Is, store
<1>7. CASE \E w \in Windows : QueryTraceql(w[1], w[2])
  BY <1>7 DEF QueryTraceql, LgtmTypeOK, Is, store
<1>8. CASE \E id \in TraceIds \cup {BadId} : GetTrace(id)
  BY <1>8 DEF GetTrace, LgtmTypeOK, Is, store
<1>9. CASE UNCHANGED lgtmVars
  BY <1>9 DEF lgtmVars, LgtmTypeOK, Is
<1> QED BY <1>1, <1>2, <1>3, <1>4, <1>5, <1>6, <1>7, <1>8, <1>9 DEF LgtmNext

(***************************************************************************)
(* Types are right, and every evaluation steps by at least a nanosecond.   *)
(***************************************************************************)
THEOREM LgtmTypeCorrect == LgtmSpec => []LgtmTypeOK
<1>1. LgtmInit => LgtmTypeOK
  BY InitType
<1>2. LgtmTypeOK /\ [LgtmNext]_lgtmVars => LgtmTypeOK'
  BY NextType
<1> QED BY <1>1, <1>2, PTL DEF LgtmSpec
-----------------------------------------------------------------------------
(* PromQL between its two awaits *)

\* A call under way works with a metric the catalog had, of the name it was asked for, and
\* the points that stayed are stored.
Underway ==
  pending # Nothing =>
    /\ pending.metric \in PromqlContext(during)
    /\ QueryName[pending.metric.storage_name] = pending.asked
    /\ stable \subseteq points

\* What was answered is still about an entry of the catalog.
Answered == Is("promql") /\ reply.code = "Ok" => reply.metric \in PromqlContext(during)

LgtmInv == Underway /\ Answered /\ AnswersTheMetricAsked

LEMMA LgtmInitInv == LgtmInit => LgtmInv
BY DEF LgtmInit, LgtmInv, Underway, Answered, AnswersTheMetricAsked, Is

LEMMA ContextGrows == ASSUME NEW C, NEW D, C \subseteq D
                      PROVE  PromqlContext(C) \subseteq PromqlContext(D)
BY DEF PromqlContext

LEMMA BeginKeepsInv ==
  ASSUME LgtmInv, NEW name \in Names, NEW step \in Steps, BeginPromql(name, step)
  PROVE  LgtmInv'
<1>1. Answered' /\ AnswersTheMetricAsked'
  BY DEF BeginPromql, Answered, AnswersTheMetricAsked, Is
<1>2. ASSUME pending' # Nothing
      PROVE  /\ pending'.metric \in PromqlContext(during')
             /\ QueryName[pending'.metric.storage_name] = pending'.asked
             /\ stable' \subseteq points'
  <2>1. PICK r \in PromqlContext(CatalogOf(points)) :
               /\ r.query_name = name
               /\ pending' = [asked |-> name, metric |-> r, step |-> StepOf(step)]
    BY <1>2 DEF BeginPromql, Idle
  <2>2. during' = CatalogOf(points) /\ stable' = points /\ points' = points
    BY DEF BeginPromql, store
  <2> QED BY <2>1, <2>2, ResolvedIsStored
<1> QED BY <1>1, <1>2 DEF LgtmInv, Underway

LEMMA StoreKeepsInv ==
  ASSUME LgtmInv, NEW p, NEW s, StoreBecomes(p, s)
  PROVE  LgtmInv'
<1>1. Answered' /\ AnswersTheMetricAsked'
  BY DEF StoreBecomes, Answered, AnswersTheMetricAsked, Is
<1>2. CASE pending = Nothing
  BY <1>1, <1>2 DEF StoreBecomes, LgtmInv, Underway
<1>3. CASE pending # Nothing
  <2>1. /\ pending' = pending /\ during \subseteq during'
        /\ points' = p /\ stable' = stable \cap p
    BY <1>3 DEF StoreBecomes
  <2>2. PromqlContext(during) \subseteq PromqlContext(during')
    BY <2>1, ContextGrows
  <2>3. Underway'
    BY <1>3, <2>1, <2>2 DEF LgtmInv, Underway
  <2> QED BY <1>1, <2>3 DEF LgtmInv
<1> QED BY <1>2, <1>3

LEMMA ExecuteKeepsInv == ASSUME LgtmInv, ExecutePromql PROVE LgtmInv'
<1>1. pending' = Nothing /\ during' = during /\ stable' = stable /\ points' = points
  BY DEF ExecutePromql, store
<1>2. Underway'
  BY <1>1 DEF Underway
<1>3. CASE reply' = [of |-> "promql", code |-> "Ok", asked |-> pending.asked,
                     metric |-> pending.metric,
                     points |-> PointsOf(pending.metric.storage_name)]
  <2>1. /\ reply'.metric = pending.metric /\ reply'.asked = pending.asked
        /\ reply'.points = {q \in points : q.metric = pending.metric.storage_name}
    BY <1>3 DEF PointsOf
  <2>2. /\ pending.metric \in PromqlContext(during)
        /\ QueryName[pending.metric.storage_name] = pending.asked
        /\ stable \subseteq points
    BY DEF ExecutePromql, LgtmInv, Underway
  <2>3. Answered'
    BY <1>1, <2>1, <2>2 DEF Answered
  <2>4. AnswersTheMetricAsked'
    BY <1>1, <2>1, <2>2 DEF AnswersTheMetricAsked
  <2> QED BY <1>2, <2>3, <2>4 DEF LgtmInv
<1>4. CASE reply' = [of |-> "promql", code |-> "Query", asked |-> Nothing]
  BY <1>2, <1>4 DEF LgtmInv, Answered, AnswersTheMetricAsked
<1> QED BY <1>3, <1>4 DEF ExecutePromql

\* Every other call replaces the reply and leaves what a PromQL call works with alone.
LEMMA OthersKeepInv ==
  ASSUME LgtmInv, UNCHANGED <<points, pending, during, stable>>,
         Is("promql")' => FALSE
  PROVE  LgtmInv'
BY DEF LgtmInv, Underway, Answered, AnswersTheMetricAsked

LEMMA LgtmNextInv == LgtmInv /\ [LgtmNext]_lgtmVars => LgtmInv'
<1> SUFFICES ASSUME LgtmInv, [LgtmNext]_lgtmVars PROVE LgtmInv'
  OBVIOUS
<1>1. CASE Ingest
  BY <1>1, StoreKeepsInv DEF Ingest
<1>2. CASE Retire
  BY <1>2, StoreKeepsInv DEF Retire
<1>3. CASE ExecutePromql
  BY <1>3, ExecuteKeepsInv
<1>4. CASE \E name \in Names, step \in Steps : BeginPromql(name, step)
  BY <1>4, BeginKeepsInv
<1>5. CASE \E w \in Windows, limit \in Limits : QueryLogqlLines(w[1], w[2], limit)
  BY <1>5, LinesOnlyReply, OthersKeepInv DEF Is
<1>6. CASE \E step \in Steps : QueryLogqlSeries(step)
  BY <1>6, OthersKeepInv DEF QueryLogqlSeries, Is, store
<1>7. CASE \E w \in Windows : QueryTraceql(w[1], w[2])
  BY <1>7, OthersKeepInv DEF QueryTraceql, Is, store
<1>8. CASE \E id \in TraceIds \cup {BadId} : GetTrace(id)
  BY <1>8, OthersKeepInv DEF GetTrace, Is, store
<1>9. CASE UNCHANGED lgtmVars
  BY <1>9 DEF lgtmVars, LgtmInv, Underway, Answered, AnswersTheMetricAsked, Is
<1> QED BY <1>1, <1>2, <1>3, <1>4, <1>5, <1>6, <1>7, <1>8, <1>9 DEF LgtmNext

LEMMA LgtmAlwaysInv == LgtmSpec => []LgtmInv
<1>1. LgtmInit => LgtmInv
  BY LgtmInitInv
<1>2. LgtmInv /\ [LgtmNext]_lgtmVars => LgtmInv'
  BY LgtmNextInv
<1> QED BY <1>1, <1>2, PTL DEF LgtmSpec

(***************************************************************************)
(* Whatever is ingested and retired between the awaits, an answer is about *)
(* one metric of the asked name and has all its points that stayed.        *)
(***************************************************************************)
THEOREM AnswersAreOfTheMetric == LgtmSpec => []AnswersTheMetricAsked
<1>1. LgtmInv => AnswersTheMetricAsked
  BY DEF LgtmInv
<1> QED BY <1>1, LgtmAlwaysInv, PTL

\* With one kind in every catalog of the call there is one way to evaluate.
LEMMA OneKind == LgtmInv => EvaluatedAsTheirKind
<1> SUFFICES ASSUME LgtmInv, Is("promql"), reply.code = "Ok", NEW c \in during, NEW s \in during,
                    {c.metric, s.metric} = {reply.metric.storage_name},
                    \A d \in during : d.metric = c.metric => d.kind = c.kind
             PROVE  reply.metric.kind = EvalKind(c.kind)
  BY DEF EvaluatedAsTheirKind, EvalKind
<1>1. PICK d \in during : reply.metric = ResolutionOf(d)
  BY DEF LgtmInv, Answered, PromqlContext
<1>2. d.metric = c.metric
  BY <1>1 DEF ResolutionOf
<1> QED BY <1>1, <1>2 DEF ResolutionOf

(***************************************************************************)
(* A metric that had one kind while the call ran is evaluated as that.     *)
(***************************************************************************)
THEOREM KindsAreRespected == LgtmSpec => []EvaluatedAsTheirKind
BY LgtmAlwaysInv, OneKind, PTL
-----------------------------------------------------------------------------
(* TraceQL and the trace that follows *)

LEMMA FollowUp ==
  LgtmTypeOK /\ [LgtmNext]_lgtmVars =>
    [Fetched' /\ reply'.id \in {sp.trace : sp \in matched} =>
       /\ reply'.code = "Ok"
       /\ {sp \in matched : sp.trace = reply'.id} \subseteq reply'.spans]_lgtmVars
<1> SUFFICES ASSUME LgtmTypeOK, LgtmNext, Fetched', reply'.id \in {sp.trace : sp \in matched}
             PROVE  /\ reply'.code = "Ok"
                    /\ {sp \in matched : sp.trace = reply'.id} \subseteq reply'.spans
  OBVIOUS
<1>1. CASE \E id \in TraceIds \cup {BadId} : GetTrace(id)
  <2>1. PICK id \in TraceIds \cup {BadId} : GetTrace(id)
    BY <1>1
  <2>2. reply'.id = id
    BY <2>1 DEF GetTrace
  <2>3. id # BadId
    BY <2>2, SamplesAssumption DEF LgtmTypeOK, TraceIds
  <2> QED BY <2>1, <2>3 DEF GetTrace, TraceOf, LgtmTypeOK
<1>2. CASE Ingest \/ Retire
  BY <1>2 DEF Ingest, Retire, StoreBecomes, Fetched, Is
<1>3. CASE ExecutePromql
  BY <1>3 DEF ExecutePromql, Fetched, Is
<1>4. CASE \E name \in Names, step \in Steps : BeginPromql(name, step)
  BY <1>4 DEF BeginPromql, Fetched, Is
<1>5. CASE \E w \in Windows, limit \in Limits : QueryLogqlLines(w[1], w[2], limit)
  BY <1>5, LinesOnlyReply DEF Fetched, Is
<1>6. CASE \E step \in Steps : QueryLogqlSeries(step)
  BY <1>6 DEF QueryLogqlSeries, Fetched, Is
<1>7. CASE \E w \in Windows : QueryTraceql(w[1], w[2])
  BY <1>7 DEF QueryTraceql, Fetched, Is
<1> QED BY <1>1, <1>2, <1>3, <1>4, <1>5, <1>6, <1>7 DEF LgtmNext

(***************************************************************************)
(* A match can be followed up, less what retention dropped in between.     *)
(***************************************************************************)
THEOREM MatchesCanBeFetched == LgtmSpec => FollowUpFindsTheMatch
BY LgtmTypeCorrect, FollowUp, PTL DEF LgtmSpec, FollowUpFindsTheMatch
==============================================================================
