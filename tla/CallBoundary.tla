---------------------------- MODULE CallBoundary -----------------------------
(***************************************************************************)
(* The boundary between host threads and the engine: guarded entry points  *)
(* (src/error.rs guard) executed step by step, the thread-local last-error *)
(* slot, the functions that run outside the guard, and a host that reads   *)
(* the message back, as check() of imbh.hpp does at once or as the C       *)
(* examples do after some cleanup.                                         *)
(***************************************************************************)
EXTENDS EntryPoints

CONSTANTS Threads,       \* threads of the host program
          Entries,       \* the entry points the host calls
          EngineErrors,  \* imbh::Error values the engine may return
          MaxCalls,      \* bound: guarded calls per thread
          NoMessage      \* the empty last-error slot

\* The categories of imbh::Error; the type is non-exhaustive, so a category
\* this binding does not know is possible.
Categories == {"Open", "Ingest", "Query", "Storage", "Config", "Closed", "Unknown"}

ImbhError == [category : Categories, backpressure : BOOLEAN, notFound : BOOLEAN]

ASSUME ThreadsAssumption == Threads # {}
ASSUME EntriesAssumption == Entries \subseteq EntryPoint
ASSUME ErrorsAssumption  == EngineErrors \subseteq ImbhError
ASSUME MaxCallsAssumption == MaxCalls \in Nat
ASSUME NoMessageAssumption == NoMessage \notin Threads \X Nat

VARIABLES
  host,      \* what each thread is doing with the library
  calls,     \* guarded calls each thread has begun; <<t, calls[t]>> is the latest
  entry,     \* the entry point of the latest call
  bad,       \* those of its arguments that are NULL or not UTF-8
  pc,        \* the next step of its program
  reached,   \* has it handed the engine a change?
  wrote,     \* the writes it has performed
  code,      \* the code the latest finished call returned
  slot,      \* LAST_ERROR: the call that left the message, or NoMessage
  ptr,       \* the pointer imbh_last_error_message returned
  thrown,    \* the error the host constructed last
  recent,    \* did the thread's most recent imbh_* call succeed?
  aborted    \* has a panic reached the boundary?

frame    == <<entry, bad, pc, reached, wrote>>
reading  == <<ptr, thrown>>
vars     == <<host, calls, frame, code, slot, reading, recent, aborted>>

Codes == {"Ok", "InvalidArg", "Panic", "NotFound", "Backpressure", "Open",
          "Ingest", "Query", "Storage", "Config", "Closed"}

\* A message is identified by the call that left it.
Messages == Threads \X Nat
NoError  == [code |-> "Ok", call |-> NoMessage, text |-> NoMessage]
-----------------------------------------------------------------------------
(* Errors *)

\* The classifiers win over the category, backpressure first.
Classify(e) ==
  CASE e.backpressure -> "Backpressure"
    [] ~e.backpressure /\ e.notFound -> "NotFound"
    [] ~e.backpressure /\ ~e.notFound /\ e.category = "Unknown" -> "Storage"
    [] OTHER -> e.category

\* What a failing step makes guard return; a panic is caught at every step
\* that runs engine or Arrow code.
FailureCodes(step) ==
  (CASE step \in {"convert", "effect", "engine"} -> {Classify(e) : e \in EngineErrors}
     [] step \in {"translate", "encode"}         -> {"Query"}
     [] step \in {"runtime", "lookup"}           -> {"InvalidArg"}
     [] OTHER                                    -> {})
  \cup (IF step \in CodeSteps THEN {"Panic"} ELSE {})

\* Mutant: one slot for the whole process.
SetSharedSlot(t, v) == [u \in Threads |-> v]

\* LAST_ERROR is thread-local: thread t's slot becomes v, no other changes.
SetSlot(t, v) == [slot EXCEPT ![t] = v]
-----------------------------------------------------------------------------
(* Guarded calls *)

(***************************************************************************)
(* The state is well typed: in particular guard returns one of the codes   *)
(* the header declares for every error of the engine.                      *)
(***************************************************************************)
TypeOK ==
  /\ host \in [Threads -> {"idle", "in_call", "failed", "reading"}]
  /\ calls \in [Threads -> 0..MaxCalls]
  /\ entry \in [Threads -> EntryPoint]
  /\ bad \in [Threads -> SUBSET ArgSteps]
  /\ pc \in [Threads -> Nat \ {0}]
  /\ reached \in [Threads -> BOOLEAN]
  /\ wrote \in [Threads -> SUBSET WriteSteps]
  /\ code \in [Threads -> Codes]
  /\ slot \in [Threads -> Messages \cup {NoMessage}]
  /\ ptr \in [Threads -> Messages \cup {NoMessage}]
  /\ thrown \in [Threads -> [code : Codes, call : Messages \cup {NoMessage},
                             text : Messages \cup {NoMessage}]]
  /\ recent \in [Threads -> BOOLEAN]
  /\ aborted \in BOOLEAN

Init ==
  /\ host = [t \in Threads |-> "idle"]
  /\ calls = [t \in Threads |-> 0]
  /\ entry = [t \in Threads |-> "OpenMemory"]
  /\ bad = [t \in Threads |-> {}]
  /\ pc = [t \in Threads |-> 1]
  /\ reached = [t \in Threads |-> FALSE]
  /\ wrote = [t \in Threads |-> {}]
  /\ code = [t \in Threads |-> "Ok"]
  /\ slot = [t \in Threads |-> NoMessage]
  /\ ptr = [t \in Threads |-> NoMessage]
  /\ thrown = [t \in Threads |-> NoError]
  /\ recent = [t \in Threads |-> TRUE]
  /\ aborted = FALSE

Step(t)       == Program(entry[t])[pc[t]]
AtStep(t)     == host[t] = "in_call" /\ pc[t] \in DOMAIN Program(entry[t])
LatestCall(t) == <<t, calls[t]>>

\* Mutant: guard does not clear the message of an earlier call.
RecordedSticky(t, c) == IF c = "Ok" THEN slot[t] ELSE LatestCall(t)

\* What guard leaves in the slot: nothing on success, its own message otherwise.
Recorded(t, c) == IF c = "Ok" THEN NoMessage ELSE LatestCall(t)

\* guard returns c to the host.
Finish(t, c) ==
  /\ host' = [host EXCEPT ![t] = IF c = "Ok" THEN "idle" ELSE "failed"]
  /\ code' = [code EXCEPT ![t] = c]
  /\ slot' = SetSlot(t, Recorded(t, c))
  /\ recent' = [recent EXCEPT ![t] = c = "Ok"]

Advance(t) ==
  /\ pc' = [pc EXCEPT ![t] = @ + 1]
  /\ UNCHANGED <<host, code, slot, recent>>

\* The host calls e, after a success or without looking at a failure.
Begin(t, e, b) ==
  /\ host[t] \in {"idle", "failed"}
  /\ calls[t] < MaxCalls
  /\ host' = [host EXCEPT ![t] = "in_call"]
  /\ calls' = [calls EXCEPT ![t] = @ + 1]
  /\ entry' = [entry EXCEPT ![t] = e]
  /\ bad' = [bad EXCEPT ![t] = b]
  /\ pc' = [pc EXCEPT ![t] = 1]
  /\ reached' = [reached EXCEPT ![t] = FALSE]
  /\ wrote' = [wrote EXCEPT ![t] = {}]
  /\ UNCHANGED <<code, slot, reading, recent, aborted>>

\* handle, cstr, bytes, as_ref, is_null and from_hex: the argument is usable ...
AcceptArgument(t) ==
  /\ AtStep(t) /\ Step(t) \in ArgSteps \ bad[t]
  /\ Advance(t)
  /\ UNCHANGED <<calls, entry, bad, reached, wrote, reading, aborted>>

\* ... or it is NULL, or not UTF-8, or not a trace id.
RejectArgument(t) ==
  /\ AtStep(t) /\ Step(t) \in bad[t]
  /\ Finish(t, "InvalidArg")
  /\ UNCHANGED <<calls, frame, reading, aborted>>

\* A step that may fail succeeds; "effect" is the one that changes the database.
RunStep(t) ==
  /\ AtStep(t) /\ Step(t) \notin ArgSteps \cup WriteSteps
  /\ Advance(t)
  /\ reached' = [reached EXCEPT ![t] = @ \/ Step(t) = "effect"]
  /\ UNCHANGED <<calls, entry, bad, wrote, reading, aborted>>

\* It returns an error or panics, and guard turns that into a code.
FailStep(t) ==
  /\ AtStep(t)
  /\ \E c \in FailureCodes(Step(t)) : Finish(t, c)
  /\ reached' = [reached EXCEPT ![t] = @ \/ Step(t) = "effect"]
  /\ UNCHANGED <<calls, entry, bad, pc, wrote, reading, aborted>>

WriteStep(t) ==
  /\ AtStep(t) /\ Step(t) \in WriteSteps
  /\ Advance(t)
  /\ wrote' = [wrote EXCEPT ![t] = @ \cup {Step(t)}]
  /\ UNCHANGED <<calls, entry, bad, reached, reading, aborted>>

ReturnOk(t) ==
  /\ host[t] = "in_call" /\ pc[t] = Len(Program(entry[t])) + 1
  /\ Finish(t, "Ok")
  /\ UNCHANGED <<calls, frame, reading, aborted>>
-----------------------------------------------------------------------------
(* Functions outside the guard, and reading the message back *)

\* Builders are made and freed, and byte buffers freed, without the guard.
BuilderCall(t) ==
  /\ host[t] \in {"idle", "failed"}
  /\ recent' = [recent EXCEPT ![t] = TRUE]
  /\ UNCHANGED <<host, calls, frame, code, slot, reading, aborted>>

\* imbh_db_free closes the engine outside the guard: an error is dropped, a
\* panic meets the extern "C" boundary and aborts the process.
FreeHandle(t) ==
  /\ host[t] \in {"idle", "failed"}
  /\ \/ recent' = [recent EXCEPT ![t] = TRUE] /\ UNCHANGED aborted
     \/ aborted' = TRUE /\ UNCHANGED recent
  /\ UNCHANGED <<host, calls, frame, code, slot, reading>>

LastErrorMessage(t) ==
  /\ host[t] = "failed"
  /\ host' = [host EXCEPT ![t] = "reading"]
  /\ ptr' = [ptr EXCEPT ![t] = slot[t]]
  /\ UNCHANGED <<calls, frame, code, slot, thrown, recent, aborted>>

\* check() copies the text into its exception.  Once the slot was replaced, the
\* pointer no longer yields its message.
Throw(t) ==
  /\ host[t] = "reading"
  /\ host' = [host EXCEPT ![t] = "idle"]
  /\ thrown' = [thrown EXCEPT ![t] =
                  [code |-> code[t], call |-> LatestCall(t),
                   text |-> IF slot[t] = ptr[t] THEN ptr[t] ELSE NoMessage]]
  /\ UNCHANGED <<calls, frame, code, slot, ptr, recent, aborted>>
-----------------------------------------------------------------------------
Call(t) ==
  \/ \E e \in Entries : \E b \in SUBSET ArgsOf(e) : Begin(t, e, b)
  \/ AcceptArgument(t)
  \/ RejectArgument(t)
  \/ RunStep(t)
  \/ FailStep(t)
  \/ WriteStep(t)
  \/ ReturnOk(t)

Next ==
  /\ ~aborted
  /\ \E t \in Threads : Call(t) \/ BuilderCall(t) \/ FreeHandle(t)
                        \/ LastErrorMessage(t) \/ Throw(t)

Spec == Init /\ [][Next]_vars
-----------------------------------------------------------------------------
(***************************************************************************)
(* An exception, or the line a C host prints, carries the message of the   *)
(* very call whose code it reports, however other threads' calls and this  *)
(* thread's unguarded cleanup fell in between: the message is neither      *)
(* replaced, nor cleared, nor freed before it is copied.                   *)
(***************************************************************************)
ReportIsOwn == \A t \in Threads : thrown[t].text = thrown[t].call

(***************************************************************************)
(* A call that succeeded has written every out-param (or builder field)    *)
(* it has, a call that failed none, whichever step failed or panicked.     *)
(***************************************************************************)
AllOrNothing ==
  \A t \in Threads :
    host[t] # "in_call" /\ calls[t] > 0 =>
      wrote[t] = IF code[t] = "Ok" THEN WritesOf(entry[t]) ELSE {}

(***************************************************************************)
(* No call with a bad argument changes the database or writes anything: it *)
(* is refused before its first effect, wherever the entry point reads that *)
(* argument.                                                               *)
(***************************************************************************)
OnlyCheckedArguments ==
  \A t \in Threads : reached[t] \/ wrote[t] # {} => bad[t] = {}

\* What thread t can know of its completed calls.
Visible(t) ==
  [made    |-> IF host[t] = "in_call" THEN calls[t] - 1 ELSE calls[t],
   ok      |-> code[t] = "Ok",
   message |-> slot[t]]

Contract == INSTANCE CallContract WITH report <- [t \in Threads |-> Visible(t)]

(***************************************************************************)
(* Error reporting implements CallContract: whatever a call does on the    *)
(* way, its thread sees it complete in one step, succeeded and silent or   *)
(* failed with its own message; and no other thread, and no function       *)
(* outside the guard, changes what a thread can read.                      *)
(***************************************************************************)
KeepsContract == Contract!Spec
-----------------------------------------------------------------------------
(* What the documentation says and the code does not do. *)

(***************************************************************************)
(* README.md: Rust panics are caught at the boundary; error.rs: all bodies *)
(* run inside guard.                                                       *)
(***************************************************************************)
PanicsAreCaught == ~aborted

(***************************************************************************)
(* error.rs: imbh_last_error_message is NULL if the most recent imbh_*     *)
(* call on this thread succeeded.                                          *)
(***************************************************************************)
NullAfterSuccess ==
  \A t \in Threads : host[t] # "in_call" /\ recent[t] => slot[t] = NoMessage

(***************************************************************************)
(* error.rs: INVALID_ARG says that an invalid argument was passed.         *)
(***************************************************************************)
InvalidArgMeansBadArgument ==
  \A t \in Threads :
    host[t] # "in_call" /\ code[t] = "InvalidArg" => bad[t] # {}
==============================================================================
