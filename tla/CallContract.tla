---------------------------- MODULE CallContract -----------------------------
(***************************************************************************)
(* What the error reporting of the C ABI promises a host program, call by  *)
(* call and thread by thread: a guarded call is one step that either       *)
(* succeeds, leaving no message on its thread, or fails, leaving exactly   *)
(* its own message there.  Nothing else ever changes what a thread can     *)
(* read: not another thread, and not a function that reports no code.      *)
(* The k-th guarded call of thread t is <<t, k>>; a message is named after *)
(* the call that left it.                                                  *)
(***************************************************************************)
EXTENDS Naturals

CONSTANTS Threads,   \* the host program's threads
          NoMessage  \* the NULL of imbh_last_error_message

VARIABLE report  \* per thread: guarded calls completed, the last one's outcome

Report == [made : Nat, ok : BOOLEAN, message : (Threads \X Nat) \cup {NoMessage}]

Init == report = [t \in Threads |-> [made |-> 0, ok |-> TRUE, message |-> NoMessage]]

Succeed(t) ==
  report' = [report EXCEPT ![t] =
               [made |-> @.made + 1, ok |-> TRUE, message |-> NoMessage]]

Fail(t) ==
  report' = [report EXCEPT ![t] =
               [made |-> @.made + 1, ok |-> FALSE, message |-> <<t, @.made + 1>>]]

Next == \E t \in Threads : Succeed(t) \/ Fail(t)

Spec == Init /\ [][Next]_report
==============================================================================
