---------------------------- MODULE MCCppOwners ------------------------------
(* A finite instance of CppOwners. *)
EXTENDS CppOwners, TLC

CONSTANTS d1, d2, q1, q2, s1, s2, b1, r1, r2, r3, r4

MCOwners == {d1, d2, q1, q2, s1, s2, b1}
MCKindOf == [d \in {d1, d2} |-> "Db"] @@ [q \in {q1, q2} |-> "Builder"]
              @@ [s \in {s1, s2} |-> "Stream"] @@ (b1 :> "Bytes")
MCResources == {r1, r2, r3, r4}

Alike == Permutations({d1, d2}) \cup Permutations({q1, q2}) \cup Permutations({s1, s2})
           \cup Permutations(MCResources)
==============================================================================
