--------------------------- MODULE ResultOwnership ---------------------------
(***************************************************************************)
(* What the C ABI and its C++ wrapper promise about everything the binding *)
(* allocates for a host (handles, builders, Arrow streams, byte buffers):  *)
(* from its allocation to its one release it is in the hands of exactly    *)
(* one party, the wrapper's objects or a consumer it was given to.         *)
(***************************************************************************)
CONSTANT Resources  \* allocations

VARIABLE holder  \* in whose hands each of them is

Holder == {"Nobody", "Wrapper", "Consumer", "Released"}

Init == holder = [r \in Resources |-> "Nobody"]

Pass(r, from, to) ==
  /\ holder[r] = from
  /\ holder' = [holder EXCEPT ![r] = to]

Next ==
  \E r \in Resources :
    \/ Pass(r, "Nobody", "Wrapper")     \* allocated by a call, or by a constructor
    \/ Pass(r, "Wrapper", "Consumer")   \* relinquished, or imported
    \/ Pass(r, "Wrapper", "Released")
    \/ Pass(r, "Consumer", "Released")

Spec == Init /\ [][Next]_holder
==============================================================================
