------------------------------ MODULE CppOwners ------------------------------
(***************************************************************************)
(* The move-only owners of imbh.hpp and what they own: Stream (an Arrow    *)
(* stream), Bytes (a buffer), the five query builders and Db.  Objects are *)
(* constructed, moved, assigned, reset and destroyed in any order the host *)
(* program likes; calls produce results into them, or fail and unwind; an  *)
(* Arrow importer takes streams over.                                      *)
(*                                                                         *)
(* slot[o] is what o would release: an allocation, or Null, or Hollow, the *)
(* non-null pointer of an empty buffer, which owns no memory.  A copy of   *)
(* the slot is all a move copies, so nothing but the code keeps two        *)
(* objects from owning the same allocation.                                *)
(***************************************************************************)
CONSTANTS Owners,     \* C++ objects, in or out of their lifetime
          KindOf,     \* the class of each
          Resources,  \* allocations of the binding
          Consumer,   \* whoever takes streams over
          Null, Hollow, NoCall

Kinds == {"Stream", "Bytes", "Builder", "Db"}

ASSUME KindAssumption == KindOf \in [Owners -> Kinds]
ASSUME NullAssumption == Null \notin Resources /\ Hollow \notin Resources /\ Null # Hollow
ASSUME ConsumerAssumption == Consumer \notin Owners
ASSUME NoCallAssumption ==
  NoCall \notin [uses : SUBSET Owners, out : Owners, local : BOOLEAN]

VARIABLES
  alive,     \* the objects in their lifetime
  slot,      \* what each would release; of no meaning, and Null, for the others
  consumer,  \* streams a consumer has taken over
  status,    \* "none", "live" or "released", per allocation
  refs,      \* the other allocations a result reads when it is read or released
  call,      \* a Db method under way: what it uses, and where the result goes
  fault      \* what was used or released without being live

vars == <<alive, slot, consumer, status, refs, call, fault>>

Of(kinds)    == {o \in Owners : KindOf[o] \in kinds}
Results      == {"Stream", "Bytes"}
SlotValues   == Resources \cup {Null, Hollow}
Calls        == [uses : SUBSET Of({"Builder", "Db"}), out : Of(Results), local : BOOLEAN]

\* Who would release r.
Holders(r) == {o \in alive : slot[o] = r} \cup (IF r \in consumer THEN {Consumer} ELSE {})

\* The objects the call under way works with; no other thread may touch them.
Busy == IF call = NoCall THEN {} ELSE call.uses \cup {call.out}
Idle == alive \ Busy
-----------------------------------------------------------------------------
(* Using and releasing *)

\* x is used: remember it if it is not live.
Faulty(used) == {x \in used : x \notin Resources \/ status[x] # "live"}
Use(used)    == fault' = fault \cup Faulty(used)

\* Mutant: a free that tests only the pointer.
OwnsMemoryByPointer(x) == x # Null

\* imbh_bytes_free, the *_free functions and a null release callback do nothing for these.
OwnsMemory(x) == x \notin {Null, Hollow}

Released(x) == IF OwnsMemory(x) THEN {x} ELSE {}

\* Release what an owner holds.  A stream's release drops whatever it was built over.
Release(x) ==
  /\ Use(UNION {{r} \cup (IF r \in Resources THEN refs[r] ELSE {}) : r \in Released(x)})
  /\ status' = [r \in Resources |-> IF r \in Released(x) THEN "released" ELSE status[r]]

\* A fresh allocation into the slot of o.
Allocate(o, r) ==
  /\ status[r] = "none"
  /\ status' = [status EXCEPT ![r] = "live"]
  /\ slot' = [slot EXCEPT ![o] = r]

\* Mutant: the batches of a result lie in the database's segments.
RefersToDatabase(used) == {slot[d] : d \in {x \in used : KindOf[x] = "Db"}}

\* The batches of a result are owned copies; a stream needs nothing kept alive.
RefersTo(used) == {}
-----------------------------------------------------------------------------
(***************************************************************************)
(* Types; an object outside its lifetime holds nothing, only a Bytes holds *)
(* the empty buffer, and the slot a call will write into is empty.         *)
(***************************************************************************)
TypeOK ==
  /\ alive \subseteq Owners
  /\ slot \in [Owners -> SlotValues]
  /\ \A o \in Owners : /\ o \notin alive => slot[o] = Null
                       /\ slot[o] = Hollow => KindOf[o] = "Bytes"
  /\ consumer \subseteq Resources
  /\ status \in [Resources -> {"none", "live", "released"}]
  /\ refs \in [Resources -> SUBSET SlotValues]
  /\ call \in Calls \cup {NoCall}
  /\ call # NoCall => call.uses \cup {call.out} \subseteq alive /\ slot[call.out] = Null
  /\ fault \subseteq SlotValues

Init ==
  /\ alive = {} /\ consumer = {} /\ fault = {}
  /\ slot = [o \in Owners |-> Null]
  /\ status = [r \in Resources |-> "none"]
  /\ refs = [r \in Resources |-> {}]
  /\ call = NoCall
-----------------------------------------------------------------------------
(* Constructors and destructors *)

\* What the default constructors of Stream and Bytes leave in the slot.
Empty == Null

\* Stream s; Bytes b;
ConstructEmpty(o) ==
  /\ o \in Of(Results) \ alive
  /\ alive' = alive \cup {o}
  /\ slot' = [slot EXCEPT ![o] = Empty]
  /\ UNCHANGED <<consumer, status, refs, call, fault>>

\* LogQuery q; and Db db = Db::open(path), when it does not throw.
ConstructOwning(o) ==
  /\ o \in Of({"Builder", "Db"}) \ alive
  /\ \E r \in Resources : Allocate(o, r)
  /\ alive' = alive \cup {o}
  /\ UNCHANGED <<consumer, refs, call, fault>>

Destroy(o) ==
  /\ o \in Idle
  /\ Release(slot[o])
  /\ alive' = alive \ {o}
  /\ slot' = [slot EXCEPT ![o] = Null]
  /\ UNCHANGED <<consumer, refs, call>>

\* Mutant: reset releases and forgets to clear the slot.
ResetOnly(o) ==
  /\ o \in Idle \cap Of(Results)
  /\ Release(slot[o])
  /\ UNCHANGED <<alive, slot, consumer, refs, call>>

Reset(o) ==
  /\ o \in Idle \cap Of(Results)
  /\ Release(slot[o])
  /\ slot' = [slot EXCEPT ![o] = Null]
  /\ UNCHANGED <<alive, consumer, refs, call>>
-----------------------------------------------------------------------------
(* Moves *)

\* Mutant: the source keeps its copy of the struct.
CopyConstruct(o, from) ==
  /\ o \in Owners \ alive /\ from \in Idle /\ KindOf[o] = KindOf[from]
  /\ alive' = alive \cup {o}
  /\ slot' = [slot EXCEPT ![o] = slot[from]]
  /\ UNCHANGED <<consumer, status, refs, call, fault>>

\* Also what `return s;` of a Db method does when it is not elided.
MoveConstruct(o, from) ==
  /\ o \in Owners \ alive /\ from \in Idle /\ KindOf[o] = KindOf[from]
  /\ alive' = alive \cup {o}
  /\ slot' = [slot EXCEPT ![o] = slot[from], ![from] = Null]
  /\ UNCHANGED <<consumer, status, refs, call, fault>>

\* Mutant: assignment forgets what the target held.
MoveAssignOver(o, from) ==
  /\ {o, from} \subseteq Idle /\ o # from /\ KindOf[o] = KindOf[from]
  /\ slot' = [slot EXCEPT ![o] = slot[from], ![from] = Null]
  /\ UNCHANGED <<alive, consumer, status, refs, call, fault>>

\* Assignment to itself does nothing.
MoveAssign(o, from) ==
  /\ {o, from} \subseteq Idle /\ o # from /\ KindOf[o] = KindOf[from]
  /\ Release(slot[o])
  /\ slot' = [slot EXCEPT ![o] = slot[from], ![from] = Null]
  /\ UNCHANGED <<alive, consumer, refs, call>>

\* Mutant: the caller gets a copy and the object still releases.
RelinquishCopy(o) ==
  /\ o \in Idle /\ KindOf[o] = "Stream" /\ slot[o] \in Resources
  /\ consumer' = consumer \cup {slot[o]}
  /\ UNCHANGED <<alive, slot, status, refs, call, fault>>

\* Stream::release(), or an importer that moves the struct out through get().
Relinquish(o) ==
  /\ o \in Idle /\ KindOf[o] = "Stream" /\ slot[o] \in Resources
  /\ consumer' = consumer \cup {slot[o]}
  /\ slot' = [slot EXCEPT ![o] = Null]
  /\ UNCHANGED <<alive, status, refs, call, fault>>

ConsumerReleases(r) ==
  /\ r \in consumer
  /\ Release(r)
  /\ consumer' = consumer \ {r}
  /\ UNCHANGED <<alive, slot, refs, call>>
-----------------------------------------------------------------------------
(* Calls *)

\* What a method of d takes: itself and, for a typed query, a builder.
Parties(d) == {{d}} \cup {{d, q} : q \in Idle \cap Of({"Builder"})}

\* A Db method constructs its result on its own stack and calls the C function.
BeginMethod(d, o) ==
  /\ call = NoCall
  /\ d \in Idle \cap Of({"Db"}) /\ o \in Of(Results) \ alive
  /\ alive' = alive \cup {o}
  /\ slot' = [slot EXCEPT ![o] = Empty]
  /\ \E used \in Parties(d) : call' = [uses |-> used, out |-> o, local |-> TRUE]
  /\ UNCHANGED <<consumer, status, refs, fault>>

\* The host calls the C function itself, with raw() and the get() of an empty object: its
\* contract is that the slot holds nothing unreleased.
BeginRaw(d, o) ==
  /\ call = NoCall
  /\ d \in Idle \cap Of({"Db"}) /\ o \in Idle \cap Of(Results) /\ slot[o] = Null
  /\ \E used \in Parties(d) : call' = [uses |-> used, out |-> o, local |-> FALSE]
  /\ UNCHANGED <<alive, slot, consumer, status, refs, fault>>

\* Mutant: only the database handle is tested.
RefusesDbOnly(used) == \E u \in used : KindOf[u] = "Db" /\ slot[u] = Null

\* A moved-from Db or builder hands the entry point a NULL, which it refuses.
Refuses(used) == \E u \in used : slot[u] = Null

\* The engine answers: a stream, or bytes, of which there may be none.
CallAnswers ==
  /\ call # NoCall
  /\ ~Refuses(call.uses)
  /\ Use({slot[u] : u \in call.uses})
  /\ \/ \E r \in Resources : /\ Allocate(call.out, r)
                             /\ refs' = [refs EXCEPT ![r] = RefersTo(call.uses)]
     \/ /\ KindOf[call.out] = "Bytes"
        /\ slot' = [slot EXCEPT ![call.out] = Hollow]
        /\ UNCHANGED <<status, refs>>
  /\ call' = NoCall
  /\ UNCHANGED <<alive, consumer>>

\* Refused, or failed in the engine: the slot is untouched, check() throws, and a local
\* result is destroyed by unwinding.
CallThrows ==
  /\ call # NoCall
  /\ Use(IF Refuses(call.uses) THEN {} ELSE {slot[u] : u \in call.uses})
  /\ alive' = IF call.local THEN alive \ {call.out} ELSE alive
  /\ call' = NoCall
  /\ UNCHANGED <<slot, consumer, status, refs>>
-----------------------------------------------------------------------------
ObjectStep(o) == \/ ConstructEmpty(o) \/ ConstructOwning(o) \/ Destroy(o)
                 \/ Reset(o) \/ Relinquish(o)

PairStep(o, p) == \/ MoveConstruct(o, p) \/ MoveAssign(o, p)
                  \/ BeginMethod(o, p) \/ BeginRaw(o, p)

Next == \/ \E o \in Owners : ObjectStep(o) \/ \E p \in Owners : PairStep(o, p)
        \/ \E r \in Resources : ConsumerReleases(r)
        \/ CallAnswers \/ CallThrows

Spec == Init /\ [][Next]_vars
-----------------------------------------------------------------------------
(***************************************************************************)
(* Whatever the host does with the objects, a live allocation is held by   *)
(* exactly one of them or by a consumer (it neither leaks nor will be      *)
(* released twice), and nothing holds one that is gone.                    *)
(***************************************************************************)
SoleHolder ==
  \A r \in Resources : IF status[r] = "live" THEN \E h \in Holders(r) : Holders(r) = {h}
                                             ELSE Holders(r) = {}

(***************************************************************************)
(* Nothing is used or released that is not live: no buffer or handle is    *)
(* freed twice, a moved-from object hands nothing to the engine, and a     *)
(* stream may be read and released when its Db is long gone.               *)
(***************************************************************************)
OnlyLiveIsTouched == fault = {}

(***************************************************************************)
(* The wrapper implements ResultOwnership.  An allocation that is live     *)
(* without a holder, or with two, is in a state the promise does not have. *)
(***************************************************************************)
HolderOf(r) ==
  CASE status[r] = "none"     -> "Nobody"
    [] status[r] = "released" -> "Released"
    [] OTHER -> IF Holders(r) = {Consumer} THEN "Consumer"
                ELSE IF Consumer \notin Holders(r) /\ \E h \in Holders(r) : Holders(r) = {h}
                THEN "Wrapper" ELSE "Astray"

Promise == INSTANCE ResultOwnership WITH holder <- [r \in Resources |-> HolderOf(r)]

KeepsPromise == Promise!Spec
==============================================================================
