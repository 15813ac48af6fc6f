---------------------------- MODULE ResultsProofs ----------------------------
(***************************************************************************)
(* Proofs about results in the hands of the host: CppOwners, for any number *)
(* of objects of each class and of allocations, and ResultStreams, for any *)
(* rows, entry points and batches.  The two have no state in common.       *)
(***************************************************************************)
EXTENDS CppOwners, ResultStreams, FiniteSetTheorems, SequenceTheorems, TLAPS

-----------------------------------------------------------------------------
(***************************************************************************)
(* CppOwners                                                               *)
(***************************************************************************)

(***************************************************************************)
(* SoleHolder counts holders; as an inductive invariant it is easier to    *)
(* carry in the four parts below, none of which is inductive alone.        *)
(***************************************************************************)
NotTwoObjects ==
  \A o, p \in alive : slot[o] \in Resources /\ slot[o] = slot[p] => o = p

NotBothSides == \A o \in alive : slot[o] \notin consumer

HeldIsLive == /\ \A o \in alive : slot[o] \in Resources => status[slot[o]] = "live"
              /\ \A r \in consumer : status[r] = "live"

LiveIsHeld ==
  \A r \in Resources : status[r] = "live" => r \in consumer \/ \E o \in alive : slot[o] = r

\* A result reads nothing but its own allocation.
SelfContained == \A r \in Resources : refs[r] = {}

Owned == NotTwoObjects /\ NotBothSides /\ HeldIsLive /\ LiveIsHeld

IInv == TypeOK /\ Owned /\ SelfContained /\ OnlyLiveIsTouched

(***************************************************************************)
(* What the parts say together is SoleHolder.                              *)
(***************************************************************************)
LEMMA OwnedIsSole == IInv => SoleHolder
<1> SUFFICES ASSUME IInv, NEW r \in Resources
             PROVE  IF status[r] = "live" THEN \E h \in Holders(r) : Holders(r) = {h}
                                          ELSE Holders(r) = {}
  BY DEF SoleHolder
<1> USE DEF IInv, Owned
<1>1. CASE status[r] # "live"
  BY <1>1 DEF HeldIsLive, Holders
<1>2. CASE status[r] = "live" /\ r \in consumer
  <2>1. Holders(r) = {Consumer}
    BY <1>2 DEF NotBothSides, Holders
  <2>2. QED
    BY <1>2, <2>1
<1>3. CASE status[r] = "live" /\ r \notin consumer
  <2>1. PICK o \in alive : slot[o] = r
    BY <1>3 DEF LiveIsHeld
  <2>2. Holders(r) = {o}
    BY <1>3, <2>1 DEF NotTwoObjects, Holders
  <2>3. QED
    BY <1>3, <2>2
<1>4. QED
  BY <1>1, <1>2, <1>3

(***************************************************************************)
(* Releasing what is live, or owns no memory, touches nothing dead.        *)
(***************************************************************************)
LEMMA ReleaseEffect ==
  ASSUME IInv, NEW x \in SlotValues, x \in Resources => status[x] = "live", Release(x)
  PROVE  /\ fault' = {}
         /\ status' \in [Resources -> {"none", "live", "released"}]
         /\ \A r \in Resources : status'[r] = IF r = x THEN "released" ELSE status[r]
<1>1. CASE x \in Resources
  <2>1. Released(x) = {x}
    BY <1>1, NullAssumption DEF Released, OwnsMemory
  <2>2. UNION {{r} \cup (IF r \in Resources THEN refs[r] ELSE {}) : r \in Released(x)} = {x}
    BY <1>1, <2>1 DEF IInv, SelfContained
  <2>3. Faulty({x}) = {}
    BY <1>1 DEF Faulty
  <2>4. fault' = {}
    BY <2>2, <2>3 DEF Release, Use, IInv, OnlyLiveIsTouched
  <2>5. QED
    BY <2>1, <2>4 DEF Release, IInv, TypeOK
<1>2. CASE x \in {Null, Hollow}
  <2>1. Released(x) = {}
    BY <1>2 DEF Released, OwnsMemory
  <2>2. UNION {{r} \cup (IF r \in Resources THEN refs[r] ELSE {}) : r \in Released(x)} = {}
    BY <2>1
  <2>3. fault' = {}
    BY <2>2 DEF Release, Use, Faulty, IInv, OnlyLiveIsTouched
  <2>4. QED
    BY <1>2, <2>1, <2>3, NullAssumption DEF Release, IInv, TypeOK
<1>3. QED
  BY <1>1, <1>2 DEF SlotValues

LEMMA SlotIsLive ==
  ASSUME IInv, NEW o \in alive
  PROVE  slot[o] \in SlotValues /\ (slot[o] \in Resources => status[slot[o]] = "live")
BY DEF IInv, TypeOK, Owned, HeldIsLive

LEMMA ConstructEmptyKeeps ==
  ASSUME IInv, NEW o \in Owners, ConstructEmpty(o)
  PROVE  IInv'
<1> USE DEF ConstructEmpty
<1>1. TypeOK'
  BY NullAssumption DEF IInv, TypeOK, SlotValues, Of, Idle, Busy, Calls, Empty
<1>2. NotTwoObjects' /\ NotBothSides'
  BY NullAssumption DEF IInv, TypeOK, Owned, NotTwoObjects, NotBothSides, HeldIsLive,
     SlotValues, Of, Idle, Empty
<1>3. HeldIsLive' /\ LiveIsHeld'
  BY NullAssumption DEF IInv, TypeOK, Owned, NotTwoObjects, NotBothSides, HeldIsLive,
     LiveIsHeld, SlotValues, Of, Idle, Empty
<1>4. SelfContained' /\ OnlyLiveIsTouched'
  BY DEF IInv, SelfContained, OnlyLiveIsTouched, Empty
<1>5. QED
  BY <1>1, <1>2, <1>3, <1>4 DEF IInv, Owned

LEMMA ConstructOwningKeeps ==
  ASSUME IInv, NEW o \in Owners, ConstructOwning(o)
  PROVE  IInv'
<1> USE DEF ConstructOwning
<1>1. TypeOK'
  BY NullAssumption DEF IInv, TypeOK, SlotValues, Of, Idle, Busy, Calls, Allocate
<1>2. NotTwoObjects' /\ NotBothSides'
  BY NullAssumption DEF IInv, TypeOK, Owned, NotTwoObjects, NotBothSides, HeldIsLive,
     SlotValues, Of, Idle, Allocate
<1>3. HeldIsLive' /\ LiveIsHeld'
  BY NullAssumption DEF IInv, TypeOK, Owned, NotTwoObjects, NotBothSides, HeldIsLive,
     LiveIsHeld, SlotValues, Of, Idle, Allocate
<1>4. SelfContained' /\ OnlyLiveIsTouched'
  BY DEF IInv, SelfContained, OnlyLiveIsTouched, Allocate
<1>5. QED
  BY <1>1, <1>2, <1>3, <1>4 DEF IInv, Owned

LEMMA DestroyKeeps ==
  ASSUME IInv, NEW o \in Owners, Destroy(o)
  PROVE  IInv'
<1> USE DEF Destroy
<1>1. /\ fault' = {}
      /\ status' \in [Resources -> {"none", "live", "released"}]
      /\ \A r \in Resources : status'[r] = IF r = slot[o] THEN "released" ELSE status[r]
  BY SlotIsLive, ReleaseEffect DEF Idle
<1>2. TypeOK'
  BY <1>1, NullAssumption DEF IInv, TypeOK, SlotValues, Of, Idle, Busy, Calls
<1>3. NotTwoObjects' /\ NotBothSides'
  BY <1>1, NullAssumption DEF IInv, TypeOK, Owned, NotTwoObjects, NotBothSides,
     HeldIsLive, SlotValues, Of, Idle
<1>4. HeldIsLive' /\ LiveIsHeld'
  BY <1>1, NullAssumption DEF IInv, TypeOK, Owned, NotTwoObjects, NotBothSides,
     HeldIsLive, LiveIsHeld, SlotValues, Of, Idle
<1>5. SelfContained' /\ OnlyLiveIsTouched'
  BY <1>1 DEF IInv, SelfContained, OnlyLiveIsTouched
<1>6. QED
  BY <1>2, <1>3, <1>4, <1>5 DEF IInv, Owned

LEMMA ResetKeeps ==
  ASSUME IInv, NEW o \in Owners, Reset(o)
  PROVE  IInv'
<1> USE DEF Reset
<1>1. /\ fault' = {}
      /\ status' \in [Resources -> {"none", "live", "released"}]
      /\ \A r \in Resources : status'[r] = IF r = slot[o] THEN "released" ELSE status[r]
  BY SlotIsLive, ReleaseEffect DEF Idle
<1>2. TypeOK'
  BY <1>1, NullAssumption DEF IInv, TypeOK, SlotValues, Of, Idle, Busy, Calls
<1>3. NotTwoObjects' /\ NotBothSides'
  BY <1>1, NullAssumption DEF IInv, TypeOK, Owned, NotTwoObjects, NotBothSides,
     HeldIsLive, SlotValues, Of, Idle
<1>4. HeldIsLive' /\ LiveIsHeld'
  BY <1>1, NullAssumption DEF IInv, TypeOK, Owned, NotTwoObjects, NotBothSides,
     HeldIsLive, LiveIsHeld, SlotValues, Of, Idle
<1>5. SelfContained' /\ OnlyLiveIsTouched'
  BY <1>1 DEF IInv, SelfContained, OnlyLiveIsTouched
<1>6. QED
  BY <1>2, <1>3, <1>4, <1>5 DEF IInv, Owned

LEMMA MoveConstructKeeps ==
  ASSUME IInv, NEW o \in Owners, NEW from \in Owners, MoveConstruct(o, from)
  PROVE  IInv'
<1> USE DEF MoveConstruct
<1>1. TypeOK'
  BY NullAssumption DEF IInv, TypeOK, SlotValues, Of, Idle, Busy, Calls
<1>2. NotTwoObjects' /\ NotBothSides'
  BY NullAssumption DEF IInv, TypeOK, Owned, NotTwoObjects, NotBothSides, HeldIsLive,
     SlotValues, Of, Idle
<1>3. HeldIsLive' /\ LiveIsHeld'
  BY NullAssumption DEF IInv, TypeOK, Owned, NotTwoObjects, NotBothSides, HeldIsLive,
     LiveIsHeld, SlotValues, Of, Idle
<1>4. SelfContained' /\ OnlyLiveIsTouched'
  BY DEF IInv, SelfContained, OnlyLiveIsTouched
<1>5. QED
  BY <1>1, <1>2, <1>3, <1>4 DEF IInv, Owned

LEMMA MoveAssignKeeps ==
  ASSUME IInv, NEW o \in Owners, NEW from \in Owners, MoveAssign(o, from)
  PROVE  IInv'
<1> USE DEF MoveAssign
<1>1. /\ fault' = {}
      /\ status' \in [Resources -> {"none", "live", "released"}]
      /\ \A r \in Resources : status'[r] = IF r = slot[o] THEN "released" ELSE status[r]
  BY SlotIsLive, ReleaseEffect DEF Idle
<1>2. TypeOK'
  BY <1>1, NullAssumption DEF IInv, TypeOK, SlotValues, Of, Idle, Busy, Calls
<1>3. NotTwoObjects' /\ NotBothSides'
  BY <1>1, NullAssumption DEF IInv, TypeOK, Owned, NotTwoObjects, NotBothSides,
     HeldIsLive, SlotValues, Of, Idle
<1>4. HeldIsLive' /\ LiveIsHeld'
  BY <1>1, NullAssumption DEF IInv, TypeOK, Owned, NotTwoObjects, NotBothSides,
     HeldIsLive, LiveIsHeld, SlotValues, Of, Idle
<1>5. SelfContained' /\ OnlyLiveIsTouched'
  BY <1>1 DEF IInv, SelfContained, OnlyLiveIsTouched
<1>6. QED
  BY <1>2, <1>3, <1>4, <1>5 DEF IInv, Owned

LEMMA RelinquishKeeps ==
  ASSUME IInv, NEW o \in Owners, Relinquish(o)
  PROVE  IInv'
<1> USE DEF Relinquish
<1>1. TypeOK'
  BY NullAssumption DEF IInv, TypeOK, SlotValues, Of, Idle, Busy, Calls
<1>2. NotTwoObjects' /\ NotBothSides'
  BY NullAssumption DEF IInv, TypeOK, Owned, NotTwoObjects, NotBothSides, HeldIsLive,
     SlotValues, Of, Idle
<1>3. HeldIsLive' /\ LiveIsHeld'
  BY NullAssumption DEF IInv, TypeOK, Owned, NotTwoObjects, NotBothSides, HeldIsLive,
     LiveIsHeld, SlotValues, Of, Idle
<1>4. SelfContained' /\ OnlyLiveIsTouched'
  BY DEF IInv, SelfContained, OnlyLiveIsTouched
<1>5. QED
  BY <1>1, <1>2, <1>3, <1>4 DEF IInv, Owned

LEMMA ConsumerReleasesKeeps ==
  ASSUME IInv, NEW r \in Resources, ConsumerReleases(r)
  PROVE  IInv'
<1> USE DEF ConsumerReleases
<1>1. /\ fault' = {}
      /\ status' \in [Resources -> {"none", "live", "released"}]
      /\ \A q \in Resources : status'[q] = IF q = r THEN "released" ELSE status[q]
  BY ReleaseEffect DEF IInv, Owned, HeldIsLive, SlotValues
<1>2. TypeOK'
  BY <1>1, NullAssumption DEF IInv, TypeOK, SlotValues, Of, Idle, Busy, Calls
<1>3. NotTwoObjects' /\ NotBothSides'
  BY <1>1, NullAssumption DEF IInv, TypeOK, Owned, NotTwoObjects, NotBothSides,
     HeldIsLive, SlotValues, Of, Idle
<1>4. HeldIsLive' /\ LiveIsHeld'
  BY <1>1, NullAssumption DEF IInv, TypeOK, Owned, NotTwoObjects, NotBothSides,
     HeldIsLive, LiveIsHeld, SlotValues, Of, Idle
<1>5. SelfContained' /\ OnlyLiveIsTouched'
  BY <1>1 DEF IInv, SelfContained, OnlyLiveIsTouched
<1>6. QED
  BY <1>2, <1>3, <1>4, <1>5 DEF IInv, Owned

LEMMA BeginMethodKeeps ==
  ASSUME IInv, NEW d \in Owners, NEW o \in Owners, BeginMethod(d, o)
  PROVE  IInv'
<1> USE DEF BeginMethod
<1>1. TypeOK'
  BY NullAssumption DEF IInv, TypeOK, SlotValues, Of, Idle, Busy, Calls, Empty, Parties
<1>2. NotTwoObjects' /\ NotBothSides'
  BY NullAssumption DEF IInv, TypeOK, Owned, NotTwoObjects, NotBothSides, HeldIsLive,
     SlotValues, Of, Idle, Empty, Parties
<1>3. HeldIsLive' /\ LiveIsHeld'
  BY NullAssumption DEF IInv, TypeOK, Owned, NotTwoObjects, NotBothSides, HeldIsLive,
     LiveIsHeld, SlotValues, Of, Idle, Empty, Parties
<1>4. SelfContained' /\ OnlyLiveIsTouched'
  BY DEF IInv, SelfContained, OnlyLiveIsTouched, Empty, Parties
<1>5. QED
  BY <1>1, <1>2, <1>3, <1>4 DEF IInv, Owned

LEMMA BeginRawKeeps ==
  ASSUME IInv, NEW d \in Owners, NEW o \in Owners, BeginRaw(d, o)
  PROVE  IInv'
<1> USE DEF BeginRaw
<1>1. TypeOK'
  BY NullAssumption DEF IInv, TypeOK, SlotValues, Of, Idle, Busy, Calls, Parties
<1>2. NotTwoObjects' /\ NotBothSides'
  BY NullAssumption DEF IInv, TypeOK, Owned, NotTwoObjects, NotBothSides, HeldIsLive,
     SlotValues, Of, Idle, Parties
<1>3. HeldIsLive' /\ LiveIsHeld'
  BY NullAssumption DEF IInv, TypeOK, Owned, NotTwoObjects, NotBothSides, HeldIsLive,
     LiveIsHeld, SlotValues, Of, Idle, Parties
<1>4. SelfContained' /\ OnlyLiveIsTouched'
  BY DEF IInv, SelfContained, OnlyLiveIsTouched, Parties
<1>5. QED
  BY <1>1, <1>2, <1>3, <1>4 DEF IInv, Owned


(***************************************************************************)
(* A call that is not refused is handed nothing dead, because what the     *)
(* objects it works with hold is live.                                     *)
(***************************************************************************)
LEMMA PartiesAreLive ==
  ASSUME IInv, call # NoCall, ~Refuses(call.uses)
  PROVE  Faulty({slot[u] : u \in call.uses}) = {}
<1>1. \A u \in call.uses : u \in alive /\ KindOf[u] # "Bytes" /\ slot[u] # Null
  BY DEF IInv, TypeOK, Calls, Of, Refuses
<1>2. \A u \in call.uses : slot[u] \in Resources
  BY <1>1 DEF IInv, TypeOK, SlotValues
<1>3. QED
  BY <1>1, <1>2 DEF IInv, Owned, HeldIsLive, Faulty

LEMMA CallThrowsKeeps ==
  ASSUME IInv, CallThrows
  PROVE  IInv'
<1> USE DEF CallThrows
<1>1. fault' = {}
  BY PartiesAreLive DEF Use, Faulty, IInv, OnlyLiveIsTouched
<1>2. TypeOK'
  BY <1>1 DEF IInv, TypeOK, SlotValues, Of, Calls
<1>3. NotTwoObjects' /\ NotBothSides'
  BY DEF IInv, TypeOK, Owned, NotTwoObjects, NotBothSides
<1>4. HeldIsLive' /\ LiveIsHeld'
  BY NullAssumption DEF IInv, TypeOK, Owned, HeldIsLive, LiveIsHeld
<1>5. SelfContained' /\ OnlyLiveIsTouched'
  BY <1>1 DEF IInv, SelfContained, OnlyLiveIsTouched
<1>6. QED
  BY <1>2, <1>3, <1>4, <1>5 DEF IInv, Owned

LEMMA CallAnswersKeeps ==
  ASSUME IInv, CallAnswers
  PROVE  IInv'
<1> USE DEF CallAnswers
<1>1. fault' = {}
  BY PartiesAreLive DEF Use, IInv, OnlyLiveIsTouched
<1>2. CASE \E r \in Resources : /\ Allocate(call.out, r)
                                /\ refs' = [refs EXCEPT ![r] = RefersTo(call.uses)]
  <2> USE <1>2 DEF Allocate, RefersTo
  <2>1. TypeOK'
    BY <1>1, NullAssumption DEF IInv, TypeOK, SlotValues, Of, Calls
  <2>2. NotTwoObjects' /\ NotBothSides'
    BY DEF IInv, TypeOK, Owned, NotTwoObjects, NotBothSides, HeldIsLive, Calls, Of
  <2>3. HeldIsLive' /\ LiveIsHeld'
    BY NullAssumption DEF IInv, TypeOK, Owned, HeldIsLive, LiveIsHeld, Calls, Of
  <2>4. SelfContained' /\ OnlyLiveIsTouched'
    BY <1>1 DEF IInv, TypeOK, SelfContained, OnlyLiveIsTouched
  <2>5. QED
    BY <2>1, <2>2, <2>3, <2>4 DEF IInv, Owned
<1>3. CASE /\ KindOf[call.out] = "Bytes"
           /\ slot' = [slot EXCEPT ![call.out] = Hollow]
           /\ UNCHANGED <<status, refs>>
  <2> USE <1>3
  <2>1. TypeOK'
    BY <1>1, NullAssumption DEF IInv, TypeOK, SlotValues, Of, Calls
  <2>2. NotTwoObjects' /\ NotBothSides'
    BY NullAssumption DEF IInv, TypeOK, Owned, NotTwoObjects, NotBothSides, Calls, Of
  <2>3. HeldIsLive' /\ LiveIsHeld'
    BY NullAssumption DEF IInv, TypeOK, Owned, HeldIsLive, LiveIsHeld, Calls, Of
  <2>4. SelfContained' /\ OnlyLiveIsTouched'
    BY <1>1 DEF IInv, SelfContained, OnlyLiveIsTouched
  <2>5. QED
    BY <2>1, <2>2, <2>3, <2>4 DEF IInv, Owned
<1>4. QED
  BY <1>2, <1>3

LEMMA StutterKeeps ==
  ASSUME IInv, UNCHANGED vars
  PROVE  IInv'
BY DEF vars, IInv, TypeOK, Owned, NotTwoObjects, NotBothSides, HeldIsLive, LiveIsHeld,
       SelfContained, OnlyLiveIsTouched

-----------------------------------------------------------------------------
(***************************************************************************)
(* The inductive invariant holds always.                                   *)
(***************************************************************************)
LEMMA InitHolds == Init => IInv
BY NullAssumption DEF Init, IInv, TypeOK, Owned, NotTwoObjects, NotBothSides,
   HeldIsLive,
   LiveIsHeld, SelfContained, OnlyLiveIsTouched, SlotValues

LEMMA StepHolds == IInv /\ [Next]_vars => IInv'
<1> SUFFICES ASSUME IInv, [Next]_vars PROVE IInv'
  OBVIOUS
<1>1. ASSUME NEW o \in Owners, ObjectStep(o) PROVE IInv'
  BY <1>1, ConstructEmptyKeeps, ConstructOwningKeeps, DestroyKeeps, ResetKeeps,
     RelinquishKeeps DEF ObjectStep
<1>2. ASSUME NEW o \in Owners, NEW p \in Owners, PairStep(o, p) PROVE IInv'
  BY <1>2, MoveConstructKeeps, MoveAssignKeeps, BeginMethodKeeps, BeginRawKeeps DEF
     PairStep
<1>3. ASSUME NEW r \in Resources, ConsumerReleases(r) PROVE IInv'
  BY <1>3, ConsumerReleasesKeeps
<1>4. QED
  BY <1>1, <1>2, <1>3, CallAnswersKeeps, CallThrowsKeeps, StutterKeeps DEF Next

THEOREM AlwaysOwned == Spec => []IInv
BY InitHolds, StepHolds, PTL DEF Spec

(***************************************************************************)
(* Every object and allocation stays well typed: only a Bytes holds an     *)
(* empty buffer, and a call under way writes into a live, empty object.    *)
(***************************************************************************)
THEOREM TypeCorrect == Spec => []TypeOK
<1>1. IInv => TypeOK
  BY DEF IInv
<1>2. QED
  BY <1>1, AlwaysOwned, PTL

(***************************************************************************)
(* However the host constructs, moves, assigns and destroys its objects,   *)
(* each live allocation has exactly one holder, a dead one none.           *)
(***************************************************************************)
THEOREM HoldersAreSole == Spec => []SoleHolder
BY OwnedIsSole, AlwaysOwned, PTL

(***************************************************************************)
(* Nothing is used or released after its release, or before its making.    *)
(***************************************************************************)
THEOREM NothingDeadIsTouched == Spec => []OnlyLiveIsTouched
<1>1. IInv => OnlyLiveIsTouched
  BY DEF IInv
<1>2. QED
  BY <1>1, AlwaysOwned, PTL

-----------------------------------------------------------------------------
(* The refinement *)

\* In whose hands r is, when no allocation has gone astray.
Hands(r) == CASE status[r] = "none"     -> "Nobody"
              [] status[r] = "released" -> "Released"
              [] OTHER -> IF r \in consumer THEN "Consumer" ELSE "Wrapper"

LEMMA NoneAstray ==
  ASSUME IInv, NEW r \in Resources
  PROVE  HolderOf(r) = Hands(r)
<1>1. CASE status[r] # "live"
  BY <1>1 DEF IInv, TypeOK, HolderOf, Hands
<1>2. CASE status[r] = "live"
  <2>1. PICK h \in Holders(r) : Holders(r) = {h}
    BY <1>2, OwnedIsSole DEF SoleHolder
  <2>2. r \in consumer => Consumer \in Holders(r)
    BY DEF Holders
  <2>3. r \notin consumer => Consumer \notin Holders(r)
    BY ConsumerAssumption DEF Holders, IInv, TypeOK
  <2>4. QED
    BY <1>2, <2>1, <2>2, <2>3 DEF HolderOf, Hands
<1>3. QED
  BY <1>1, <1>2

(***************************************************************************)
(* What a step may do to the allocations: make one, release one, or hand   *)
(* one of the wrapper's to a consumer.                                     *)
(***************************************************************************)
Makes(r)    == /\ status[r] = "none" /\ r \notin consumer
               /\ status' = [status EXCEPT ![r] = "live"] /\ consumer' = consumer

Releases(r) == /\ status[r] = "live"
               /\ status' = [status EXCEPT ![r] = "released"]
               /\ consumer' = consumer \ {r}

HandsOver(r) == /\ status[r] = "live" /\ r \notin consumer
                /\ status' = status /\ consumer' = consumer \cup {r}

Moves == \/ UNCHANGED <<status, consumer>>
         \/ \E r \in Resources : Makes(r) \/ Releases(r) \/ HandsOver(r)

LEMMA AllocateMoves ==
  ASSUME IInv, NEW o \in Owners, NEW r \in Resources, Allocate(o, r), UNCHANGED consumer
  PROVE  Moves
BY DEF Allocate, Moves, Makes, IInv, Owned, HeldIsLive

LEMMA ReleaseMoves ==
  ASSUME IInv, NEW o \in alive, Release(slot[o]), UNCHANGED consumer
  PROVE  Moves
<1>1. /\ status' \in [Resources -> {"none", "live", "released"}]
      /\ \A r \in Resources : status'[r] = IF r = slot[o] THEN "released" ELSE status[r]
  BY SlotIsLive, ReleaseEffect
<1>2. CASE slot[o] \in Resources
  <2>1. status' = [status EXCEPT ![slot[o]] = "released"]
    BY <1>1, <1>2 DEF IInv, TypeOK
  <2>2. slot[o] \notin consumer
    BY DEF IInv, Owned, NotBothSides
  <2>3. Releases(slot[o])
    BY <1>2, <2>1, <2>2, SlotIsLive DEF Releases
  <2>4. QED
    BY <1>2, <2>3 DEF Moves
<1>3. CASE slot[o] \notin Resources
  <2>1. status' = status
    BY <1>1, <1>3 DEF IInv, TypeOK
  <2>2. QED
    BY <2>1 DEF Moves
<1>4. QED
  BY <1>2, <1>3

LEMMA ConsumerMoves ==
  ASSUME IInv, NEW r \in Resources, ConsumerReleases(r)
  PROVE  Moves
<1>1. status[r] = "live" /\ r \in SlotValues
  BY DEF ConsumerReleases, IInv, Owned, HeldIsLive, SlotValues
<1>2. /\ status' \in [Resources -> {"none", "live", "released"}]
      /\ \A q \in Resources : status'[q] = IF q = r THEN "released" ELSE status[q]
  BY <1>1, ReleaseEffect DEF ConsumerReleases
<1>3. status' = [status EXCEPT ![r] = "released"]
  BY <1>2 DEF IInv, TypeOK
<1>4. QED
  BY <1>1, <1>3 DEF ConsumerReleases, Moves, Releases

LEMMA StepMoves == IInv /\ [Next]_vars => Moves
<1> SUFFICES ASSUME IInv, [Next]_vars PROVE Moves
  OBVIOUS
<1>1. ASSUME NEW o \in Owners, ObjectStep(o) PROVE Moves
  <2>1. CASE ConstructEmpty(o)
    BY <2>1 DEF ConstructEmpty, Moves
  <2>2. CASE ConstructOwning(o)
    BY <2>2, AllocateMoves DEF ConstructOwning
  <2>3. CASE Destroy(o)
    BY <2>3, ReleaseMoves DEF Destroy, Idle
  <2>4. CASE Reset(o)
    BY <2>4, ReleaseMoves DEF Reset, Idle
  <2>5. CASE Relinquish(o)
    <3>1. HandsOver(slot[o])
      BY <2>5 DEF Relinquish, Idle, HandsOver, IInv, Owned, NotBothSides, HeldIsLive
    <3>2. QED
      BY <2>5, <3>1 DEF Relinquish, Moves
  <2>6. QED
    BY <1>1, <2>1, <2>2, <2>3, <2>4, <2>5 DEF ObjectStep
<1>2. ASSUME NEW o \in Owners, NEW p \in Owners, PairStep(o, p) PROVE Moves
  <2>1. CASE MoveAssign(o, p)
    BY <2>1, ReleaseMoves DEF MoveAssign, Idle
  <2>2. CASE MoveConstruct(o, p) \/ BeginMethod(o, p) \/ BeginRaw(o, p)
    BY <2>2 DEF MoveConstruct, BeginMethod, BeginRaw, Moves
  <2>3. QED
    BY <1>2, <2>1, <2>2 DEF PairStep
<1>3. CASE CallAnswers
  <2>1. call.out \in Owners
    BY <1>3 DEF CallAnswers, IInv, TypeOK, Calls, Of
  <2>2. QED
    BY <1>3, <2>1, AllocateMoves DEF CallAnswers, Moves
<1>4. CASE CallThrows
  BY <1>4 DEF CallThrows, Moves
<1>5. CASE UNCHANGED vars
  BY <1>5 DEF vars, Moves
<1>6. QED
  BY <1>1, <1>2, <1>3, <1>4, <1>5, ConsumerMoves DEF Next

(***************************************************************************)
(* Each of these is a step of the promise, or none.                        *)
(***************************************************************************)
NotAstray == [r \in Resources |-> HolderOf(r)] = [r \in Resources |-> Hands(r)]

LEMMA NeverAstray == IInv => NotAstray
BY NoneAstray DEF NotAstray

LEMMA MovesKeepPromise ==
  ASSUME IInv, NotAstray, NotAstray', Moves
  PROVE  [Promise!Next]_([r \in Resources |-> HolderOf(r)])
<1> DEFINE H == [r \in Resources |-> Hands(r)]
<1>1. [r \in Resources |-> HolderOf(r)] = H /\ [r \in Resources |-> HolderOf(r)]' = H'
  BY DEF NotAstray
<1>2. status \in [Resources -> {"none", "live", "released"}]
  BY DEF IInv, TypeOK
<1>3. CASE UNCHANGED <<status, consumer>>
  <2>1. H' = H
    BY <1>3 DEF Hands
  <2>2. QED
    BY <1>1, <2>1
<1>4. ASSUME NEW r \in Resources, Makes(r) PROVE Promise!Next
  <2>1. H[r] = "Nobody" /\ H' = [H EXCEPT ![r] = "Wrapper"]
    BY <1>2, <1>4 DEF Makes, Hands
  <2>2. Promise!Pass(r, "Nobody", "Wrapper")
    BY <1>1, <2>1 DEF Promise!Pass
  <2>3. QED
    BY <2>2 DEF Promise!Next
<1>5. ASSUME NEW r \in Resources, HandsOver(r) PROVE Promise!Next
  <2>1. H[r] = "Wrapper" /\ H' = [H EXCEPT ![r] = "Consumer"]
    BY <1>2, <1>5 DEF HandsOver, Hands
  <2>2. Promise!Pass(r, "Wrapper", "Consumer")
    BY <1>1, <2>1 DEF Promise!Pass
  <2>3. QED
    BY <2>2 DEF Promise!Next
<1>6. ASSUME NEW r \in Resources, Releases(r) PROVE Promise!Next
  <2>1. H[r] \in {"Wrapper", "Consumer"} /\ H' = [H EXCEPT ![r] = "Released"]
    BY <1>2, <1>6 DEF Releases, Hands
  <2>2. Promise!Pass(r, "Wrapper", "Released") \/ Promise!Pass(r, "Consumer", "Released")
    BY <1>1, <2>1 DEF Promise!Pass
  <2>3. QED
    BY <2>2 DEF Promise!Next
<1>7. QED
  BY <1>3, <1>4, <1>5, <1>6 DEF Moves

LEMMA InitPromised == Init => Promise!Init
<1> SUFFICES ASSUME Init PROVE Promise!Init
  OBVIOUS
<1>1. \A r \in Resources : HolderOf(r) = "Nobody"
  BY DEF Init, HolderOf
<1>2. QED
  BY <1>1 DEF Promise!Init

(***************************************************************************)
(* Whatever the host does with its objects, each allocation goes from hand *)
(* to hand as ResultOwnership promises: one party at a time, one release.  *)
(***************************************************************************)
THEOREM PromiseKept == Spec => KeepsPromise
BY InitPromised, InitHolds, StepHolds, StepMoves, NeverAstray, MovesKeepPromise, PTL
DEF Spec, KeepsPromise, Promise!Spec
-----------------------------------------------------------------------------
(***************************************************************************)
(* ResultStreams                                                           *)
(***************************************************************************)

(* The invariant *)

Items(entry) == UNION {ItemsFor(entry, r) : r \in Rows}

\* The row of a batch that an item becomes.
RowOf(entry, item) == [c \in DOMAIN Fields(entry) |-> PartOf(entry, item, Fields(entry)[c])]

\* The batches of an answer, cut at c.
BatchesAt(entry, items, m, c) ==
  [k \in 1..m |-> Batch(entry, SubSeq(items, c[k - 1] + 1, c[k]))]

\* A stream over the whole answer, cut into m batches at c.
CutStream(s, m, c) ==
  /\ s = [entry |-> s.entry, schema |-> s.schema, batches |-> s.batches,
          taken |-> s.taken, items |-> s.items]
  /\ s.entry \in Entries /\ s.items \in Seq(Items(s.entry))
  /\ s.batches = BatchesAt(s.entry, s.items, m, c)
  /\ s.taken \in 0..m
  /\ s.schema = Fields(s.entry) \/ (m = 0 /\ s.entry \in Typed)

\* The first n rows of an answer.
RowsUpTo(entry, items, n) == [i \in 1..n |-> RowOf(entry, items[i])]

\* What was read of the stream is the answer up to a cut.
StreamOK ==
  stream # NoStream =>
    \E m \in 0..(MaxBatches + 1) : \E c \in Cuts(m, Len(stream.items)) :
      /\ CutStream(stream, m, c)
      /\ delivered = RowsUpTo(stream.entry, stream.items, c[stream.taken])

StoreOK == /\ store \subseteq Rows /\ IsFiniteSet(store) /\ Cardinality(store) <= MaxStored
           /\ stream = NoStream => delivered = <<>>

\* A labels text and the set it stands for can be had from each other.
TextOf(set) == {[key |-> x.key, text |-> x.text, kind |-> "str"] : x \in set}
SetOf(text) == {[key |-> x.key, text |-> x.text] : x \in text}

SaidOK ==
  \A e \in said : e.by # "metric_series" => e.text = TextOf(e.set) /\ e.set = SetOf(e.text)

RepliesOK == reply \in {"Ok", "Query", "None"} /\ open \in BOOLEAN

StreamInv == StoreOK /\ RepliesOK /\ StreamOK /\ SaidOK
-----------------------------------------------------------------------------
(* Sequences and answers *)

LEMMA TuplesAreSeqs ==
  ASSUME NEW S, NEW n \in Nat, NEW f \in [1..n -> S]
  PROVE  f \in Seq(S) /\ Len(f) = n /\ DOMAIN f = 1..n
<1>1. f \in Seq(S)
  BY SeqDef
<1>2. Len(f) \in Nat /\ DOMAIN f = 1..Len(f)
  BY <1>1, LenProperties
<1>3. DOMAIN f = 1..n
  OBVIOUS
<1>4. Len(f) = n
  BY <1>2, <1>3
<1> QED BY <1>1, <1>3, <1>4

\* Of every entry point: a first column, and no null where a column takes none.
LEMMA FieldsFitTheItems ==
  ASSUME NEW entry
  PROVE  /\ \E n \in Nat : n >= 1 /\ DOMAIN Fields(entry) = 1..n
         /\ \A c \in DOMAIN Fields(entry) :
              ~Fields(entry)[c].nullable => Fields(entry)[c].name \notin Optional(entry)
<1>1. CASE entry = "attr_names"
  BY <1>1 DEF Fields, Optional, Req
<1>2. CASE entry = "attr_values"
  BY <1>2 DEF Fields, Optional, Req
<1>3. CASE entry = "metric_series"
  BY <1>3 DEF Fields, Optional, Req
<1>4. CASE entry = "segment_files"
  BY <1>4 DEF Fields, Optional, Req
<1>5. CASE entry = "metric_catalog"
  <2>1. Fields(entry) = CatalogFields /\ Optional(entry) = {"temporality"}
    BY <1>5 DEF Fields, Optional
  <2> QED BY <2>1 DEF CatalogFields, Req, Opt
<1>6. CASE entry = "exemplars"
  <2>1. Fields(entry) = ExemplarFields /\ Optional(entry) = {"trace_id", "span_id"}
    BY <1>6 DEF Fields, Optional
  <2> QED BY <2>1 DEF ExemplarFields, Req, Opt
<1>7. CASE entry = "metrics_instant"
  <2>1. Fields(entry) = SeriesFields /\ Optional(entry) = {}
    BY <1>7 DEF Fields, Optional
  <2> QED BY <2>1 DEF SeriesFields, Req
<1>8. CASE entry = "logs_volume"
  <2>1. Fields(entry) = VolumeFields /\ Optional(entry) = {}
    BY <1>8 DEF Fields, Optional
  <2> QED BY <2>1 DEF VolumeFields, Req
<1>9. CASE entry = "traces_search"
  <2>1. Fields(entry) = TraceSummaryFields /\ Optional(entry) = {"root_service", "root_name"}
    BY <1>9 DEF Fields, Optional
  <2> QED BY <2>1 DEF TraceSummaryFields, Req, Opt
<1>10. CASE entry = "segments"
  <2>1. Fields(entry) = SegmentFields /\ Optional(entry) = {}
    BY <1>10 DEF Fields, Optional
  <2> QED BY <2>1 DEF SegmentFields, Req
<1>11. CASE entry \notin {"attr_names", "attr_values", "metric_series", "segment_files",
                          "metric_catalog", "exemplars", "metrics_instant", "logs_volume",
                          "traces_search", "segments"}
  <2>1. Fields(entry) = <<Req("row")>> /\ Optional(entry) = {}
    BY <1>11 DEF Fields, Optional
  <2> QED BY <2>1 DEF Req
<1> QED BY <1>1, <1>2, <1>3, <1>4, <1>5, <1>6, <1>7, <1>8, <1>9, <1>10, <1>11

LEMMA BatchIsARecord ==
  ASSUME NEW entry, NEW items, NEW c \in DOMAIN Fields(entry)
  PROVE  /\ Batch(entry, items).schema = Fields(entry)
         /\ DOMAIN Batch(entry, items).columns = DOMAIN Fields(entry)
         /\ Batch(entry, items).columns[c] = Pushed(entry, items, Fields(entry)[c])
BY DEF Batch

LEMMA PartsFit ==
  ASSUME NEW entry, NEW item \in Items(entry), NEW c \in DOMAIN Fields(entry),
         ~Fields(entry)[c].nullable
  PROVE  PartOf(entry, item, Fields(entry)[c]).valid
<1>1. Fields(entry)[c].name \notin item.lacks
  BY FieldsFitTheItems DEF Items, ItemsFor
<1> QED BY <1>1 DEF PartOf, Valid

\* What RecordBatch::try_new asks of a batch.
LEMMA BatchesAreWellFormed ==
  ASSUME NEW entry, NEW items \in Seq(Items(entry))
  PROVE  WellFormed(Batch(entry, items))
<1> DEFINE b == Batch(entry, items)
           n == Len(items)
<1>1. n \in Nat /\ DOMAIN items = 1..n /\ \A i \in 1..n : items[i] \in Items(entry)
  BY LenProperties
<1>2. 1 \in DOMAIN Fields(entry)
  BY FieldsFitTheItems
<1>3. DOMAIN b.columns = DOMAIN Fields(entry) /\ b.schema = Fields(entry)
  BY <1>2, BatchIsARecord
<1>4. ASSUME NEW c \in DOMAIN Fields(entry)
      PROVE  /\ b.columns[c] = [i \in 1..n |-> PartOf(entry, items[i], Fields(entry)[c])]
             /\ Len(b.columns[c]) = n
  <2> DEFINE S == {PartOf(entry, items[i], Fields(entry)[c]) : i \in 1..n}
  <2>1. b.columns[c] = [i \in 1..n |-> PartOf(entry, items[i], Fields(entry)[c])]
    <3>1. b.columns[c] = Pushed(entry, items, Fields(entry)[c])
      BY BatchIsARecord
    <3> QED BY <1>1, <3>1 DEF Pushed
  <2>2. b.columns[c] \in [1..n -> S]
    BY <2>1
  <2>3. Len(b.columns[c]) = n
    BY <1>1, <2>2, TuplesAreSeqs
  <2> QED BY <2>1, <2>3
<1>5. ASSUME NEW c \in DOMAIN Fields(entry), ~Fields(entry)[c].nullable
      PROVE  \A v \in Range(b.columns[c]) : v.valid
  <2>1. \A i \in 1..n : PartOf(entry, items[i], Fields(entry)[c]).valid
    BY <1>1, <1>5, PartsFit
  <2>2. \A v \in Range(b.columns[c]) : \E i \in 1..n : v = PartOf(entry, items[i], Fields(entry)[c])
    <3> HIDE DEF b
    <3> QED BY <1>4 DEF Range
  <2> QED BY <2>1, <2>2
<1> QED BY <1>2, <1>3, <1>4, <1>5 DEF WellFormed

LEMMA RowsOfABatch ==
  ASSUME NEW entry, NEW items \in Seq(Items(entry))
  PROVE  RowsOf(Batch(entry, items)) = [i \in 1..Len(items) |-> RowOf(entry, items[i])]
<1> DEFINE b == Batch(entry, items)
<1>1. DOMAIN items = 1..Len(items)
  BY LenProperties
<1>2. 1 \in DOMAIN Fields(entry)
  BY FieldsFitTheItems
<1>3. DOMAIN b.columns = DOMAIN Fields(entry) /\ DOMAIN b.columns[1] = 1..Len(items)
  <2>1. DOMAIN b.columns = DOMAIN Fields(entry)
    BY <1>2, BatchIsARecord
  <2>2. b.columns[1] = Pushed(entry, items, Fields(entry)[1])
    BY <1>2, BatchIsARecord
  <2> QED BY <1>1, <2>1, <2>2 DEF Pushed
<1>4. ASSUME NEW i \in 1..Len(items)
      PROVE  [c \in DOMAIN b.columns |-> b.columns[c][i]] = RowOf(entry, items[i])
  <2>1. \A c \in DOMAIN Fields(entry) : b.columns[c][i] = PartOf(entry, items[i], Fields(entry)[c])
    <3>1. \A c \in DOMAIN Fields(entry) : b.columns[c] = Pushed(entry, items, Fields(entry)[c])
      BY BatchIsARecord
    <3> QED BY <1>1, <3>1 DEF Pushed
  <2> HIDE DEF b
  <2> QED BY <1>3, <2>1 DEF RowOf
<1> QED BY <1>3, <1>4 DEF RowsOf

\* The engine's answers are sequences of items of what is stored.
LEMMA AnswersAreItems ==
  ASSUME NEW entry, NEW items \in Answers(entry), store \subseteq Rows, IsFiniteSet(store)
  PROVE  items \in Seq(Items(entry))
<1> DEFINE n == Cardinality(store)
           I == UNION {ItemsFor(entry, r) : r \in store}
<1>1. n \in Nat
  BY FS_CardinalityType
<1>2. PICK o \in SetToSeqs(store) :
        items \in {s \in [DOMAIN o -> I] : \A i \in DOMAIN o : s[i] \in ItemsFor(entry, o[i])}
  BY DEF Answers
<1>3. DOMAIN o = 1..n
  BY <1>2 DEF SetToSeqs
<1>4. I \subseteq Items(entry)
  BY DEF Items
<1>5. items \in [1..n -> Items(entry)]
  BY <1>2, <1>3, <1>4
<1> QED BY <1>1, <1>5, TuplesAreSeqs
-----------------------------------------------------------------------------
(* Labels *)

LEMMA LabelsAreTheirSet ==
  ASSUME NEW entry, NEW item \in Items(entry)
  PROVE  /\ LabelsToJson(item.pairs) = TextOf(LabelSet(item))
         /\ LabelSet(item) = SetOf(LabelsToJson(item.pairs))
<1> DEFINE ps == item.pairs
           In == {ps[i] : i \in DOMAIN ps}
           Str(p) == [key |-> p.key, text |-> p.text, kind |-> "str"]
           Pair(p) == [key |-> p.key, text |-> p.text]
<1>1. PICK r \in Rows : ps \in SetToSeqs(r.attrs)
  BY DEF Items, ItemsFor
<1>2. \A i \in DOMAIN ps : ps[i] \in r.attrs
  BY <1>1 DEF SetToSeqs
<1>3. \A p \in In : p = [key |-> p.key, text |-> p.text, kind |-> p.kind]
  BY <1>2, RowsAssumption
<1>4. LabelsToJson(ps) = {Str(p) : p \in In}
  <2>1. \A p \in In : [p EXCEPT !.kind = "str"] = Str(p)
    BY <1>3
  <2>2. LabelsToJson(ps) = {[ps[i] EXCEPT !.kind = "str"] : i \in DOMAIN ps}
    BY DEF LabelsToJson, CanonicalJson, Range
  <2> DEFINE S(i) == [ps[i] EXCEPT !.kind = "str"]
  <2>3. \A i \in DOMAIN ps : ps[i] \in In /\ S(i) = Str(ps[i])
    BY <2>1
  <2> HIDE DEF S, Str
  <2>4. {S(i) : i \in DOMAIN ps} = {Str(p) : p \in In}
    BY <2>3
  <2> QED BY <2>2, <2>4 DEF S
<1>5. LabelSet(item) = {Pair(p) : p \in In}
  BY DEF LabelSet, Range
<1>6. TextOf({Pair(p) : p \in In}) = {Str(p) : p \in In}
  <2> DEFINE X == {Pair(p) : p \in In}
             T(x) == [key |-> x.key, text |-> x.text, kind |-> "str"]
  <2>1. \A p \in In : Pair(p) \in X /\ T(Pair(p)) = Str(p)
    OBVIOUS
  <2>2. \A x \in X : \E p \in In : x = Pair(p)
    OBVIOUS
  <2> HIDE DEF X, T, Pair, Str
  <2>3. {T(x) : x \in X} = {Str(p) : p \in In}
    BY <2>1, <2>2
  <2> QED BY <2>3 DEF TextOf, T, X
<1>7. SetOf({Str(p) : p \in In}) = {Pair(p) : p \in In}
  <2> DEFINE X == {Str(p) : p \in In}
             T(x) == [key |-> x.key, text |-> x.text]
  <2>1. \A p \in In : Str(p) \in X /\ T(Str(p)) = Pair(p)
    OBVIOUS
  <2>2. \A x \in X : \E p \in In : x = Str(p)
    OBVIOUS
  <2> HIDE DEF X, T, Pair, Str
  <2>3. {T(x) : x \in X} = {Pair(p) : p \in In}
    BY <2>1, <2>2
  <2> QED BY <2>3 DEF SetOf, T, X
<1> QED BY <1>4, <1>5, <1>6, <1>7

LEMMA PartOfLabels ==
  ASSUME NEW entry, NEW item, NEW c \in LabelColumns(entry), entry # "metric_series"
  PROVE  RowOf(entry, item)[c].value = LabelsToJson(item.pairs)
BY DEF RowOf, LabelColumns, PartOf, LabelsOf, Valid
-----------------------------------------------------------------------------
(* Streams *)

LEMMA CollectedIsCut ==
  ASSUME NEW entry, NEW items, NEW bs \in Collected(entry, items)
  PROVE  \E m \in 0..MaxBatches : \E c \in Cuts(m, Len(items)) :
           bs = BatchesAt(entry, items, m, c)
BY DEF Collected, BatchesAt

LEMMA OneBatchIsCut ==
  ASSUME NEW entry, NEW items \in Seq(Items(entry))
  PROVE  \E c \in Cuts(1, Len(items)) : <<Batch(entry, items)>> = BatchesAt(entry, items, 1, c)
<1> DEFINE n == Len(items)
           c == [k \in 0..1 |-> IF k = 0 THEN 0 ELSE n]
<1>1. n \in Nat
  BY LenProperties
<1>2. c \in Cuts(1, n)
  BY <1>1 DEF Cuts
<1>3. SubSeq(items, c[0] + 1, c[1]) = items
  <2>1. c[0] = 0 /\ c[1] = n
    OBVIOUS
  <2> QED BY <2>1, SubSeqFull
<1>4. BatchesAt(entry, items, 1, c) = [k \in 1..1 |-> Batch(entry, items)]
  <2>1. \A k \in 1..1 : SubSeq(items, c[k - 1] + 1, c[k]) = items
    BY <1>3
  <2> HIDE DEF c
  <2> QED BY <2>1 DEF BatchesAt
<1>5. <<Batch(entry, items)>> = [k \in 1..1 |-> Batch(entry, items)]
  OBVIOUS
<1> QED BY <1>2, <1>4, <1>5

LEMMA BatchesHaveTheSchema ==
  ASSUME NEW entry, NEW items, NEW m \in Nat, NEW c
  PROVE  /\ DOMAIN BatchesAt(entry, items, m, c) = 1..m
         /\ Len(BatchesAt(entry, items, m, c)) = m
         /\ \A k \in 1..m : BatchesAt(entry, items, m, c)[k].schema = Fields(entry)
<1> DEFINE bs == BatchesAt(entry, items, m, c)
           S  == {Batch(entry, SubSeq(items, c[k - 1] + 1, c[k])) : k \in 1..m}
<1>1. bs \in [1..m -> S]
  BY DEF BatchesAt
<1>2. Len(bs) = m
  BY <1>1, TuplesAreSeqs
<1>3. \A k \in 1..m : bs[k].schema = Fields(entry)
  BY DEF BatchesAt, Batch
<1> QED BY <1>1, <1>2, <1>3

LEMMA InferredSchema ==
  ASSUME NEW entry, NEW items, NEW m \in Nat, NEW c,
         NEW bs, bs = BatchesAt(entry, items, m, c)
  PROVE  ExportBatchesInfer(entry, bs, items)
           = Exported(entry, IF m = 0 THEN <<>> ELSE Fields(entry), bs, items)
<1>1. DOMAIN bs = 1..m
  BY BatchesHaveTheSchema
<1>2. CASE m = 0
  <2>1. bs = <<>>
    BY <1>2 DEF BatchesAt
  <2> QED BY <1>2, <2>1 DEF ExportBatchesInfer, ExportBatches
<1>3. CASE m # 0
  <2>1. 1 \in DOMAIN bs /\ bs # <<>>
    BY <1>1, <1>3
  <2>2. bs[1].schema = Fields(entry)
    BY <1>1, <2>1, BatchesHaveTheSchema
  <2> QED BY <1>3, <2>1, <2>2 DEF ExportBatchesInfer, ExportBatches
<1> QED BY <1>2, <1>3

LEMMA ExportedIsCut ==
  ASSUME NEW entry \in Entries, NEW items \in Seq(Items(entry)),
         NEW m \in 0..(MaxBatches + 1), NEW c \in Cuts(m, Len(items)), NEW schema,
         schema = Fields(entry) \/ (m = 0 /\ entry \in Typed)
  PROVE  CutStream(Exported(entry, schema, BatchesAt(entry, items, m, c), items), m, c)
BY BoundAssumption DEF CutStream, Exported

\* Whatever the entry point, a stream just exported is the whole answer, cut somehow.
LEMMA StreamsAreCut ==
  ASSUME NEW entry \in Entries, NEW items \in Seq(Items(entry)), NEW s \in Streams(entry, items)
  PROVE  /\ s # NoStream /\ s.taken = 0
         /\ \E m \in 0..(MaxBatches + 1) : \E c \in Cuts(m, Len(s.items)) : CutStream(s, m, c)
<1> USE BoundAssumption
<1>1. CASE entry \in Catalog \cup OneBatch
  <2>1. s = ExportBatchesInfer(entry, <<Batch(entry, items)>>, items)
    BY <1>1 DEF Streams, CatalogStreams, Sql, Typed, Catalog, OneBatch
  <2>2. PICK c \in Cuts(1, Len(items)) : <<Batch(entry, items)>> = BatchesAt(entry, items, 1, c)
    BY OneBatchIsCut
  <2>3. s = Exported(entry, Fields(entry), BatchesAt(entry, items, 1, c), items)
    BY <2>1, <2>2, InferredSchema
  <2>4. CutStream(s, 1, c)
    BY <2>3, ExportedIsCut
  <2>5. s # NoStream /\ s.taken = 0
    BY <2>3 DEF Exported, NoStream
  <2>6. s.items = items /\ 1 \in 0..(MaxBatches + 1)
    BY <2>3 DEF Exported
  <2> QED BY <2>4, <2>5, <2>6
<1>2. CASE entry \in Sql
  <2>1. PICK bs \in Collected(entry, items) : s = ExportBatches(entry, Fields(entry), bs, items)
    BY <1>2 DEF Streams, Sql, Catalog, OneBatch, Typed
  <2>2. PICK m \in 0..MaxBatches :
          \E d \in Cuts(m, Len(items)) : bs = BatchesAt(entry, items, m, d)
    BY CollectedIsCut
  <2>3. PICK c \in Cuts(m, Len(items)) : bs = BatchesAt(entry, items, m, c)
    BY <2>2
  <2>4. s = Exported(entry, Fields(entry), BatchesAt(entry, items, m, c), items)
    BY <2>1, <2>3 DEF ExportBatches
  <2>5. CutStream(s, m, c)
    BY <2>4, ExportedIsCut
  <2>6. s # NoStream /\ s.taken = 0
    BY <2>4 DEF Exported, NoStream
  <2>7. s.items = items /\ m \in 0..(MaxBatches + 1)
    BY <2>4 DEF Exported
  <2> QED BY <2>5, <2>6, <2>7
<1>3. CASE entry \in Typed
  <2>1. PICK bs \in Collected(entry, items) : s = ExportBatchesInfer(entry, bs, items)
    BY <1>3 DEF Streams, Sql, Catalog, OneBatch, Typed
  <2>2. PICK m \in 0..MaxBatches :
          \E d \in Cuts(m, Len(items)) : bs = BatchesAt(entry, items, m, d)
    BY CollectedIsCut
  <2>3. PICK c \in Cuts(m, Len(items)) : bs = BatchesAt(entry, items, m, c)
    BY <2>2
  <2> DEFINE schema == IF m = 0 THEN <<>> ELSE Fields(entry)
  <2>4. s = Exported(entry, schema, BatchesAt(entry, items, m, c), items)
    BY <2>1, <2>3, InferredSchema
  <2>5. CutStream(s, m, c)
    <3>1. schema = Fields(entry) \/ (m = 0 /\ entry \in Typed)
      BY <1>3
    <3> HIDE DEF schema
    <3> QED BY <2>4, <3>1, ExportedIsCut
  <2>6. s # NoStream /\ s.taken = 0
    BY <2>4 DEF Exported, NoStream
  <2>7. s.items = items /\ m \in 0..(MaxBatches + 1)
    BY <2>4 DEF Exported
  <2> QED BY <2>5, <2>6, <2>7
<1> QED BY <1>1, <1>2, <1>3 DEF Entries
-----------------------------------------------------------------------------
(* The invariant is inductive *)

LEMMA StreamInitInv == StreamInit => StreamInv
<1> SUFFICES ASSUME StreamInit PROVE StreamInv
  OBVIOUS
<1>1. StoreOK
  BY BoundAssumption, FS_EmptySet DEF StreamInit, StoreOK
<1>2. RepliesOK /\ StreamOK /\ SaidOK
  BY DEF StreamInit, RepliesOK, StreamOK, SaidOK
<1> QED BY <1>1, <1>2 DEF StreamInv

\* A call that answers leaves a stream of which nothing was read.
LEMMA CallInv ==
  ASSUME StreamInv, NEW entry \in Asked, Call(entry)
  PROVE  StreamInv'
<1> USE DEF StreamInv
<1>1. entry \in Entries
  BY AskedAssumption
<1>2. stream = NoStream /\ delivered = <<>>
  BY DEF Call, StoreOK
<1>3. \A items \in Answers(entry) : items \in Seq(Items(entry)) /\ WellFormed(Batch(entry, items))
  BY AnswersAreItems, BatchesAreWellFormed DEF StoreOK
<1>4. \/ reply' = "Query" /\ stream' = stream
      \/ reply' = "Ok" /\ \E items \in Answers(entry) : stream' \in Streams(entry, items)
  BY <1>3 DEF Call
<1>5. UNCHANGED <<store, open, delivered, said>>
  BY DEF Call
<1>6. RepliesOK' /\ SaidOK'
  BY <1>4, <1>5 DEF RepliesOK, SaidOK
<1>7. StoreOK'
  BY <1>2, <1>5 DEF StoreOK
<1>8. StreamOK'
  <2>1. CASE stream' = stream
    BY <1>2, <2>1 DEF StreamOK
  <2>2. ASSUME NEW items \in Answers(entry), stream' \in Streams(entry, items)
        PROVE  StreamOK'
    <3>1. PICK m \in 0..(MaxBatches + 1) :
            \E d \in Cuts(m, Len(stream'.items)) : CutStream(stream', m, d)
      BY <1>1, <1>3, <2>2, StreamsAreCut
    <3>2. PICK c \in Cuts(m, Len(stream'.items)) : CutStream(stream', m, c)
      BY <3>1
    <3>3. stream'.taken = 0 /\ c[0] = 0
      BY <1>1, <1>3, <2>2, StreamsAreCut DEF Cuts
    <3>4. delivered' = RowsUpTo(stream'.entry, stream'.items, c[stream'.taken])
      BY <1>2, <1>5, <3>3 DEF RowsUpTo
    <3> QED BY <3>2, <3>4 DEF StreamOK
  <2> QED BY <1>4, <2>1, <2>2
<1> QED BY <1>6, <1>7, <1>8

LEMMA CutsAreOrdered ==
  ASSUME NEW n \in Nat, NEW m \in Nat, NEW c \in Cuts(m, n), NEW k \in 1..m
  PROVE  /\ k - 1 \in 0..m /\ k \in 0..m
         /\ c[k - 1] \in 0..n /\ c[k] \in 0..n /\ c[k - 1] <= c[k]
         /\ c[m] = n
BY DEF Cuts

\* The rows of the next batch continue the ones already read.
LEMMA NextRowsFollow ==
  ASSUME NEW entry, NEW items \in Seq(Items(entry)), NEW m \in Nat,
         NEW c \in Cuts(m, Len(items)), NEW k \in 1..m
  PROVE  RowsUpTo(entry, items, c[k - 1]) \o RowsOf(BatchesAt(entry, items, m, c)[k])
          = RowsUpTo(entry, items, c[k])
<1> DEFINE n == Len(items)
           a == c[k - 1]
           b == c[k]
           sub == SubSeq(items, a + 1, b)
           S == {RowOf(entry, item) : item \in Items(entry)}
           read == [i \in 1..a |-> RowOf(entry, items[i])]
           next == [i \in 1..(b - a) |-> RowOf(entry, items[a + i])]
           both == [i \in 1..b |-> RowOf(entry, items[i])]
<1>1. n \in Nat /\ \A i \in 1..n : items[i] \in Items(entry)
  BY LenProperties
<1>2. a \in 0..n /\ b \in 0..n /\ a <= b
  BY <1>1, CutsAreOrdered
<1> HIDE DEF a, b
<1>3. /\ sub \in Seq(Items(entry)) /\ Len(sub) = b - a
      /\ \A i \in 1..(b - a) : sub[i] = items[a + i]
  <2>1. a + 1 \in Int /\ b \in Int /\ \A i \in (a + 1)..b : items[i] \in Items(entry)
    BY <1>1, <1>2
  <2>2. /\ sub \in Seq(Items(entry))
        /\ Len(sub) = IF a + 1 <= b THEN b - (a + 1) + 1 ELSE 0
        /\ \A i \in 1..(b - (a + 1) + 1) : sub[i] = items[(a + 1) + i - 1]
    BY <2>1, SubSeqProperties
  <2> HIDE DEF sub
  <2> QED BY <1>2, <2>2
<1>4. RowsOf(BatchesAt(entry, items, m, c)[k]) = next
  <2>1. BatchesAt(entry, items, m, c)[k] = Batch(entry, sub)
    BY DEF BatchesAt, a, b
  <2>2. RowsOf(Batch(entry, sub)) = [i \in 1..Len(sub) |-> RowOf(entry, sub[i])]
    BY <1>3, RowsOfABatch
  <2> HIDE DEF sub
  <2> QED BY <1>3, <2>1, <2>2
<1>5. read \in Seq(S) /\ Len(read) = a
  <2>1. read \in [1..a -> S]
    BY <1>1, <1>2
  <2> QED BY <1>2, <2>1, TuplesAreSeqs
<1>6. next \in Seq(S) /\ Len(next) = b - a
  <2>1. next \in [1..(b - a) -> S]
    BY <1>1, <1>2
  <2>2. b - a \in Nat
    BY <1>2
  <2> QED BY <2>1, <2>2, TuplesAreSeqs
<1>7. both \in Seq(S) /\ Len(both) = b
  <2>1. both \in [1..b -> S]
    BY <1>1, <1>2
  <2> QED BY <1>2, <2>1, TuplesAreSeqs
<1>8. /\ read \o next \in Seq(S) /\ Len(read \o next) = b
      /\ \A i \in 1..b : (read \o next)[i] = both[i]
  <2>1. /\ read \o next \in Seq(S)
        /\ Len(read \o next) = a + (b - a)
        /\ \A i \in 1..(a + (b - a)) :
             (read \o next)[i] = IF i <= a THEN read[i] ELSE next[i - a]
    <3> HIDE DEF read, next, S
    <3>1. /\ read \o next \in Seq(S)
          /\ Len(read \o next) = Len(read) + Len(next)
          /\ \A i \in 1..(Len(read) + Len(next)) :
               (read \o next)[i] = IF i <= Len(read) THEN read[i] ELSE next[i - Len(read)]
      BY <1>5, <1>6, ConcatProperties
    <3>2. Len(read) = a /\ Len(next) = b - a
      BY <1>5, <1>6
    <3> QED BY <3>1, <3>2
  <2>2. \A i \in 1..b : (IF i <= a THEN read[i] ELSE next[i - a]) = both[i]
    BY <1>2
  <2> HIDE DEF read, next, both, S
  <2> QED BY <1>2, <2>1, <2>2
<1>9. read \o next = both
  <2> HIDE DEF read, next, both, S
  <2> QED BY <1>7, <1>8, SeqEqual
<1> QED BY <1>4, <1>9 DEF RowsUpTo, a, b

LEMMA GetNextInv ==
  ASSUME StreamInv, GetNext
  PROVE  StreamInv'
<1> DEFINE s == stream
           k == s.taken + 1
<1> USE BoundAssumption
<1>1. s # NoStream /\ s.taken < Len(s.batches)
  BY DEF GetNext
<1>2. PICK m \in 0..(MaxBatches + 1) : \E d \in Cuts(m, Len(s.items)) :
        /\ CutStream(s, m, d)
        /\ delivered = RowsUpTo(s.entry, s.items, d[s.taken])
  BY <1>1 DEF StreamInv, StreamOK
<1>3. PICK c \in Cuts(m, Len(s.items)) :
        /\ CutStream(s, m, c)
        /\ delivered = RowsUpTo(s.entry, s.items, c[s.taken])
  BY <1>2
<1>4. /\ s = [entry |-> s.entry, schema |-> s.schema, batches |-> s.batches,
              taken |-> s.taken, items |-> s.items]
      /\ s.entry \in Entries /\ s.items \in Seq(Items(s.entry))
      /\ s.batches = BatchesAt(s.entry, s.items, m, c)
      /\ s.taken \in 0..m
      /\ s.schema = Fields(s.entry) \/ (m = 0 /\ s.entry \in Typed)
  BY <1>3 DEF CutStream
<1>5. k \in 1..m /\ k - 1 = s.taken
  <2>1. m \in Nat
    OBVIOUS
  <2>2. Len(s.batches) = m
    BY <1>4, <2>1, BatchesHaveTheSchema
  <2> QED BY <1>1, <1>4, <2>2
<1>6. stream' = [entry |-> s.entry, schema |-> s.schema, batches |-> s.batches,
                 taken |-> k, items |-> s.items]
  BY <1>4 DEF GetNext
<1>7. delivered' = RowsUpTo(s.entry, s.items, c[k])
  <2>1. delivered' = delivered \o RowsOf(s.batches[k])
    BY DEF GetNext, NextBatch
  <2>2. RowsUpTo(s.entry, s.items, c[k - 1]) \o RowsOf(BatchesAt(s.entry, s.items, m, c)[k])
          = RowsUpTo(s.entry, s.items, c[k])
    <3>1. m \in Nat
      OBVIOUS
    <3> HIDE DEF s, k
    <3> QED BY <1>4, <1>5, <3>1, NextRowsFollow
  <2> HIDE DEF s, k
  <2> QED BY <1>3, <1>4, <1>5, <2>1, <2>2
<1>8. StreamOK'
  <2>1. CutStream(stream', m, c)
    <3> HIDE DEF s, k
    <3> QED BY <1>4, <1>5, <1>6 DEF CutStream
  <2>2. stream'.items = s.items /\ stream'.entry = s.entry /\ stream'.taken = k
    BY <1>6
  <2> HIDE DEF s, k
  <2> QED BY <1>7, <2>1, <2>2 DEF StreamOK
<1>9. SaidOK'
  <2> SUFFICES ASSUME NEW e \in said', e.by # "metric_series"
               PROVE  e.text = TextOf(e.set) /\ e.set = SetOf(e.text)
    BY DEF SaidOK
  <2>1. CASE e \in said
    BY <2>1 DEF StreamInv, SaidOK
  <2>2. CASE e \notin said
    <3>1. PICK i \in (Len(delivered) + 1)..Len(delivered'), col \in LabelColumns(s.entry) :
            e = [set |-> LabelSet(s.items[i]), text |-> delivered'[i][col].value, by |-> s.entry]
      BY <2>2 DEF GetNext
    <3>2. Len(s.items) \in Nat /\ \A j \in 1..Len(s.items) : s.items[j] \in Items(s.entry)
      BY <1>4, LenProperties
    <3>3. c[k] \in 0..Len(s.items) /\ c[k - 1] \in 0..Len(s.items)
      BY <1>5, <3>2, CutsAreOrdered
    <3>4. Len(delivered) = c[k - 1] /\ Len(delivered') = c[k]
      <4>1. \A n \in 0..Len(s.items) : Len(RowsUpTo(s.entry, s.items, n)) = n
        <5> TAKE n \in 0..Len(s.items)
        <5> DEFINE f == [j \in 1..n |-> RowOf(s.entry, s.items[j])]
                   S == {RowOf(s.entry, s.items[j]) : j \in 1..n}
        <5>1. f \in [1..n -> S] /\ n \in Nat
          BY <3>2
        <5> HIDE DEF f, S
        <5>2. Len(f) = n
          BY <5>1, TuplesAreSeqs
        <5> QED BY <5>2 DEF f, RowsUpTo
      <4> HIDE DEF s, k
      <4> QED BY <1>3, <1>5, <1>7, <3>3, <4>1
    <3>5. i \in 1..c[k] /\ s.items[i] \in Items(s.entry)
      <4> HIDE DEF s, k
      <4> QED BY <3>2, <3>3, <3>4
    <3>6. delivered'[i][col].value = LabelsToJson(s.items[i].pairs)
      <4>1. delivered'[i] = RowOf(s.entry, s.items[i])
        BY <1>7, <3>5 DEF RowsUpTo
      <4> QED BY <2>2, <3>1, <4>1, PartOfLabels
    <3> QED BY <3>1, <3>5, <3>6, LabelsAreTheirSet
  <2> QED BY <2>1, <2>2
<1>10. StoreOK' /\ RepliesOK'
  <2>1. UNCHANGED <<store, open, reply>>
    BY DEF GetNext
  <2>2. stream' # NoStream
    BY <1>6 DEF NoStream
  <2> QED BY <2>1, <2>2 DEF StreamInv, StoreOK, RepliesOK
<1> QED BY <1>8, <1>9, <1>10 DEF StreamInv

\* Neither the stream nor what was read of it is looked at by the writers.
LEMMA StoreInv ==
  ASSUME StreamInv, Free \/ \E r \in Rows : Ingest(r) \/ Retire(r)
  PROVE  StreamInv'
<1> USE DEF StreamInv
<1>1. UNCHANGED <<stream, delivered, reply, said>>
  BY DEF Free, Ingest, Retire
<1>2. StreamOK' /\ SaidOK'
  BY <1>1 DEF StreamOK, SaidOK
<1>3. open' \in BOOLEAN
  BY DEF Free, Ingest, Retire, RepliesOK
<1>4. store' \subseteq Rows /\ IsFiniteSet(store') /\ Cardinality(store') <= MaxStored
  <2>1. IsFiniteSet(store) /\ Cardinality(store) \in Nat /\ store \subseteq Rows
        /\ Cardinality(store) <= MaxStored /\ MaxStored \in Nat
    BY FS_CardinalityType, BoundAssumption DEF StoreOK
  <2>2. CASE Free
    BY <2>1, <2>2, FS_EmptySet DEF Free
  <2>3. ASSUME NEW r \in Rows, Ingest(r)
        PROVE  store' \subseteq Rows /\ IsFiniteSet(store') /\ Cardinality(store') <= MaxStored
    BY <2>1, <2>3, FS_AddElement DEF Ingest
  <2>4. ASSUME NEW r \in Rows, Retire(r)
        PROVE  store' \subseteq Rows /\ IsFiniteSet(store') /\ Cardinality(store') <= MaxStored
    <3>1. store' = store \ {r} /\ r \in store
      BY <2>4 DEF Retire
    <3>2. IsFiniteSet(store') /\ Cardinality(store') = Cardinality(store) - 1
      BY <2>1, <3>1, FS_RemoveElement
    <3> QED BY <2>1, <3>1, <3>2
  <2> QED BY <2>2, <2>3, <2>4
<1>5. StoreOK' /\ RepliesOK'
  BY <1>1, <1>3, <1>4 DEF StoreOK, RepliesOK
<1> QED BY <1>2, <1>5

LEMMA StreamNextInv == StreamInv /\ [StreamNext]_streamVars => StreamInv'
<1> SUFFICES ASSUME StreamInv, [StreamNext]_streamVars PROVE StreamInv'
  OBVIOUS
<1>1. CASE UNCHANGED streamVars
  BY <1>1 DEF streamVars, StreamInv, StoreOK, RepliesOK, StreamOK, SaidOK
<1>2. ASSUME NEW entry \in Asked, Call(entry) PROVE StreamInv'
  BY <1>2, CallInv
<1>3. CASE GetNext
  BY <1>3, GetNextInv
<1>4. CASE ReleaseStream
  BY <1>4 DEF ReleaseStream, StreamInv, StoreOK, RepliesOK, StreamOK, SaidOK
<1>5. CASE Free \/ \E r \in Rows : Ingest(r) \/ Retire(r)
  BY <1>5, StoreInv
<1> QED BY <1>1, <1>2, <1>3, <1>4, <1>5 DEF StreamNext

LEMMA StreamAlwaysInv == StreamSpec => []StreamInv
BY StreamInitInv, StreamNextInv, PTL DEF StreamSpec
-----------------------------------------------------------------------------
(* What follows from it *)

\* What the host has read, in terms of the answer.
LEMMA StreamIsTheAnswer ==
  ASSUME StreamInv, stream # NoStream
  PROVE  \E m \in Nat : \E n \in 0..Len(stream.items) :
           /\ Len(stream.items) \in Nat
           /\ Len(stream.batches) = m /\ stream.taken \in 0..m
           /\ \A k \in DOMAIN stream.batches :
                m # 0 /\ stream.batches[k].schema = Fields(stream.entry)
           /\ stream.schema = Fields(stream.entry) \/ (m = 0 /\ stream.entry \in Typed)
           /\ Len(delivered) = n /\ DOMAIN delivered = 1..n
           /\ \A i \in 1..n : delivered[i] = RowOf(stream.entry, stream.items[i])
           /\ m = 0 => n = 0
           /\ stream.taken = m => n = Len(stream.items)
<1> DEFINE s == stream
<1> USE BoundAssumption
<1>1. PICK m \in 0..(MaxBatches + 1) : \E d \in Cuts(m, Len(s.items)) :
        /\ CutStream(s, m, d)
        /\ delivered = RowsUpTo(s.entry, s.items, d[s.taken])
  BY DEF StreamInv, StreamOK
<1>2. PICK c \in Cuts(m, Len(s.items)) :
        /\ CutStream(s, m, c)
        /\ delivered = RowsUpTo(s.entry, s.items, c[s.taken])
  BY <1>1
<1>3. /\ s.items \in Seq(Items(s.entry))
      /\ s.batches = BatchesAt(s.entry, s.items, m, c)
      /\ s.taken \in 0..m
      /\ s.schema = Fields(s.entry) \/ (m = 0 /\ s.entry \in Typed)
  BY <1>2 DEF CutStream
<1>4. m \in Nat
  OBVIOUS
<1>5. Len(s.items) \in Nat /\ \A j \in 1..Len(s.items) : s.items[j] \in Items(s.entry)
  BY <1>3, LenProperties
<1> DEFINE n == c[s.taken]
<1>6. /\ n \in 0..Len(s.items)
      /\ m = 0 => n = 0
      /\ s.taken = m => n = Len(s.items)
  BY <1>3, <1>4, <1>5 DEF Cuts
<1>7. /\ Len(s.batches) = m
      /\ \A k \in DOMAIN s.batches : m # 0 /\ s.batches[k].schema = Fields(s.entry)
  BY <1>3, <1>4, BatchesHaveTheSchema
<1>8. Len(delivered) = n /\ DOMAIN delivered = 1..n
      /\ \A i \in 1..n : delivered[i] = RowOf(s.entry, s.items[i])
  <2> DEFINE S == {RowOf(s.entry, s.items[j]) : j \in 1..n}
  <2>1. delivered \in [1..n -> S] /\ \A i \in 1..n : delivered[i] = RowOf(s.entry, s.items[i])
    BY <1>2 DEF RowsUpTo
  <2>2. n \in Nat
    BY <1>5, <1>6
  <2> HIDE DEF S, n
  <2> QED BY <2>1, <2>2, TuplesAreSeqs
<1> HIDE DEF n, s
<1>9. /\ m \in Nat /\ n \in 0..Len(s.items)
      /\ Len(s.items) \in Nat
      /\ Len(s.batches) = m /\ s.taken \in 0..m
      /\ \A k \in DOMAIN s.batches : m # 0 /\ s.batches[k].schema = Fields(s.entry)
      /\ s.schema = Fields(s.entry) \/ (m = 0 /\ s.entry \in Typed)
      /\ Len(delivered) = n /\ DOMAIN delivered = 1..n
      /\ \A i \in 1..n : delivered[i] = RowOf(s.entry, s.items[i])
      /\ m = 0 => n = 0
      /\ s.taken = m => n = Len(s.items)
  BY <1>3, <1>4, <1>5, <1>6, <1>7, <1>8
<1> QED BY <1>9 DEF s

(***************************************************************************)
(* Whatever the engine answers and however it cuts the answer, all batches *)
(* of a stream have the schema it advertises, and no more of them are read *)
(* than there are (export_batches, export_batches_infer).                  *)
(***************************************************************************)
THEOREM StreamTypeCorrect == StreamSpec => []StreamTypeOK
<1>1. StreamInv => StreamTypeOK
  <2> SUFFICES ASSUME StreamInv PROVE StreamTypeOK
    OBVIOUS
  <2>1. /\ store \subseteq Rows /\ Cardinality(store) <= MaxStored
        /\ open \in BOOLEAN /\ reply \in {"Ok", "Arrow", "Query", "None"}
        /\ stream = NoStream => delivered = <<>>
    BY DEF StreamInv, StoreOK, RepliesOK
  <2>2. ASSUME stream # NoStream
        PROVE  /\ stream.taken \in 0..Len(stream.batches)
               /\ \A b \in Range(stream.batches) : b.schema = stream.schema
    BY <2>2, StreamIsTheAnswer DEF Range
  <2> QED BY <2>1, <2>2 DEF StreamTypeOK
<1> QED BY StreamAlwaysInv, <1>1, PTL

(***************************************************************************)
(* The columns of a catalog lookup have one length and only nullable ones  *)
(* have nulls, for any rows and any parts the engine leaves out: the error *)
(* of RecordBatch::try_new is never returned (discovery.rs, query.rs).     *)
(***************************************************************************)
THEOREM BatchesAlwaysBuild == StreamSpec => []BatchesBuild
<1>1. StreamInv => BatchesBuild
  BY DEF StreamInv, RepliesOK, BatchesBuild
<1> QED BY StreamAlwaysInv, <1>1, PTL

(***************************************************************************)
(* Row i of what the host reads is item i of the answer of the moment it   *)
(* asked, column by column, for any cut into batches and whatever happens  *)
(* to the store meanwhile; at the end no row is missing.                   *)
(***************************************************************************)
THEOREM HostReadsTheAnswer == StreamSpec => []ReadsTheAnswer
<1>1. StreamInv => ReadsTheAnswer
  <2> SUFFICES ASSUME StreamInv, stream # NoStream
               PROVE  /\ Len(delivered) <= Len(stream.items)
                      /\ \A i \in DOMAIN delivered : \A c \in DOMAIN stream.schema :
                           delivered[i][c] = PartOf(stream.entry, stream.items[i], stream.schema[c])
                      /\ stream.taken = Len(stream.batches) => Len(delivered) = Len(stream.items)
    BY DEF ReadsTheAnswer
  <2>1. PICK m \in Nat, n \in 0..Len(stream.items) :
           /\ Len(stream.items) \in Nat
           /\ Len(stream.batches) = m
           /\ stream.schema = Fields(stream.entry) \/ m = 0
           /\ Len(delivered) = n /\ DOMAIN delivered = 1..n
           /\ \A i \in 1..n : delivered[i] = RowOf(stream.entry, stream.items[i])
           /\ m = 0 => n = 0
           /\ stream.taken = m => n = Len(stream.items)
    BY StreamIsTheAnswer
  <2>2. ASSUME NEW i \in DOMAIN delivered, NEW c \in DOMAIN stream.schema
        PROVE  delivered[i][c] = PartOf(stream.entry, stream.items[i], stream.schema[c])
    <3>1. stream.schema = Fields(stream.entry)
      BY <2>1, <2>2
    <3>2. delivered[i] = RowOf(stream.entry, stream.items[i])
      BY <2>1, <2>2
    <3> QED BY <3>1, <3>2 DEF RowOf
  <2> QED BY <2>1, <2>2
<1> QED BY StreamAlwaysInv, <1>1, PTL

(***************************************************************************)
(* Every stream of a catalog lookup, of a query language's series and of a *)
(* SQL query has its columns, with rows or without.                        *)
(***************************************************************************)
THEOREM SchemasAreKnown == StreamSpec => []SchemaIsKnown
<1>1. StreamInv => SchemaIsKnown
  BY StreamIsTheAnswer DEF SchemaIsKnown
<1> QED BY StreamAlwaysInv, <1>1, PTL

(***************************************************************************)
(* For any attributes, two labels texts the host has ever read are equal   *)
(* exactly when they stand for one label set (canonical_json_object),      *)
(* those of metric_series aside.                                           *)
(***************************************************************************)
THEOREM LabelsAlwaysJoin == StreamSpec => []LabelsJoin
<1>1. StreamInv => LabelsJoin
  <2> SUFFICES ASSUME StreamInv, NEW a \in said, NEW b \in said, "metric_series" \notin {a.by, b.by}
               PROVE  Joins(a, b)
    BY DEF LabelsJoin
  <2>1. /\ a.text = TextOf(a.set) /\ a.set = SetOf(a.text)
        /\ b.text = TextOf(b.set) /\ b.set = SetOf(b.text)
    BY DEF StreamInv, SaidOK
  <2> QED BY <2>1 DEF Joins
<1> QED BY StreamAlwaysInv, <1>1, PTL
==============================================================================
