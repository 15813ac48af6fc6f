--------------------------- MODULE ReaderViewsProofs --------------------------
(***************************************************************************)
(* Proofs about ReaderViews, for any rows, any options the host may pass,  *)
(* any refresh policy of the engine and any bound on the ages.             *)
(***************************************************************************)
EXTENDS ReaderViews, TLAPS

Opened == OpenOptions \cup {ReadOnlyOpen}

\* A handle works with the settings made of the options it was opened with.
SetAsAsked(h) == h # Nothing => h.opts \in Opened /\ h.set = SettingsOf(h.opts)

\* A sealed row that the reader does not know of was sealed after it looked.
MissingIsNew ==
  reader # Nothing => \A r \in sealed : r \notin view => age[r] <= viewAge

IInv == TypeOK /\ SetAsAsked(writer) /\ SetAsAsked(reader) /\ MissingIsNew /\ FreshEnough

-----------------------------------------------------------------------------
(* build_options *)

LEMMA UnlessZeroTyped ==
  ASSUME NEW n \in Nat
  PROVE  UnlessZero(n) \in {Nothing} \cup (Nat \ {0})
BY DEF UnlessZero

LEMMA RefreshTyped ==
  ASSUME NEW o \in Options
  PROVE  RefreshOf(o) \in Policies
BY PolicyAssumption DEF RefreshOf, Policies, Options

(***************************************************************************)
(* Whatever the host passes, the engine is opened with settings it has a   *)
(* meaning for: no budget and no interval of 0.                            *)
(***************************************************************************)
LEMMA SettingsTyped ==
  ASSUME NEW o \in Opened
  PROVE  [opts |-> o, set |-> SettingsOf(o)] \in Handles
<1>1. CASE o = ReadOnlyOpen
  BY <1>1, PolicyAssumption DEF SettingsOf, Settings, Handles
<1>2. CASE o # ReadOnlyOpen
  <2>1. o \in Options
    BY <1>2, OptionsAssumption DEF Opened
  <2>2. SettingsOf(o) = BuildOptions(o)
    BY <1>2 DEF SettingsOf
  <2>3. /\ RefreshOf(o) \in Policies
        /\ UnlessZero(o.budget) \in {Nothing} \cup (Nat \ {0})
        /\ BackgroundOf(o) \in {Nothing} \cup (Nat \ {0})
        /\ o.stale \in BOOLEAN /\ Promotes(o) \in BOOLEAN
    BY <2>1, UnlessZeroTyped, RefreshTyped DEF Options, BackgroundOf, Promotes
  <2>4. BuildOptions(o) \in Settings
    BY <2>3 DEF BuildOptions, Settings
  <2>5. QED
    BY <2>1, <2>2, <2>4 DEF Handles
<1>3. QED
  BY <1>1, <1>2

-----------------------------------------------------------------------------
LEMMA InitHolds == Init => IInv
BY AgeAssumption DEF Init, IInv, TypeOK, SetAsAsked, MissingIsNew, FreshEnough, NoAnswer

LEMMA OpenKeeps ==
  ASSUME IInv, NEW o \in Opened, Open(o)
  PROVE  IInv'
<1> DEFINE h == [opts |-> o, set |-> SettingsOf(o)]
<1>1. h \in Handles /\ h # Nothing
  BY SettingsTyped, NothingAssumption
<1>2. h.opts = o /\ h.set = SettingsOf(o)
  OBVIOUS
<1>3. CASE h.set.access = "ReadOnly"
  <2>1. /\ reader' = h /\ view' = sealed /\ viewAge' = 0 /\ answer' = NoAnswer
        /\ UNCHANGED <<writer, rows>>
    BY <1>3 DEF Open
  <2> HIDE DEF h
  <2>2. QED
    BY <1>1, <1>2, <2>1, AgeAssumption
    DEF IInv, TypeOK, SetAsAsked, MissingIsNew, FreshEnough, NoAnswer, rows
<1>4. CASE h.set.access # "ReadOnly"
  <2>1. writer' = h /\ UNCHANGED <<reader, eyes, rows>>
    BY <1>4 DEF Open
  <2> HIDE DEF h
  <2>2. QED
    BY <1>1, <1>2, <2>1 DEF IInv, TypeOK, SetAsAsked, MissingIsNew, FreshEnough, rows, eyes
<1>5. QED
  BY <1>3, <1>4

LEMMA IngestKeeps ==
  ASSUME IInv, NEW r \in Rows, Ingest(r)
  PROVE  IInv'
BY DEF Ingest, eyes, IInv, TypeOK, SetAsAsked, MissingIsNew, FreshEnough

LEMMA RetireKeeps ==
  ASSUME IInv, NEW r \in Rows, Retire(r)
  PROVE  IInv'
BY DEF Retire, eyes, IInv, TypeOK, SetAsAsked, MissingIsNew, FreshEnough

(***************************************************************************)
(* A row that is sealed now is of age 0, younger than any view.            *)
(***************************************************************************)
LEMMA SealKeeps ==
  ASSUME IInv, Seal, UNCHANGED <<reader, gone, eyes>>,
         writer' = writer \/ writer' = Nothing
  PROVE  IInv'
<1>1. TypeOK'
  BY AgeAssumption DEF IInv, TypeOK, Seal, eyes
<1>2. MissingIsNew'
  BY DEF IInv, TypeOK, MissingIsNew, Seal, eyes
<1>3. SetAsAsked(writer)' /\ SetAsAsked(reader)' /\ FreshEnough'
  BY DEF IInv, SetAsAsked, FreshEnough, eyes
<1>4. QED
  BY <1>1, <1>2, <1>3 DEF IInv

LEMMA FreeReaderKeeps ==
  ASSUME IInv, FreeReader
  PROVE  IInv'
BY AgeAssumption
DEF FreeReader, rows, IInv, TypeOK, SetAsAsked, MissingIsNew, FreshEnough, NoAnswer

(***************************************************************************)
(* The clock ages rows and views alike, up to the bound.                   *)
(***************************************************************************)
LEMMA TickKeeps ==
  ASSUME IInv, Tick
  PROVE  IInv'
<1>1. \A m, n \in 0..OldAge : /\ Older(m) \in 0..OldAge
                              /\ m <= n => Older(m) <= Older(n)
  BY AgeAssumption DEF Older
<1>2. TypeOK'
  BY <1>1 DEF Tick, IInv, TypeOK
<1>3. MissingIsNew'
  BY <1>1 DEF Tick, IInv, TypeOK, MissingIsNew
<1>4. SetAsAsked(writer)' /\ SetAsAsked(reader)' /\ FreshEnough'
  BY DEF Tick, IInv, SetAsAsked, FreshEnough
<1>5. QED
  BY <1>2, <1>3, <1>4 DEF IInv

(***************************************************************************)
(* A reader that does not look although it gave a time to live has looked  *)
(* within it, so that whatever it misses is younger than it owes.          *)
(***************************************************************************)
LEMMA AnswersWhatIsOwed ==
  ASSUME IInv, Query
  PROVE  Owed(reader.opts) \subseteq view'
<1> DEFINE o == reader.opts
<1>1. o \in Opened /\ reader.set = SettingsOf(o)
  BY DEF Query, IInv, SetAsAsked
<1>2. CASE o = ReadOnlyOpen
  BY <1>2 DEF Owed
<1>3. CASE o # ReadOnlyOpen
  <2>1. o \in Options
    BY <1>1, <1>3, OptionsAssumption DEF Opened
  <2>2. reader.set.refresh = RefreshOf(o)
    BY <1>1, <1>3 DEF SettingsOf, BuildOptions
  <2>3. CASE o.refresh = "OnQuery"
    <3>1. Due
      BY <2>2, <2>3 DEF Due, RefreshOf
    <3>2. QED
      BY <1>3, <2>3, <3>1 DEF Query, Owed
  <2>4. CASE o.refresh = "Ttl"
    <3>1. Due <=> viewAge > o.ttl
      BY <2>2, <2>4 DEF Due, RefreshOf
    <3>2. Owed(o) = {r \in sealed : age[r] > o.ttl}
      BY <1>3, <2>4 DEF Owed
    <3>3. o.ttl \in Nat /\ viewAge \in Nat /\ \A r \in sealed : age[r] \in Nat
      BY <2>1, AgeAssumption DEF Options, IInv, TypeOK
    <3>4. CASE ~Due
      BY <3>1, <3>2, <3>3, <3>4 DEF Query, IInv, MissingIsNew
    <3>5. CASE Due
      BY <3>2, <3>5 DEF Query
    <3>6. QED
      BY <3>4, <3>5
  <2>5. CASE o.refresh \notin {"OnQuery", "Ttl"}
    BY <2>5 DEF Owed
  <2>6. QED
    BY <2>3, <2>4, <2>5
<1>4. QED
  BY <1>2, <1>3

LEMMA QueryKeeps ==
  ASSUME IInv, Query
  PROVE  IInv'
<1>1. FreshEnough'
  BY AnswersWhatIsOwed DEF Query, FreshEnough
<1>2. TypeOK'
  BY AgeAssumption DEF Query, rows, IInv, TypeOK
<1>3. MissingIsNew' /\ SetAsAsked(writer)' /\ SetAsAsked(reader)'
  BY DEF Query, rows, IInv, TypeOK, MissingIsNew, SetAsAsked
<1>4. QED
  BY <1>1, <1>2, <1>3 DEF IInv

LEMMA StepHolds == IInv /\ [Next]_vars => IInv'
<1> SUFFICES ASSUME IInv, [Next]_vars PROVE IInv'
  OBVIOUS
<1>1. CASE \E o \in Opened : Open(o)
  BY <1>1, OpenKeeps
<1>2. CASE \E r \in Rows : Ingest(r) \/ Retire(r)
  BY <1>2, IngestKeeps, RetireKeeps
<1>3. CASE Flush \/ Maintenance \/ FreeWriter
  BY <1>3, SealKeeps DEF Flush, Maintenance, FreeWriter
<1>4. CASE UNCHANGED vars
  BY <1>4 DEF vars, rows, eyes, IInv, TypeOK, SetAsAsked, MissingIsNew, FreshEnough
<1>5. QED
  BY <1>1, <1>2, <1>3, <1>4, FreeReaderKeeps, TickKeeps, QueryKeeps DEF Next, Opened

LEMMA AlwaysIInv == Spec => []IInv
BY InitHolds, StepHolds, PTL DEF Spec

(***************************************************************************)
(* Both handles always work with settings the engine has a meaning for,    *)
(* and no row is in two places.                                            *)
(***************************************************************************)
THEOREM TypeCorrect == Spec => []TypeOK
<1>1. IInv => TypeOK
  BY DEF IInv
<1>2. QED
  BY <1>1, AlwaysIInv, PTL

(***************************************************************************)
(* No answer is staler than the refresh policy the reader asked for.       *)
(***************************************************************************)
THEOREM AnswersAreFresh == Spec => []FreshEnough
<1>1. IInv => FreshEnough
  BY DEF IInv
<1>2. QED
  BY <1>1, AlwaysIInv, PTL

-----------------------------------------------------------------------------
LEMMA ManualStaysFixed ==
  ASSUME IInv, [Next]_vars,
         reader # Nothing, reader' = reader, reader.opts # ReadOnlyOpen,
         reader.opts.refresh = "Manual"
  PROVE  view' = view
<1>1. ~Due
  BY DEF Due, IInv, SetAsAsked, SettingsOf, BuildOptions, RefreshOf
<1>2. CASE Query
  BY <1>1, <1>2 DEF Query
<1>3. CASE \E o \in Opened : Open(o)
  <2>1. PICK o \in Opened : Open(o)
    BY <1>3
  <2>2. QED
    BY <2>1 DEF Open, eyes
<1>4. CASE FreeReader
  BY <1>4 DEF FreeReader
<1>5. QED
  BY <1>2, <1>3, <1>4
  DEF Next, Opened, Ingest, Retire, Flush, Maintenance, FreeWriter, Tick, vars, eyes

(***************************************************************************)
(* Nothing but a reopening moves the view of a MANUAL reader.              *)
(***************************************************************************)
THEOREM ManualReadersStay == Spec => ManualIsFixed
<1>1. IInv /\ [Next]_vars =>
        [reader # Nothing /\ reader' = reader /\ reader.opts # ReadOnlyOpen
           /\ reader.opts.refresh = "Manual" => view' = view]_vars
  BY ManualStaysFixed
<1>2. QED
  BY <1>1, AlwaysIInv, PTL DEF Spec, ManualIsFixed
=============================================================================
