--------------------------- MODULE StoreAdminProofs ---------------------------
(***************************************************************************)
(* StoreAdmin, for any rows, windows, edges and snapshot directories.      *)
(***************************************************************************)
EXTENDS StoreAdmin, FiniteSetTheorems, TLAPS

-----------------------------------------------------------------------------
(* The store *)

\* A segment has rows of one table.
Pure(segs) == \A s \in segs : \A r, q \in s : r.table = q.table

\* No row is in two segments.
Apart(segs) == \A s, u \in segs : s # u => s \cap u = {}

StoreOK ==
  /\ buffer \subseteq Rows
  /\ segments \subseteq ((SUBSET Rows) \ {{}})
  /\ Pure(segments) /\ Apart(segments)
  /\ \A s \in segments : s \cap buffer = {}
  /\ flushed \subseteq SealedRows

\* Sealing loses no row of the buffer, and keeps the segments what they are.
LEMMA SealingKeeps ==
  ASSUME StoreOK
  PROVE  /\ UNION Sealing = buffer
         /\ segments \cup Sealing \subseteq ((SUBSET Rows) \ {{}})
         /\ Pure(segments \cup Sealing) /\ Apart(segments \cup Sealing)
<1>1. UNION Sealing \subseteq buffer
  BY DEF Sealing
<1>2. buffer \subseteq UNION Sealing
  <2> SUFFICES ASSUME NEW r \in buffer PROVE r \in UNION Sealing
    OBVIOUS
  <2>1. r.table \in Tables
    BY RowsAssumption DEF StoreOK
  <2>2. {q \in buffer : q.table = r.table} \in Sealing
    BY <2>1 DEF Sealing
  <2> QED BY <2>2
<1>3. segments \cup Sealing \subseteq ((SUBSET Rows) \ {{}})
  BY DEF StoreOK, Sealing
<1>4. Pure(segments \cup Sealing)
  <2>1. \A s \in Sealing : \A r, q \in s : r.table = q.table
    BY DEF Sealing
  <2> QED BY <2>1 DEF StoreOK, Pure
<1>5. \A s, u \in Sealing : s # u => s \cap u = {}
  <2> SUFFICES ASSUME NEW t \in Tables, NEW v \in Tables,
                      {r \in buffer : r.table = t} # {r \in buffer : r.table = v}
               PROVE  {r \in buffer : r.table = t} \cap {r \in buffer : r.table = v} = {}
    BY DEF Sealing
  <2>1. t # v
    OBVIOUS
  <2> QED BY <2>1
<1>6. \A s \in segments, u \in Sealing : s \cap u = {}
  BY <1>1 DEF StoreOK
<1>7. Apart(segments \cup Sealing)
  BY <1>5, <1>6 DEF StoreOK, Apart
<1> QED BY <1>1, <1>2, <1>3, <1>4, <1>7

LEMMA IngestKeepsStore == ASSUME StoreOK, NEW r \in Rows, Ingest(r) PROVE StoreOK'
BY DEF StoreOK, Ingest, Pure, Apart, SealedRows, Stored

LEMMA FlushKeepsStore == ASSUME StoreOK, Flush PROVE StoreOK'
<1>1. segments' = segments \cup Sealing /\ buffer' = {} /\ flushed' = flushed \cup buffer
  BY DEF Flush
<1> QED BY <1>1, SealingKeeps DEF StoreOK, SealedRows

LEMMA MaintainKeepsStore == ASSUME StoreOK, Maintain PROVE StoreOK'
<1>1. PICK dropped \in SUBSET (segments \cup Sealing) :
             /\ segments' = (segments \cup Sealing) \ dropped
             /\ flushed' = (flushed \cup buffer) \ UNION dropped
  BY DEF Maintain
<1>2. buffer' = {}
  BY DEF Maintain
<1>3. Pure(segments') /\ Apart(segments')
  BY <1>1, SealingKeeps DEF Pure, Apart
<1>4. flushed' \subseteq UNION segments'
  BY <1>1, SealingKeeps DEF StoreOK, SealedRows
<1> QED BY <1>1, <1>2, <1>3, <1>4, SealingKeeps DEF StoreOK, SealedRows

LEMMA CompactKeepsStore == ASSUME StoreOK, Compact PROVE StoreOK'
<1>1. PICK some \in SUBSET segments :
             /\ Cardinality(some) > 1
             /\ \A r, q \in UNION some : r.table = q.table
             /\ segments' = (segments \ some) \cup {UNION some}
  BY DEF Compact
<1>2. buffer' = buffer /\ flushed' = flushed
  BY DEF Compact
<1>3. UNION segments' = UNION segments
  BY <1>1
<1>4. some # {}
  <2> SUFFICES ASSUME some = {} PROVE FALSE
    OBVIOUS
  <2>1. Cardinality(some) = 0
    BY FS_EmptySet
  <2>2. Cardinality(some) > 1
    BY <1>1
  <2> QED BY <2>1, <2>2
<1>5. UNION some \in (SUBSET Rows) \ {{}}
  BY <1>4 DEF StoreOK
<1>6. Pure(segments')
  BY <1>1 DEF StoreOK, Pure
<1>7. \A s \in segments \ some : s \cap UNION some = {}
  BY DEF StoreOK, Apart
<1>8. Apart(segments')
  <2> SUFFICES ASSUME NEW s \in segments', NEW u \in segments', s # u PROVE s \cap u = {}
    BY DEF Apart
  <2>1. CASE s = UNION some \/ u = UNION some
    BY <1>1, <1>7, <2>1
  <2>2. CASE s # UNION some /\ u # UNION some
    BY <1>1, <2>2 DEF StoreOK, Apart
  <2> QED BY <2>1, <2>2
<1>9. (UNION some) \cap buffer = {}
  BY DEF StoreOK
<1> QED BY <1>1, <1>2, <1>3, <1>5, <1>6, <1>8, <1>9 DEF StoreOK, SealedRows

\* What a step of the store is, and that every other step leaves it as it is.
StoreSteps == (\E r \in Rows : Ingest(r)) \/ Flush \/ Maintain \/ Compact

LEMMA StoreStepsKeepStore == StoreOK /\ StoreSteps => StoreOK'
BY IngestKeepsStore, FlushKeepsStore, MaintainKeepsStore, CompactKeepsStore DEF StoreSteps

LEMMA OthersLook ==
  ASSUME [Next]_vars
  PROVE  StoreSteps \/ UNCHANGED <<buffer, segments, flushed>>
BY DEF Next, StoreSteps, vars, Looks, Snapshot, ListSegments, ListFiles, Stats, TableStats,
       Export, StartTiling, ExportPart, EndTiling

LEMMA StoreUnchanged == StoreOK /\ UNCHANGED <<buffer, segments, flushed>> => StoreOK'
BY DEF StoreOK, SealedRows, Pure, Apart

\* A step of the store takes back the reply and touches no snapshot.
LEMMA StoreStepsReply ==
  StoreSteps => reply' = Nothing /\ Remaining /\ UNCHANGED <<snaps, owed>>
BY DEF StoreSteps, Ingest, Flush, Maintain, Compact, StoreStep
-----------------------------------------------------------------------------
(* Replies and snapshots *)

SnapsOK ==
  /\ DOMAIN snaps = Dirs /\ DOMAIN owed = Dirs
  /\ \A d \in Dirs : snaps[d] = Nothing \/ snaps[d] \subseteq SUBSET Rows
  /\ Is("snapshot") => reply.dir \in Dirs

IInv == StoreOK /\ SnapsOK /\ SnapshotKeepsFlushed /\ ExportsWhatWasAsked

\* Only a row of the window asked for is exported, and every one is.
LEMMA WindowIsRange ==
  ASSUME NEW w \in Int \X Int, NEW t \in Int
  PROVE  Within(RangeOf(w[1], w[2]), t) <=> (w = <<0, 0>> \/ (w[1] <= t /\ t < w[2]))
<1>1. w = <<w[1], w[2]>>
  OBVIOUS
<1>2. CASE w[1] = 0 /\ w[2] = 0
  BY <1>1, <1>2 DEF Within, RangeOf
<1>3. CASE ~(w[1] = 0 /\ w[2] = 0)
  BY <1>3 DEF Within, RangeOf
<1> QED BY <1>2, <1>3

LEMMA InitInv == Init => IInv
BY DEF Init, IInv, StoreOK, SnapsOK, SnapshotKeepsFlushed, ExportsWhatWasAsked, SealedRows,
       Pure, Apart, Is

LEMMA SnapshotKeeps == ASSUME IInv, NEW dir \in Dirs, Snapshot(dir) PROVE IInv'
<1>1. /\ snaps' = [snaps EXCEPT ![dir] = segments] /\ owed' = [owed EXCEPT ![dir] = flushed]
      /\ reply' = [of |-> "snapshot", dir |-> dir, segments |-> Cardinality(segments)]
      /\ UNCHANGED <<buffer, segments, flushed>>
  BY DEF Snapshot, Looks
<1>2. StoreOK'
  BY <1>1, StoreUnchanged DEF IInv
<1>3. snaps'[dir] = segments /\ owed'[dir] = flushed
  BY <1>1 DEF IInv, SnapsOK
<1>4. \A d \in Dirs \ {dir} : snaps'[d] = snaps[d] /\ owed'[d] = owed[d]
  BY <1>1 DEF IInv, SnapsOK
<1>5. SnapsOK'
  BY <1>1, <1>3, <1>4 DEF IInv, SnapsOK, StoreOK
<1>6. SnapshotKeepsFlushed'
  BY <1>1, <1>3, <1>4 DEF IInv, SnapshotKeepsFlushed, StoreOK, SealedRows
<1>7. ExportsWhatWasAsked'
  BY <1>1 DEF ExportsWhatWasAsked, Is
<1> QED BY <1>2, <1>5, <1>6, <1>7 DEF IInv

LEMMA ExportKeeps ==
  ASSUME IInv, NEW c \in AskedTables, NEW w \in Windows, Export(c, w)
  PROVE  IInv'
<1>1. /\ reply' = [of |-> "export", table |-> c, window |-> w, rows |-> ExportOf(c, w[1], w[2])]
      /\ UNCHANGED <<buffer, segments, flushed, snaps, owed>>
  BY DEF Export, Looks
<1>2. StoreOK'
  BY <1>1, StoreUnchanged DEF IInv
<1>3. SnapsOK' /\ SnapshotKeepsFlushed'
  BY <1>1 DEF IInv, SnapsOK, SnapshotKeepsFlushed, Is
<1>4. Stored \subseteq Rows /\ Stored' = Stored
  BY <1>1 DEF IInv, StoreOK, Stored, SealedRows
<1>5. ExportOf(c, w[1], w[2]) =
        {r \in Stored : /\ r.table = TableNames[c]
                        /\ w = <<0, 0>> \/ (w[1] <= r.time /\ r.time < w[2])}
  BY <1>4, WindowIsRange, RowsAssumption, WindowsAssumption
  DEF ExportOf, InTable, TableOf
<1>6. ExportsWhatWasAsked'
  BY <1>1, <1>4, <1>5 DEF ExportsWhatWasAsked
<1> QED BY <1>2, <1>3, <1>6 DEF IInv

\* A step that is neither keeps snapshots, and answers something else or nothing.
LEMMA RestKeeps ==
  ASSUME IInv, StoreOK', UNCHANGED <<snaps, owed>>, ~Is("export")', ~Is("snapshot")'
  PROVE  IInv'
BY DEF IInv, SnapsOK, SnapshotKeepsFlushed, ExportsWhatWasAsked

LEMMA NextInv == IInv /\ [Next]_vars => IInv'
<1> SUFFICES ASSUME IInv, [Next]_vars PROVE IInv'
  OBVIOUS
<1>1. StoreOK'
  BY OthersLook, StoreStepsKeepStore, StoreUnchanged DEF IInv
<1>2. CASE StoreSteps
  BY <1>1, <1>2, StoreStepsReply, RestKeeps DEF Is
<1>3. CASE \E d \in Dirs : Snapshot(d)
  BY <1>3, SnapshotKeeps
<1>4. CASE \E c \in AskedTables : \E w \in Windows : Export(c, w)
  BY <1>4, ExportKeeps
<1>5. CASE \/ ListSegments \/ Stats \/ \E c \in AskedTables : ListFiles(c) \/ TableStats(c)
  BY <1>1, <1>5, RestKeeps DEF ListSegments, Stats, ListFiles, TableStats, Is
<1>6. CASE EndTiling \/ \E e \in Edges : ExportPart(e) \/ \E c \in TiledTables : StartTiling(c, e)
  BY <1>1, <1>6, RestKeeps DEF EndTiling, ExportPart, StartTiling, Is
<1>7. CASE UNCHANGED vars
  BY <1>1, <1>7 DEF vars, IInv, SnapsOK, SnapshotKeepsFlushed, ExportsWhatWasAsked, Is,
                    Stored, SealedRows
<1> QED BY <1>2, <1>3, <1>4, <1>5, <1>6, <1>7 DEF Next, StoreSteps

LEMMA AlwaysInv == Spec => []IInv
<1>1. Init => IInv
  BY InitInv
<1>2. IInv /\ [Next]_vars => IInv'
  BY NextInv
<1> QED BY <1>1, <1>2, PTL DEF Spec

(***************************************************************************)
(* Whatever is merged or dropped later, a snapshot keeps every row that    *)
(* was flushed before it.                                                  *)
(***************************************************************************)
THEOREM SnapshotsKeepFlushed == Spec => []SnapshotKeepsFlushed
<1>1. IInv => SnapshotKeepsFlushed
  BY DEF IInv
<1> QED BY <1>1, AlwaysInv, PTL

(***************************************************************************)
(* An export is of the table and the window asked for, on either side of   *)
(* the epoch.                                                              *)
(***************************************************************************)
THEOREM ExportsAreAsked == Spec => []ExportsWhatWasAsked
<1>1. IInv => ExportsWhatWasAsked
  BY DEF IInv
<1> QED BY <1>1, AlwaysInv, PTL
-----------------------------------------------------------------------------
(* Exporting in parts *)

\* A row exported so far lies before the edge; one that stayed, after the start and before
\* the edge has been exported.
TilingOK ==
  tiling # Nothing =>
    /\ tiling.table \in TiledTables
    /\ tiling.from \in Edges /\ tiling.edge \in Edges
    /\ tiling.got \in [Rows -> {0, 1}]
    /\ tiling.stayed \subseteq Stored
    /\ \A r \in Rows :
         /\ tiling.got[r] = 1 => r.time < tiling.edge
         /\ (/\ r \in tiling.stayed /\ r.table = TableNames[tiling.table]
             /\ tiling.from <= r.time /\ r.time < tiling.edge) => tiling.got[r] = 1

LEMMA InitTiling == Init => TilingOK
BY DEF Init, TilingOK

LEMMA StartKeepsTiling ==
  ASSUME StoreOK, NEW c \in TiledTables, NEW from \in Edges, StartTiling(c, from)
  PROVE  TilingOK'
<1>1. tiling' = [table |-> c, from |-> from, edge |-> from, got |-> [r \in Rows |-> 0],
                 stayed |-> Stored]
  BY DEF StartTiling
<1>2. Stored' = Stored
  BY DEF StartTiling, Looks, Stored, SealedRows
<1>3. \A r \in Rows : ~(from <= r.time /\ r.time < from)
  BY RowsAssumption, EdgesAssumption
<1> QED BY <1>1, <1>2, <1>3 DEF TilingOK

LEMMA PartKeepsTiling ==
  ASSUME StoreOK, TilingOK, NEW to \in Edges, ExportPart(to)
  PROVE  TilingOK'
<1> DEFINE part == ExportOf(tiling.table, tiling.edge, to)
           got  == [r \in Rows |-> tiling.got[r] + (IF r \in part THEN 1 ELSE 0)]
<1>1. tiling # Nothing /\ to > tiling.edge
  BY DEF ExportPart
<1>2. /\ tiling.table \in TiledTables /\ tiling.from \in Edges /\ tiling.edge \in Edges
      /\ tiling.got \in [Rows -> {0, 1}] /\ tiling.stayed \subseteq Stored
  BY <1>1 DEF TilingOK
<1>3. /\ tiling'.table = tiling.table /\ tiling'.from = tiling.from
      /\ tiling'.edge = to /\ tiling'.stayed = tiling.stayed /\ tiling'.got = got
  BY DEF ExportPart
<1>4. Stored' = Stored /\ Stored \subseteq Rows
  BY DEF ExportPart, Looks, Stored, SealedRows, StoreOK
<1>5. \A r \in Rows : r \in part <=> /\ r \in Stored /\ r.table = TableNames[tiling.table]
                                     /\ tiling.edge <= r.time /\ r.time < to
  BY <1>1, <1>2, RowsAssumption, EdgesAssumption
  DEF ExportOf, InTable, TableOf, Within, RangeOf
<1>6. ASSUME NEW r \in Rows
      PROVE  /\ got[r] \in {0, 1}
             /\ got[r] = 1 => r.time < to
             /\ (/\ r \in tiling.stayed /\ r.table = TableNames[tiling.table]
                 /\ tiling.from <= r.time /\ r.time < to) => got[r] = 1
  <2>1. r.time \in Int /\ tiling.edge \in Int /\ tiling.from \in Int /\ to \in Int
    BY <1>2, RowsAssumption, EdgesAssumption
  <2>2. tiling.got[r] \in {0, 1}
    BY <1>2
  <2>3. tiling.got[r] = 1 => r.time < tiling.edge
    BY <1>1 DEF TilingOK
  <2>4. (/\ r \in tiling.stayed /\ r.table = TableNames[tiling.table]
         /\ tiling.from <= r.time /\ r.time < tiling.edge) => tiling.got[r] = 1
    BY <1>1 DEF TilingOK
  <2>5. got[r] = IF r \in part THEN tiling.got[r] + 1 ELSE tiling.got[r]
    BY <2>2
  <2> HIDE DEF got, part
  <2>6. CASE r \in part
    BY <1>1, <1>5, <2>1, <2>2, <2>3, <2>5, <2>6
  <2>7. CASE r \notin part
    BY <1>1, <1>2, <1>5, <2>1, <2>2, <2>3, <2>4, <2>5, <2>7
  <2> QED BY <2>6, <2>7
<1>7. got \in [Rows -> {0, 1}]
  BY <1>6
<1> HIDE DEF got, part
<1> QED BY <1>2, <1>3, <1>4, <1>6, <1>7 DEF TilingOK

LEMMA RemainingKeepsTiling ==
  ASSUME TilingOK, Remaining
  PROVE  TilingOK'
<1>1. CASE tiling = Nothing
  BY <1>1 DEF Remaining, TilingOK
<1>2. CASE tiling # Nothing
  <2>1. tiling' = [tiling EXCEPT !.stayed = @ \cap UNION (segments' \cup {buffer'})]
    BY <1>2 DEF Remaining
  <2>2. UNION (segments' \cup {buffer'}) = Stored'
    BY DEF Stored, SealedRows
  <2>3. CASE tiling' = Nothing
    BY <2>3 DEF TilingOK
  <2>4. /\ tiling'.table = tiling.table /\ tiling'.from = tiling.from
        /\ tiling'.edge = tiling.edge /\ tiling'.got = tiling.got
        /\ tiling'.stayed \subseteq tiling.stayed /\ tiling'.stayed \subseteq Stored'
    BY <2>1, <2>2
  <2> QED BY <1>2, <2>4 DEF TilingOK
<1> QED BY <1>1, <1>2

LEMMA NextTiling == StoreOK /\ TilingOK /\ [Next]_vars => TilingOK'
<1> SUFFICES ASSUME StoreOK, TilingOK, [Next]_vars PROVE TilingOK'
  OBVIOUS
<1>1. CASE StoreSteps
  BY <1>1, StoreStepsReply, RemainingKeepsTiling
<1>2. CASE \E e \in Edges : ExportPart(e)
  BY <1>2, PartKeepsTiling
<1>3. CASE \E e \in Edges : \E c \in TiledTables : StartTiling(c, e)
  BY <1>3, StartKeepsTiling
<1>4. CASE EndTiling
  BY <1>4 DEF EndTiling, TilingOK
<1>5. CASE UNCHANGED <<tiling, buffer, segments>>
  BY <1>5 DEF TilingOK, Stored, SealedRows
<1>6. \/ StoreSteps \/ EndTiling \/ UNCHANGED <<tiling, buffer, segments>>
      \/ \E e \in Edges : ExportPart(e) \/ \E c \in TiledTables : StartTiling(c, e)
  BY DEF Next, StoreSteps, vars, Looks, Snapshot, ListSegments, ListFiles, Stats, TableStats,
         Export
<1> QED BY <1>1, <1>2, <1>3, <1>4, <1>5, <1>6

LEMMA AlwaysTiling == Spec => []TilingOK
<1>1. Init => TilingOK
  BY InitTiling
<1>2. IInv /\ TilingOK /\ [Next]_vars => TilingOK'
  BY NextTiling DEF IInv
<1> QED BY <1>1, <1>2, AlwaysInv, PTL DEF Spec

(***************************************************************************)
(* Adjacent windows, wherever they are cut and whatever the store does     *)
(* between them, give no row twice and miss none that stayed.              *)
(***************************************************************************)
THEOREM AdjacentPartsAddUp == Spec => []PartsAddUp
<1>1. TilingOK => PartsAddUp
  BY DEF TilingOK, PartsAddUp
<1> QED BY <1>1, AlwaysTiling, PTL

(***************************************************************************)
(* Types; segments are of one table each, and no row is stored twice.      *)
(***************************************************************************)
THEOREM TypeCorrect == Spec => []TypeOK
<1>1. IInv /\ TilingOK => TypeOK
  BY TablesAssumption
  DEF IInv, TilingOK, StoreOK, SnapsOK, TypeOK, SealedRows, Stored, Pure, Apart
<1> QED BY <1>1, AlwaysInv, AlwaysTiling, PTL
-----------------------------------------------------------------------------
(* Sums over the tables *)

\* The element a fold takes next.
Pick(s) == CHOOSE y \in s : TRUE

\* The sum of f over s, from that over what is left of it.
SumStep(f, g, s) == IF s = {} THEN 0 ELSE f[Pick(s)] + g[s \ {Pick(s)}]

\* A fold is a recursive function, of which there is one because the set is finite.
LEMMA FoldUnfolds ==
  ASSUME NEW f
  PROVE  FoldFunction(+, 0, f)
           = (CHOOSE it : it = [s \in SUBSET (DOMAIN f) |-> SumStep(f, it, s)])[DOMAIN f]
BY Zenon DEF FoldFunction, FoldFunctionOnSet, MapThenFoldSet, SumStep, Pick

SumUpTo(K, f, n) ==
  \E g \in [SUBSET K -> Nat] :
    \A s \in SUBSET K : Cardinality(s) <= n => g[s] = SumStep(f, g, s)

LEMMA SumsExist ==
  ASSUME NEW K, IsFiniteSet(K), NEW f \in [K -> Nat], NEW n \in Nat
  PROVE  SumUpTo(K, f, n)
<1>1. \A s \in SUBSET K : IsFiniteSet(s) /\ Cardinality(s) \in Nat
  BY FS_Subset, FS_CardinalityType
<1>2. SumUpTo(K, f, 0)
  <2> DEFINE g == [s \in SUBSET K |-> 0]
  <2>1. \A s \in SUBSET K : Cardinality(s) <= 0 => s = {}
    BY <1>1, FS_EmptySet
  <2>2. g \in [SUBSET K -> Nat] /\ \A s \in SUBSET K : Cardinality(s) <= 0 => g[s] = SumStep(f, g, s)
    BY <2>1 DEF SumStep
  <2> QED BY <2>2 DEF SumUpTo
<1>3. ASSUME NEW m \in Nat, SumUpTo(K, f, m)
      PROVE  SumUpTo(K, f, m + 1)
  <2>1. PICK g \in [SUBSET K -> Nat] :
          \A s \in SUBSET K : Cardinality(s) <= m => g[s] = SumStep(f, g, s)
    BY <1>3 DEF SumUpTo
  <2> DEFINE h == [s \in SUBSET K |-> SumStep(f, g, s)]
  <2>2. \A s \in SUBSET K : s # {} => Pick(s) \in s
    BY DEF Pick
  <2>3. h \in [SUBSET K -> Nat]
    BY <2>2 DEF SumStep
  <2>4. ASSUME NEW s \in SUBSET K, Cardinality(s) <= m + 1
        PROVE  h[s] = SumStep(f, h, s)
    <3>1. CASE s = {}
      BY <3>1 DEF SumStep
    <3>2. CASE s # {}
      <4> DEFINE t == s \ {Pick(s)}
      <4>1. Cardinality(t) <= m /\ t \in SUBSET K
        BY <1>1, <2>2, <2>4, <3>2, FS_RemoveElement
      <4>2. h[t] = g[t]
        BY <2>1, <4>1
      <4> QED BY <3>2, <4>2 DEF SumStep
    <3> QED BY <3>1, <3>2
  <2> HIDE DEF h
  <2> QED BY <2>3, <2>4 DEF SumUpTo
<1>4. SUFFICES ASSUME ~SumUpTo(K, f, n) PROVE FALSE
  OBVIOUS
<1> DEFINE T == {k \in Nat : ~SumUpTo(K, f, k)}
<1>5. PICK k \in T : \A j \in T : ~(<<j, k>> \in OpToRel(<, Nat))
  BY <1>4, NatLessThanWellFounded, WFMin
<1>6. k \in Nat /\ ~SumUpTo(K, f, k)
  OBVIOUS
<1>7. k - 1 \in Nat
  BY <1>2, <1>6
<1>8. <<k - 1, k>> \in OpToRel(<, Nat)
  BY <1>6, <1>7 DEF OpToRel
<1>9. k - 1 \notin T
  BY <1>5, <1>8
<1>10. SumUpTo(K, f, (k - 1) + 1)
  BY <1>3, <1>7, <1>9
<1> QED BY <1>6, <1>10

LEMMA FoldIsASum ==
  ASSUME NEW K, IsFiniteSet(K), NEW f \in [K -> Nat]
  PROVE  \E g : /\ FoldFunction(+, 0, f) = g[K]
                /\ \A s \in SUBSET K : g[s] = SumStep(f, g, s)
<1>1. Cardinality(K) \in Nat /\ \A s \in SUBSET K : Cardinality(s) <= Cardinality(K)
  BY FS_Subset, FS_CardinalityType
<1>2. SumUpTo(K, f, Cardinality(K))
  BY <1>1, SumsExist
<1>3. PICK g \in [SUBSET K -> Nat] : \A s \in SUBSET K : g[s] = SumStep(f, g, s)
  BY <1>1, <1>2 DEF SumUpTo
<1>4. g = [s \in SUBSET K |-> SumStep(f, g, s)]
  BY <1>3
<1> DEFINE it == CHOOSE it : it = [s \in SUBSET K |-> SumStep(f, it, s)]
<1>5. it = [s \in SUBSET K |-> SumStep(f, it, s)]
  BY <1>4
<1>6. FoldFunction(+, 0, f) = it[K]
  BY FoldUnfolds
<1> HIDE DEF it
<1>7. \A s \in SUBSET K : it[s] = SumStep(f, it, s)
  BY <1>5
<1> QED BY <1>6, <1>7

\* How many elements of X there are of each kind.
Counts(X, K, key) == [c \in K |-> Cardinality({x \in X : key[x] = c})]

\* What is counted by kind adds up to what there is.
LEMMA CountsAddUp ==
  ASSUME NEW X, IsFiniteSet(X), NEW K, IsFiniteSet(K), NEW key \in [X -> K]
  PROVE  FoldFunction(+, 0, Counts(X, K, key)) = Cardinality(X)
<1> DEFINE f == Counts(X, K, key)
           Of(s) == {x \in X : key[x] \in s}
<1>1. \A s : IsFiniteSet(Of(s)) /\ Cardinality(Of(s)) \in Nat
  <2> TAKE s
  <2>1. Of(s) \in SUBSET X
    OBVIOUS
  <2> HIDE DEF Of
  <2> QED BY <2>1, FS_Subset, FS_CardinalityType
<1>2. \A c \in K : f[c] = Cardinality(Of({c}))
  <2> TAKE c \in K
  <2>1. {x \in X : key[x] = c} = Of({c})
    OBVIOUS
  <2> QED BY <2>1 DEF Counts
<1>3. f \in [K -> Nat]
  <2>1. \A c \in K : Cardinality({x \in X : key[x] = c}) \in Nat
    <3> TAKE c \in K
    <3>1. {x \in X : key[x] = c} = Of({c})
      OBVIOUS
    <3> HIDE DEF Of
    <3> QED BY <1>1, <3>1
  <2> QED BY <2>1 DEF Counts
<1> HIDE DEF f
<1>4. PICK g : FoldFunction(+, 0, f) = g[K] /\ \A s \in SUBSET K : g[s] = SumStep(f, g, s)
  BY <1>3, FoldIsASum
<1>5. ASSUME NEW s \in SUBSET K, \A t \in SUBSET s : t # s => g[t] = Cardinality(Of(t))
      PROVE  g[s] = Cardinality(Of(s))
  <2>1. CASE s = {}
    <3>1. Of(s) = {}
      BY <2>1
    <3> QED BY <1>4, <2>1, <3>1, FS_EmptySet DEF SumStep
  <2>2. CASE s # {}
    <3> DEFINE c == Pick(s)
               t == s \ {c}
    <3>1. c \in s
      BY <2>2 DEF Pick
    <3>2. g[s] = f[c] + g[t]
      BY <1>4, <2>2 DEF SumStep
    <3>3. t \in SUBSET s /\ t # s
      BY <3>1
    <3> HIDE DEF c
    <3>4. Of({c}) \cap Of(t) = {} /\ Of({c}) \cup Of(t) = Of(s)
      BY <3>1
    <3>5. Cardinality(Of(s)) = Cardinality(Of({c})) + Cardinality(Of(t)) - Cardinality({})
      <4> HIDE DEF Of
      <4> QED BY <1>1, <3>4, FS_Union
    <3>6. f[c] = Cardinality(Of({c}))
      BY <1>2, <3>1
    <3>7. g[t] = Cardinality(Of(t))
      BY <1>5, <3>3
    <3> HIDE DEF Of, t
    <3> QED BY <1>1, <3>2, <3>5, <3>6, <3>7, FS_EmptySet
  <2> QED BY <2>1, <2>2
<1>6. SUFFICES ASSUME g[K] # Cardinality(Of(K)) PROVE FALSE
  <2>1. Of(K) = X
    OBVIOUS
  <2> QED BY <1>4, <2>1 DEF f
<1> DEFINE T == {s \in SUBSET K : g[s] # Cardinality(Of(s))}
<1>7. T \subseteq FiniteSubsetsOf(K) /\ T # {}
  BY <1>6, FS_Subset DEF FiniteSubsetsOf
<1>8. PICK s \in T : \A t \in T : ~(<<t, s>> \in StrictSubsetOrdering(K))
  BY <1>7, FS_StrictSubsetOrderingWellFounded, WFMin
<1>9. \A t \in SUBSET s : t # s => g[t] = Cardinality(Of(t))
  BY <1>8 DEF StrictSubsetOrdering
<1> QED BY <1>5, <1>8, <1>9
-----------------------------------------------------------------------------
(* Statistics *)

\* Only finitely many rows were ever ingested.
FiniteOK == IsFiniteSet(Stored)

LEMMA FiniteParts ==
  ASSUME FiniteOK, NEW R, R \subseteq Stored
  PROVE  IsFiniteSet(R) /\ Cardinality(R) \in Nat
BY FS_Subset, FS_CardinalityType DEF FiniteOK

LEMMA StoreStepsStayFinite == ASSUME StoreOK, FiniteOK, StoreSteps PROVE FiniteOK'
<1>1. CASE \E r \in Rows : Ingest(r)
  <2>1. PICK r \in Rows : Ingest(r)
    BY <1>1
  <2>2. Stored' = Stored \cup {r}
    BY <2>1 DEF Ingest, Stored, SealedRows
  <2> QED BY <2>2, FS_AddElement DEF FiniteOK
<1>2. ASSUME Stored' \subseteq Stored
      PROVE  FiniteOK'
  BY <1>2, FiniteParts DEF FiniteOK
<1>3. CASE Flush
  BY <1>2, <1>3, SealingKeeps DEF Flush, Stored, SealedRows
<1>4. CASE Maintain
  BY <1>2, <1>4, SealingKeeps DEF Maintain, Stored, SealedRows
<1>5. CASE Compact
  BY <1>2, <1>5 DEF Compact, Stored, SealedRows
<1> QED BY <1>1, <1>3, <1>4, <1>5 DEF StoreSteps

LEMMA AlwaysFinite == Spec => [](StoreOK /\ FiniteOK)
<1>1. Init => StoreOK /\ FiniteOK
  <2>1. Init => Stored = {}
    BY DEF Init, Stored, SealedRows
  <2> QED BY <2>1, InitInv, FS_EmptySet DEF IInv, FiniteOK
<1>2. StoreOK /\ FiniteOK /\ [Next]_vars => StoreOK' /\ FiniteOK'
  <2> SUFFICES ASSUME StoreOK, FiniteOK, [Next]_vars PROVE StoreOK' /\ FiniteOK'
    OBVIOUS
  <2>1. StoreOK'
    BY OthersLook, StoreStepsKeepStore, StoreUnchanged
  <2>2. FiniteOK'
    BY OthersLook, StoreStepsStayFinite DEF FiniteOK, Stored, SealedRows
  <2> QED BY <2>1, <2>2
<1> QED BY <1>1, <1>2, PTL DEF Spec

\* imbh_table and the engine's Table are one to one.
LEMMA TablesAreNamed ==
  /\ IsFiniteSet(CTables)
  /\ \A c \in CTables : TableToC(TableOf(c)) = c /\ TableOf(c) \in Tables
  /\ \A t \in Tables : TableToC(t) \in CTables /\ TableOf(TableToC(t)) = t
<1>1. CTables = 1..7
  BY DEF CTables, TableNames
<1>2. IsFiniteSet(CTables)
  <2>1. \A n \in Nat : IsFiniteSet(1..n)
    BY FS_Interval
  <2> QED BY <1>1, <2>1
<1>3. \A c, d \in CTables : TableNames[c] = TableNames[d] => c = d
  BY <1>1 DEF TableNames
<1>4. \A t \in Tables : \E c \in CTables : TableNames[c] = t
  BY DEF Tables, Range, CTables
<1>5. \A c \in CTables : TableNames[c] \in Tables
  BY DEF Tables, Range, CTables
<1> QED BY <1>2, <1>3, <1>4, <1>5 DEF TableToC, TableOf

\* Rows, sealed or buffered, counted table by table.
LEMMA RowsAddUp ==
  ASSUME NEW R, IsFiniteSet(R), R \subseteq Rows
  PROVE  FoldFunction(+, 0, [c \in CTables |-> Cardinality({r \in R : r.table = TableOf(c)})])
           = Cardinality(R)
<1> DEFINE key == [r \in R |-> TableToC(r.table)]
           f == Counts(R, CTables, key)
<1>1. \A r \in R : r.table \in Tables
  BY RowsAssumption
<1>2. key \in [R -> CTables]
  BY <1>1, TablesAreNamed
<1>3. \A c \in CTables : {r \in R : r.table = TableOf(c)} = {r \in R : key[r] = c}
  <2>1. \A c \in CTables, r \in R : r.table = TableOf(c) <=> key[r] = c
    BY <1>1, TablesAreNamed
  <2> QED BY <2>1
<1>4. FoldFunction(+, 0, f) = Cardinality(R)
  <2> HIDE DEF key
  <2> QED BY <1>2, CountsAddUp, TablesAreNamed
<1>5. [c \in CTables |-> Cardinality({r \in R : r.table = TableOf(c)})] = f
  BY <1>3 DEF Counts
<1> QED BY <1>4, <1>5

\* Segments, counted by the one table each of them is of.
LEMMA SegmentsAddUp ==
  ASSUME StoreOK, FiniteOK
  PROVE  FoldFunction(+, 0, [c \in CTables |->
           Cardinality({s \in segments : \E r \in s : r.table = TableOf(c)})])
           = Cardinality(segments)
<1> DEFINE OfTable(s, t) == \E r \in s : r.table = t
           key == [s \in segments |-> TableToC((CHOOSE r \in s : TRUE).table)]
           f == Counts(segments, CTables, key)
<1>1. IsFiniteSet(segments)
  <2>1. IsFiniteSet(SealedRows)
    BY FiniteParts DEF Stored
  <2>2. segments \in SUBSET (SUBSET SealedRows)
    BY DEF SealedRows
  <2>3. IsFiniteSet(SUBSET SealedRows)
    BY <2>1, FS_SUBSET
  <2> QED BY <2>2, <2>3, FS_Subset
<1>2. ASSUME NEW s \in segments
      PROVE  /\ (CHOOSE r \in s : TRUE) \in s
             /\ (CHOOSE r \in s : TRUE).table \in Tables
             /\ \A r \in s : r.table = (CHOOSE q \in s : TRUE).table
  <2>1. PICK r \in s : TRUE
    BY DEF StoreOK
  <2>2. (CHOOSE q \in s : TRUE) \in s
    BY <2>1
  <2> QED BY <2>2, RowsAssumption DEF StoreOK, Pure
<1>3. key \in [segments -> CTables]
  BY <1>2, TablesAreNamed
<1>4. \A c \in CTables, s \in segments :
        (\E r \in s : r.table = TableOf(c)) <=> key[s] = c
  <2> TAKE c \in CTables, s \in segments
  <2> DEFINE q == CHOOSE r \in s : TRUE
  <2>1. key[s] = TableToC(q.table) /\ q \in s /\ q.table \in Tables /\ \A r \in s : r.table = q.table
    BY <1>2
  <2> HIDE DEF q, key
  <2>2. (\E r \in s : r.table = TableOf(c)) <=> q.table = TableOf(c)
    BY <2>1
  <2> QED BY <2>1, <2>2, TablesAreNamed
<1>5. FoldFunction(+, 0, f) = Cardinality(segments)
  <2> HIDE DEF key
  <2> QED BY <1>1, <1>3, CountsAddUp, TablesAreNamed
<1>6. \A c \in CTables : {s \in segments : \E r \in s : r.table = TableOf(c)}
                           = {s \in segments : key[s] = c}
  <2> HIDE DEF key
  <2> QED BY <1>4
<1>7. [c \in CTables |-> Cardinality({s \in segments : \E r \in s : r.table = TableOf(c)})] = f
  <2> HIDE DEF key
  <2> QED BY <1>6 DEF Counts
<1> QED BY <1>5, <1>7
LEMMA TableStatsAreRight ==
  ASSUME StoreOK, FiniteOK, NEW c \in CTables
  PROVE  LET mine == {r \in Stored : r.table = TableNames[c]}
             st   == TableStatsOf(c)
         IN /\ st.table = c
            /\ st.rows + st.buf = Cardinality(mine)
            /\ st.bounds.has <=> mine # {}
            /\ st.bounds.has => /\ st.bounds.min = Min({r.time : r \in mine})
                               /\ st.bounds.max = Max({r.time : r \in mine})
<1> DEFINE mine  == {r \in Stored : r.table = TableNames[c]}
           old   == {r \in SealedRows : r.table = TableNames[c]}
           new   == {r \in buffer : r.table = TableNames[c]}
           times == {r.time : r \in mine}
           st    == TableStatsOf(c)
<1>1. /\ st.table = TableToC(TableOf(c)) /\ st.rows = Cardinality(old)
      /\ st.buf = Cardinality(new) /\ st.bounds = BoundsOf(times)
  BY DEF TableStatsOf, TableOf, InTable
<1>2. old \cup new = mine /\ old \cap new = {}
  BY DEF Stored, StoreOK, SealedRows
<1>3. /\ IsFiniteSet(old) /\ Cardinality(old) \in Nat
      /\ IsFiniteSet(new) /\ Cardinality(new) \in Nat
  <2>1. old \subseteq Stored /\ new \subseteq Stored
    BY DEF Stored
  <2> QED BY <2>1, FiniteParts
<1> HIDE DEF st
<1>4. st.rows + st.buf = Cardinality(mine)
  <2> HIDE DEF old, new, mine
  <2>1. Cardinality(old \cup new) = Cardinality(old) + Cardinality(new) - Cardinality({})
    BY <1>2, <1>3, FS_Union
  <2> QED BY <1>1, <1>2, <1>3, <2>1, FS_EmptySet
<1>5. mine # {} <=> times # {}
  OBVIOUS
<1>6. /\ st.bounds.has <=> mine # {}
      /\ st.bounds.has => st.bounds.min = Min(times) /\ st.bounds.max = Max(times)
  <2> HIDE DEF mine, times
  <2> QED BY <1>1, <1>5 DEF BoundsOf
<1>7. st.table = c
  BY <1>1, TablesAreNamed
<1> QED BY <1>4, <1>6, <1>7 DEF st

LEMMA FilesAreRight ==
  ASSUME StoreOK, NEW t
  PROVE  UNION {s \in segments : \E r \in s : r.table = t} = {r \in SealedRows : r.table = t}
BY DEF StoreOK, Pure, SealedRows

LEMMA TotalsAreRight ==
  ASSUME StoreOK, FiniteOK
  PROVE  /\ StatsOf.rows + StatsOf.buf = Cardinality(Stored)
         /\ StatsOf.segs = Cardinality(segments)
<1>1. /\ IsFiniteSet(SealedRows) /\ Cardinality(SealedRows) \in Nat
      /\ IsFiniteSet(buffer) /\ Cardinality(buffer) \in Nat
  BY FiniteParts DEF Stored
<1>2. SealedRows \cup buffer = Stored /\ SealedRows \cap buffer = {}
  BY DEF Stored, StoreOK, SealedRows
<1>3. StatsOf.rows = Cardinality(SealedRows)
  <2>1. SealedRows \subseteq Rows
    BY DEF StoreOK, SealedRows
  <2>2. [c \in CTables |-> TableStatsOf(c)["rows"]]
           = [c \in CTables |-> Cardinality({r \in SealedRows : r.table = TableOf(c)})]
    BY DEF TableStatsOf
  <2> QED BY <1>1, <2>1, <2>2, RowsAddUp DEF StatsOf, TotalOf
<1>4. StatsOf.buf = Cardinality(buffer)
  <2>1. buffer \subseteq Rows
    BY DEF StoreOK
  <2>2. [c \in CTables |-> TableStatsOf(c)["buf"]]
           = [c \in CTables |-> Cardinality({r \in buffer : r.table = TableOf(c)})]
    BY DEF TableStatsOf
  <2> QED BY <1>1, <2>1, <2>2, RowsAddUp DEF StatsOf, TotalOf
<1>5. StatsOf.segs = Cardinality(segments)
  <2>1. [c \in CTables |-> TableStatsOf(c)["segs"]]
           = [c \in CTables |-> Cardinality({s \in segments : \E r \in s : r.table = TableOf(c)})]
    BY DEF TableStatsOf
  <2> QED BY <2>1, SegmentsAddUp DEF StatsOf, TotalOf
<1>6. Cardinality(Stored) = Cardinality(SealedRows) + Cardinality(buffer) - Cardinality({})
  BY <1>1, <1>2, FS_Union
<1> QED BY <1>1, <1>3, <1>4, <1>5, <1>6, FS_EmptySet

\* Any reply but the three has nothing to be wrong about.
LEMMA OthersDoNotCount ==
  ASSUME [Next]_vars, Is("table_stats")' \/ Is("files")' \/ Is("stats")'
  PROVE  \/ UNCHANGED vars
         \/ Stats
         \/ \E c \in AskedTables : ListFiles(c) \/ TableStats(c)
<1>1. ~StoreSteps
  BY StoreStepsReply DEF Is
<1>2. ~ListSegments /\ \A d \in Dirs : ~Snapshot(d)
  BY DEF Is, ListSegments, Snapshot
<1>3. \A c \in AskedTables : \A w \in Windows : ~Export(c, w)
  BY DEF Is, Export
<1>4. ~EndTiling /\ \A e \in Edges : ~ExportPart(e) /\ \A c \in TiledTables : ~StartTiling(c, e)
  BY DEF Is, EndTiling, ExportPart, StartTiling
<1> QED BY <1>1, <1>2, <1>3, <1>4 DEF Next, StoreSteps

LEMMA TruthKeeps ==
  ASSUME StoreOK, FiniteOK, StatsTellTheTruth, [Next]_vars
  PROVE  StatsTellTheTruth'
<1>1. CASE ~(Is("table_stats")' \/ Is("files")' \/ Is("stats")')
  BY <1>1 DEF StatsTellTheTruth
<1>2. CASE UNCHANGED vars
  BY <1>2 DEF vars, StatsTellTheTruth, Is, Stored, SealedRows
<1>3. CASE Stats
  <2>1. /\ reply' = [of |-> "stats", total |-> StatsOf]
        /\ UNCHANGED <<buffer, segments>>
    BY <1>3 DEF Stats, Looks
  <2>2. Stored' = Stored /\ Cardinality(segments') = Cardinality(segments)
    BY <2>1 DEF Stored, SealedRows
  <2>3. /\ reply'.total.rows + reply'.total.buf = Cardinality(Stored')
        /\ reply'.total.segs = Cardinality(segments')
    BY <2>1, <2>2, TotalsAreRight
  <2>4. ~Is("table_stats")' /\ ~Is("files")'
    BY <2>1 DEF Is
  <2> QED BY <2>3, <2>4 DEF StatsTellTheTruth
<1>4. ASSUME NEW c \in AskedTables, ListFiles(c)
      PROVE  StatsTellTheTruth'
  <2>1. /\ reply' = [of |-> "files", asked |-> c,
                     rows |-> {s \in segments : \E r \in s : r.table = TableOf(c)}]
        /\ UNCHANGED <<buffer, segments>>
    BY <1>4 DEF ListFiles, Looks
  <2>2. SealedRows' = SealedRows
    BY <2>1 DEF SealedRows
  <2>3. UNION reply'.rows = {r \in SealedRows' : r.table = TableNames[reply'.asked]}
    BY <2>1, <2>2, FilesAreRight DEF TableOf
  <2>4. ~Is("table_stats")' /\ ~Is("stats")'
    BY <2>1 DEF Is
  <2> QED BY <2>3, <2>4 DEF StatsTellTheTruth
<1>5. ASSUME NEW c \in AskedTables, TableStats(c)
      PROVE  StatsTellTheTruth'
  <2>1. /\ reply' = [of |-> "table_stats", asked |-> c, stats |-> TableStatsOf(c)]
        /\ UNCHANGED <<buffer, segments>>
    BY <1>5 DEF TableStats, Looks
  <2>2. Stored' = Stored /\ c \in CTables
    BY <2>1, TablesAssumption DEF Stored, SealedRows
  <2>3. reply'.asked = c /\ reply'.stats = TableStatsOf(c)
    BY <2>1
  <2>4. ~Is("files")' /\ ~Is("stats")'
    BY <2>1 DEF Is
  <2> QED BY <2>2, <2>3, <2>4, TableStatsAreRight DEF StatsTellTheTruth
<1> QED BY <1>1, <1>2, <1>3, <1>4, <1>5, OthersDoNotCount

(***************************************************************************)
(* Statistics are those of the table asked for, with a bound of 0 told     *)
(* from no bound; the totals of the report, which the binding sums table   *)
(* by table, count every stored row and every segment once; and the files  *)
(* listed for a table hold its sealed rows (imbh_db_stats,                 *)
(* imbh_db_table_stats, imbh_db_segment_files).                            *)
(***************************************************************************)
THEOREM StatisticsAreTrue == Spec => []StatsTellTheTruth
<1>1. Init => StatsTellTheTruth
  BY DEF Init, StatsTellTheTruth, Is
<1>2. StoreOK /\ FiniteOK /\ StatsTellTheTruth /\ [Next]_vars => StatsTellTheTruth'
  BY TruthKeeps
<1> QED BY <1>1, <1>2, AlwaysFinite, PTL DEF Spec
==============================================================================
