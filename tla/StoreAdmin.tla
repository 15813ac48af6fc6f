----------------------------- MODULE StoreAdmin ------------------------------
(***************************************************************************)
(* The administrative calls on one open handle while rows come, segments   *)
(* are merged and retention drops them: export of a time window, table     *)
(* and engine statistics, segment listings, snapshots.                     *)
(*                                                                         *)
(* The engine (buffer, segments, files) is external.  The binding's part   *)
(* is the translation of a window, of the table enumeration, of optional   *)
(* bounds into a flag and zeroes, and the totals.  Times are unix          *)
(* nanoseconds, and so may be zero or less.                                *)
(***************************************************************************)
EXTENDS Integers, FiniteSets, FiniteSetsExt, Functions

CONSTANTS Rows,     \* what may be ingested: id, table and time
          Windows,  \* the windows the host exports, as pairs
          Edges,    \* where it cuts the time line to export it in parts
          Dirs,     \* snapshot directories
          AskedTables, \* the tables the host asks for
          TiledTables, \* those it exports in parts
          Nothing

\* imbh_table, in the order of its discriminants, and the engine's Table.
TableNames == <<"Logs", "Spans", "MetricsGauge", "MetricsSum", "MetricsHistogram",
                "MetricsExpHistogram", "MetricsSummary">>
Tables     == Range(TableNames)
CTables    == DOMAIN TableNames

ASSUME TablesAssumption == AskedTables \cup TiledTables \subseteq CTables

ASSUME RowsAssumption ==
  \A r \in Rows : r.table \in Tables /\ r.time \in Int /\ \A q \in Rows : q.id = r.id => q = r
ASSUME WindowsAssumption == Windows \subseteq Int \X Int
ASSUME EdgesAssumption   == Edges \subseteq Int

VARIABLES
  buffer,    \* rows not sealed yet
  segments,  \* the live segments: sets of rows of one table
  flushed,   \* rows some flush or pass has sealed and retention has not dropped
  snaps,     \* what each snapshot directory holds, or Nothing
  owed,      \* the flushed rows of the moment it was taken
  reply,     \* the latest call and its result
  tiling     \* an export in parts under way: [table, from, edge, got, stayed], or Nothing

vars == <<buffer, segments, flushed, snaps, owed, reply, tiling>>

SealedRows == UNION segments
Stored     == buffer \cup SealedRows
InTable(t) == {r \in Stored : r.table = t}
-----------------------------------------------------------------------------
(* Conversions *)

\* Mutant: two arms of the match are swapped.
TableOfSwapped(c) == CASE c = 1 -> TableNames[2] [] c = 2 -> TableNames[1] [] OTHER -> TableNames[c]

\* From<imbh_table>, and table_to_c back.
TableOf(c)  == TableNames[c]
TableToC(t) == CHOOSE c \in CTables : TableNames[c] = t

\* Mutants: one zero is enough for everything; nothing stands for everything.
RangeOfEither(start, end) == IF start = 0 \/ end = 0 THEN [all |-> TRUE]
                             ELSE [all |-> FALSE, from |-> start, to |-> end]
RangeOfPlain(start, end)  == [all |-> FALSE, from |-> start, to |-> end]

\* TimeRange::all for 0/0; the empty window at the epoch cannot be asked for.
RangeOf(start, end) == IF start = 0 /\ end = 0 THEN [all |-> TRUE]
                       ELSE [all |-> FALSE, from |-> start, to |-> end]

\* The engine's half-open windows.
Within(range, time) == range.all \/ (range.from <= time /\ time < range.to)

ExportOf(c, start, end) == {r \in InTable(TableOf(c)) : Within(RangeOf(start, end), r.time)}

\* Mutant: a bound of zero is taken for no bound.
BoundsBySentinel(times) ==
  IF times = {} \/ Min(times) = 0 \/ Max(times) = 0
  THEN [has |-> FALSE, min |-> 0, max |-> 0]
  ELSE [has |-> TRUE, min |-> Min(times), max |-> Max(times)]

\* The engine's optional bounds: 0 and 0 when there are none.
BoundsOf(times) ==
  IF times = {} THEN [has |-> FALSE, min |-> 0, max |-> 0]
                ELSE [has |-> TRUE, min |-> Min(times), max |-> Max(times)]

TableStatsOf(c) ==
  LET t == TableOf(c)
  IN [table  |-> TableToC(t),
      segs   |-> Cardinality({s \in segments : \E r \in s : r.table = t}),
      rows   |-> Cardinality({r \in SealedRows : r.table = t}),
      buf    |-> Cardinality({r \in buffer : r.table = t}),
      bounds |-> BoundsOf({r.time : r \in InTable(t)})]

\* Mutant: only the tables that have rows buffered are summed.
TotalOfBuffered(field) ==
  FoldFunction(+, 0, [c \in {d \in CTables : TableStatsOf(d).buf > 0} |-> TableStatsOf(c)[field]])

\* The sum over every table of the engine's report.
TotalOf(field) == FoldFunction(+, 0, [c \in CTables |-> TableStatsOf(c)[field]])

StatsOf == [segs |-> TotalOf("segs"), rows |-> TotalOf("rows"), buf |-> TotalOf("buf")]
-----------------------------------------------------------------------------
Init ==
  /\ buffer = {} /\ segments = {} /\ flushed = {}
  /\ snaps = [d \in Dirs |-> Nothing] /\ owed = [d \in Dirs |-> {}]
  /\ reply = Nothing /\ tiling = Nothing

\* Rows that were there at every moment of the export in parts.
Remaining == tiling' = IF tiling = Nothing THEN Nothing
                       ELSE [tiling EXCEPT !.stayed = @ \cap UNION (segments' \cup {buffer'})]

\* The store moves on; what the host was told is told of another moment.
StoreStep == /\ reply' = Nothing
             /\ Remaining
             /\ UNCHANGED <<snaps, owed>>

Ingest(r) ==
  /\ r \notin Stored
  /\ buffer' = buffer \cup {r}
  /\ UNCHANGED <<segments, flushed>>
  /\ StoreStep

\* Mutant: one segment for all tables.
SealMixed == {buffer}

\* A segment per table that has rows in the buffer.
Sealing == {{r \in buffer : r.table = t} : t \in Tables} \ {{}}

\* Mutant: the flush is started, and nothing drives it to its end.
FlushNotAwaited ==
  /\ buffer # {}
  /\ flushed' = flushed \cup buffer
  /\ UNCHANGED <<buffer, segments>>
  /\ StoreStep

\* imbh_db_flush.
Flush ==
  /\ buffer # {}
  /\ segments' = segments \cup Sealing
  /\ buffer' = {}
  /\ flushed' = flushed \cup buffer
  /\ StoreStep

\* imbh_db_compact: small segments of one table become one.
Compact ==
  /\ \E some \in SUBSET segments :
       /\ Cardinality(some) > 1
       /\ \A r, q \in UNION some : r.table = q.table
       /\ segments' = (segments \ some) \cup {UNION some}
  /\ UNCHANGED <<buffer, flushed>>
  /\ StoreStep

\* imbh_db_maintain, or the same pass in the background: the buffer is sealed, and retention
\* drops segments.
Maintain ==
  /\ \E dropped \in SUBSET (segments \cup Sealing) :
       /\ segments' = (segments \cup Sealing) \ dropped
       /\ flushed' = (flushed \cup buffer) \ UNION dropped
  /\ buffer' = {}
  /\ StoreStep

Looks == UNCHANGED <<buffer, segments, flushed>>

\* imbh_db_snapshot links the live segments, all of them at one moment; the directory keeps
\* what is dropped later.
Snapshot(dir) ==
  /\ snaps[dir] = Nothing
  /\ snaps' = [snaps EXCEPT ![dir] = segments]
  /\ owed' = [owed EXCEPT ![dir] = flushed]
  /\ reply' = [of |-> "snapshot", dir |-> dir, segments |-> Cardinality(segments)]
  /\ Looks
  /\ UNCHANGED tiling

\* imbh_db_segments; imbh_db_segment_files for one table.
ListSegments ==
  /\ reply' = [of |-> "segments", rows |-> segments]
  /\ Looks
  /\ UNCHANGED <<snaps, owed, tiling>>

ListFiles(c) ==
  /\ reply' = [of |-> "files", asked |-> c,
               rows |-> {s \in segments : \E r \in s : r.table = TableOf(c)}]
  /\ Looks
  /\ UNCHANGED <<snaps, owed, tiling>>

Stats ==
  /\ reply' = [of |-> "stats", total |-> StatsOf]
  /\ Looks
  /\ UNCHANGED <<snaps, owed, tiling>>

TableStats(c) ==
  /\ reply' = [of |-> "table_stats", asked |-> c, stats |-> TableStatsOf(c)]
  /\ Looks
  /\ UNCHANGED <<snaps, owed, tiling>>

Export(c, window) ==
  /\ reply' = [of |-> "export", table |-> c, window |-> window,
               rows |-> ExportOf(c, window[1], window[2])]
  /\ Looks
  /\ UNCHANGED <<snaps, owed, tiling>>

\* A host that exports a table in parts, each from where the last one ended.
StartTiling(c, from) ==
  /\ tiling = Nothing
  /\ tiling' = [table |-> c, from |-> from, edge |-> from, got |-> [r \in Rows |-> 0],
                stayed |-> Stored]
  /\ reply' = Nothing
  /\ Looks
  /\ UNCHANGED <<snaps, owed>>

ExportPart(to) ==
  /\ tiling # Nothing /\ to > tiling.edge
  /\ LET part == ExportOf(tiling.table, tiling.edge, to)
     IN tiling' = [tiling EXCEPT !.edge = to,
                                 !.got = [r \in Rows |-> @[r] + (IF r \in part THEN 1 ELSE 0)]]
  /\ reply' = Nothing
  /\ Looks
  /\ UNCHANGED <<snaps, owed>>

EndTiling ==
  /\ tiling # Nothing /\ tiling' = Nothing
  /\ reply' = Nothing
  /\ Looks
  /\ UNCHANGED <<snaps, owed>>

Next ==
  \/ \E r \in Rows : Ingest(r)
  \/ \E d \in Dirs : Snapshot(d)
  \/ Flush \/ Maintain \/ Compact \/ ListSegments \/ Stats \/ EndTiling
  \/ \E c \in AskedTables :
       \/ ListFiles(c) \/ TableStats(c)
       \/ \E w \in Windows : Export(c, w)
  \/ \E e \in Edges : ExportPart(e) \/ \E c \in TiledTables : StartTiling(c, e)

Spec == Init /\ [][Next]_vars
-----------------------------------------------------------------------------
(***************************************************************************)
(* Types; a segment has rows of one table, and no row is in two of them or *)
(* in the buffer as well.                                                  *)
(***************************************************************************)
TypeOK ==
  /\ buffer \cup flushed \subseteq Rows
  /\ segments \subseteq ((SUBSET Rows) \ {{}})
  /\ \A s \in segments : s \cap buffer = {} /\ \A r, q \in s : r.table = q.table
  /\ \A s, u \in segments : s # u => s \cap u = {}
  /\ \A d \in Dirs : snaps[d] = Nothing \/ snaps[d] \subseteq SUBSET Rows
  /\ tiling # Nothing => /\ tiling.table \in TiledTables
                         /\ {tiling.from, tiling.edge} \subseteq Edges
                         /\ tiling.stayed \subseteq Stored

Is(call) == reply # Nothing /\ reply.of = call

(***************************************************************************)
(* An export holds the rows of the table it was asked for, and of the      *)
(* window unless that is 0/0, which is the whole of time.                  *)
(***************************************************************************)
ExportsWhatWasAsked ==
  Is("export") =>
    reply.rows = {r \in Stored : /\ r.table = TableNames[reply.table]
                                 /\ \/ reply.window = <<0, 0>>
                                    \/ reply.window[1] <= r.time /\ r.time < reply.window[2]}

(***************************************************************************)
(* Exporting a table in parts, each from where the last one ended, across  *)
(* the epoch too and while segments are sealed, merged and dropped, gives  *)
(* no row twice and misses none that was there all along.                  *)
(***************************************************************************)
PartsAddUp ==
  tiling # Nothing =>
    \A r \in Rows :
      /\ tiling.got[r] <= 1
      /\ (/\ r \in tiling.stayed /\ r.table = TableNames[tiling.table]
          /\ tiling.from <= r.time /\ r.time < tiling.edge) => tiling.got[r] = 1

(***************************************************************************)
(* Table statistics are of the table that was asked for, with bounds       *)
(* exactly when it has rows, be their time 0, and so are its segment files *)
(* of it; the engine's totals count every stored row and segment once.     *)
(***************************************************************************)
StatsTellTheTruth ==
  /\ Is("table_stats") =>
       LET mine == {r \in Stored : r.table = TableNames[reply.asked]}
           b    == reply.stats.bounds
       IN /\ reply.stats.table = reply.asked
          /\ reply.stats.rows + reply.stats.buf = Cardinality(mine)
          /\ b.has <=> mine # {}
          /\ b.has => b.min = Min({r.time : r \in mine}) /\ b.max = Max({r.time : r \in mine})
  /\ Is("files") =>
       UNION reply.rows = {r \in SealedRows : r.table = TableNames[reply.asked]}
  /\ Is("stats") =>
       /\ reply.total.rows + reply.total.buf = Cardinality(Stored)
       /\ reply.total.segs = Cardinality(segments)

(***************************************************************************)
(* "Flush first for a fully-durable snapshot": every row a flush had       *)
(* sealed by then, and retention had not dropped, is in the snapshot and   *)
(* stays there, whatever is compacted or dropped later; and the count of   *)
(* segments reported is that of the files.                                 *)
(***************************************************************************)
SnapshotKeepsFlushed ==
  /\ \A d \in Dirs : snaps[d] # Nothing => owed[d] \subseteq UNION snaps[d]
  /\ Is("snapshot") => reply.segments = Cardinality(snaps[reply.dir])
==============================================================================
