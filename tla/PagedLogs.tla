------------------------------ MODULE PagedLogs ------------------------------
(***************************************************************************)
(* Offset paging over logs (imbh_db_logs_page) while other threads ingest, *)
(* seal, compact and retire data.  The client counts the matching rows,    *)
(* then pages from offset 0, feeding *next_offset back with the same       *)
(* builder while *has_more holds.  A page's offset counts rows of the      *)
(* store of that moment, so whatever moves rows across the cursor between  *)
(* two pages decides what the scan misses or sees twice.                   *)
(*                                                                         *)
(* A log row is its timestamp; timestamps are distinct.  The store is the  *)
(* external engine's: a buffer and the segments sealed from it, in seal    *)
(* order; retention drops whole segments by their newest row.  A segment   *)
(* that was dropped, or merged into the next one, leaves an empty place.   *)
(***************************************************************************)
EXTENDS Naturals, Sequences, FiniteSets, SequencesExt

CONSTANTS MaxTime,       \* bound: timestamps are 1..MaxTime
          Limits,        \* the limits a client sets; 0 is the engine's default
          Offsets,       \* offsets a client may have left in the builder
          Ends,          \* the ends of its time window
          DefaultLimit   \* the engine's default page size

ASSUME MaxTimeAssumption == MaxTime \in Nat
ASSUME QueryAssumption   == Limits \cup Offsets \cup Ends \subseteq Nat
ASSUME DefaultAssumption == DefaultLimit \in Nat \ {0}

VARIABLES
  buffer,   \* rows not sealed yet
  segs,     \* the sealed segments, each a set of rows; {} once it is gone
  arrived,  \* every row ever ingested
  late,     \* has a row arrived after a newer one?
  phase,    \* the client's: idle, counting, paging, done
  query,    \* its imbh_log_query builder
  after,    \* the offset it resumes from
  total,    \* what imbh_db_logs_count told it
  seen,     \* rows its pages returned ...
  repeated, \* ... and those they returned again
  origin,   \* the rows stored when the scan began
  fresh,    \* the rows that arrived since
  cut       \* has retention dropped any since?

store  == <<buffer, segs, arrived, late>>
cursor == <<after, total, seen, repeated>>
ghosts == <<origin, fresh, cut>>
vars   == <<store, phase, query, cursor, ghosts>>

Times == 1..MaxTime

Query == [limit : Limits, offset : Offsets,
          direction : {"Forward", "Backward"}, end : Ends]

Rows == buffer \cup UNION ToSet(segs)
-----------------------------------------------------------------------------
(* The query *)

\* imbh_log_query_new: engine defaults, no window.
NewQuery == [limit |-> 0, offset |-> 0, direction |-> "Backward", end |-> MaxTime + 1]

\* The half-open window [start, end), start unbounded.
Matching(q, rows) == {r \in rows : r < q.end}

PageSize(limit) == IF limit = 0 THEN DefaultLimit ELSE limit

\* How many matching rows come before r in the direction of q.
Rank(q, r, rows) ==
  Cardinality({x \in Matching(q, rows) :
                 IF q.direction = "Forward" THEN x < r ELSE x > r})

\* The rows the engine returns for q at its offset.
PageOf(q, rows) ==
  {r \in Matching(q, rows) :
     /\ q.offset <= Rank(q, r, rows)
     /\ Rank(q, r, rows) < q.offset + PageSize(q.limit)}

\* Mutant: the builder's own offset wins.
ResumeAtBuilder(q, offset) == q

\* The cursor wins over an offset left in the builder.
ResumeAt(q, offset) == [q EXCEPT !.offset = offset]

NextOffset(offset, returned) == offset + returned

\* Mutants: a full page does not count as full; limit 0 is not special.
HasMoreStrict(limit, returned) == limit > 0 /\ returned > limit
HasMoreAlways(limit, returned) == returned >= limit

HasMore(limit, returned) == limit > 0 /\ returned >= limit

\* Mutants: the count honours the offset, without saturating; or the limit.
MatchCountAfter(q, rows)  == Cardinality(Matching(q, rows)) - q.offset
MatchCountOfPage(q, rows) == Cardinality(PageOf(ResumeAt(q, 0), rows))

\* count ignores limit, offset and direction.
MatchCount(q, rows) == Cardinality(Matching(q, rows))
-----------------------------------------------------------------------------
(***************************************************************************)
(* The store holds only rows that arrived, the scan returns only rows that *)
(* arrived, and the count is never negative, whatever offset the builder   *)
(* holds.                                                                  *)
(***************************************************************************)
TypeOK ==
  /\ buffer \subseteq Times
  /\ segs \in Seq(SUBSET Times)
  /\ arrived \subseteq Times
  /\ Rows \subseteq arrived
  /\ late \in BOOLEAN
  /\ phase \in {"idle", "counting", "paging", "done"}
  /\ phase # "idle" => query \in Query
  /\ after \in Nat
  /\ total \in Nat
  /\ repeated \subseteq seen
  /\ seen \subseteq arrived
  /\ origin \subseteq arrived
  /\ fresh \subseteq arrived \ origin
  /\ cut \in BOOLEAN

Init ==
  /\ buffer = {}
  /\ segs = <<>>
  /\ arrived = {}
  /\ late = FALSE
  /\ phase = "idle"
  /\ query = NewQuery
  /\ after = 0
  /\ total = 0
  /\ seen = {}
  /\ repeated = {}
  /\ origin = {}
  /\ fresh = {}
  /\ cut = FALSE
-----------------------------------------------------------------------------
(* Other threads *)

\* A row becomes visible to queries as soon as it is ingested.
IngestLogs(r) ==
  /\ r \notin arrived
  /\ buffer' = buffer \cup {r}
  /\ arrived' = arrived \cup {r}
  /\ late' = (late \/ \E x \in arrived : r < x)
  /\ fresh' = IF phase = "idle" THEN {} ELSE fresh \cup {r}
  /\ UNCHANGED <<segs, phase, query, cursor, origin, cut>>

\* The segments once the buffer is force-sealed.
Sealed == IF buffer = {} THEN segs ELSE Append(segs, buffer)

Flush ==
  /\ buffer' = {}
  /\ segs' = Sealed
  /\ UNCHANGED <<arrived, late, phase, query, cursor, ghosts>>

\* Maintenance seals, then retires the segments whose newest row is at most k.
Maintain(k) ==
  /\ buffer' = {}
  /\ segs' = [i \in DOMAIN Sealed |-> IF \E r \in Sealed[i] : r > k THEN Sealed[i] ELSE {}]
  /\ cut' = (cut \/ (phase # "idle" /\ segs' # Sealed))
  /\ UNCHANGED <<arrived, late, phase, query, cursor, origin, fresh>>

\* Compaction merges two segments sealed one after the other.
Compact ==
  /\ \E i, j \in DOMAIN segs :
       /\ i < j /\ \A n \in (i + 1)..(j - 1) : segs[n] = {}
       /\ segs[i] # {} /\ segs[j] # {}
       /\ segs' = [segs EXCEPT ![i] = {}, ![j] = segs[i] \cup segs[j]]
  /\ UNCHANGED <<buffer, arrived, late, phase, query, cursor, ghosts>>
-----------------------------------------------------------------------------
(* The client *)

\* It fills in a builder and keeps it for the whole scan.
StartScan(q) ==
  /\ phase = "idle"
  /\ phase' = "counting"
  /\ query' = q
  /\ origin' = Rows
  /\ UNCHANGED <<store, cursor, fresh, cut>>

LogsCount ==
  /\ phase = "counting"
  /\ phase' = "paging"
  /\ total' = MatchCount(query, Rows)
  /\ UNCHANGED <<store, query, after, seen, repeated, ghosts>>

\* One page is one engine query, over one snapshot of the store.
LogsPage ==
  /\ phase = "paging"
  /\ LET page     == PageOf(ResumeAt(query, after), Rows)
         returned == Cardinality(page)
     IN /\ seen' = seen \cup page
        /\ repeated' = repeated \cup (seen \cap page)
        /\ after' = NextOffset(after, returned)
        /\ phase' = IF HasMore(query.limit, returned) THEN "paging" ELSE "done"
  /\ UNCHANGED <<store, query, total, ghosts>>
-----------------------------------------------------------------------------
Store == \/ \E r \in Times : IngestLogs(r)
         \/ Flush
         \/ \E k \in Times : Maintain(k)
         \/ Compact

Client == (\E q \in Query : StartScan(q)) \/ LogsCount \/ LogsPage

\* Nothing is asked of the store once the scan is over.
Next == (phase # "done" /\ Store) \/ Client

Spec == Init /\ [][Next]_vars /\ WF_vars(LogsCount) /\ WF_vars(LogsPage)
-----------------------------------------------------------------------------
(* Properties *)

Complete == phase = "done" /\ query.limit > 0

(***************************************************************************)
(* A completed scan returned every matching row that was stored from its   *)
(* beginning to its end, as long as no page could lose rows before the     *)
(* cursor: retention did not run, or it only ever retires the far end, as  *)
(* it does for a backward scan of rows that arrived in order.  Ingestion,  *)
(* late or not, sealing and compaction never make a scan skip.             *)
(***************************************************************************)
NeverSkips ==
  Complete /\ (~cut \/ (query.direction = "Backward" /\ ~late))
    => Matching(query, origin \cap Rows) \subseteq seen

(***************************************************************************)
(* No page returns a row an earlier page returned, unless a row arrives    *)
(* before the cursor: never on a forward scan of rows that arrive in       *)
(* order, nor on any scan whose time window excludes the new arrivals.     *)
(* Retention, sealing and compaction never make a scan repeat itself.      *)
(***************************************************************************)
NeverRepeats ==
  (query.direction = "Forward" /\ ~late) \/ Matching(query, fresh) = {}
    => repeated = {}

(***************************************************************************)
(* When no other thread moved data, the pages add up to the total that     *)
(* imbh_db_logs_count announced, whatever the limit and whatever offset    *)
(* was left in the builder.                                                *)
(***************************************************************************)
PagesAddUp ==
  Complete /\ fresh = {} /\ ~cut => Cardinality(seen) = total /\ repeated = {}

(***************************************************************************)
(* The paging loop ends: has_more cannot hold for ever once ingestion      *)
(* pauses (here, because MaxTime bounds it), not even under limit 0, which *)
(* is served by the default page size but never reports a next page.       *)
(***************************************************************************)
ScanEnds == phase = "paging" ~> phase = "done"
==============================================================================
