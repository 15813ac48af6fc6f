---------------------------- MODULE ResultStreams ----------------------------
(***************************************************************************)
(* How an answer of the engine becomes an Arrow stream or Arrow-IPC bytes, *)
(* and how the host reads it while the store goes on changing.             *)
(*                                                                         *)
(* A catalog lookup turns a list of items into one batch, column by        *)
(* column (discovery.rs and the result halves of query.rs); the other      *)
(* entry points export the batches the engine collected, with a schema     *)
(* beside them (SQL) or without one (the typed queries).  A column value   *)
(* is the part of the item it was pushed from: <<row, part>>, or null; a   *)
(* labels value is its JSON text, an object as a set of members.           *)
(***************************************************************************)
EXTENDS Naturals, Sequences, FiniteSets, SequencesExt, Functions

CONSTANTS Rows,       \* what may be stored: an id and typed attributes
          MaxStored,  \* a bound on the rows stored at once
          MaxBatches, \* a bound on the batches of an answer
          Asked       \* the entry points the host calls

VARIABLES
  store,      \* the rows stored
  open,       \* the database is not freed yet
  stream,     \* the stream in the host's slot, or NoStream
  delivered,  \* the rows the host has read from it
  reply,      \* what the latest call returned
  said        \* every labels text the host has read, with the set it stands for

streamVars == <<store, open, stream, delivered, reply, said>>

Catalog  == {"attr_names", "attr_values", "metric_catalog", "metric_series", "exemplars",
             "metrics_instant", "logs_volume", "traces_search", "segments", "segment_files"}
Sql      == {"query_sql", "query_sql_ipc"}
Lists    == {"segments", "segment_files"}  \* these cannot fail in the engine
OneBatch == {"promql", "logql_series", "traceql"}
Typed    == {"logs_query", "logs_page", "metrics_range", "span_metrics", "metrics_points",
             "get_trace", "logql_lines"}
Entries  == Catalog \cup Sql \cup OneBatch \cup Typed

ASSUME BoundAssumption == MaxStored \in Nat /\ MaxBatches \in Nat
ASSUME AskedAssumption == Asked \subseteq Entries
ASSUME RowsAssumption ==
  \A r \in Rows : \A a, b \in r.attrs :
    /\ a = [key |-> a.key, text |-> a.text, kind |-> a.kind]
    /\ a.key = b.key => a = b
-----------------------------------------------------------------------------
(* Schemas *)

Req(name) == [name |-> name, nullable |-> FALSE]
Opt(name) == [name |-> name, nullable |-> TRUE]

\* Mutant: the root of a trace is taken to be always known.
TraceSummaryFieldsStrict ==
  <<Req("trace_id"), Req("root_service"), Opt("root_name"), Req("start_time"),
    Req("duration_ns"), Req("span_count"), Req("error")>>

TraceSummaryFields ==
  <<Req("trace_id"), Opt("root_service"), Opt("root_name"), Req("start_time"),
    Req("duration_ns"), Req("span_count"), Req("error")>>

ExemplarFields ==
  <<Req("time"), Req("value"), Opt("trace_id"), Opt("span_id"), Req("attributes")>>

CatalogFields == <<Req("metric"), Req("unit"), Opt("temporality"), Req("kind")>>

SegmentFields ==
  <<Req("relative_path"), Req("min_time_unix_nano"), Req("max_time_unix_nano"), Req("rows")>>

SeriesFields == <<Req("labels"), Req("timestamp"), Req("value")>>
VolumeFields == <<Req("bucket_time"), Req("labels"), Req("count")>>

Fields(entry) ==
  CASE entry = "attr_names"      -> <<Req("name")>>
    [] entry = "attr_values"     -> <<Req("value")>>
    [] entry = "metric_series"   -> <<Req("labels")>>
    [] entry = "segment_files"   -> <<Req("path")>>
    [] entry = "metric_catalog"  -> CatalogFields
    [] entry = "exemplars"       -> ExemplarFields
    [] entry = "metrics_instant" -> SeriesFields
    [] entry = "logs_volume"     -> VolumeFields
    [] entry = "traces_search"   -> TraceSummaryFields
    [] entry = "segments"        -> SegmentFields
    [] OTHER                     -> <<Req("row")>>  \* the engine's own columns, as one

\* What the engine may leave out of an item: the Option fields of its types.
Optional(entry) ==
  CASE entry = "metric_catalog" -> {"temporality"}
    [] entry = "exemplars"      -> {"trace_id", "span_id"}
    [] entry = "traces_search"  -> {"root_service", "root_name"}
    [] OTHER                    -> {}
-----------------------------------------------------------------------------
(* Labels *)

\* canonical_json_object: keys sorted, so only the members count.
CanonicalJson(pairs) == Range(pairs)

\* Mutant: the pairs are written in the order they come, so it matters which is first.
LabelsInOrder(pairs) ==
  CanonicalJson([i \in DOMAIN pairs |->
                   [pairs[i] EXCEPT !.kind = IF i = 1 THEN "first" ELSE "str"]])

\* The engine's label values are strings by then, whatever they were ingested as.
LabelsToJson(pairs) == CanonicalJson([i \in DOMAIN pairs |-> [pairs[i] EXCEPT !.kind = "str"]])

\* metric_series renders the stored attributes themselves, each with its type.
SeriesToJson(pairs) == CanonicalJson(pairs)

LabelsOf(entry, pairs) ==
  IF entry = "metric_series" THEN SeriesToJson(pairs) ELSE LabelsToJson(pairs)
-----------------------------------------------------------------------------
(* Batches *)

\* The places of an Arrow column: valid ones with their value, and nulls.
Valid(v) == [valid |-> TRUE, value |-> v]
Absent   == [valid |-> FALSE]

\* What is pushed for column f.
PartOf(entry, item, f) ==
  IF f.name = "labels" THEN Valid(LabelsOf(entry, item.pairs))
  ELSE IF f.name \in item.lacks THEN Absent ELSE Valid(<<item.id, f.name>>)

\* Mutants: an absent value is skipped; the bounds of a segment are swapped.
PushedSome(entry, items, f) ==
  LET has(item) == f.name \notin item.lacks
      present   == SelectSeq(items, has)
  IN [i \in DOMAIN present |-> PartOf(entry, present[i], f)]
Twin(f) ==
  CASE f.name = "min_time_unix_nano" -> Req("max_time_unix_nano")
    [] f.name = "max_time_unix_nano" -> Req("min_time_unix_nano") [] OTHER -> f
PushedSwapped(entry, items, f) == [i \in DOMAIN items |-> PartOf(entry, items[i], Twin(f))]

\* One push per item and column.
Pushed(entry, items, f) == [i \in DOMAIN items |-> PartOf(entry, items[i], f)]

Batch(entry, items) ==
  [schema  |-> Fields(entry),
   columns |-> [c \in DOMAIN Fields(entry) |-> Pushed(entry, items, Fields(entry)[c])]]

\* RecordBatch::try_new.
WellFormed(batch) ==
  \A c \in DOMAIN batch.columns :
    /\ Len(batch.columns[c]) = Len(batch.columns[1])
    /\ ~batch.schema[c].nullable => \A v \in Range(batch.columns[c]) : v.valid

RowsOf(batch) ==
  [i \in DOMAIN batch.columns[1] |-> [c \in DOMAIN batch.columns |-> batch.columns[c][i]]]
-----------------------------------------------------------------------------
(* The engine's answers *)

\* An item per stored row, in the engine's order, its labels in the engine's order.
ItemsFor(entry, r) ==
  [id : {r.id}, lacks : SUBSET Optional(entry), pairs : SetToSeqs(r.attrs)]

Answers(entry) ==
  LET orders == SetToSeqs(store)
  IN UNION {{s \in [DOMAIN o -> UNION {ItemsFor(entry, r) : r \in store}] :
               \A i \in DOMAIN o : s[i] \in ItemsFor(entry, o[i])} : o \in orders}

\* Where an answer of n items may be cut into m batches, empty ones included.
Cuts(m, n) ==
  {c \in [0..m -> 0..n] : c[0] = 0 /\ c[m] = n /\ \A k \in 1..m : c[k - 1] <= c[k]}

\* The engine collects into batches as it likes; an empty answer may be no batch at all.
Collected(entry, items) ==
  UNION {{[k \in 1..m |-> Batch(entry, SubSeq(items, c[k - 1] + 1, c[k]))] :
             c \in Cuts(m, Len(items))} : m \in 0..MaxBatches}
-----------------------------------------------------------------------------
(* Export *)

\* A slot whose stream was released, or never exported: its release callback is NULL.
NoStream == [entry |-> "none"]

Exported(entry, schema, batches, items) ==
  [entry |-> entry, schema |-> schema, batches |-> batches, taken |-> 0, items |-> items]

\* Mutant: the schema is dropped when there is nothing to describe.
ExportNonEmpty(entry, schema, batches, items) ==
  Exported(entry, IF items = <<>> THEN <<>> ELSE schema, batches, items)

\* export_batches and encode_ipc.
ExportBatches(entry, schema, batches, items) == Exported(entry, schema, batches, items)

\* export_batches_infer: no batch, no columns.
ExportBatchesInfer(entry, batches, items) ==
  ExportBatches(entry, IF batches = <<>> THEN <<>> ELSE batches[1].schema, batches, items)

\* Mutant: a batch without rows is not written.
StreamsSparse(entry, items) ==
  {ExportBatchesInfer(entry, IF items = <<>> THEN <<>> ELSE <<Batch(entry, items)>>, items)}

\* One batch, whatever the number of items.
CatalogStreams(entry, items) == {ExportBatchesInfer(entry, <<Batch(entry, items)>>, items)}

Streams(entry, items) ==
  CASE entry \in Catalog \cup OneBatch -> CatalogStreams(entry, items)
    [] entry \in Sql   -> {ExportBatches(entry, Fields(entry), bs, items) :
                             bs \in Collected(entry, items)}
    [] entry \in Typed -> {ExportBatchesInfer(entry, bs, items) : bs \in Collected(entry, items)}

\* One call into an empty slot; the host does not overwrite a stream it holds.  When the
\* engine fails the slot stays as it is.
Call(entry) ==
  /\ open /\ stream = NoStream
  /\ \/ \E items \in Answers(entry) :
          IF entry \in Catalog /\ ~WellFormed(Batch(entry, items))
          THEN reply' = "Arrow" /\ UNCHANGED stream
          ELSE reply' = "Ok" /\ stream' \in Streams(entry, items)
     \/ entry \notin Lists /\ reply' = "Query" /\ UNCHANGED stream
  /\ UNCHANGED <<store, open, delivered, said>>
-----------------------------------------------------------------------------
(* The consumer *)

\* Mutant: the batch is a view of the segments, read when it is asked for.
NextBatchView ==
  LET rows     == RowsOf(stream.batches[stream.taken + 1])
      Still(i) == stream.items[Len(delivered) + i].id \in {r.id : r \in store}
      kept     == SelectSeq([i \in DOMAIN rows |-> i], Still)
  IN [k \in DOMAIN kept |-> rows[kept[k]]]

\* get_next: the batch that was collected.
NextBatch == RowsOf(stream.batches[stream.taken + 1])

LabelColumns(entry) == {c \in DOMAIN Fields(entry) : Fields(entry)[c].name = "labels"}

\* The label set an item stands for: keys and values, whatever type a value had.
LabelSet(item) == {[key |-> p.key, text |-> p.text] : p \in Range(item.pairs)}

GetNext ==
  /\ stream # NoStream /\ stream.taken < Len(stream.batches)
  /\ delivered' = delivered \o NextBatch
  /\ stream' = [stream EXCEPT !.taken = @ + 1]
  /\ said' = said \cup {[set |-> LabelSet(stream.items[i]), text |-> delivered'[i][c].value,
                         by |-> stream.entry] :
                        i \in (Len(delivered) + 1)..Len(delivered'),
                        c \in LabelColumns(stream.entry)}
  /\ UNCHANGED <<store, open, reply>>

ReleaseStream ==
  /\ stream # NoStream
  /\ stream' = NoStream /\ delivered' = <<>>
  /\ UNCHANGED <<store, open, reply, said>>

\* Ingest, retention and compaction, and imbh_db_free: none waits for a stream.
Ingest(r) ==
  /\ open /\ r \notin store /\ Cardinality(store) < MaxStored
  /\ store' = store \cup {r}
  /\ UNCHANGED <<open, stream, delivered, reply, said>>

Retire(r) ==
  /\ open /\ r \in store
  /\ store' = store \ {r}
  /\ UNCHANGED <<open, stream, delivered, reply, said>>

Free ==
  /\ open
  /\ open' = FALSE
  /\ store' = {}
  /\ UNCHANGED <<stream, delivered, reply, said>>
-----------------------------------------------------------------------------
StreamInit == /\ store = {} /\ open = TRUE /\ stream = NoStream
              /\ delivered = <<>> /\ reply = "None" /\ said = {}

StreamNext == \/ \E entry \in Asked : Call(entry)
              \/ GetNext \/ ReleaseStream \/ Free
              \/ \E r \in Rows : Ingest(r) \/ Retire(r)

StreamSpec == StreamInit /\ [][StreamNext]_streamVars
-----------------------------------------------------------------------------
(***************************************************************************)
(* Types.  Every batch of a stream has the schema the stream advertises:   *)
(* a consumer decodes all of them with the one it read first.              *)
(***************************************************************************)
StreamTypeOK ==
  /\ store \subseteq Rows /\ Cardinality(store) <= MaxStored
  /\ open \in BOOLEAN
  /\ reply \in {"Ok", "Arrow", "Query", "None"}
  /\ stream # NoStream =>
       /\ stream.taken \in 0..Len(stream.batches)
       /\ \A b \in Range(stream.batches) : b.schema = stream.schema
  /\ stream = NoStream => delivered = <<>>

(***************************************************************************)
(* The error of discovery.rs that "should never fire" does not: whatever   *)
(* optional parts an item lacks, the columns have one length and only      *)
(* nullable ones have nulls.                                               *)
(***************************************************************************)
BatchesBuild == reply # "Arrow"

(***************************************************************************)
(* What the host reads is the answer of the moment it asked: row i holds,  *)
(* under each name, that part of item i, and at the end no row is missing, *)
(* though rows were ingested and retired or the database freed meanwhile.  *)
(***************************************************************************)
ReadsTheAnswer ==
  stream # NoStream =>
    /\ Len(delivered) <= Len(stream.items)
    /\ \A i \in DOMAIN delivered : \A c \in DOMAIN stream.schema :
         delivered[i][c] = PartOf(stream.entry, stream.items[i], stream.schema[c])
    /\ stream.taken = Len(stream.batches) => Len(delivered) = Len(stream.items)

(***************************************************************************)
(* A catalog lookup, a query language's series and a SQL result have their *)
(* columns even when they have no rows.                                    *)
(***************************************************************************)
SchemaIsKnown ==
  stream # NoStream /\ stream.entry \notin Typed => stream.schema = Fields(stream.entry)

(***************************************************************************)
(* The labels of instant vectors and log volumes join: two rows have equal *)
(* texts exactly when they stand for one label set, in whatever order and  *)
(* in whichever result the engine listed it.                               *)
(***************************************************************************)
Joins(a, b) == (a.set = b.set) <=> (a.text = b.text)

LabelsJoin ==
  \A a, b \in said : "metric_series" \notin {a.by, b.by} => Joins(a, b)
-----------------------------------------------------------------------------
(* What the documentation says and the code does not do *)

(***************************************************************************)
(* "An empty result must still carry a schema": also a typed query's.      *)
(***************************************************************************)
EmptyStillTyped == stream # NoStream => stream.schema = Fields(stream.entry)

(***************************************************************************)
(* Labels "join across results": also those metric_series lists.           *)
(***************************************************************************)
LabelsJoinEverywhere == \A a, b \in said : Joins(a, b)
==============================================================================
