----------------------------- MODULE EntryPoints -----------------------------
(***************************************************************************)
(* The control skeleton of every guarded entry point of the C ABI.  An     *)
(* entry point is the sequence of the steps its closure takes, in source   *)
(* order; CallBoundary executes one step at a time.  Entry points with the *)
(* same sequence share a row.                                              *)
(*                                                                         *)
(*   "db" ... "out"   reading one pointer argument; fails when it is bad   *)
(*   "convert"        TryFrom of a builder's message, an imbh::Error       *)
(*   "effect"         a fallible engine call that changes the database     *)
(*   "engine"         a fallible engine call that only reads               *)
(*   "peek"           an engine call that cannot report an error           *)
(*   "translate"      query-language work whose errors become CallError::  *)
(*                    Query, the execution of the query included           *)
(*   "encode"         building Arrow data, also CallError::Query           *)
(*   "runtime"        building the handle's tokio runtime                  *)
(*   "lookup"         finding a table in the engine's statistics           *)
(*   "optional"       writing the out-params that may be NULL (a NULL one  *)
(*                    is skipped and counts as written)                    *)
(*   "write", "poke"  writing the required out-param, a builder's field    *)
(***************************************************************************)
EXTENDS Naturals, Sequences

ArgSteps   == {"db", "path", "opts", "body", "text", "query", "builder",
               "key", "value", "values", "trace", "out"}
WriteSteps == {"optional", "write", "poke"}
CodeSteps  == {"convert", "effect", "engine", "peek", "translate", "encode"}
Steps      == ArgSteps \cup WriteSteps \cup CodeSteps \cup {"runtime", "lookup"}

(***************************************************************************)
(* Opening opens the engine before it builds the runtime; closing is the   *)
(* only lifecycle call that takes a handle and is guarded (FreeHandle of   *)
(* CallBoundary is not).                                                   *)
(***************************************************************************)
LifecycleProgram ==
  [OpenMemory   |-> <<"out", "effect", "runtime", "write">>,
   Open         |-> <<"out", "path", "opts", "effect", "runtime", "write">>,
   OpenReadOnly |-> <<"out", "path", "effect", "runtime", "write">>,
   Close        |-> <<"db", "effect">>]

\* Mutant: the body is looked at only once the write has begun.
IngestProgramUnchecked == [Ingest |-> <<"db", "effect", "body", "optional">>]

\* ingest_logs, ingest_traces and ingest_metrics differ only in the decoder.
IngestProgram == [Ingest |-> <<"db", "body", "effect", "optional">>]

SqlProgram == [QuerySql |-> <<"db", "text", "out", "engine", "write">>]

\* Mutant: a report is filled in before the engine call that may fail.
OpsProgramEager ==
  [Flush      |-> <<"db", "effect">>,
   Maintain   |-> <<"db", "optional", "effect">>,
   Stats      |-> <<"db", "out", "engine", "write">>,
   TableStats |-> <<"db", "out", "engine", "lookup", "write">>]

\* Maintain and Compact report optionally; so does Snapshot.
OpsProgram ==
  [Flush      |-> <<"db", "effect">>,
   Maintain   |-> <<"db", "effect", "optional">>,
   Stats      |-> <<"db", "out", "engine", "write">>,
   TableStats |-> <<"db", "out", "engine", "lookup", "write">>]

AdminProgram ==
  [Snapshot       |-> <<"db", "path", "effect", "optional">>,
   DurableThrough |-> <<"db", "out", "peek", "write">>,
   Segments       |-> <<"db", "out", "peek", "encode", "write">>,
   Export         |-> <<"db", "out", "engine", "write">>,
   QuerySqlIpc    |-> <<"db", "text", "out", "engine", "encode", "write">>]

\* logs_query, metrics_range, traces_span_metrics; metrics_instant.
TypedProgram ==
  [LogsQuery      |-> <<"db", "query", "out", "convert", "engine", "optional", "write">>,
   MetricsInstant |-> <<"db", "query", "out", "convert", "engine", "encode", "write">>]

\* logs_volume reads its group_by array only after the conversion.
LogProgram ==
  [LogsVolume |-> <<"db", "query", "out", "convert", "values", "engine", "encode", "write">>,
   LogsPage   |-> <<"db", "query", "out", "convert", "engine", "optional", "write">>,
   LogsCount  |-> <<"db", "query", "out", "convert", "engine", "write">>]

\* The points builder has no proto message, hence no conversion.
PointsProgram == [MetricsPoints |-> <<"db", "query", "out", "engine", "write">>]

\* attr_names and metric_catalog; attr_values, metric_series, metric_exemplars.
DiscoveryProgram ==
  [AttrNames  |-> <<"db", "out", "engine", "encode", "write">>,
   AttrValues |-> <<"db", "text", "out", "engine", "encode", "write">>]

(***************************************************************************)
(* PromQL reads the catalog (an imbh::Error passes through unchanged), then *)
(* translates and executes; LogQL's line form executes with the engine's   *)
(* own error, its series form and TraceQL fold it into Query.              *)
(***************************************************************************)
LgtmProgram ==
  [QueryPromql      |-> <<"db", "text", "out", "engine", "translate", "write">>,
   QueryLogqlLines  |-> <<"db", "text", "out", "translate", "engine", "write">>,
   QueryLogqlSeries |-> <<"db", "text", "out", "translate", "write">>]

TraceProgram ==
  [QueryTraceql |-> <<"db", "text", "out", "translate", "write">>,
   GetTrace     |-> <<"db", "text", "out", "trace", "engine", "write">>]

\* The setters of every builder have one of these four forms.
SetterProgram ==
  [SetNumber |-> <<"builder", "poke">>,
   SetString |-> <<"builder", "text", "poke">>,
   AddPair   |-> <<"builder", "key", "value", "poke">>,
   AddValues |-> <<"builder", "key", "values", "poke">>]

EntryPoint ==
  UNION {DOMAIN LifecycleProgram, DOMAIN IngestProgram, DOMAIN SqlProgram,
         DOMAIN OpsProgram, DOMAIN AdminProgram, DOMAIN TypedProgram,
         DOMAIN LogProgram, DOMAIN PointsProgram, DOMAIN DiscoveryProgram,
         DOMAIN LgtmProgram, DOMAIN TraceProgram, DOMAIN SetterProgram}

Program(e) ==
  CASE e \in DOMAIN LifecycleProgram -> LifecycleProgram[e]
    [] e \in DOMAIN IngestProgram    -> IngestProgram[e]
    [] e \in DOMAIN SqlProgram       -> SqlProgram[e]
    [] e \in DOMAIN OpsProgram       -> OpsProgram[e]
    [] e \in DOMAIN AdminProgram     -> AdminProgram[e]
    [] e \in DOMAIN TypedProgram     -> TypedProgram[e]
    [] e \in DOMAIN LogProgram       -> LogProgram[e]
    [] e \in DOMAIN PointsProgram    -> PointsProgram[e]
    [] e \in DOMAIN DiscoveryProgram -> DiscoveryProgram[e]
    [] e \in DOMAIN LgtmProgram      -> LgtmProgram[e]
    [] e \in DOMAIN TraceProgram     -> TraceProgram[e]
    [] e \in DOMAIN SetterProgram    -> SetterProgram[e]

\* The arguments an entry point reads and the writes it performs on success.
StepsOf(e)  == {Program(e)[i] : i \in DOMAIN Program(e)}
ArgsOf(e)   == StepsOf(e) \cap ArgSteps
WritesOf(e) == StepsOf(e) \cap WriteSteps
==============================================================================
