----------------------------- MODULE LgtmQueries -----------------------------
(***************************************************************************)
(* The query-language entry points of lgtm.rs against a store that other   *)
(* threads fill and retention empties.  PromQL reads the metric catalog at *)
(* one await, resolves the name it was asked for, and executes at a second *)
(* one; TraceQL finds spans whose whole trace the host fetches in a later  *)
(* call; a bare LogQL selector returns capped lines.                       *)
(*                                                                         *)
(* The parsers and evaluators of imbh-lgtm are external: a query asks for  *)
(* one metric name, for every span of a window, or for every line of one.  *)
(***************************************************************************)
EXTENDS Naturals, Integers, FiniteSets, FiniteSetsExt

CONSTANTS Samples,        \* metric points that may be ingested
          Spans,          \* spans that may be
          QueryName,      \* a stored metric name with its dots turned to underscores
          BadId,          \* not 32 hex characters
          DefaultLines,   \* LOGQL_DEFAULT_LIMIT
          Windows,        \* what the host passes for start and end,
          Limits, Steps,  \* for limit and for step
          Nothing

Times       == 0..3
StoredKinds == {"gauge", "sum", "histogram", "summary"}
Metrics     == DOMAIN QueryName
Names       == {QueryName[m] : m \in Metrics}
TraceIds    == {sp.trace : sp \in Spans}

ASSUME SamplesAssumption ==
  /\ Samples \subseteq [metric : Metrics, kind : StoredKinds, time : Times]
  /\ \A sp \in Spans : sp.time \in Times
  /\ BadId \notin TraceIds
ASSUME LimitsAssumption ==
  /\ Windows \subseteq Times \X Times
  /\ Limits \subseteq Int /\ Steps \subseteq Int /\ DefaultLines \in Nat \ {0}

VARIABLES
  points,   \* the metric points stored
  spans,    \* the spans stored
  pending,  \* a PromQL call between its two awaits
  during,   \* catalog entries seen at some moment of it
  stable,   \* the points stored at every moment of it
  reply,    \* what the latest call returned
  matched   \* what the latest TraceQL call found and retention has left

store    == <<points, spans>>
lgtmVars == <<points, spans, pending, during, stable, reply, matched>>

\* One catalog entry per metric and kind that has points.
CatalogOf(stored) == {[metric |-> s.metric, kind |-> s.kind] : s \in stored}

Is(call) == reply # Nothing /\ reply.of = call
Fetched  == Is("get_trace")

EvalKinds == {"Gauge", "CumulativeCounter", "CumulativeHistogram"}
-----------------------------------------------------------------------------
(* promql_context *)

\* Mutant: the kinds of scalar and histogram sums are swapped.
EvalKindSwapped(k) ==
  CASE k = "histogram" -> "CumulativeCounter" [] k = "sum" -> "CumulativeHistogram"
    [] OTHER -> "Gauge"

\* The catalog's temporality is not consulted, and every other kind is a gauge.
EvalKind(k) ==
  CASE k = "sum" -> "CumulativeCounter" [] k = "histogram" -> "CumulativeHistogram"
    [] OTHER -> "Gauge"

ResolutionOf(c) ==
  [query_name |-> QueryName[c.metric], storage_name |-> c.metric, kind |-> EvalKind(c.kind)]

PromqlContext(catalog) == {ResolutionOf(c) : c \in catalog}

\* Mutant: a step the host leaves at 0 is passed on.
StepRaw(step) == step

StepOf(step) == IF step < 1 THEN 1 ELSE step
-----------------------------------------------------------------------------
Idle == pending = Nothing

\* The first await and the translation: the name is looked up among the metrics stored now.
\* Names that collide resolve to any one of them (the translator is external).
BeginPromql(name, step) ==
  /\ Idle
  /\ LET found == {r \in PromqlContext(CatalogOf(points)) : r.query_name = name}
     IN \/ /\ found = {}
           /\ reply' = [of |-> "promql", code |-> "Query", asked |-> name]
           /\ UNCHANGED pending
        \/ /\ \E r \in found : pending' = [asked |-> name, metric |-> r, step |-> StepOf(step)]
           /\ reply' = Nothing
  /\ during' = CatalogOf(points)
  /\ stable' = points
  /\ UNCHANGED <<store, matched>>

\* Mutant: execution matches by query name.
PointsOfQueryName(m) == {s \in points : QueryName[s.metric] = QueryName[m]}

PointsOf(m) == {s \in points : s.metric = m}

\* The second await: every point of the resolved metric, as it is stored by then.
ExecutePromql ==
  /\ pending # Nothing
  /\ \/ reply' = [of |-> "promql", code |-> "Ok", asked |-> pending.asked,
                  metric |-> pending.metric,
                  points |-> PointsOf(pending.metric.storage_name)]
     \/ reply' = [of |-> "promql", code |-> "Query", asked |-> Nothing]
  /\ pending' = Nothing
  /\ UNCHANGED <<store, during, stable, matched>>

CapOf(limit) == IF limit > 0 THEN limit ELSE DefaultLines

\* A bare selector over [start, end]; the points stand for lines here as well.  The text may not
\* translate, the window may be empty, the filter may not build; "Storage" is the engine's own.
QueryLogqlLines(start, end, limit) ==
  /\ Idle
  /\ \/ reply' \in [of : {"lines"}, code : {"Query", "Storage"}]
     \/ /\ start <= end
        /\ LET found == {s \in points : s.time \in start..end}
           IN \E lines \in SUBSET found :
                /\ Cardinality(lines) = Min({Cardinality(found), CapOf(limit)})
                /\ reply' = [of |-> "lines", code |-> "Ok", lines |-> lines]
  /\ UNCHANGED <<store, pending, during, stable, matched>>

\* A range aggregation; every failure of it is a QUERY error.
QueryLogqlSeries(step) ==
  /\ Idle
  /\ reply' \in [of : {"series"}, code : {"Ok", "Query"}, step : {StepOf(step)}]
  /\ UNCHANGED <<store, pending, during, stable, matched>>

\* TraceQL over [start, end].
QueryTraceql(start, end) ==
  /\ Idle
  /\ IF start > end
     THEN reply' = [of |-> "traceql", code |-> "Query"] /\ UNCHANGED matched
     ELSE /\ matched' = {sp \in spans : sp.time \in start..end}
          /\ reply' = [of |-> "traceql", code |-> "Ok"]
  /\ UNCHANGED <<store, pending, during, stable>>

\* Mutant: only the first batch is exported.
FirstBatchOf(id) ==
  {sp \in spans : sp.trace = id /\ \A other \in spans : other.trace = id => sp.time <= other.time}

TraceOf(id) == {sp \in spans : sp.trace = id}

\* A well-formed id of no trace, or of one retention has dropped, is an empty stream.
GetTrace(id) ==
  /\ Idle
  /\ reply' = IF id = BadId THEN [of |-> "get_trace", code |-> "InvalidArg", id |-> id]
              ELSE [of |-> "get_trace", code |-> "Ok", id |-> id, spans |-> TraceOf(id)]
  /\ UNCHANGED <<store, pending, during, stable, matched>>
-----------------------------------------------------------------------------
(* Other threads of the host, and the engine's maintenance; the host has had its reply *)

StoreBecomes(p, s) ==
  /\ points' = p /\ spans' = s
  /\ IF pending = Nothing THEN during' = {} /\ stable' = {}
     ELSE during' = during \cup CatalogOf(p) /\ stable' = stable \cap p
  /\ matched' = matched \cap s
  /\ reply' = Nothing
  /\ UNCHANGED pending

Ingest ==
  \/ \E x \in Samples \ points : StoreBecomes(points \cup {x}, spans)
  \/ \E x \in Spans \ spans : StoreBecomes(points, spans \cup {x})

Retire == \E t \in Times : StoreBecomes({s \in points : s.time > t}, {s \in spans : s.time > t})

-----------------------------------------------------------------------------
LgtmInit ==
  /\ points = {} /\ spans = {} /\ matched = {} /\ during = {} /\ stable = {}
  /\ pending = Nothing /\ reply = Nothing

LgtmNext ==
  \/ Ingest \/ Retire \/ ExecutePromql
  \/ \E name \in Names, step \in Steps : BeginPromql(name, step)
  \/ \E w \in Windows, limit \in Limits : QueryLogqlLines(w[1], w[2], limit)
  \/ \E step \in Steps : QueryLogqlSeries(step)
  \/ \E w \in Windows : QueryTraceql(w[1], w[2])
  \/ \E id \in TraceIds \cup {BadId} : GetTrace(id)

LgtmSpec == LgtmInit /\ [][LgtmNext]_lgtmVars
-----------------------------------------------------------------------------
(***************************************************************************)
(* Types; no evaluation steps by less than a nanosecond, which would never *)
(* reach the end of its range, and the stale view a call works with is     *)
(* about metrics that were stored while it ran.                            *)
(***************************************************************************)
LgtmTypeOK ==
  /\ points \subseteq Samples /\ spans \subseteq Spans
  /\ pending # Nothing =>
       /\ pending.step \in Nat \ {0} /\ pending.asked \in Names
       /\ pending.metric.kind \in EvalKinds
       /\ pending.metric.storage_name \in {c.metric : c \in during}
  /\ during \subseteq CatalogOf(Samples) /\ stable \subseteq points \cup Samples
  /\ matched \subseteq spans
  /\ Is("series") => reply.step \in Nat \ {0}

(***************************************************************************)
(* An answer is about one metric of the asked name, and has every point of *)
(* it that was stored from the catalog read to the execution; points that  *)
(* come or go in between may be in it or not.                              *)
(***************************************************************************)
AnswersTheMetricAsked ==
  Is("promql") /\ reply.code = "Ok" =>
    /\ QueryName[reply.metric.storage_name] = reply.asked
    /\ \A s \in reply.points : s.metric = reply.metric.storage_name
    /\ \A s \in stable : s.metric = reply.metric.storage_name => s \in reply.points

(***************************************************************************)
(* Points are evaluated as what they are (a sum as a counter, a histogram  *)
(* as a histogram) unless the metric had two kinds while the call ran: the *)
(* kind is the catalog's, read before the points are.                      *)
(***************************************************************************)
EvaluatedAsTheirKind ==
  Is("promql") /\ reply.code = "Ok" =>
    \A c, s \in during :
      (/\ {c.metric, s.metric} = {reply.metric.storage_name}
       /\ \A d \in during : d.metric = c.metric => d.kind = c.kind) =>
      reply.metric.kind = (CASE c.kind = "sum" -> "CumulativeCounter"
                             [] c.kind = "histogram" -> "CumulativeHistogram"
                             [] OTHER -> "Gauge")

(***************************************************************************)
(* The trace of a match can be fetched, with every span the search found   *)
(* that retention has not dropped since.                                   *)
(***************************************************************************)
FollowUpFindsTheMatch ==
  [][Fetched' /\ reply'.id \in {sp.trace : sp \in matched} =>
       /\ reply'.code = "Ok"
       /\ {sp \in matched : sp.trace = reply'.id} \subseteq reply'.spans]_lgtmVars
==============================================================================
