---------------------------- MODULE QueryBuilders ----------------------------
(***************************************************************************)
(* The five query builders of query.rs: a message with one field per       *)
(* setter, poked by guarded setters, and run any number of times by the    *)
(* entry points that take it.  A `set` keeps the last value, an `add`      *)
(* appends.  A setter reads its arguments before it touches the message; a *)
(* value out of the engine's range is only refused when the query is run.  *)
(*                                                                         *)
(* A setter is named after the proto field it is documented to fill.       *)
(* Strings are members of Texts, or BadText: a NULL or non-UTF-8 pointer.  *)
(***************************************************************************)
EXTENDS Naturals, Sequences, SequencesExt

CONSTANTS Texts, BadText,
          Numbers,   \* what hosts pass for numbers, enums and windows
          MaxSaid,   \* bound: successful setter calls
          NoQuery

ASSUME TextAssumption == BadText \notin Texts
ASSUME BoundAssumption == MaxSaid \in Nat /\ Numbers \subseteq Nat

Sets(args) == [how |-> "set", args |-> args]
Adds(args) == [how |-> "add", args |-> args]

\* Argument classes, in the order the setter reads them.
Text  == <<"text">>
Pair  == <<"text", "text">>
Array == <<"text", "array">>
Value == <<"value">>

LogFields ==
  [service |-> Sets(Text), min_severity |-> Sets(Value), text |-> Sets(Text),
   range |-> Sets(Value), limit |-> Sets(Value), direction |-> Sets(Value),
   offset |-> Sets(Value)]

\* The attribute filters logs and traces have in common.
AttrFilters ==
  [attr_eq |-> Adds(Pair), attr_exists |-> Adds(Text), attr_matches |-> Adds(Pair),
   attr_regex |-> Adds(Pair), attr_in |-> Adds(Array), attr_not_in |-> Adds(Array),
   attr_num |-> Adds(<<"text", "value", "value">>)]

LogSetters == [f \in DOMAIN LogFields \cup DOMAIN AttrFilters |->
                 IF f \in DOMAIN LogFields THEN LogFields[f] ELSE AttrFilters[f]]

MetricSetters ==
  [metric |-> Sets(Text), aggregation |-> Sets(Value), group_by |-> Adds(Text),
   filters |-> Adds(<<"text", "value", "text">>), range |-> Sets(Value),
   step_nanos |-> Sets(Value), rate |-> Sets(Value)]

SpanMetricsSetters ==
  [service |-> Sets(Text), name |-> Sets(Text), kind |-> Sets(Text), status |-> Sets(Text),
   attr_eq |-> Adds(Pair), group_by |-> Adds(Text), range |-> Sets(Value),
   step_nanos |-> Sets(Value)]

TraceFields ==
  [service |-> Sets(Text), name |-> Sets(Text), text |-> Sets(Text), status |-> Sets(Text),
   kind |-> Sets(Text), min_duration_ns |-> Sets(Value), max_duration_ns |-> Sets(Value),
   range |-> Sets(Value), limit |-> Sets(Value)]

TraceFilters == AttrFilters

TraceSetters == [f \in DOMAIN TraceFields \cup DOMAIN TraceFilters |->
                   IF f \in DOMAIN TraceFields THEN TraceFields[f] ELSE TraceFilters[f]]

PointsSetters ==
  [metric |-> Sets(Text), filters |-> Adds(Pair), range |-> Sets(Value), limit |-> Sets(Value)]

Setters == [Log |-> LogSetters, Metric |-> MetricSetters, SpanMetrics |-> SpanMetricsSetters,
            Trace |-> TraceSetters, Points |-> PointsSetters]

\* The entry points that run a builder.
Runners == [Log |-> {"logs_query", "logs_volume", "logs_page", "logs_count"},
            Metric |-> {"metrics_range", "metrics_instant"},
            SpanMetrics |-> {"traces_span_metrics"}, Trace |-> {"traces_search"},
            Points |-> {"metrics_points"}]

VARIABLES
  kind,    \* of the builder
  fields,  \* its message: per field, the values in it
  said,    \* per setter, the values of its successful calls, in order
  code,    \* what the latest call returned
  issued   \* what the engine was last asked, until the builder changes again

vars == <<kind, fields, said, code, issued>>

Fields(k)  == DOMAIN Setters[k]
SaidCount  == FoldFunction(LAMBDA v, n : n + Len(v), 0, said)
-----------------------------------------------------------------------------
(* Reading arguments *)

\* An array argument: its length, whether its pointer is null, its strings.
Arrays == [null : BOOLEAN, items : UNION {[1..n -> Texts \cup {BadText}] : n \in 0..1}]

ArgValues(class) ==
  CASE class = "text"  -> Texts \cup {BadText}
    [] class = "array" -> Arrays
    [] class = "value" -> Numbers

\* Mutant: a null array is read as an empty one.
ReadArrayNullIsEmpty(a) ==
  IF a.null THEN <<>>
  ELSE IF \E i \in DOMAIN a.items : a.items[i] = BadText THEN BadText ELSE a.items

\* The pointer is not looked at when the length is 0; the first bad string ends it.
ReadArray(a) ==
  IF a.items # <<>> /\ (a.null \/ \E i \in DOMAIN a.items : a.items[i] = BadText)
  THEN BadText ELSE a.items

\* What the setter makes of an argument; BadText is its InvalidArg.
Read(class, a) == IF class = "array" THEN ReadArray(a) ELSE a

\* What the host meant by it.
Meaning(class, a) == IF class = "array" THEN a.items ELSE a

Calls(args) == {c \in [1..Len(args) -> UNION {ArgValues(args[i]) : i \in DOMAIN args}] :
                  \A i \in DOMAIN args : c[i] \in ArgValues(args[i])}

Accepted(args, c) == \A i \in DOMAIN args : Read(args[i], c[i]) # BadText
ReadAll(args, c)  == [i \in DOMAIN args |-> Read(args[i], c[i])]
Meant(args, c)    == [i \in DOMAIN args |-> Meaning(args[i], c[i])]
-----------------------------------------------------------------------------
(* Setters *)

\* Mutant: a setter copied from its neighbour still pushes to the neighbour's list.
TargetCopied(s) == IF s = "attr_not_in" THEN "attr_in" ELSE s

Target(s) == s

\* Mutants: set keeps the first value; set keeps them all.
PokeOnce(s, v) ==
  [fields EXCEPT ![Target(s)] = IF Setters[kind][s].how = "set" /\ @ # <<>> THEN @
                                ELSE Append(@, v)]
PokeAll(s, v) == [fields EXCEPT ![Target(s)] = Append(@, v)]

Poke(s, v) ==
  [fields EXCEPT ![Target(s)] = IF Setters[kind][s].how = "set" THEN <<v>> ELSE Append(@, v)]

\* Mutant: the filter is pushed with its key before its value is read.
CallSetterEarly(s) ==
  \E c \in Calls(Setters[kind][s].args) :
    /\ IF Accepted(Setters[kind][s].args, c)
       THEN /\ SaidCount < MaxSaid
            /\ said' = [said EXCEPT ![s] = Append(@, Meant(Setters[kind][s].args, c))]
            /\ code' = "Ok"
       ELSE said' = said /\ code' = "InvalidArg"
    /\ fields' = Poke(s, ReadAll(Setters[kind][s].args, c))
    /\ issued' = NoQuery
    /\ UNCHANGED kind

\* An argument that cannot be read leaves the message alone.
CallSetter(s) ==
  /\ \E c \in Calls(Setters[kind][s].args) :
       IF Accepted(Setters[kind][s].args, c)
       THEN /\ SaidCount < MaxSaid
            /\ fields' = Poke(s, ReadAll(Setters[kind][s].args, c))
            /\ said' = [said EXCEPT ![s] = Append(@, Meant(Setters[kind][s].args, c))]
            /\ code' = "Ok"
       ELSE UNCHANGED <<fields, said>> /\ code' = "InvalidArg"
  /\ issued' = NoQuery
  /\ UNCHANGED kind
-----------------------------------------------------------------------------
(* Running a query *)

LastOr(values, default) == IF values = <<>> THEN default ELSE Last(values)[1]

\* The default page and result sizes of the engine, by builder.
DefaultLimit(k) == IF k = "Trace" THEN 20 ELSE 100
OrDefault(n, default) == IF n = 0 THEN default ELSE n

\* TryFrom's range check (external); the points builder has no message to convert.
OutOfRange(b) == /\ "min_severity" \in DOMAIN b
                 /\ b["min_severity"] # <<>>
                 /\ LastOr(b["min_severity"], 0) \notin 1..24

\* Mutant: a zero limit reaches the native builder.
NativePointsRaw(b) ==
  [f \in DOMAIN b |-> IF f = "limit" THEN <<<<LastOr(b[f], 0)>>>> ELSE b[f]]

\* metrics_points assembles the native query: a limit of 0 is not passed on, so that the
\* native default stands.
NativePoints(b) ==
  [f \in DOMAIN b |->
     IF f = "limit" THEN <<<<IF LastOr(b[f], 0) > 0 THEN LastOr(b[f], 0)
                             ELSE DefaultLimit("Points")>>>>
     ELSE b[f]]

\* The other builders are cloned and converted; TryFrom (external) fills in the limit.
Converted(k, b) ==
  [f \in DOMAIN b |->
     IF f = "limit" THEN <<<<OrDefault(LastOr(b[f], 0), DefaultLimit(k))>>>> ELSE b[f]]

\* Mutant: the cursor is only a default.
ClonedForCursorDefault(entry, b, after) ==
  IF entry = "logs_page" /\ b["offset"] = <<>> THEN [b EXCEPT !["offset"] = <<<<after>>>>]
  ELSE b

\* logs_page overrides the offset of its clone.
ClonedFor(entry, b, after) ==
  IF entry = "logs_page" THEN [b EXCEPT !["offset"] = <<<<after>>>>] ELSE b

\* What the engine is given.
QueryOf(entry, k, b, after) ==
  IF k = "Points" THEN NativePoints(b) ELSE Converted(k, ClonedFor(entry, b, after))

\* Mutant: a page leaves its cursor in the builder.
RunKeepingCursor(entry, after) ==
  /\ ~OutOfRange(fields)
  /\ issued' = [entry |-> entry, after |-> after, query |-> QueryOf(entry, kind, fields, after)]
  /\ fields' = ClonedFor(entry, fields, after)
  /\ code' = "Ok"
  /\ UNCHANGED <<kind, said>>

\* The builder is const here, run or refused, whether the engine then fails or not.
Run(entry, after) ==
  /\ IF OutOfRange(fields)
     THEN /\ code' = "Refused"
          /\ issued' = NoQuery
     ELSE /\ code' \in {"Ok", "Failed"}
          /\ issued' = [entry |-> entry, after |-> after,
                        query |-> QueryOf(entry, kind, fields, after)]
  /\ UNCHANGED <<kind, fields, said>>
-----------------------------------------------------------------------------
\* imbh_*_query_new: an empty message.
Init ==
  /\ kind \in DOMAIN Setters
  /\ fields = [f \in Fields(kind) |-> <<>>]
  /\ said = fields
  /\ code = "Ok"
  /\ issued = NoQuery

Next == \/ \E s \in Fields(kind) : CallSetter(s)
        \/ \E entry \in Runners[kind], after \in Numbers : Run(entry, after)

Spec == Init /\ [][Next]_vars
-----------------------------------------------------------------------------
(***************************************************************************)
(* Types; a field with a `set` holds one value at most, and nothing that   *)
(* could not be read is ever in the message.                               *)
(***************************************************************************)
TypeOK ==
  /\ kind \in DOMAIN Setters
  /\ DOMAIN fields = Fields(kind) /\ DOMAIN said = Fields(kind)
  /\ \A f \in Fields(kind) :
       /\ \A i \in DOMAIN fields[f] : BadText \notin Range(fields[f][i])
       /\ Setters[kind][f].how = "set" => Len(fields[f]) <= 1
  /\ code \in {"Ok", "InvalidArg", "Refused", "Failed"}

(***************************************************************************)
(* A builder means what was said: each field holds the last value, or all  *)
(* the values in order, of the successful calls of its own setter; a       *)
(* failed call, another setter and a run leave no trace in it.             *)
(***************************************************************************)
MeansWhatWasSaid ==
  \A s \in Fields(kind) :
    fields[s] = IF Setters[kind][s].how = "add" \/ said[s] = <<>> THEN said[s]
                ELSE <<Last(said[s])>>

(***************************************************************************)
(* The engine is asked what was said, with the documented defaults: the    *)
(* limit is never 0, and only a page asks for another offset than was said *)
(* to the builder.                                                         *)
(***************************************************************************)
AskedWhatWasSaid ==
  issued # NoQuery =>
    \A f \in Fields(kind) :
      issued.query[f] =
        IF f = "limit" THEN <<<<OrDefault(LastOr(said[f], 0), DefaultLimit(kind))>>>>
        ELSE IF f = "offset" /\ issued.entry = "logs_page" THEN <<<<issued.after>>>>
        ELSE IF Setters[kind][f].how = "set" /\ said[f] # <<>> THEN <<Last(said[f])>>
        ELSE said[f]
==============================================================================
