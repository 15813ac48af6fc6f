----------------------------- MODULE ReaderViews -----------------------------
(***************************************************************************)
(* Two handles on one directory: a writer, with background maintenance or  *)
(* without, and a read-only reader that polls.  The reader answers from    *)
(* its view of the manifest, which it renews by the refresh policy it was  *)
(* opened with; a row is in a view only once it is sealed.  What the       *)
(* binding contributes is build_options; the manifest, the maintenance     *)
(* thread and the renewal are the engine's, modelled by what               *)
(* imbh_refresh_mode and imbh_open_options say of them.  A tick is a       *)
(* millisecond.                                                            *)
(***************************************************************************)
EXTENDS Naturals, FiniteSets

CONSTANTS Rows,         \* what may be ingested
          OpenOptions,  \* what the host passes to imbh_db_open
          ReadOnlyOpen, \* imbh_db_open_read_only, which takes no options
          EnginePolicy, \* IMBH's default refresh policy
          OldAge,       \* a bound: ages are not counted beyond it
          Nothing

Options == [readOnly : BOOLEAN, stale : BOOLEAN, budget : Nat, background : Nat,
            refresh : {"Default", "OnQuery", "Manual", "Ttl"}, ttl : Nat,
            promote : {"none", "null", "keys", "bad"}]

Policies == [mode : {"OnQuery", "Manual"}, ttl : {0}] \cup [mode : {"Ttl"}, ttl : Nat]

\* The engine's settings; Nothing is its default.
Settings == [access : {"ReadWrite", "ReadOnly"}, stale : BOOLEAN, refresh : Policies,
             budget : {Nothing} \cup (Nat \ {0}), background : {Nothing} \cup (Nat \ {0}),
             promote : BOOLEAN]

Handles == [opts : Options \cup {ReadOnlyOpen}, set : Settings]

ASSUME OptionsAssumption == OpenOptions \subseteq Options /\ ReadOnlyOpen \notin Options
ASSUME PolicyAssumption  == EnginePolicy \in Policies
ASSUME AgeAssumption     == OldAge \in Nat /\ \A o \in OpenOptions : o.ttl < OldAge
ASSUME NothingAssumption == Nothing \notin Nat /\ Nothing \notin Handles

VARIABLES
  writer,   \* the writing handle, or Nothing
  reader,   \* the read-only one
  buffer,   \* rows in the writer's memory
  sealed,   \* rows in segments of the manifest
  gone,     \* rows retention has dropped
  age,      \* milliseconds since each row was sealed
  view,     \* the sealed rows the reader knows of
  viewAge,  \* milliseconds since it looked
  answer    \* the rows of its latest answer, and those it owed by its policy

rows == <<buffer, sealed, gone, age>>
eyes == <<view, viewAge, answer>>
vars == <<writer, reader, rows, eyes>>

NoAnswer == [rows |-> {}, owed |-> {}]
Older(n) == IF n < OldAge THEN n + 1 ELSE n
-----------------------------------------------------------------------------
(* build_options *)

\* Mutants: the field is in seconds; MANUAL is left to the engine.
RefreshOfSeconds(o) ==
  IF o.refresh = "Default" THEN EnginePolicy
  ELSE [mode |-> o.refresh, ttl |-> IF o.refresh = "Ttl" THEN 1000 * o.ttl ELSE 0]
RefreshOfNoManual(o) ==
  IF o.refresh \in {"Default", "Manual"} THEN EnginePolicy
  ELSE [mode |-> o.refresh, ttl |-> IF o.refresh = "Ttl" THEN o.ttl ELSE 0]

\* A time to live of 0 is passed on, unlike every other 0.
RefreshOf(o) ==
  IF o.refresh = "Default" THEN EnginePolicy
  ELSE [mode |-> o.refresh, ttl |-> IF o.refresh = "Ttl" THEN o.ttl ELSE 0]

UnlessZero(n) == IF n > 0 THEN n ELSE Nothing

\* Mutant: the maintenance interval is not looked at.
BackgroundIgnored(o) == Nothing
BackgroundOf(o)      == UnlessZero(o.background)

\* An array of n keys may be null all the same: then there are none.
Promotes(o) == o.promote = "keys"

BuildOptions(o) ==
  [access |-> IF o.readOnly THEN "ReadOnly" ELSE "ReadWrite", stale |-> o.stale,
   refresh |-> RefreshOf(o), budget |-> UnlessZero(o.budget),
   background |-> BackgroundOf(o), promote |-> Promotes(o)]

SettingsOf(o) ==
  IF o = ReadOnlyOpen
  THEN [access |-> "ReadOnly", stale |-> FALSE, refresh |-> EnginePolicy, budget |-> Nothing,
        background |-> Nothing, promote |-> FALSE]
  ELSE BuildOptions(o)

\* A promoted key that is no C string fails the open before the engine is asked.
Acceptable(o) == o # ReadOnlyOpen => o.promote # "bad"
-----------------------------------------------------------------------------
Init ==
  /\ writer = Nothing /\ reader = Nothing
  /\ buffer = {} /\ sealed = {} /\ gone = {} /\ age = [r \in Rows |-> 0]
  /\ view = {} /\ viewAge = 0 /\ answer = NoAnswer

\* The engine admits one writer to a directory.
Open(o) ==
  /\ Acceptable(o)
  /\ LET h == [opts |-> o, set |-> SettingsOf(o)]
     IN IF h.set.access = "ReadOnly"
        THEN /\ reader = Nothing /\ reader' = h
             /\ view' = sealed /\ viewAge' = 0 /\ answer' = NoAnswer
             /\ UNCHANGED writer
        ELSE /\ writer = Nothing /\ writer' = h
             /\ UNCHANGED <<reader, eyes>>
  /\ UNCHANGED rows

Ingest(r) ==
  /\ writer # Nothing /\ r \notin buffer \cup sealed \cup gone
  /\ buffer' = buffer \cup {r}
  /\ UNCHANGED <<writer, reader, sealed, gone, age, eyes>>

Seal ==
  /\ sealed' = sealed \cup buffer
  /\ age' = [r \in Rows |-> IF r \in buffer THEN 0 ELSE age[r]]
  /\ buffer' = {}

Flush ==
  /\ writer # Nothing /\ buffer # {}
  /\ Seal
  /\ UNCHANGED <<writer, reader, gone, eyes>>

\* The engine's own thread, if the option started one.
Maintenance ==
  /\ writer # Nothing /\ writer.set.background # Nothing /\ buffer # {}
  /\ Seal
  /\ UNCHANGED <<writer, reader, gone, eyes>>

Retire(r) ==
  /\ writer # Nothing /\ r \in sealed
  /\ sealed' = sealed \ {r} /\ gone' = gone \cup {r}
  /\ UNCHANGED <<writer, reader, buffer, age, eyes>>

\* imbh_db_free, which closes first.
FreeWriter ==
  /\ writer # Nothing /\ writer' = Nothing
  /\ Seal
  /\ UNCHANGED <<reader, gone, eyes>>

FreeReader ==
  /\ reader # Nothing /\ reader' = Nothing
  /\ view' = {} /\ viewAge' = 0 /\ answer' = NoAnswer
  /\ UNCHANGED <<writer, rows>>

Tick ==
  /\ age' = [r \in Rows |-> IF r \in sealed THEN Older(age[r]) ELSE age[r]]
  /\ viewAge' = IF reader = Nothing THEN viewAge ELSE Older(viewAge)
  /\ UNCHANGED <<writer, reader, buffer, sealed, gone, view, answer>>

\* When the engine looks at the manifest before it answers.
Due == \/ reader.set.refresh.mode = "OnQuery"
       \/ reader.set.refresh.mode = "Ttl" /\ viewAge > reader.set.refresh.ttl

\* What a reader that passed o is owed by a query now.
Owed(o) ==
  {r \in sealed : /\ o # ReadOnlyOpen
                  /\ o.refresh = "OnQuery" \/ (o.refresh = "Ttl" /\ age[r] > o.ttl)}

Query ==
  /\ reader # Nothing
  /\ view' = IF Due THEN sealed ELSE view
  /\ viewAge' = IF Due THEN 0 ELSE viewAge
  /\ answer' = [rows |-> view', owed |-> Owed(reader.opts)]
  /\ UNCHANGED <<writer, reader, rows>>

Next ==
  \/ \E o \in OpenOptions \cup {ReadOnlyOpen} : Open(o)
  \/ \E r \in Rows : Ingest(r) \/ Retire(r)
  \/ Flush \/ Maintenance \/ FreeWriter \/ FreeReader \/ Tick \/ Query

\* The maintenance thread and the clock run; the host polls.
Fairness == WF_vars(Maintenance) /\ WF_vars(Tick) /\ WF_vars(Query)

Spec     == Init /\ [][Next]_vars
FairSpec == Spec /\ Fairness
-----------------------------------------------------------------------------
(***************************************************************************)
(* Types; a number that was not set (0) is no setting but the engine's     *)
(* default.                                                                *)
(***************************************************************************)
TypeOK ==
  /\ writer \in Handles \cup {Nothing} /\ reader \in Handles \cup {Nothing}
  /\ sealed \cup buffer \cup gone \cup view \subseteq Rows
  /\ buffer \cap sealed = {} /\ gone \cap (buffer \cup sealed) = {}
  /\ age \in [Rows -> 0..OldAge] /\ viewAge \in 0..OldAge
  /\ answer.rows \subseteq Rows

(***************************************************************************)
(* A reader that asked to be refreshed on every query is answered from     *)
(* every row sealed by then; one that gave a time to live, from every row  *)
(* sealed longer ago than that many milliseconds.                          *)
(***************************************************************************)
FreshEnough == answer.owed \subseteq answer.rows

(***************************************************************************)
(* A MANUAL reader sees a fixed snapshot until it is reopened.             *)
(***************************************************************************)
ManualIsFixed ==
  [][reader # Nothing /\ reader' = reader /\ reader.opts # ReadOnlyOpen
       /\ reader.opts.refresh = "Manual" => view' = view]_vars

Refreshing(h) == h # Nothing /\ h.opts # ReadOnlyOpen /\ h.opts.refresh \in {"OnQuery", "Ttl"}
Maintained(h) == h # Nothing /\ h.opts # ReadOnlyOpen /\ h.opts.background > 0

(***************************************************************************)
(* Nobody has to flush: a row ingested through a writer with background    *)
(* maintenance, or sealed already, is in the answers of a refreshing       *)
(* reader that goes on polling, sooner or later, unless retention drops it *)
(* first.                                                                  *)
(***************************************************************************)
SeenWithoutFlush ==
  \A r \in Rows :
    r \in sealed \/ (r \in buffer /\ Maintained(writer))
      ~> r \in answer.rows \cup gone \/ ~Refreshing(reader)
-----------------------------------------------------------------------------
(* What the documentation says and the code does not do *)

(***************************************************************************)
(* lib.rs: "Every numeric field treats 0 as IMBH default".                 *)
(***************************************************************************)
ZeroTtlIsDefault ==
  Refreshing(reader) /\ reader.opts.ttl = 0 /\ reader.opts.refresh = "Ttl"
    => reader.set.refresh = EnginePolicy
==============================================================================
