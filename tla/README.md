# imbh-c in TLA+

A verification development for imbh-c, the C ABI (`src/src/*.rs`) and header-only C++ wrapper
(`src/include/imbh.hpp`) over the embedded observability database `imbh`. The engine itself lives in
another repository: it appears here only through what this code calls and what its comments say of it.

## The system

| part | state it keeps | operations | what makes it correct |
|---|---|---|---|
| call guard (`error.rs`) | one last-error message per thread | `guard`, `classify`, `imbh_last_error_message` | the message belongs to the call that failed, whatever other threads and cleanup calls do; a code for every engine error; no panic escapes |
| entry points (`lib.rs`, `query.rs`, `discovery.rs`, `lgtm.rs`) | none of their own | about 110 `extern "C"` functions: check arguments, convert, call the engine, write out-params | bad arguments are refused before any effect; out-params are written together or not at all |
| database handle (`lib.rs`) | engine, tokio runtime, open or closed | open (memory, disk, read-only), ingest, flush, maintain, compact, snapshot, `durable_through`, close, free | what a receipt, the watermark, a flush or a close promised survives; options mean what they say; read-only never writes |
| paged logs (`query.rs`) | none; the client's offset | `logs_page`, `logs_count` | a scan misses and repeats no row it can avoid, ends, and agrees with the count |
| query builders (`query.rs`) | a proto message, or native fields | new, set, add, free | a failed setter leaves the builder usable; the same builder may be run again |
| result hand-off (`arrow_stream.rs`, `lib.rs`) | streams and byte buffers owned by the host | export, `imbh_bytes_free`, release | released exactly once, usable after the handle is freed, every column there |
| store administration (`lib.rs`) | none | flush, maintain, compact, statistics, listings, snapshot, export | windows and bounds around time 0 mean what they say; parts add up; a snapshot keeps what was sealed |
| discovery (`discovery.rs`) | none | catalog, names, values, series, exemplars | one row per item, labels in canonical form |
| query languages (`lgtm.rs`) | none | PromQL, LogQL, TraceQL, trace by id | names resolved against the catalog, errors classified |
| C++ wrapper (`imbh.hpp`) | owned handles | move-only owners, `check` | exceptions carry the right message, nothing is freed twice |
| packaging, release (`packaging/`, `ports/`, `release.yml`) | source version, tags, archives, port, recipe, registry | bump, tag, publish, update hashes, register | nothing is installed that was not hashed for its version and target; a version once finalized goes on installing |
| generated header (`build.rs`, `imbh.h`) | none | cbindgen | - |

They interact by plain calls: host code (or the C++ wrapper) enters an entry point, which runs inside
`guard`, drives the engine on the handle's current-thread runtime, and returns a code; the host then
reads the thread's message. Handles, builders and results are owned by the host between calls. The hard
parts are the interleaving of host threads, failures and panics at any step of a call, the order of
cleanup and error reading, paging and streaming while the store changes, ownership through moves and
unwinding, stale views, crashes between acknowledgement and seal, and release scripts that stop half-way.
`PROJECT.json` lists each hazard at its line.

## Modules

`EntryPoints` is a table: the sequence of steps of every guarded function, in source order (which
argument is checked when, where the engine is called and whether it changes anything, how an error of
that step is classified, when out-params are written). Functions with the same sequence share a row;
the comment of each row names them. Every argument an entry point checks is one of `ArgSteps`; a
conversion, engine call or Arrow encoding is one of `CodeSteps`. Optional out-params are one step: they
are written one after the other with no failing operation between them (a NULL one counts as written).

`CallBoundary` executes these programs, one step at a time, for any number of host threads. `host[t]` is
where thread t is (idle, inside a call, looking at a failure, holding the message pointer); `entry`,
`bad`, `pc`, `reached` and `wrote` are the frame of its current call; `slot` is `LAST_ERROR`. `Begin`
enters a function with any subset of its arguments bad; `AcceptArgument`/`RejectArgument`, `RunStep`,
`FailStep` and `WriteStep` are the body; `ReturnOk`, `RejectArgument` and `FailStep` end in `Finish`,
which is `guard`'s match. `BuilderCall` and `FreeHandle` are the functions outside the guard. After a
failure the host may call anything, do unguarded cleanup, or read the message (`LastErrorMessage`, then
`Throw`, as `check` of `imbh.hpp` does). A message is named after the call that left it, which is what
the properties tell apart; its wording is not modelled.

`CallContract` is the abstract specification: per thread, each call is one step that succeeds and clears
the message or fails and leaves its own. `CallBoundary` implements it under the mapping `Visible`.

`PagedLogs` models `imbh_db_logs_page`/`imbh_db_logs_count` and the paging loop README.md prescribes,
against a store other threads change: rows arrive in a buffer (`IngestLogs`), `Flush` and `Maintain` seal
it, `Maintain` also drops segments whose newest row is old, `Compact` merges neighbours; both leave an
empty place where a segment was, so that the others keep their number. A row is its
timestamp, distinct from all others; the engine's order among equal timestamps is not specified in this
repository, so nothing is claimed for ties. A page is a set: rows whose rank in the query's direction lies
in `[offset, offset + limit)`. One engine query sees one snapshot of the store. The client asks for
`next_offset`, `has_more` and, before the first page, the count. The store stops changing when the
scan is over: no property looks further.

`DbHandle` models a database directory through successive handles: `Open` applies `build_options`
(`WalModeOf`, `CodecOf`, `AccessOf`, `RetentionOf`), `Ingest` hands out receipts, `DurableThrough` the
watermark, `Flush`, `Maintain`, `Close` and `FreeHandle` seal, `Crash` is a loss of power that keeps a
prefix of the log no shorter than what was fsync'd. `promised` records what the host may count on and
why; the properties compare it with what is stored. The log, its fsync, sealing and the engine's close
are external; WAL mode OFF is taken as the comment on `imbh_wal_mode` says ("durability follows the
OS"): written, never fsync'd, and perhaps without an LSN. LSNs resume after the highest one that
survived, so those of lost batches are used again. An open that fails, for instance because the runtime
cannot be built, and a close that fails leave the directory unchanged and are not steps of this module
(`CallBoundary` has their error paths). Retention is the engine's settings as `build_options` puts them
together, an age and a bound on the disk, each there or not; `Maintain` drops any of the batches that are
`Due` by them. The data of a batch is of the day it comes in or of an earlier one (`dated`), and takes one
unit of the disk; days pass (`NextDay`). `asked` collects what retention was ever asked for. `CallClosed` composes with `EntryPoints`: what each entry point
answers on a closed handle follows from the first step of its program that asks the engine.

`ResultOwnership` is the abstract promise about everything the binding allocates: from its allocation to
its one release it is in the hands of one party, the wrapper's objects or a consumer. `CppOwners` is the
detailed model: the objects of `imbh.hpp` (`Stream`, `Bytes`, the five builders, `Db`) with the struct or
pointer each holds in `slot`, constructed, moved, assigned, reset, relinquished and destroyed in any
order. A move copies the slot and then clears the source, as the code does, so that nothing but the code
keeps two objects from owning one allocation; `Hollow` is the non-null pointer of an empty `imbh_bytes`.
A call is two steps, so that the host, or another thread, uses other objects meanwhile; it answers, or it
fails and its local result is destroyed by unwinding. Calls straight into the C functions (`BeginRaw`)
keep their documented contract that the slot is empty. What was used or released without being live is
remembered in `fault`.

`QueryBuilders` has the five builders of `query.rs` as one table: per setter, whether it sets or adds and
in which order it reads which arguments. `CallSetter` is a guarded call with any arguments, NULL and
non-UTF-8 strings included, `Run` an entry point that takes the builder. Setters are named after the
field they are documented to fill; `Poke` is what they do to the message, `said` what the host was told
had succeeded. The range checks of the protos' conversion are external; the one on severity stands for
them all. Values of C enums out of their range are undefined behaviour in the host and are not passed.

`LgtmQueries` models `lgtm.rs`. `BeginPromql` is the catalog read and the translation, `ExecutePromql` the
second await; ingestion and retention run in between. `QueryName` turns dots into underscores and need
not be injective. A metric may be stored under two kinds. `QueryTraceql` and `GetTrace` are two calls of
the host with the same interference. The parsers and evaluators of `imbh-lgtm` are external: a query
names one metric, or asks for the lines or the spans of a window.

`ResultStreams` is how an answer becomes columns: the schemas and pushes of `discovery.rs` and of the
result halves of `query.rs`, label texts, the three ways to export (`export_batches`,
`export_batches_infer`, `encode_ipc`), and a consumer that reads batch by batch while rows come and go
and the database is freed. The value in a column is identified with the part of the item it was pushed
from, which is what a swapped or skipped push would change; a place of a column is `Valid` with its value
or `Absent`. The engine may cut an answer into batches wherever it likes (`Cuts`), with empty batches
among them, or return an empty answer as no batch at all.

`LgtmQueries` and `ResultStreams` prefix the names of their next-state relations (`LgtmNext`,
`StreamNext`), so that one proof module can extend them together with `QueryBuilders` and `CppOwners`.

`ReaderViews` is a writing handle and a read-only one on the same directory: `build_options` in full for
what concerns them (`RefreshOf`, `UnlessZero`, `BackgroundOf`, `Promotes`, `Acceptable`), and the engine's
manifest, maintenance thread and refresh as the comments on `imbh_refresh_mode` and `imbh_open_options`
describe them. Time is counted in milliseconds up to `OldAge`.

`StoreAdmin` has the administrative calls on an open handle: the 0/0 window of export, the table
enumeration and its way back, optional bounds, totals, listings, snapshots, against ingestion, flush,
maintenance and compaction; and a host that exports a table in adjacent parts.

`ReleasePipeline` goes from a version bump to what vcpkg and Conan install. `update-hashes.sh` is one step
per file it rewrites, as the script is: the version in `vcpkg.json`, `versions/baseline.json`,
`portfile.cmake` and `conanfile.py`, then per target the checksum in the portfile and in the recipe. It may
stop between any two of them. The maintainer commits all of what is there or any part of it, where a part
is `ports/imbh-c`, the recipe or `versions`; `vcpkg-add-version.sh` looks only at the first and the last
of these (`Clean`), and enters the committed port under the version of `vcpkg.json`. Uploads come one at a
time, and a workflow that is run again replaces archives. A checksum is the archive it is of. `torn`,
`ended` and the `after` of an entry are history, in which no step looks.

The `MC` modules give the finite instances, the `Proofs` modules the theorems.

## Runs

| run | what it shows | bounds |
|---|---|---|
| `threads` | `AllOrNothing`, `OnlyCheckedArguments`, `ReportIsOwn`, and the refinement `KeepsContract` | two threads, two calls each: enough for a second failure, or a success, of either thread to fall between a failure and its report; four entry points of different shapes (one fails after its effect, one decodes an argument, one has optional out-params, one changes only a builder). The theorems cover the whole table of entry points |
| `scan` | `NeverSkips`, `NeverRepeats`, `PagesAddUp`, and `ScanEnds` | three rows, limits 0, 1 and 2, with and without a window that excludes later rows, a builder left with an offset; three pages with store changes between any two |
| `life` | the five promises of `DbHandle` | two batches, data of three days; every WAL mode, one of them with a retention by age and one with a bound on the disk alone, a read-only handle and NULL options, in any order of opens and crashes; enough for one batch to be due while the other is not, and for an LSN to be used again |
| `moves` | `SoleHolder`, `OnlyLiveIsTouched`, and the refinement `KeepsPromise` | two objects of each movable pair of classes, one `Bytes`, four allocations: two held by objects, one by a consumer and one in flight; classes differ only in what a slot may hold |
| `reuse` | `MeansWhatWasSaid`, `AskedWhatWasSaid` | every builder; two successful setter calls, enough to overwrite and to append, and any number of failures and runs between them |
| `queries` | `AnswersTheMetricAsked`, `EvaluatedAsTheirKind`, `FollowUpFindsTheMatch` | five points: two names that collide, one of them of two kinds, and an unrelated histogram; two traces, one of two spans retention cuts apart; windows of either time, of both, and an empty one |
| `answers` | `ReadsTheAnswer`, `BatchesBuild`, `SchemaIsKnown`, `LabelsJoin` for every entry point that returns rows | two rows with two labels; any cut of an answer into at most two batches (`MaxBatches`), empty ones included: enough for a cut between any two rows and an empty batch on either side |
| `views` | `FreshEnough`, `ManualIsFixed`, and `SeenWithoutFlush` | two rows, every policy, a TTL of none and of one tick, ages to two; a maintained writer and one that is not |
| `admin` | `ExportsWhatWasAsked`, `StatsTellTheTruth`, `SnapshotKeepsFlushed`, `PartsAddUp` | three rows of two tables before and at the epoch; windows that touch 0 on either side; a table cut at -1, 0 and 1 in any way, from any of them |
| `releases` | `CompleteRunInstalls`, `InstallsAsNamed`, `FinalizedInstalls` | two versions, two of the five targets (the loop treats them alike), two workflow runs: one of each version, or one repeated; three runs of `update-hashes.sh`: one that ends, one that stops, one that repairs |
| `zeroed`, `closed` | each finds the disagreement below | small instances |

The type invariants of `CallBoundary`, `DbHandle`, `CppOwners`, `ReaderViews` and `ReleasePipeline` are
theorems (`TypeCorrect`) and not checked again. The other modules' runs check theirs, because a mutant of
the code breaks them, and they are theorems, too.

Deadlock is not checked where calls, rows, batches, objects or script runs are bounded, or where a process
may abort; `StoreAdmin` never stops, and there it is.

What the runs say beyond "it holds":

* Offset paging skips rows only when retention drops rows *before* the cursor: never on a backward scan
  of rows that arrived in time order, since retention then eats the far end. Late arrivals make a
  segment's newest row younger than its oldest, and retention may then cut on the near side.
* A page repeats rows only when something arrives before the cursor. A backward scan (the default) does
  so whenever ingestion goes on, unless its window ends before the new rows.
* A host that reads a failure's message after cleanup gets the right one as long as the cleanup consists
  of functions outside the guard; any guarded call in between takes the message away.
* WAL mode ALWAYS, a receipt marked durable, a covered non-zero LSN, a flush and a successful close are
  equally safe against everything `life` can do, including reuse of LSNs after a crash.
* A zero in either field of retention asks for nothing: with a bound on the disk alone, no batch is dropped
  for its age.
* The C++ objects are safe in any order, including a `Stream` that is read and released after its `Db`
  was destroyed: results refer to nothing of the database. What a mistake in `imbh_bytes_free` would do
  shows only with the empty buffer, whose pointer is not null.
* A PromQL answer is about one stored metric of the asked name, never a mixture, but which one is up to
  the translator when names collide; and if the metric has two kinds, or gets a second one between the
  awaits, it may be evaluated as either. Points that came or went between the awaits may be in it or not.
* A trace that was matched can always be fetched, less what retention dropped in between.
* Labels join between instant vectors and log volumes because both are turned to strings first.
* A reader with TTL is never staler than that; a reader without a refresh policy of its own, or opened by
  `imbh_db_open_read_only`, has whatever the engine's default is. Without background maintenance nothing
  seals a quiet writer's rows, and no reader ever sees them until a flush or a free.
* Adjacent export windows add up exactly except that a part cannot be the empty window at the epoch, which
  means everything; the tiling never asks for one.
* A complete run of `update-hashes.sh` repairs whatever an earlier one left half-done, also for another
  version. A workflow run again after it makes both managers refuse, never install the new archive.
* What an unfinished run leaves, in any mixture, is refused or installs the archive it names, also when it
  is committed and registered. There is one exception: a run that stops after the version of `vcpkg.json`
  (update-hashes.sh:65) and before that of the portfile (line 67) leaves the older URL and checksums under
  the new version. Nothing in `vcpkg-add-version.sh` compares the two, and vcpkg then installs the older
  archive as the new version. `NamedHonestly`, at the end of the module, is refuted by that.

### Disagreements between documentation and code

Two of them have a run that ends in the counterexample:

* A zeroed `imbh_open_options` selects WAL off and no compression; it is documented as an all-defaults
  request (`zeroed`).
* After `imbh_db_close`, `imbh_db_durable_through`, `imbh_db_segments` and `imbh_db_segment_files` answer
  OK, and TraceQL and LogQL series queries answer QUERY; all are documented to answer CLOSED (`closed`).

The others are stated at the end of their modules, and no run checks them; named as an INVARIANT in the
cfg of the run in brackets, each is refuted by TLC in a few steps:

* `PanicsAreCaught` (`threads`): `imbh_db_free` closes the engine outside `guard`, so a panic there aborts
  the process, although panics "are caught at the boundary" (src/README.md).
* `NullAfterSuccess` (`threads`): functions outside the guard do not clear the last error, although it is
  documented to be NULL after any successful `imbh_*` call.
* `InvalidArgMeansBadArgument` (`threads`): a runtime that cannot be built is reported as INVALID_ARG,
  although no argument is invalid.
* `ZeroTtlIsDefault` (`views`): in `imbh_open_options` every numeric 0 is documented as the default, but
  `refresh_ttl_ms = 0` under TTL is a TTL of nothing.
* `EmptyStillTyped` (`answers`): a typed query without rows may give a stream without columns. The code's
  comment says so; the design notes say that it "still carries its typed schema", and the test they name
  runs SQL.
* `LabelsJoinEverywhere` (`answers`): `metric_series` writes label values with their types,
  `metrics_instant` and `logs_volume` as strings; they are documented to join.
* `RefusedUntilFinalized` (`releases`): from the second release on, both managers install the previous
  version until the finalize phase, where the documentation says they refuse.

## Fairness

Safety needs none. `ScanEnds` assumes weak fairness of the client's own two calls: the client is a loop
that calls again as long as it may, and a call that is always possible is made. Nothing is assumed of
other threads; that they ingest only finitely often during the scan is the bound `MaxTime` (a producer
that outruns the pages keeps an unbounded scan going for ever, and may).

`SeenWithoutFlush` assumes weak fairness of the engine's maintenance thread where the options started one
(that is what `Maintenance::Background` is for), of the clock, and of the host's polling. Nothing is
assumed of ingestion, flushes, opens or frees; a reader may be freed, and then owes nothing.

## Proofs

Eight modules hold theorems. Everything is proved for any value of the constants, from the named
assumptions of the module they are about.

`CallBoundaryProofs`, for any threads, calls, entry points and engine errors:

* `TypeCorrect`, `ReportsAreOwn`, `CallsAreAllOrNothing`, `ArgumentsAreChecked`: the four invariants;
* `ContractImplemented`: `Spec => KeepsContract`, the refinement of `CallContract`.

None of the invariants is inductive alone. `IInv` adds, per thread: inside a call, what was written is
exactly the write steps executed so far, no executed step was a bad argument, and an effect implies an
executed "effect" step (`InCallInv`); after a failure the slot holds this very call, and a pointer being
held equals it (`FailedInv`). What carries a step over is the shape of the programs, `WellFormed`: after a
write only writes follow, and after an effect no argument is read. It is proved row by row for the table
in `EntryPoints`, so an entry point added in the wrong order breaks a lemma there. The refinement follows
because only `Finish` changes what a thread can see of its completed calls.

`DbHandleProofs`, for any batches, options and number of crashes: `TypeCorrect`, the promises
`DurableOutlives`, `AlwaysOutlives`, `SealedOutlives` and `RetentionKeepsItsWord`, and the action property
`ReadersNeverWrite`. The invariant is that a promised batch is sealed, retired or in the part of the log
that was fsync'd; what makes it inductive are the facts about LSNs: those in the log are distinct and no
larger than its length, so a receipt the watermark covers is of a batch whose record is synced
(`ReceiptsTrue`, `SmallLsns`), also when the LSNs of lost batches are used again. On top of it, `Retains`
says that the open handle's retention is one that was asked for and that what retention dropped was due
and still is: days and batches only become more.

`ReaderViewsProofs`, for any rows, options and policies: `TypeCorrect`, `AnswersAreFresh` and
`ManualReadersStay`. The invariant `MissingIsNew` is that a sealed row the view lacks was sealed since the
reader looked, so that by the time the row is older than the TTL the view is, too, and is renewed.

`ReleasePipelineProofs`, for any targets, versions and number of runs: `TypeCorrect`,
`CompleteRunsInstall`, `InstalledAsNamed` and `FinalizedStays`. An archive `Stands` if it is the published
one or was replaced by a later run's; once it does it goes on doing so. The invariant follows the script:
the files it has written have its version, and every target before the one it is at has, in port and
recipe, an archive that stands (`Underway`), so that they all do when it ends (`Ended`). What is registered
carries that with it (`RegistryHonest`), and unless a run was stopped between the two version strings of
the port, they are the same (`Agree`).

`PagedLogsProofs`, for any bound on time, limits, offsets and windows: `TypeCorrect`, `ScansNeverSkip`,
`ScansNeverRepeat`, `ScansAddUp`, and the action property `PagesMoveOn`. Everything rests on lemmas about
`Rank`, which is a cardinality: it grows with the rows before a row, and a page is the rows whose ranks are
the next ones. The invariants say where the cursor stands: a stored row whose rank is below `after` has been returned, unless
retention moved rows across it on the near side (`NothingBehind`, for `ScansNeverSkip`), and a row that was
returned has a rank below `after`, unless one arrived before it (`NothingAhead`, for `ScansNeverRepeat`).
That retention eats the far end of a backward scan is an invariant of the store (`InOrder`): while nothing
came late, the rows of a later segment are newer than those of an earlier one, and the buffer's are newest.
`PagesMoveOn` is the measure by which a scan ends: a page that announces another one moves the cursor on,
but not past the matching rows that are stored.

`StoreAdminProofs`, for any rows, windows, edges and snapshot directories: `TypeCorrect`,
`SnapshotsKeepFlushed`, `ExportsAreAsked`, `AdjacentPartsAddUp` and `StatisticsAreTrue`. Segments are of
one table and disjoint, and what was flushed and not dropped is in one of them (`StoreOK`); a row a tiling
has exported lies before its edge (`TilingOK`), which is why no later part has it again. Statistics are
folds over the tables. `FoldIsASum` unfolds one over any finite set, and `CountsAddUp` says that what is
counted by kind adds up to what there is, both by a minimal counterexample in the well-founded order of the
naturals, which takes the place of induction.

`QueriesProofs` has the theorems of two components that share no variable:

* `QueryBuilders`, for any values a setter may be given: `TypeCorrect`, `BuildersMeanWhatWasSaid` and
  `EngineIsAskedWhatWasSaid`. The two properties are inductive together once no field holds a text that
  was refused (`FieldsClean`). What carries a setter over are facts about the table: every setter sets or
  adds, `limit` is always a number, and an accepted argument is read as what it means.
* `LgtmQueries`, for any points, spans, names and windows: `LgtmTypeCorrect`, `AnswersAreOfTheMetric`,
  `KindsAreRespected` and `MatchesCanBeFetched`. The invariant follows a call across its two awaits
  (`Underway`): what it resolved is the resolution of a catalog entry of the asked name that was there
  while it ran, and the points said to have stayed are stored now; `Answered` carries that into the reply.

`ResultsProofs`, likewise:

* `CppOwners`, for any objects and allocations: `TypeCorrect`, `HoldersAreSole`, `NothingDeadIsTouched`
  and `PromiseKept`, the refinement of `ResultOwnership`. The inductive invariant (`AlwaysOwned`) says
  that no two objects, and no object and a consumer, hold the same allocation, that what is held is live
  and what is live is held, that results refer to nothing, and that nothing dead was touched. A step
  changes at most two slots; each lemma shows where the allocation it moves went, and that all others
  stayed.
* `ResultStreams`, for any rows, attributes and number of batches: `StreamTypeCorrect`,
  `BatchesAlwaysBuild`, `HostReadsTheAnswer`, `SchemasAreKnown` and `LabelsAlwaysJoin`. Schemas are proved
  row by row, as `EntryPoints` is: every field the engine may leave out is nullable. The invariant of a
  stream (`StreamOK`) is that its batches are the answer's items cut somewhere, and that what was
  delivered are the items up to the cut the host has come to; that of the labels read (`SaidOK`) is that
  each is the text of the set it stands for.

Model-checked only: liveness (`ScanEnds`, `SeenWithoutFlush`), which is beyond the prover; of `ScanEnds`
the measure is proved. Every other property of a passing run is a theorem.

## Not modelled

* The engine's own concurrency: an engine call is one step, except where the binding awaits twice. The
  handle is documented as not safe for concurrent mutation, and what a close does to an ingest under way
  on another thread is decided in the engine.
* Values: message texts, Arrow encodings, the digits of a timestamp, sizes in bytes. Casts of unsigned
  counters to `i64` cannot overflow in any state a store can be in.
* The in-memory database's life, which has nothing to lose; the reports of `maintain` and
  `compact`.
* The generated header and `build.rs`, which have no behaviour of their own, and the protobuf files.
* The musl archives, and how the recipes link what they have fetched.
* Tests and examples, which are read as documentation.

## Plan

Every safety property the runs check is a theorem. What is left are promises not stated yet that would
follow from the invariants above, and simpler proofs. A model of the engine's own buffer, log and
maintenance thread belongs in the engine's repository; `DbHandle` and `ReaderViews` are where it would be
plugged in.
