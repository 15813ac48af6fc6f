------------------------------ MODULE DbHandle -------------------------------
(***************************************************************************)
(* The life of an on-disk database through its handle: open with options,  *)
(* ingest, seal, read the durability watermark, close, free, lose power    *)
(* and open again.  The engine (its buffer, write-ahead log and segments)  *)
(* is external and modelled by what this binding and its documentation say *)
(* of it; the binding's own part is the translation of options, receipts   *)
(* and watermarks and the order in which it closes and frees.              *)
(*                                                                         *)
(* A batch is an accepted ingest call, numbered in order; its data is of   *)
(* one day, and takes one unit of the disk.                                *)
(***************************************************************************)
EXTENDS EntryPoints, FiniteSets, FiniteSetsExt

CONSTANTS MaxBatches,  \* bound: accepted ingest calls
          LastDay,     \* bound: days that pass
          OpenOptions, \* what the host passes to imbh_db_open
          NoOptions,   \* the NULL of its opts argument
          ClosedCalls  \* the entry points it calls on a closed handle

Options == [wal : {"Off", "Interval", "Always"}, interval : Nat,
            compression : {"None", "Lz4", "Zstd"}, level : Nat,
            readOnly : BOOLEAN, days : Nat, maxDisk : Nat]

\* The engine's: a WAL mode with its interval, a codec with its level, a retention with an
\* age and a bound on the disk, or without one ({}).
Settings == [wal : [mode : {"Off", "Always"}, ms : {0}]
                     \cup [mode : {"Interval"}, ms : Nat \ {0}],
             codec : [name : {"None", "Lz4"}, level : {0}]
                       \cup [name : {"Zstd"}, level : Nat \ {0}],
             access : {"ReadWrite", "ReadOnly"},
             retention : [days : SUBSET (Nat \ {0}), disk : SUBSET (Nat \ {0})]]

ASSUME MaxBatchesAssumption == MaxBatches \in Nat
ASSUME LastDayAssumption == LastDay \in Nat
ASSUME ClosedCallsAssumption == ClosedCalls \subseteq {e \in EntryPoint : "db" \in ArgsOf(e)}
ASSUME NoOptionsAssumption == NoOptions \notin Options
ASSUME OpenOptionsAssumption == OpenOptions \subseteq Options \cup {NoOptions}

VARIABLES
  handle,    \* "none", "open" or "closed" (but not freed)
  opts,      \* the options of the latest open
  settings,  \* what build_options made of them
  buffer,    \* batches in the engine's memory only, or also in its log
  wal,       \* batches in the write-ahead log
  synced,    \* the highest LSN fsync'd to it; 0 is None
  sealed,    \* batches in segments on disk
  retired,   \* batches retention has dropped
  lsns,      \* the LSN of every batch accepted so far
  receipts,  \* what the host process has been given
  promised,  \* which batches it may count on, and by what promise
  today,     \* the day it is
  dated,     \* the day the data of every batch is of
  asked,     \* history: the ages and disk bounds ever asked for, 0 being none
  answer     \* the latest call on a closed handle, and its code

disk == <<wal, synced, sealed, retired>>
host == <<receipts, promised>>
age  == <<today, dated, asked>>
vars == <<handle, opts, settings, buffer, disk, lsns, host, age, answer>>

Batch    == 1..Len(lsns)
Promises == {"receipt", "watermark", "always", "sealed"}
-----------------------------------------------------------------------------
(* Conversions *)

\* imbh::Retention::none() and ::days(n).
NoRetention      == [days |-> {}, disk |-> {}]
RetentionDays(n) == [days |-> {n}, disk |-> {}]

\* What the engine does when no options are given.
DefaultSettings ==
  [wal |-> [mode |-> "Interval", ms |-> 1000], codec |-> [name |-> "Zstd", level |-> 3],
   access |-> "ReadWrite", retention |-> NoRetention]

OrDefault(n, default) == IF n = 0 THEN default ELSE n

\* Mutant: ALWAYS falls through to INTERVAL.
WalModeLazy(o) ==
  IF o.wal = "Off" THEN [mode |-> "Off", ms |-> 0]
                   ELSE [mode |-> "Interval", ms |-> OrDefault(o.interval, 1000)]

\* A zero is the default only in the mode it belongs to.
WalModeOf(o) ==
  IF o.wal = "Interval" THEN [mode |-> "Interval", ms |-> OrDefault(o.interval, 1000)]
                        ELSE [mode |-> o.wal, ms |-> 0]

CodecOf(o) ==
  IF o.compression = "Zstd" THEN [name |-> "Zstd", level |-> OrDefault(o.level, 3)]
                            ELSE [name |-> o.compression, level |-> 0]

\* Mutant: read_only is not looked at.
AccessIgnored(o) == "ReadWrite"
AccessOf(o)      == IF o.readOnly THEN "ReadOnly" ELSE "ReadWrite"

WithMaxDisk(retention, n) == IF n > 0 THEN [retention EXCEPT !.disk = {n}] ELSE retention

\* Mutant: a bound on the disk comes with an age of 0 days.
RetentionWithDays(o) ==
  IF o.days = 0 /\ o.maxDisk = 0 THEN NoRetention
                                 ELSE WithMaxDisk(RetentionDays(o.days), o.maxDisk)

RetentionOf(o) ==
  IF o.days = 0 /\ o.maxDisk = 0 THEN NoRetention
  ELSE WithMaxDisk(IF o.days > 0 THEN RetentionDays(o.days) ELSE NoRetention, o.maxDisk)

BuildOptions(o) ==
  [wal |-> WalModeOf(o), codec |-> CodecOf(o), access |-> AccessOf(o),
   retention |-> RetentionOf(o)]

SettingsOf(o) == IF o = NoOptions THEN DefaultSettings ELSE BuildOptions(o)

\* Mutant: whatever has an LSN is reported durable.
WriteReceiptHopeful(b, lsn, durable) ==
  [batch |-> b, lsn |-> IF lsn = {} THEN 0 ELSE Max(lsn), durable |-> lsn # {}]

\* The engine's receipt, whose LSN is optional ({} or {n}), as the C struct.
WriteReceipt(b, lsn, durable) ==
  [batch |-> b, lsn |-> IF lsn = {} THEN 0 ELSE Max(lsn), durable |-> durable]

\* The watermark of imbh_db_durable_through: 0 until something is fsync'd.
DurableThroughValue == synced

\* How a host reads them: a receipt without an LSN is covered by no watermark.
CoveredBy(lsn) == {r.batch : r \in {s \in receipts : s.lsn # 0 /\ s.lsn <= lsn}}
-----------------------------------------------------------------------------
(***************************************************************************)
(* No handle works with settings the engine has no meaning for (a WAL      *)
(* interval, a zstd level or a retention of zero); a batch is never both   *)
(* sealed and in the log, nor in the buffer of a handle that is closed;    *)
(* receipts carry an LSN or 0.                                             *)
(***************************************************************************)
StoreTypeOK ==
  /\ handle \in {"none", "open", "closed"}
  /\ opts \in Options \cup {NoOptions}
  /\ settings \in Settings
  /\ lsns \in Seq(Nat \ {0}) /\ Len(lsns) <= MaxBatches
  /\ buffer \cup wal \cup sealed \cup retired \subseteq Batch
  /\ handle # "open" => buffer = {}
  /\ handle = "open" => wal \subseteq buffer
  /\ sealed \cap (retired \cup wal) = {}
  /\ synced \in Nat
  /\ receipts \subseteq [batch : Batch, lsn : Nat, durable : BOOLEAN]
  /\ promised \subseteq Batch \X Promises
  /\ answer \in [call : EntryPoint, code : {"Ok", "Closed", "Query"}]

AgeTypeOK ==
  /\ today \in 0..LastDay
  /\ dated \in Seq(0..today) /\ Len(dated) = Len(lsns)
  /\ asked \in [days : SUBSET (Nat \ {0}), disk : SUBSET (Nat \ {0})]

TypeOK == StoreTypeOK /\ AgeTypeOK

NoAnswer == [call |-> "Close", code |-> "Ok"]

Init ==
  /\ handle = "none"
  /\ opts = NoOptions
  /\ settings = DefaultSettings
  /\ buffer = {} /\ wal = {} /\ sealed = {} /\ retired = {}
  /\ synced = 0
  /\ lsns = <<>>
  /\ receipts = {} /\ promised = {}
  /\ today = 0 /\ dated = <<>> /\ asked = NoRetention
  /\ answer = NoAnswer

Writable == handle = "open" /\ settings.access = "ReadWrite"

LastLsn == Max({0} \cup {lsns[b] : b \in wal \cup buffer \cup sealed \cup retired})

\* Did the host ask for WAL mode m?
Asked(m) == opts # NoOptions /\ opts.wal = m

\* The retention fields of an options struct that ask for anything.
Wanted(o) == IF o = NoOptions THEN NoRetention
             ELSE [days |-> {o.days} \ {0}, disk |-> {o.maxDisk} \ {0}]

\* Opening replays the log; an open that fails leaves the directory as it was.
Open(o) ==
  /\ handle = "none"
  /\ handle' = "open"
  /\ opts' = o
  /\ settings' = SettingsOf(o)
  /\ buffer' = wal
  /\ asked' = [kind \in DOMAIN asked |-> asked[kind] \cup Wanted(o)[kind]]
  /\ UNCHANGED <<disk, lsns, host, today, dated, answer>>

\* An accepted batch, of today's data or older.  Without fsync the engine may have no LSN to give.
Ingest ==
  /\ Writable /\ Len(lsns) < MaxBatches
  /\ LET b       == Len(lsns) + 1
         lsn     == LastLsn + 1
         durable == settings.wal.mode = "Always"
     IN /\ lsns' = Append(lsns, lsn)
        /\ \E day \in 0..today : dated' = Append(dated, day)
        /\ buffer' = buffer \cup {b}
        /\ wal' = wal \cup {b}
        /\ synced' = IF durable THEN lsn ELSE synced
        /\ \E given \in IF settings.wal.mode = "Off" THEN {{}, {lsn}} ELSE {{lsn}} :
             LET r == WriteReceipt(b, given, durable)
             IN /\ receipts' = receipts \cup {r}
                /\ promised' = promised
                     \cup {<<b, why>> : why \in IF r.durable THEN {"receipt"} ELSE {}}
                     \cup {<<b, why>> : why \in IF Asked("Always") THEN {"always"} ELSE {}}
  /\ UNCHANGED <<handle, opts, settings, sealed, retired, today, asked, answer>>

\* The engine's own fsync, at most every settings.wal.ms milliseconds.
FsyncLog ==
  /\ Writable /\ settings.wal.mode = "Interval" /\ wal # {}
  /\ synced' = Max({synced} \cup {lsns[b] : b \in wal})
  /\ UNCHANGED <<handle, opts, settings, buffer, wal, sealed, retired, lsns, host, age, answer>>

\* Force-sealing moves the buffer into a segment and its log entries away.
Seal ==
  /\ sealed' = sealed \cup buffer
  /\ wal' = wal \ buffer

Flush ==
  /\ Writable
  /\ Seal
  /\ buffer' = {}
  /\ promised' = promised \cup (buffer \X {"sealed"})
  /\ UNCHANGED <<handle, opts, settings, synced, retired, lsns, receipts, age, answer>>

\* What retention may drop of a set of batches: those whose data is old enough, and the
\* oldest ones of more than the disk may hold.
Due(batches) ==
  {b \in batches :
     \/ \E n \in settings.retention.days : today - dated[b] >= n
     \/ \E n \in settings.retention.disk : Cardinality({c \in batches : c >= b}) > n}

\* One pass of maintenance, called or in the background: seal, then retention.
Maintain ==
  /\ Writable
  /\ wal' = wal \ buffer
  /\ \E old \in SUBSET Due(sealed \cup buffer) :
       /\ sealed' = (sealed \cup buffer) \ old
       /\ retired' = retired \cup old
  /\ buffer' = {}
  /\ UNCHANGED <<handle, opts, settings, synced, lsns, host, age, answer>>

\* The host reads the watermark and compares its receipts with it.
DurableThrough ==
  /\ handle = "open"
  /\ promised' = promised \cup (CoveredBy(DurableThroughValue) \X {"watermark"})
  /\ UNCHANGED <<handle, opts, settings, buffer, disk, lsns, receipts, age, answer>>

\* What a successful engine close does; a read-only handle has nothing to seal.
CloseEngine ==
  /\ IF Writable THEN Seal ELSE UNCHANGED <<sealed, wal>>
  /\ promised' = promised \cup (IF Writable THEN buffer \X {"sealed"} ELSE {})

\* A close that fails reports its error and leaves the handle as it was.
Close ==
  /\ handle = "open"
  /\ handle' = "closed"
  /\ CloseEngine
  /\ buffer' = {}
  /\ UNCHANGED <<opts, settings, synced, retired, lsns, receipts, age, answer>>

\* Nothing of the handle remains.
NoHandle ==
  /\ handle' = "none"
  /\ opts' = NoOptions
  /\ settings' = DefaultSettings
  /\ buffer' = {}
  /\ answer' = NoAnswer

\* Mutant: the handle is dropped without closing the engine.
FreeUnclosed ==
  /\ handle \in {"open", "closed"}
  /\ NoHandle
  /\ promised' = promised \cup (IF Writable THEN buffer \X {"sealed"} ELSE {})
  /\ UNCHANGED <<sealed, wal, synced, retired, lsns, receipts, age>>

\* The handle is closed, unless it is already, and dropped.  An error of the
\* engine's close is ignored: then nothing is sealed, and nothing promised.
FreeHandle ==
  /\ handle \in {"open", "closed"}
  /\ NoHandle
  /\ CloseEngine \/ UNCHANGED <<sealed, wal, promised>>
  /\ UNCHANGED <<synced, retired, lsns, receipts, age>>

\* The machine stops: the process and its receipts are gone, and so is any
\* tail of the log that was not fsync'd.
Crash ==
  /\ NoHandle
  /\ \E k \in synced..Max({synced} \cup {lsns[b] : b \in wal}) :
       wal' = {b \in wal : lsns[b] <= k}
  /\ receipts' = {}
  /\ UNCHANGED <<synced, sealed, retired, lsns, promised, age>>

NextDay ==
  /\ today < LastDay
  /\ today' = today + 1
  /\ UNCHANGED <<handle, opts, settings, buffer, disk, lsns, host, dated, asked, answer>>
-----------------------------------------------------------------------------
(* Calls on a closed handle *)

\* The steps at which an entry point asks the engine.
Asks(e, kinds) == {i \in DOMAIN Program(e) : Program(e)[i] \in kinds} # {}

\* The engine answers Closed where it can answer an error at all; an entry point
\* that executes inside its translation reports that error as its own.
ClosedCode(e) ==
  CASE e = "Close" -> "Ok"
    [] e # "Close" /\ Asks(e, {"effect", "engine"}) -> "Closed"
    [] ~Asks(e, {"effect", "engine"}) /\ Asks(e, {"translate"}) -> "Query"
    [] OTHER -> "Ok"

CallClosed(e) ==
  /\ handle = "closed"
  /\ answer' = [call |-> e, code |-> ClosedCode(e)]
  /\ UNCHANGED <<handle, opts, settings, buffer, disk, lsns, host, age>>

-----------------------------------------------------------------------------
Next ==
  \/ \E o \in OpenOptions : Open(o)
  \/ Ingest \/ FsyncLog \/ Flush \/ Maintain \/ DurableThrough
  \/ Close \/ FreeHandle \/ Crash \/ NextDay
  \/ \E e \in ClosedCalls : CallClosed(e)

Spec == Init /\ [][Next]_vars
-----------------------------------------------------------------------------
(* Properties *)

\* Not lost: in a segment, in the log, or dropped because retention says so.
Stored == sealed \cup wal \cup retired

Kept(why) == \A p \in promised : p[2] = why => p[1] \in Stored

(***************************************************************************)
(* A batch whose receipt says durable, or whose non-zero LSN the host has  *)
(* seen covered by imbh_db_durable_through, survives any crash, reopening  *)
(* and LSN reuse included.                                                 *)
(***************************************************************************)
DurableSurvives == Kept("receipt") /\ Kept("watermark")

(***************************************************************************)
(* A host that asked for WAL mode ALWAYS loses no batch it was given a     *)
(* receipt for, whatever happens next and however the database is opened   *)
(* from then on.                                                           *)
(***************************************************************************)
AlwaysSurvives == Kept("always")

(***************************************************************************)
(* Flushing, closing, or freeing an open handle seals the whole buffer:    *)
(* unless the engine fails to, every batch accepted so far outlives the    *)
(* handle, with any WAL mode.                                              *)
(***************************************************************************)
SealedSurvives == Kept("sealed")

(***************************************************************************)
(* A batch the host may count on is there, in the log or in a segment, as  *)
(* long as it is younger than every retention_days ever asked for and not  *)
(* more than any max_disk_bytes ever asked for has come in since: a zero   *)
(* asks for nothing, in either field, and a bound on the disk alone drops  *)
(* nothing for its age, whatever crashes and reopenings come between.      *)
(***************************************************************************)
KeptForItsTime ==
  \A p \in promised :
    LET b == p[1]
    IN /\ \A n \in asked.days : today - dated[b] < n
       /\ \A n \in asked.disk : Len(lsns) - b < n
       => b \in sealed \cup wal

(***************************************************************************)
(* Nothing done through a handle opened read-only, its close and free      *)
(* included, changes what is on disk.                                      *)
(***************************************************************************)
ReadOnlyNeverWrites ==
  [][opts # NoOptions /\ opts.readOnly /\ handle # "none" =>
       wal' \subseteq wal /\ UNCHANGED <<sealed, retired, synced, lsns>>]_vars

(* What the documentation says and the code does not do. *)

ZeroedOptions == [wal |-> "Off", interval |-> 0, compression |-> "None", level |-> 0,
                  readOnly |-> FALSE, days |-> 0, maxDisk |-> 0]

(***************************************************************************)
(* lib.rs: a zeroed imbh_open_options is a valid all-defaults request.     *)
(***************************************************************************)
ZeroedIsDefault == opts = ZeroedOptions => settings = DefaultSettings

(***************************************************************************)
(* lib.rs: after imbh_db_close, subsequent calls return CLOSED (closing    *)
(* itself is idempotent).                                                  *)
(***************************************************************************)
ClosedCallsSayClosed == answer.call # "Close" => answer.code = "Closed"
==============================================================================
