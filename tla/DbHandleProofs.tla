---------------------------- MODULE DbHandleProofs ----------------------------
(***************************************************************************)
(* Proofs about DbHandle, for any number of batches, any options the host  *)
(* may pass, any entry points called on a closed handle and any days.      *)
(***************************************************************************)
EXTENDS DbHandle, FiniteSetTheorems, WellFoundedInduction, TLAPS

-----------------------------------------------------------------------------
(* Greatest elements and conversions *)

(***************************************************************************)
(* Max is a CHOOSE; it is the maximum of any set that is bounded.          *)
(***************************************************************************)
LEMMA MaxIsMax ==
  ASSUME NEW S \in SUBSET Nat, S # {}, NEW n \in Nat, \A x \in S : x <= n
  PROVE  Max(S) \in S /\ \A x \in S : x <= Max(S)
<1> DEFINE T == {n - x : x \in S}
<1>a. \A x \in S : x \in Nat /\ n - x \in Nat
  OBVIOUS
<1>1. T \subseteq Nat /\ T # {}
  <2>1. T \subseteq Nat
    BY <1>a
  <2>2. PICK x \in S : TRUE
    OBVIOUS
  <2>3. n - x \in T
    OBVIOUS
  <2>4. QED
    BY <2>1, <2>3
<1>2. PICK t \in T : \A u \in T : ~(<<u, t>> \in OpToRel(<, Nat))
  BY <1>1, NatLessThanWellFounded, WFMin
<1>3. \A u \in T : ~(u < t)
  BY <1>1, <1>2 DEF OpToRel
<1>4. PICK m \in S : t = n - m
  OBVIOUS
<1>5. \A x \in S : m >= x
  BY <1>3, <1>4
<1>6. \E y \in S : \A x \in S : y >= x
  BY <1>5
<1>7. Max(S) \in S /\ \A x \in S : Max(S) >= x
  BY <1>6 DEF Max
<1>8. QED
  BY <1>7

\* No retention of zero reaches the engine, and none is made up.
LEMMA RetentionTyped ==
  ASSUME NEW o \in Options
  PROVE  /\ RetentionOf(o) \in [days : SUBSET (Nat \ {0}), disk : SUBSET (Nat \ {0})]
         /\ RetentionOf(o).days \subseteq {o.days} \ {0}
         /\ RetentionOf(o).disk \subseteq {o.maxDisk} \ {0}
<1>1. o.days \in Nat /\ o.maxDisk \in Nat
  BY DEF Options
<1>2. RetentionOf(o) = [days |-> IF o.days > 0 THEN {o.days} ELSE {},
                        disk |-> IF o.maxDisk > 0 THEN {o.maxDisk} ELSE {}]
  BY <1>1 DEF RetentionOf, WithMaxDisk, RetentionDays, NoRetention
<1>3. QED
  BY <1>1, <1>2

LEMMA SettingsTyped ==
  ASSUME NEW o \in Options \cup {NoOptions}
  PROVE  SettingsOf(o) \in Settings
<1>1. CASE o = NoOptions
  BY <1>1 DEF SettingsOf, DefaultSettings, NoRetention, Settings
<1>2. CASE o \in Options
  <2>1. WalModeOf(o) \in [mode : {"Off", "Always"}, ms : {0}]
                           \cup [mode : {"Interval"}, ms : Nat \ {0}]
    BY <1>2 DEF Options, WalModeOf, OrDefault
  <2>2. CodecOf(o) \in [name : {"None", "Lz4"}, level : {0}]
                         \cup [name : {"Zstd"}, level : Nat \ {0}]
    BY <1>2 DEF Options, CodecOf, OrDefault
  <2>3. AccessOf(o) \in {"ReadWrite", "ReadOnly"}
    BY DEF AccessOf
  <2>4. BuildOptions(o) \in Settings
    BY <1>2, <2>1, <2>2, <2>3, RetentionTyped DEF BuildOptions, Settings
  <2>5. QED
    BY <1>2, <2>4, NoOptionsAssumption DEF SettingsOf
<1>3. QED
  BY <1>1, <1>2

-----------------------------------------------------------------------------
(***************************************************************************)
(* The inductive invariant.  A promise survives a crash because the batch  *)
(* is in a segment, or in the log up to the watermark.                     *)
(***************************************************************************)
AsOpened == settings = SettingsOf(opts) /\ (handle = "none" => opts = NoOptions)

\* What is in the log or the buffer has not reached a segment.
Unsealed == (buffer \cup wal) \cap (sealed \cup retired) = {}

\* LSNs start at 1 and go up by one, or start over below a tail that was lost.
SmallLsns == \A b \in Batch : lsns[b] <= b

Safe == sealed \cup retired \cup {b \in wal : lsns[b] <= synced}

PromisesKept ==
  \A p \in promised : IF p[2] = "sealed" THEN p[1] \in sealed \cup retired ELSE p[1] \in Safe

\* A process holds receipts of stored batches only, under the LSN they are stored with.
ReceiptsTrue ==
  \A r \in receipts : /\ r.batch \in wal \cup sealed \cup retired
                      /\ r.lsn # 0 => r.lsn = lsns[r.batch]

\* The watermark is the LSN of a batch that is still stored.
SyncedIsStored ==
  synced # 0 => \E b \in wal \cup sealed \cup retired : lsns[b] = synced

IInv == /\ StoreTypeOK /\ AsOpened /\ Unsealed /\ SmallLsns
        /\ PromisesKept /\ ReceiptsTrue /\ SyncedIsStored

LEMMA InitHolds == Init => IInv
<1> SUFFICES ASSUME Init PROVE IInv
  OBVIOUS
<1>1. DefaultSettings \in Settings /\ SettingsOf(NoOptions) = DefaultSettings
  BY SettingsTyped DEF SettingsOf
<1>2. "Close" \in EntryPoint
  BY DEF EntryPoint, LifecycleProgram
<1>3. StoreTypeOK
  BY <1>1, <1>2, MaxBatchesAssumption DEF Init, StoreTypeOK, Batch, NoAnswer
<1>4. QED
  BY <1>1, <1>3 DEF Init, IInv, AsOpened, Unsealed, SmallLsns, PromisesKept, ReceiptsTrue,
                    SyncedIsStored, Batch

LEMMA LastLsnIsLast ==
  ASSUME IInv
  PROVE  /\ LastLsn \in 0..Len(lsns)
         /\ \A b \in wal \cup sealed \cup retired : lsns[b] <= LastLsn
         /\ synced <= LastLsn
<1> DEFINE S == {0} \cup {lsns[b] : b \in wal \cup buffer \cup sealed \cup retired}
<1>1. \A x \in S : x \in Nat /\ x <= Len(lsns)
  BY DEF IInv, StoreTypeOK, SmallLsns, Batch
<1>2. Len(lsns) \in Nat /\ S \in SUBSET Nat /\ S # {}
  <2>1. Len(lsns) \in Nat
    BY DEF IInv, StoreTypeOK
  <2>2. 0 \in S
    OBVIOUS
  <2>3. S \in SUBSET Nat
    BY <1>1
  <2>4. QED
    BY <2>1, <2>2, <2>3
<1>3. Max(S) \in S /\ \A x \in S : x <= Max(S)
  BY <1>1, <1>2, MaxIsMax
<1>4. LastLsn = Max(S)
  BY DEF LastLsn
<1> HIDE DEF S
<1>5. LastLsn \in 0..Len(lsns)
  <2>1. LastLsn \in S
    BY <1>3, <1>4
  <2>2. LastLsn \in Nat /\ LastLsn <= Len(lsns)
    BY <1>1, <2>1
  <2>3. QED
    BY <1>2, <2>2
<1>6. \A b \in wal \cup sealed \cup retired : lsns[b] \in S
  BY DEF S
<1>7. \A b \in wal \cup sealed \cup retired : lsns[b] <= LastLsn
  BY <1>3, <1>4, <1>6
<1>8. synced <= LastLsn
  <2>1. CASE synced = 0
    BY <1>5, <2>1
  <2>2. CASE synced # 0
    BY <1>7, <2>2 DEF IInv, SyncedIsStored
  <2>3. QED
    BY <2>1, <2>2
<1>9. QED
  BY <1>5, <1>7, <1>8

LEMMA OpenKeeps ==
  ASSUME IInv, NEW o \in OpenOptions, Open(o)
  PROVE  IInv'
<1>1. o \in Options \cup {NoOptions}
  BY OpenOptionsAssumption
<1>2. settings' \in Settings
  BY <1>1, SettingsTyped DEF Open
<1>3. StoreTypeOK'
  BY <1>1, <1>2 DEF Open, disk, host, age, IInv, StoreTypeOK, Batch
<1>4. QED
  BY <1>3 DEF Open, disk, host, age, IInv, StoreTypeOK, AsOpened, Unsealed, SmallLsns, PromisesKept,
              Safe, ReceiptsTrue, SyncedIsStored, Batch

(***************************************************************************)
(* A batch promised as durable was accepted under ALWAYS and synced.       *)
(***************************************************************************)
LEMMA IngestKeeps ==
  ASSUME IInv, Ingest
  PROVE  IInv'
<1> DEFINE b   == Len(lsns) + 1
           lsn == LastLsn + 1
           durable == settings.wal.mode = "Always"
<1>1. /\ Len(lsns) \in Nat /\ b \in Nat \ {0} /\ b <= MaxBatches /\ b \notin Batch
      /\ lsn \in Nat \ {0} /\ lsn <= b /\ synced < lsn
      /\ \A c \in wal \cup sealed \cup retired : lsns[c] < lsn
  <2>1. Len(lsns) \in Nat /\ Len(lsns) < MaxBatches
    BY DEF Ingest, IInv, StoreTypeOK
  <2>2. QED
    BY <2>1, LastLsnIsLast, MaxBatchesAssumption DEF IInv, StoreTypeOK, Batch
<1>2. PICK given \in {{}, {lsn}} :
        /\ receipts' = receipts \cup {WriteReceipt(b, given, durable)}
        /\ promised' = promised
             \cup {<<b, why>> : why \in IF durable THEN {"receipt"} ELSE {}}
             \cup {<<b, why>> : why \in IF Asked("Always") THEN {"always"} ELSE {}}
  BY DEF Ingest, WriteReceipt
<1>3. /\ lsns' = Append(lsns, lsn) /\ buffer' = buffer \cup {b} /\ wal' = wal \cup {b}
      /\ synced' = IF durable THEN lsn ELSE synced
      /\ UNCHANGED <<handle, opts, settings, sealed, retired, today, asked, answer>>
  BY DEF Ingest
<1>4. WriteReceipt(b, given, durable).batch = b
      /\ WriteReceipt(b, given, durable).lsn \in {0, lsn}
      /\ WriteReceipt(b, given, durable) \in [batch : Nat, lsn : Nat, durable : BOOLEAN]
  <2>1. Max({lsn}) = lsn
    BY <1>1 DEF Max
  <2>2. QED
    BY <1>1, <2>1 DEF WriteReceipt
<1>5. /\ Len(lsns') = b /\ lsns' \in Seq(Nat \ {0}) /\ Batch' = Batch \cup {b}
      /\ lsns'[b] = lsn /\ \A c \in Batch : lsns'[c] = lsns[c]
  BY <1>1, <1>3 DEF IInv, StoreTypeOK, Batch
<1>6. Asked("Always") => durable
  BY DEF Asked, IInv, AsOpened, SettingsOf, BuildOptions, WalModeOf
<1> HIDE DEF b, lsn, durable
<1>7. StoreTypeOK'
  BY <1>1, <1>2, <1>3, <1>4, <1>5 DEF Ingest, Writable, IInv, StoreTypeOK, Promises
<1>8. AsOpened' /\ Unsealed' /\ SmallLsns'
  <2>1. AsOpened'
    BY <1>3 DEF Ingest, Writable, IInv, AsOpened
  <2>2. Unsealed'
    BY <1>1, <1>3 DEF IInv, StoreTypeOK, Unsealed
  <2>3. SmallLsns'
    BY <1>1, <1>5 DEF IInv, SmallLsns
  <2>4. QED
    BY <2>1, <2>2, <2>3
<1>9. PromisesKept'
  <2>1. Safe \subseteq Safe'
    <3>1. \A c \in wal : c \in Batch /\ lsns[c] \in Nat
      BY DEF IInv, StoreTypeOK, Batch
    <3>2. lsn \in Nat /\ synced \in Nat /\ \A c \in wal : lsns[c] < lsn
      BY <1>1 DEF IInv, StoreTypeOK
    <3>3. \A c \in wal : lsns[c] <= synced => lsns[c] <= synced'
      <4>1. synced' = synced \/ synced' = lsn
        BY <1>3
      <4>2. QED
        BY <3>1, <3>2, <4>1
    <3>4. \A c \in wal : lsns'[c] = lsns[c]
      BY <1>5, <3>1
    <3>5. QED
      BY <1>3, <3>3, <3>4 DEF Safe
  <2>2. durable => b \in Safe'
    BY <1>1, <1>3, <1>5 DEF Safe
  <2>3. ASSUME NEW p \in promised' \ promised
        PROVE  p[1] = b /\ p[2] # "sealed" /\ durable
    BY <1>2, <1>6
  <2>4. \A p \in promised : IF p[2] = "sealed" THEN p[1] \in sealed' \cup retired'
                                                ELSE p[1] \in Safe'
    BY <1>3, <2>1 DEF IInv, PromisesKept
  <2>5. QED
    BY <2>2, <2>3, <2>4 DEF PromisesKept
<1>10. ReceiptsTrue'
  BY <1>1, <1>2, <1>3, <1>4, <1>5 DEF IInv, StoreTypeOK, ReceiptsTrue
<1>11. SyncedIsStored'
  BY <1>3, <1>5 DEF IInv, StoreTypeOK, SyncedIsStored
<1>12. QED
  BY <1>7, <1>8, <1>9, <1>10, <1>11 DEF IInv

LEMMA FsyncLogKeeps ==
  ASSUME IInv, FsyncLog
  PROVE  IInv'
<1> DEFINE S == {synced} \cup {lsns[b] : b \in wal}
<1>1. UNCHANGED <<handle, opts, settings, buffer, wal, sealed, retired, lsns, host, age, answer>>
      /\ synced' = Max(S)
  BY DEF FsyncLog
<1>2. \A b \in wal : b \in Batch /\ lsns[b] \in Nat
  BY DEF IInv, StoreTypeOK, Batch
<1>3. synced \in Nat /\ Len(lsns) \in Nat /\ LastLsn \in Nat
  BY LastLsnIsLast DEF IInv, StoreTypeOK
<1>4. \A x \in S : x \in Nat /\ x <= LastLsn
  BY <1>2, <1>3, LastLsnIsLast
<1>5. synced \in S /\ S \in SUBSET Nat
  <2>1. synced \in S
    OBVIOUS
  <2>2. S \in SUBSET Nat
    BY <1>4
  <2>3. QED
    BY <2>1, <2>2
<1>6. Max(S) \in S /\ \A x \in S : x <= Max(S)
  BY <1>3, <1>4, <1>5, MaxIsMax
<1>7. synced' \in Nat /\ synced <= synced'
  BY <1>1, <1>4, <1>5, <1>6
<1>8. SyncedIsStored'
  <2>1. synced' = synced \/ \E b \in wal : lsns[b] = synced'
    BY <1>1, <1>6
  <2>2. QED
    BY <1>1, <2>1 DEF IInv, SyncedIsStored
<1> HIDE DEF S
<1>9. Safe \subseteq Safe'
  <2>1. \A b \in wal : lsns[b] <= synced => lsns[b] <= synced'
    BY <1>2, <1>3, <1>7
  <2>2. QED
    BY <1>1, <2>1 DEF Safe
<1>10. StoreTypeOK'
  BY <1>1, <1>7 DEF host, age, IInv, StoreTypeOK, Batch
<1>11. AsOpened' /\ Unsealed' /\ SmallLsns' /\ ReceiptsTrue'
  BY <1>1 DEF host, age, IInv, AsOpened, Unsealed, SmallLsns, ReceiptsTrue, Batch
<1>12. PromisesKept'
  BY <1>1, <1>9 DEF host, age, IInv, PromisesKept
<1>13. QED
  BY <1>8, <1>10, <1>11, <1>12 DEF IInv

-----------------------------------------------------------------------------
(***************************************************************************)
(* Sealing moves the buffer to safety; the promises of the batches already *)
(* safe stand, and the buffer may be promised sealed.                      *)
(***************************************************************************)
LEMMA SealingKeeps ==
  ASSUME IInv, NEW new \in SUBSET (buffer \X {"sealed"}),
         Seal, promised' = promised \cup new,
         UNCHANGED <<synced, retired, lsns, receipts>>
  PROVE  /\ buffer' = {} => Unsealed'
         /\ PromisesKept' /\ ReceiptsTrue' /\ SyncedIsStored' /\ SmallLsns'
         /\ sealed' \cap (retired' \cup wal') = {}
         /\ wal' \cup sealed' \cup retired' \subseteq Batch'
         /\ promised' \subseteq Batch' \X Promises
<1>1. /\ sealed' = sealed \cup buffer /\ wal' = wal \ buffer
      /\ retired' = retired /\ lsns' = lsns /\ synced' = synced /\ receipts' = receipts
  BY DEF Seal
<1>2. buffer' = {} => Unsealed'
  BY <1>1 DEF IInv, Unsealed
<1>3. PromisesKept'
  <2>1. Safe \subseteq Safe'
    BY <1>1 DEF Safe
  <2>2. \A p \in promised : IF p[2] = "sealed" THEN p[1] \in sealed' \cup retired'
                                                ELSE p[1] \in Safe'
    BY <1>1, <2>1 DEF IInv, PromisesKept
  <2>3. \A p \in new : p[2] = "sealed" /\ p[1] \in sealed'
    BY <1>1
  <2>4. QED
    BY <2>2, <2>3 DEF PromisesKept
<1>4. ReceiptsTrue' /\ SyncedIsStored' /\ SmallLsns'
  BY <1>1 DEF IInv, ReceiptsTrue, SyncedIsStored, SmallLsns, Batch
<1>5. sealed' \cap (retired' \cup wal') = {}
  BY <1>1 DEF IInv, StoreTypeOK, Unsealed
<1>6. /\ wal' \cup sealed' \cup retired' \subseteq Batch'
      /\ promised' \subseteq Batch' \X Promises
  BY <1>1 DEF IInv, StoreTypeOK, Batch, Promises
<1>7. QED
  BY <1>2, <1>3, <1>4, <1>5, <1>6

LEMMA FlushKeeps ==
  ASSUME IInv, Flush
  PROVE  IInv'
<1>1. /\ Seal /\ buffer' = {} /\ promised' = promised \cup (buffer \X {"sealed"})
      /\ UNCHANGED <<handle, opts, settings, synced, retired, lsns, receipts, age, answer>>
  BY DEF Flush
<1>2. wal' = {}
  BY DEF Flush, Writable, Seal, IInv, StoreTypeOK
<1>3. StoreTypeOK'
  BY <1>1, <1>2, SealingKeeps DEF IInv, StoreTypeOK, Batch
<1>4. QED
  BY <1>1, <1>3, SealingKeeps DEF IInv, AsOpened

LEMMA CloseKeeps ==
  ASSUME IInv, Close
  PROVE  IInv'
<1>1. CASE Writable
  <2>1. Seal /\ promised' = promised \cup (buffer \X {"sealed"})
    BY <1>1 DEF Close, CloseEngine
  <2>2. StoreTypeOK'
    BY <2>1, SealingKeeps DEF Close, IInv, StoreTypeOK, Batch
  <2>3. QED
    BY <2>1, <2>2, SealingKeeps DEF Close, IInv, AsOpened
<1>2. CASE ~Writable
  BY <1>2 DEF Close, CloseEngine, IInv, StoreTypeOK, AsOpened, Unsealed, SmallLsns, PromisesKept,
              Safe, ReceiptsTrue, SyncedIsStored, Batch
<1>3. QED
  BY <1>1, <1>2

LEMMA NoHandleTyped ==
  ASSUME NoHandle
  PROVE  /\ handle' = "none" /\ opts' = NoOptions /\ buffer' = {}
         /\ settings' \in Settings /\ AsOpened'
         /\ answer' \in [call : EntryPoint, code : {"Ok", "Closed", "Query"}]
<1>1. DefaultSettings \in Settings /\ SettingsOf(NoOptions) = DefaultSettings
  BY SettingsTyped DEF SettingsOf
<1>2. "Close" \in EntryPoint
  BY DEF EntryPoint, LifecycleProgram
<1>3. QED
  BY <1>1, <1>2 DEF NoHandle, NoAnswer, AsOpened

LEMMA FreeHandleKeeps ==
  ASSUME IInv, FreeHandle
  PROVE  IInv'
<1>1. NoHandle /\ UNCHANGED <<synced, retired, lsns, receipts, age>>
  BY DEF FreeHandle
<1>2. CASE Seal /\ promised' = promised \cup (buffer \X {"sealed"})
  <2>1. StoreTypeOK'
    BY <1>1, <1>2, NoHandleTyped, SealingKeeps DEF IInv, StoreTypeOK, Batch
  <2>2. QED
    BY <1>1, <1>2, <2>1, NoHandleTyped, SealingKeeps DEF IInv
<1>3. CASE UNCHANGED <<sealed, wal, promised>>
  <2>1. StoreTypeOK'
    BY <1>1, <1>3, NoHandleTyped DEF IInv, StoreTypeOK, Batch
  <2>2. QED
    BY <1>1, <1>3, <2>1, NoHandleTyped
    DEF IInv, Unsealed, SmallLsns, PromisesKept, Safe, ReceiptsTrue, SyncedIsStored, Batch
<1>4. promised \cup {} = promised
  OBVIOUS
<1>5. QED
  BY <1>2, <1>3, <1>4 DEF FreeHandle, CloseEngine

LEMMA MaintainKeeps ==
  ASSUME IInv, Maintain
  PROVE  IInv'
<1>1. PICK old \in SUBSET (sealed \cup buffer) :
        sealed' = (sealed \cup buffer) \ old /\ retired' = retired \cup old
  <2>1. Due(sealed \cup buffer) \subseteq sealed \cup buffer
    BY DEF Due
  <2>2. QED
    BY <2>1 DEF Maintain
<1>2. /\ wal' = {} /\ buffer' = {}
      /\ UNCHANGED <<handle, opts, settings, synced, lsns, host, age, answer>>
  BY DEF Maintain, Writable, IInv, StoreTypeOK
<1>3. /\ sealed' \cup retired' = sealed \cup retired \cup buffer
      /\ sealed' \cap retired' = {}
  BY <1>1 DEF IInv, StoreTypeOK, Unsealed
<1>4. wal \subseteq buffer
  BY DEF Maintain, Writable, IInv, StoreTypeOK
<1>5. StoreTypeOK'
  BY <1>2, <1>3 DEF host, age, IInv, StoreTypeOK, Batch
<1>6. AsOpened' /\ Unsealed' /\ SmallLsns'
  BY <1>2 DEF IInv, AsOpened, Unsealed, SmallLsns, Batch
<1>7. PromisesKept'
  BY <1>2, <1>3, <1>4 DEF host, age, IInv, PromisesKept, Safe
<1>8. ReceiptsTrue' /\ SyncedIsStored'
  BY <1>2, <1>3, <1>4 DEF host, age, IInv, ReceiptsTrue, SyncedIsStored
<1>9. QED
  BY <1>5, <1>6, <1>7, <1>8 DEF IInv

(***************************************************************************)
(* A receipt covered by the watermark is of a batch that is synced, or has *)
(* reached a segment; one without an LSN is covered by none.               *)
(***************************************************************************)
LEMMA CoveredIsSafe ==
  ASSUME IInv
  PROVE  CoveredBy(synced) \subseteq Safe \cap Batch
<1> SUFFICES ASSUME NEW r \in receipts, r.lsn # 0, r.lsn <= synced
             PROVE  r.batch \in Safe \cap Batch
  BY DEF CoveredBy
<1>1. r.batch \in Batch
  BY DEF IInv, StoreTypeOK
<1>2. r.batch \in wal \cup sealed \cup retired /\ lsns[r.batch] <= synced
  BY DEF IInv, ReceiptsTrue
<1>3. QED
  BY <1>1, <1>2 DEF Safe

LEMMA DurableThroughKeeps ==
  ASSUME IInv, DurableThrough
  PROVE  IInv'
<1>1. /\ promised' = promised \cup (CoveredBy(synced) \X {"watermark"})
      /\ UNCHANGED <<handle, opts, settings, buffer, disk, lsns, receipts, age, answer>>
  BY DEF DurableThrough, DurableThroughValue
<1>2. StoreTypeOK'
  BY <1>1, CoveredIsSafe DEF disk, IInv, StoreTypeOK, Batch, Promises
<1>3. PromisesKept'
  BY <1>1, CoveredIsSafe DEF disk, IInv, PromisesKept, Safe
<1>4. QED
  BY <1>1, <1>2, <1>3
  DEF disk, IInv, AsOpened, Unsealed, SmallLsns, ReceiptsTrue, SyncedIsStored, Batch

(***************************************************************************)
(* A crash loses nothing at or below the watermark.                        *)
(***************************************************************************)
LEMMA CrashKeeps ==
  ASSUME IInv, Crash
  PROVE  IInv'
<1>1. NoHandle /\ receipts' = {} /\ UNCHANGED <<synced, sealed, retired, lsns, promised, age>>
  BY DEF Crash
<1>2. PICK k \in Int : synced <= k /\ wal' = {b \in wal : lsns[b] <= k}
  BY DEF Crash
<1>3. \A b \in wal : lsns[b] \in Nat
  BY DEF IInv, StoreTypeOK, Batch
<1>4. \A b \in wal : lsns[b] <= synced => b \in wal'
  BY <1>2, <1>3 DEF IInv, StoreTypeOK
<1>5. StoreTypeOK'
  BY <1>1, <1>2, NoHandleTyped DEF IInv, StoreTypeOK, Batch
<1>6. PromisesKept'
  BY <1>1, <1>4 DEF IInv, PromisesKept, Safe
<1>7. SyncedIsStored'
  BY <1>1, <1>4 DEF IInv, StoreTypeOK, SyncedIsStored
<1>8. Unsealed' /\ SmallLsns' /\ ReceiptsTrue'
  BY <1>1, <1>2, NoHandleTyped DEF IInv, Unsealed, SmallLsns, ReceiptsTrue, Batch
<1>9. QED
  BY <1>1, <1>5, <1>6, <1>7, <1>8, NoHandleTyped DEF IInv

LEMMA CallClosedKeeps ==
  ASSUME IInv, NEW e \in ClosedCalls, CallClosed(e)
  PROVE  IInv'
<1>1. e \in EntryPoint
  BY ClosedCallsAssumption
<1>2. ClosedCode(e) \in {"Ok", "Closed", "Query"}
  BY DEF ClosedCode
<1>3. answer' \in [call : EntryPoint, code : {"Ok", "Closed", "Query"}]
  BY <1>1, <1>2 DEF CallClosed
<1>4. StoreTypeOK'
  BY <1>3 DEF CallClosed, disk, host, age, IInv, StoreTypeOK, Batch
<1>5. QED
  BY <1>4 DEF CallClosed, disk, host, age, IInv, AsOpened, Unsealed, SmallLsns, PromisesKept, Safe,
              ReceiptsTrue, SyncedIsStored, Batch

LEMMA NextDayKeeps ==
  ASSUME IInv, NextDay
  PROVE  IInv'
BY DEF NextDay, disk, host, IInv, StoreTypeOK, AsOpened, Unsealed, SmallLsns, PromisesKept, Safe,
       ReceiptsTrue, SyncedIsStored, Batch

LEMMA StutterKeeps ==
  ASSUME IInv, UNCHANGED vars
  PROVE  IInv'
BY DEF vars, disk, host, age, IInv, StoreTypeOK, AsOpened, Unsealed, SmallLsns, PromisesKept, Safe,
       ReceiptsTrue, SyncedIsStored, Batch

-----------------------------------------------------------------------------
LEMMA StepHolds == IInv /\ [Next]_vars => IInv'
BY OpenKeeps, IngestKeeps, FsyncLogKeeps, FlushKeeps, MaintainKeeps, DurableThroughKeeps,
   CloseKeeps, FreeHandleKeeps, CrashKeeps, CallClosedKeeps, NextDayKeeps,
   StutterKeeps DEF Next

LEMMA AlwaysIInv == Spec => []IInv
BY InitHolds, StepHolds, PTL DEF Spec

-----------------------------------------------------------------------------
(***************************************************************************)
(* Retention.  What it has dropped was old enough, or followed by enough,  *)
(* for a bound some open asked for, and both only become truer.            *)
(***************************************************************************)
\* The engine works with bounds that were asked for.
RetentionAsked ==
  /\ settings.retention.days \subseteq asked.days
  /\ settings.retention.disk \subseteq asked.disk

DueByNow(b) == \/ \E n \in asked.days : today - dated[b] >= n
               \/ \E n \in asked.disk : Len(lsns) - b >= n

DroppedWhenDue == \A b \in retired : DueByNow(b)

Retains == AgeTypeOK /\ RetentionAsked /\ DroppedWhenDue

LEMMA InitRetains == Init => Retains
<1> SUFFICES ASSUME Init PROVE Retains
  OBVIOUS
<1>1. AgeTypeOK
  BY LastDayAssumption DEF Init, AgeTypeOK, NoRetention
<1>2. QED
  BY <1>1 DEF Init, Retains, RetentionAsked, DroppedWhenDue, DefaultSettings, NoRetention

\* As long as the bounds asked for, the days and the batches only become more.
LEMMA DueStays ==
  ASSUME IInv, AgeTypeOK, NEW b \in Batch, DueByNow(b),
         asked.days \subseteq asked'.days, asked.disk \subseteq asked'.disk,
         today' \in Nat, today' >= today, dated'[b] = dated[b],
         Len(lsns') \in Nat, Len(lsns') >= Len(lsns)
  PROVE  DueByNow(b)'
<1>1. /\ today \in Nat /\ dated[b] \in Nat /\ Len(lsns) \in Nat /\ b \in Nat
      /\ asked.days \subseteq Nat /\ asked.disk \subseteq Nat
  BY LastDayAssumption DEF IInv, StoreTypeOK, AgeTypeOK, Batch
<1>2. CASE \E n \in asked.days : today - dated[b] >= n
  <2>1. PICK n \in asked.days : today - dated[b] >= n
    BY <1>2
  <2>2. n \in asked'.days /\ today' - dated'[b] >= n
    BY <1>1, <2>1
  <2>3. QED
    BY <2>2 DEF DueByNow
<1>3. CASE \E n \in asked.disk : Len(lsns) - b >= n
  <2>1. PICK n \in asked.disk : Len(lsns) - b >= n
    BY <1>3
  <2>2. n \in asked'.disk /\ Len(lsns') - b >= n
    BY <1>1, <2>1
  <2>3. QED
    BY <2>2 DEF DueByNow
<1>4. QED
  BY <1>2, <1>3 DEF DueByNow

LEMMA NothingDropped ==
  ASSUME IInv, AgeTypeOK, DroppedWhenDue, AgeTypeOK', retired' = retired,
         asked.days \subseteq asked'.days, asked.disk \subseteq asked'.disk,
         today' >= today, \A b \in Batch : dated'[b] = dated[b],
         Len(lsns') \in Nat, Len(lsns') >= Len(lsns)
  PROVE  DroppedWhenDue'
<1>1. today' \in Nat
  BY LastDayAssumption DEF AgeTypeOK
<1>2. ASSUME NEW b \in retired PROVE DueByNow(b)'
  <2>1. b \in Batch /\ DueByNow(b)
    BY DEF IInv, StoreTypeOK, DroppedWhenDue
  <2>2. QED
    BY <1>1, <2>1, DueStays
<1>3. QED
  BY <1>2 DEF DroppedWhenDue

LEMMA OpenRetains ==
  ASSUME IInv, Retains, NEW o \in OpenOptions, Open(o)
  PROVE  Retains'
<1>1. o \in Options \cup {NoOptions}
  BY OpenOptionsAssumption
<1>2. /\ Wanted(o) \in [days : SUBSET (Nat \ {0}), disk : SUBSET (Nat \ {0})]
      /\ SettingsOf(o).retention.days \subseteq Wanted(o).days
      /\ SettingsOf(o).retention.disk \subseteq Wanted(o).disk
  <2>1. CASE o = NoOptions
    BY <2>1 DEF Wanted, SettingsOf, DefaultSettings, NoRetention
  <2>2. CASE o \in Options
    <3>1. o # NoOptions /\ SettingsOf(o).retention = RetentionOf(o)
      BY <2>2, NoOptionsAssumption DEF SettingsOf, BuildOptions
    <3>2. o.days \in Nat /\ o.maxDisk \in Nat
      BY <2>2 DEF Options
    <3>3. Wanted(o) = [days |-> {o.days} \ {0}, disk |-> {o.maxDisk} \ {0}]
      BY <3>1 DEF Wanted
    <3>4. QED
      BY <2>2, <3>1, <3>2, <3>3, RetentionTyped
  <2>3. QED
    BY <1>1, <2>1, <2>2
<1>3. asked' = [days |-> asked.days \cup Wanted(o).days, disk |-> asked.disk \cup Wanted(o).disk]
  <2>1. DOMAIN asked = {"days", "disk"}
    BY DEF Retains, AgeTypeOK
  <2>2. QED
    BY <2>1 DEF Open
<1>4. AgeTypeOK'
  BY <1>2, <1>3 DEF Open, Retains, AgeTypeOK
<1>5. RetentionAsked'
  BY <1>2, <1>3 DEF Open, RetentionAsked
<1>6. DroppedWhenDue'
  <2>1. /\ asked.days \subseteq asked'.days /\ asked.disk \subseteq asked'.disk
        /\ today' = today /\ dated' = dated /\ lsns' = lsns /\ retired' = retired
    BY <1>3 DEF Open, disk
  <2>2. today \in Nat /\ Len(lsns) \in Nat
    BY LastDayAssumption DEF Retains, AgeTypeOK, IInv, StoreTypeOK
  <2>3. QED
    BY <1>4, <2>1, <2>2, NothingDropped DEF Retains
<1>7. QED
  BY <1>4, <1>5, <1>6 DEF Retains

LEMMA IngestRetains ==
  ASSUME IInv, Retains, Ingest
  PROVE  Retains'
<1>1. PICK day \in 0..today : dated' = Append(dated, day)
  BY DEF Ingest
<1>2. PICK lsn : lsns' = Append(lsns, lsn)
  BY DEF Ingest
<1>3. UNCHANGED <<settings, retired, today, asked>>
  BY DEF Ingest
<1>4. /\ Len(lsns) \in Nat /\ Len(lsns') = Len(lsns) + 1
      /\ lsns \in Seq(Nat \ {0})
  BY <1>2 DEF IInv, StoreTypeOK
<1>5. /\ dated' \in Seq(0..today) /\ Len(dated') = Len(lsns')
      /\ \A b \in Batch : dated'[b] = dated[b]
  BY <1>1, <1>4 DEF Retains, AgeTypeOK, Batch
<1>6. AgeTypeOK'
  BY <1>3, <1>5 DEF Retains, AgeTypeOK
<1>7. RetentionAsked'
  BY <1>3 DEF Retains, RetentionAsked
<1>8. DroppedWhenDue'
  <2>1. today \in Nat
    BY LastDayAssumption DEF Retains, AgeTypeOK
  <2>2. QED
    BY <1>3, <1>4, <1>5, <1>6, <2>1, NothingDropped DEF Retains
<1>9. QED
  BY <1>6, <1>7, <1>8 DEF Retains

(***************************************************************************)
(* The batches from b on are at most Len(lsns) - b + 1: where they are more *)
(* than the disk may hold, as many as it may hold have come in since.      *)
(***************************************************************************)
LEMMA DueIsDue ==
  ASSUME IInv, Retains, NEW batches \in SUBSET Batch, NEW b \in Due(batches)
  PROVE  DueByNow(b)
<1>1. b \in Batch /\ b \in Nat /\ Len(lsns) \in Nat
  BY DEF Due, IInv, StoreTypeOK, Batch
<1>2. CASE \E n \in settings.retention.days : today - dated[b] >= n
  BY <1>2 DEF Retains, RetentionAsked, DueByNow
<1>3. CASE \E n \in settings.retention.disk : Cardinality({c \in batches : c >= b}) > n
  <2>1. PICK n \in settings.retention.disk : Cardinality({c \in batches : c >= b}) > n
    BY <1>3
  <2>2. n \in asked.disk /\ n \in Nat
    BY <2>1 DEF Retains, RetentionAsked, AgeTypeOK
  <2>3. IsFiniteSet(b..Len(lsns)) /\ Cardinality(b..Len(lsns)) = Len(lsns) - b + 1
    BY <1>1, FS_Interval DEF Batch
  <2>4. {c \in batches : c >= b} \subseteq b..Len(lsns)
    <3>1. ASSUME NEW c \in batches, c >= b PROVE c \in b..Len(lsns)
      <4>1. c \in 1..Len(lsns)
        BY DEF Batch
      <4>2. QED
        BY <1>1, <3>1, <4>1
    <3>2. QED
      BY <3>1
  <2>5. /\ IsFiniteSet({c \in batches : c >= b})
        /\ Cardinality({c \in batches : c >= b}) <= Len(lsns) - b + 1
    BY <2>3, <2>4, FS_Subset
  <2>6. Cardinality({c \in batches : c >= b}) \in Nat
    BY <2>5, FS_CardinalityType
  <2>7. Len(lsns) - b >= n
    BY <1>1, <2>1, <2>2, <2>5, <2>6
  <2>8. QED
    BY <2>2, <2>7 DEF DueByNow
<1>4. QED
  BY <1>2, <1>3 DEF Due

LEMMA MaintainRetains ==
  ASSUME IInv, Retains, Maintain
  PROVE  Retains'
<1>1. PICK old \in SUBSET Due(sealed \cup buffer) : retired' = retired \cup old
  BY DEF Maintain
<1>2. UNCHANGED <<settings, lsns, today, dated, asked>>
  BY DEF Maintain, age
<1>3. AgeTypeOK' /\ RetentionAsked'
  BY <1>2 DEF Retains, AgeTypeOK, RetentionAsked
<1>4. sealed \cup buffer \in SUBSET Batch
  BY DEF IInv, StoreTypeOK
<1>5. ASSUME NEW b \in retired' PROVE DueByNow(b)
  BY <1>1, <1>4, DueIsDue DEF Retains, DroppedWhenDue
<1>6. DroppedWhenDue'
  BY <1>2, <1>5 DEF DroppedWhenDue, DueByNow
<1>7. QED
  BY <1>3, <1>6 DEF Retains

LEMMA NextDayRetains ==
  ASSUME IInv, Retains, NextDay
  PROVE  Retains'
<1>1. /\ today' = today + 1 /\ today < LastDay /\ today \in 0..LastDay
      /\ UNCHANGED <<settings, retired, lsns, dated, asked>>
  BY DEF NextDay, disk, Retains, AgeTypeOK
<1>2. 0..today \subseteq 0..today' /\ today' \in 0..LastDay
  BY <1>1, LastDayAssumption
<1>3. dated \in Seq(0..today')
  BY <1>2 DEF Retains, AgeTypeOK
<1>4. AgeTypeOK' /\ RetentionAsked'
  BY <1>1, <1>2, <1>3 DEF Retains, AgeTypeOK, RetentionAsked
<1>5. DroppedWhenDue'
  <2>1. Len(lsns) \in Nat /\ today' >= today
    BY <1>1, LastDayAssumption DEF IInv, StoreTypeOK
  <2>2. QED
    BY <1>1, <1>4, <2>1, NothingDropped DEF Retains
<1>6. QED
  BY <1>4, <1>5 DEF Retains

\* The other steps leave data, days and bounds alone, or the handle without a retention.
LEMMA OtherwiseRetains ==
  ASSUME IInv, Retains, UNCHANGED <<retired, lsns, age>>,
         settings' \in {settings, DefaultSettings}
  PROVE  Retains'
<1>1. RetentionAsked'
  BY DEF age, Retains, RetentionAsked, DefaultSettings, NoRetention
<1>2. QED
  BY <1>1 DEF age, Retains, AgeTypeOK, DroppedWhenDue, DueByNow

LEMMA AlwaysRetains == Spec => []Retains
<1>1. ASSUME IInv, Retains, [Next]_vars PROVE Retains'
  <2>1. CASE FsyncLog \/ Flush \/ DurableThrough \/ Close \/ UNCHANGED vars
    BY <1>1, <2>1, OtherwiseRetains DEF FsyncLog, Flush, DurableThrough, Close, vars, disk
  <2>2. CASE FreeHandle \/ Crash
    BY <1>1, <2>2, OtherwiseRetains DEF FreeHandle, Crash, NoHandle
  <2>3. CASE \E e \in ClosedCalls : CallClosed(e)
    BY <1>1, <2>3, OtherwiseRetains DEF CallClosed, disk
  <2>4. QED
    BY <1>1, <2>1, <2>2, <2>3, OpenRetains, IngestRetains, MaintainRetains, NextDayRetains
    DEF Next
<1>2. QED
  BY <1>1, InitRetains, AlwaysIInv, PTL DEF Spec

(***************************************************************************)
(* The settings always have a meaning for the engine, and no batch is in   *)
(* two places.                                                             *)
(***************************************************************************)
THEOREM TypeCorrect == Spec => []TypeOK
<1>1. IInv /\ Retains => TypeOK
  BY DEF IInv, Retains, TypeOK
<1>2. QED
  BY <1>1, AlwaysIInv, AlwaysRetains, PTL

LEMMA AllKept == IInv => \A why : Kept(why)
BY DEF IInv, PromisesKept, Safe, Kept, Stored

(***************************************************************************)
(* What a receipt or the watermark told the host is durable outlives every *)
(* sequence of crashes, reopenings and reused LSNs.                        *)
(***************************************************************************)
THEOREM DurableOutlives == Spec => []DurableSurvives
<1>1. IInv => DurableSurvives
  BY AllKept DEF DurableSurvives
<1>2. QED
  BY <1>1, AlwaysIInv, PTL

(***************************************************************************)
(* Under WAL mode ALWAYS no accepted batch is ever lost.                   *)
(***************************************************************************)
THEOREM AlwaysOutlives == Spec => []AlwaysSurvives
<1>1. IInv => AlwaysSurvives
  BY AllKept DEF AlwaysSurvives
<1>2. QED
  BY <1>1, AlwaysIInv, PTL

(***************************************************************************)
(* What flush, close or free have sealed outlives the handle.              *)
(***************************************************************************)
THEOREM SealedOutlives == Spec => []SealedSurvives
<1>1. IInv => SealedSurvives
  BY AllKept DEF SealedSurvives
<1>2. QED
  BY <1>1, AlwaysIInv, PTL

(***************************************************************************)
(* A batch the host may count on is dropped by retention alone, and by it  *)
(* only once it is as old, or followed by as many, as some open asked.     *)
(***************************************************************************)
THEOREM RetentionKeepsItsWord == Spec => []KeptForItsTime
<1>1. ASSUME IInv, Retains, NEW p \in promised,
             \A n \in asked.days : today - dated[p[1]] < n,
             \A n \in asked.disk : Len(lsns) - p[1] < n
      PROVE  p[1] \in sealed \cup wal
  <2>1. p[1] \in sealed \cup wal \cup retired
    BY <1>1 DEF IInv, PromisesKept, Safe
  <2>2. ASSUME p[1] \in retired PROVE FALSE
    <3>1. DueByNow(p[1]) /\ p[1] \in Batch
      BY <1>1, <2>2 DEF Retains, DroppedWhenDue, IInv, StoreTypeOK
    <3>2. /\ today \in Nat /\ dated[p[1]] \in Nat /\ Len(lsns) \in Nat /\ p[1] \in Nat
          /\ asked.days \subseteq Nat /\ asked.disk \subseteq Nat
      BY <1>1, <3>1, LastDayAssumption DEF IInv, StoreTypeOK, Retains, AgeTypeOK, Batch
    <3>3. QED
      BY <1>1, <3>1, <3>2 DEF DueByNow
  <2>3. QED
    BY <2>1, <2>2
<1>2. IInv /\ Retains => KeptForItsTime
  BY <1>1 DEF KeptForItsTime
<1>3. QED
  BY <1>2, AlwaysIInv, AlwaysRetains, PTL

-----------------------------------------------------------------------------
LEMMA ReadOnlyStep ==
  ASSUME IInv, [Next]_vars, opts # NoOptions, opts.readOnly, handle # "none"
  PROVE  wal' \subseteq wal /\ UNCHANGED <<sealed, retired, synced, lsns>>
<1>1. ~Writable
  BY DEF Writable, IInv, AsOpened, SettingsOf, BuildOptions, AccessOf
<1>2. CASE Crash
  BY <1>2 DEF Crash
<1>3. CASE ~Crash
  BY <1>1, <1>3 DEF Next, Open, Ingest, FsyncLog, Flush, Maintain, DurableThrough, Close,
                    FreeHandle, CloseEngine, CallClosed, NextDay, vars, disk
<1>4. QED
  BY <1>2, <1>3

(***************************************************************************)
(* A read-only handle leaves the disk as it is, in whatever way it ends.   *)
(***************************************************************************)
THEOREM ReadersNeverWrite == Spec => ReadOnlyNeverWrites
<1>1. IInv /\ [Next]_vars =>
        [opts # NoOptions /\ opts.readOnly /\ handle # "none" =>
           wal' \subseteq wal /\ UNCHANGED <<sealed, retired, synced, lsns>>]_vars
  BY ReadOnlyStep
<1>2. QED
  BY <1>1, AlwaysIInv, PTL DEF Spec, ReadOnlyNeverWrites
=============================================================================
