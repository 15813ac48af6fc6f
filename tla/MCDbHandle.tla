----------------------------- MODULE MCDbHandle ------------------------------
(* Finite instances of DbHandle. *)
EXTENDS DbHandle

With(w, ro, d, n) == [wal |-> w, interval |-> 0, compression |-> "Zstd", level |-> 0,
                      readOnly |-> ro, days |-> d, maxDisk |-> n]

\* Every WAL mode, a retention by age and one by size, a read-only handle, and no options.
MCOptions == {NoOptions, With("Off", FALSE, 0, 0), With("Interval", FALSE, 2, 0),
              With("Always", FALSE, 0, 1), With("Always", TRUE, 0, 0)}

\* One entry point of each kind of answer on a closed handle.
MCClosedCalls == {"Close", "Ingest", "DurableThrough", "QueryTraceql"}

TwoOptions == {NoOptions, ZeroedOptions}
==============================================================================
