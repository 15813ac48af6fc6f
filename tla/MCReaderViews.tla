---------------------------- MODULE MCReaderViews ----------------------------
(* A finite instance of ReaderViews. *)
EXTENDS ReaderViews

Writer(background, promote) ==
  [readOnly |-> FALSE, stale |-> FALSE, budget |-> 0, background |-> background,
   refresh |-> "Default", ttl |-> 0, promote |-> promote]
Reader(refresh, ttl) ==
  [readOnly |-> TRUE, stale |-> TRUE, budget |-> 64, background |-> 0,
   refresh |-> refresh, ttl |-> ttl, promote |-> "null"]

\* Every policy; a writer that is maintained, one that is not, one that is refused.
MCOptions == {Writer(0, "keys"), Writer(1, "none"), Writer(1, "bad"), Reader("Default", 1),
              Reader("OnQuery", 0), Reader("Manual", 1), Reader("Ttl", 0), Reader("Ttl", 1)}

OnQueryPolicy == [mode |-> "OnQuery", ttl |-> 0]
==============================================================================
