---------------------------- MODULE MCStoreAdmin -----------------------------
(* Rows of two tables before and at the epoch. *)
EXTENDS StoreAdmin

MCRows == {[id |-> 1, table |-> "Logs", time |-> -1], [id |-> 2, table |-> "Logs", time |-> 0],
           [id |-> 3, table |-> "Spans", time |-> 0]}

\* The whole of time, and windows on both sides of the epoch.
MCWindows == {<<0, 0>>, <<-1, 0>>, <<0, 1>>}
MCEdges   == {-1, 0, 1}
==============================================================================
