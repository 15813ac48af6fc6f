--------------------------- MODULE MCCallBoundary ----------------------------
(* A finite instance of CallBoundary. *)
EXTENDS CallBoundary, TLC

\* A classifier that wins, and a category the binding does not know.
MCErrors == {[category |-> "Ingest", backpressure |-> TRUE, notFound |-> FALSE],
             [category |-> "Unknown", backpressure |-> FALSE, notFound |-> FALSE]}

\* A call that may fail after its effect, one that decodes an argument, one with optional
\* out-params, and one that changes only a builder.
MCEntries == {"OpenMemory", "Ingest", "Maintain", "SetString"}

Symmetry == Permutations(Threads)
==============================================================================
