--------------------------- MODULE MCQueryBuilders ---------------------------
(* A finite instance of QueryBuilders. *)
EXTENDS QueryBuilders

CONSTANTS t1, t2

MCTexts == {t1, t2}
Alike   == Permutations(MCTexts)

\* A limit, cursor or severity of zero, a proper one, and a severity out of range.
MCNumbers == {0, 9, 25}
==============================================================================
