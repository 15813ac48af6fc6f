---------------------------- MODULE MCPagedLogs -----------------------------
(* A finite instance of PagedLogs. *)
EXTENDS PagedLogs

\* The default page, which never reports a next one, pages of one row, and pages that a short
\* scan fills only in part.
MCLimits == {0, 1, 2}

\* An offset that would skip a row if the cursor did not win.
MCOffsets == {1}

\* A window that excludes the newest rows, and one that excludes none.
MCEnds == {3, 5}
==============================================================================
