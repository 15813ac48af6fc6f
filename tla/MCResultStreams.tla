--------------------------- MODULE MCResultStreams ---------------------------
(* Two series that differ in the value of one of two labels, which is a string for one and *)
(* a number for the other.                                                                 *)
EXTENDS ResultStreams

Attr(k, t, type) == [key |-> k, text |-> t, kind |-> type]

MCRows == {[id |-> 1, attrs |-> {Attr("job", "x", "str"), Attr("shard", "5", "int")}],
           [id |-> 2, attrs |-> {Attr("job", "y", "str"), Attr("shard", "5", "str")}]}

AllEntries == Entries
==============================================================================
