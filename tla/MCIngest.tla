------------------------------ MODULE MCIngest ------------------------------
(* Four messages in pages of two, three to a poll: a walk takes two polls and *)
(* its pages are full, cut by the poll's limit, short or empty.               *)
EXTENDS Ingest

MCLimits == {[pages |-> 2, messages |-> 3], [pages |-> 0, messages |-> 3]}
=============================================================================
