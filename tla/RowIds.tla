------------------------------- MODULE RowIds -------------------------------
(* Row ids as SQLite hands them out. *)
EXTENDS Integers, FiniteSetsExt

\* The id of a row inserted next to the rows S.  The tables are created without
\* AUTOINCREMENT, so the number after the largest one in use is taken and the
\* number of a deleted row can come back.
NextRowId(S) == Max(S \cup {0}) + 1
=============================================================================
