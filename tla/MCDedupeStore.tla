--------------------------- MODULE MCDedupeStore ---------------------------
(* A small instance of DedupeStore for TLC: two channels with a post each. *)
EXTENDS DedupeStore

CONSTANTS a, b, p1, p2

MCChannelOf == [p \in Posts |-> IF p = p1 THEN a ELSE b]
=============================================================================
