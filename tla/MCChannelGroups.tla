--------------------------- MODULE MCChannelGroups ---------------------------
(* Small instances of ChannelGroups for TLC. *)
EXTENDS ChannelGroups, TLC

CONSTANTS r1, r2, c1, c2, v1, v2

Symmetry == Permutations({r1, r2}) \cup Permutations({c1, c2}) \cup Permutations({v1, v2})
=============================================================================
