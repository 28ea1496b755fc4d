-------------------------- MODULE MCTelegramLogin --------------------------
(* Small instances of TelegramLogin for TLC. *)
EXTENDS TelegramLogin, TLC

CONSTANTS s1, s2, p1, p2, r1, r2, w1, w2

Symmetry == Permutations({s1, s2}) \cup Permutations({r1, r2}) \cup Permutations({w1, w2})
=============================================================================
