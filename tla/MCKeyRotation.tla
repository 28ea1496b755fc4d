--------------------------- MODULE MCKeyRotation ---------------------------
(* A small instance of KeyRotation for TLC. *)
EXTENDS KeyRotation

CONSTANTS j1
=============================================================================
