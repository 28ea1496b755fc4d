----------------------------- MODULE MCPolling -----------------------------
(* Small instances of Polling for TLC. *)
EXTENDS Polling

CONSTANTS a1
=============================================================================
