---------------------------- MODULE MCWriterQueue ----------------------------
(* A small instance of WriterQueue for TLC.  Liveness is checked, so there is no
   symmetry. *)
EXTENDS WriterQueue, TLC
=============================================================================
