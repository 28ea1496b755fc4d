----------------------------- MODULE MCBackupJob -----------------------------
(* Runs are interchangeable. *)
EXTENDS BackupJob, TLC

CONSTANTS r1, r2, r3

Symmetry == Permutations(Runs)
===============================================================================
