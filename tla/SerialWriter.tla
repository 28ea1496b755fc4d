---------------------------- MODULE SerialWriter ----------------------------
(***************************************************************************)
(* What the writer queue promises to the handlers that write through it:   *)
(* while intake is open jobs are accepted into a line, one job at a time   *)
(* runs and it is the first of the line, and a job that leaves the line    *)
(* without having run is gone for good, its caller having been told so.    *)
(* There are no workers, sentinels or closers here; WriterQueue shows that *)
(* its tasks and its queue implement this.                                 *)
(***************************************************************************)
EXTENDS Sequences, Naturals

CONSTANTS Jobs, NoJob

VARIABLES
  open,      \* is intake open?
  waiting,   \* accepted jobs that have not started, oldest first
  running,   \* the job that is executing, or NoJob
  outcome    \* what each caller knows of its job

svars == <<open, waiting, running, outcome>>

SInit ==
  /\ open = TRUE
  /\ waiting = <<>>
  /\ running = NoJob
  /\ outcome = [j \in Jobs |-> "new"]

Accept(j) ==
  /\ open
  /\ outcome[j] = "new"
  /\ outcome' = [outcome EXCEPT ![j] = "pending"]
  /\ waiting' = Append(waiting, j)
  /\ UNCHANGED <<open, running>>

Refuse(j) ==
  /\ ~open
  /\ outcome[j] = "new"
  /\ outcome' = [outcome EXCEPT ![j] = "refused"]
  /\ UNCHANGED <<open, waiting, running>>

\* The caller stops waiting; its job stays in line.
Leave(j) ==
  /\ outcome[j] = "pending"
  /\ outcome' = [outcome EXCEPT ![j] = "cancelled"]
  /\ UNCHANGED <<open, waiting, running>>

Begin ==
  /\ running = NoJob
  /\ waiting # <<>>
  /\ running' = Head(waiting)
  /\ waiting' = Tail(waiting)
  /\ UNCHANGED <<open, outcome>>

\* Only a caller that still waits is told.
Complete(how) ==
  /\ running # NoJob
  /\ running' = NoJob
  /\ outcome' = [outcome EXCEPT ![running] = IF @ = "pending" THEN how ELSE @]
  /\ UNCHANGED <<open, waiting>>

\* The writer fails: everything accepted and unfinished is rejected at once.
Fail ==
  /\ running' = NoJob
  /\ waiting' = <<>>
  /\ outcome' = [j \in Jobs |-> IF outcome[j] = "pending" THEN "rejected"
                                                           ELSE outcome[j]]
  /\ UNCHANGED open

Shut ==
  /\ open
  /\ open' = FALSE
  /\ UNCHANGED <<waiting, running, outcome>>

SNext ==
  \/ \E j \in Jobs : Accept(j) \/ Refuse(j) \/ Leave(j)
  \/ Begin
  \/ \E how \in {"result", "error"} : Complete(how)
  \/ Fail
  \/ Shut

SSpec == SInit /\ [][SNext]_svars
=============================================================================
