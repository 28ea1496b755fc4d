----------------------------- MODULE KeyRotation -----------------------------
(***************************************************************************)
(* The key rotation metadata of tca/auth/key_rotation.py: one row with the *)
(* target version, the last rotated account and the completion mark, and a *)
(* key version per account.  Rotation jobs drive the repository; the job   *)
(* itself is not in the repository, its order of calls is that of          *)
(* tests/auth/test_key_rotation_resume.py: begin, then next pending and    *)
(* mark until nothing is pending, then complete.                           *)
(*                                                                         *)
(* Granularity.  Every operation first reads the row with get_state() in a *)
(* session of its own and then works with that copy in a second session,   *)
(* so an operation is two steps and the copy may be stale in the second.   *)
(***************************************************************************)
EXTENDS RowIds

CONSTANTS
  Jobs,         \* rotation jobs that may run at the same time
  MaxVersion,   \* bound: the largest key version
  MaxAccount,   \* bound: the largest account id
  MaxCrashes,   \* bound: how often a job dies
  NoState       \* the metadata row does not exist

ASSUME RotationAssumption ==
  /\ MaxVersion \in Nat \ {0}
  /\ MaxAccount \in Nat
  /\ MaxCrashes \in Nat

VARIABLES
  version,   \* telegram_accounts: id |-> key_version
  row,       \* auth_key_rotation: the row with id 1
  pc,        \* where each job is
  state,     \* the copy of the row each job works with
  wanted,    \* target_key_version each job was started with
  account,   \* the account each job is rotating
  crashes

vars == <<version, row, pc, state, wanted, account, crashes>>

-----------------------------------------------------------------------------
Version == 1 .. MaxVersion

\* completed_at is reduced to whether it is set.
State == [target : Version, last : 0 .. MaxAccount, completed : BOOLEAN]

ASSUME NoStateAssumption == NoState \notin State

TypeOK ==
  /\ DOMAIN version \subseteq 1 .. MaxAccount
  /\ version \in [DOMAIN version -> Version]
  /\ row \in State \cup {NoState}
  /\ pc \in [Jobs -> {"idle", "insert", "reset", "next", "select", "mark",
                      "write", "finish", "complete"}]
  /\ state \in [Jobs -> State \cup {NoState}]
  /\ wanted \in [Jobs -> Version]
  /\ account \in [Jobs -> 0 .. MaxAccount]
  /\ \A j \in Jobs :
       /\ pc[j] \in {"mark", "write"} => account[j] \in DOMAIN version
       /\ pc[j] \in {"select", "write", "complete"} => state[j] \in State
       /\ pc[j] \notin {"idle", "insert"} => row \in State
  /\ crashes \in 0 .. MaxCrashes

Init ==
  /\ \E n \in 0 .. MaxAccount : version = [a \in 1 .. n |-> 1]
  /\ row = NoState
  /\ pc = [j \in Jobs |-> "idle"]
  /\ state = [j \in Jobs |-> NoState]
  /\ wanted = [j \in Jobs |-> 1]
  /\ account = [j \in Jobs |-> 0]
  /\ crashes = 0

\* Accounts below version v.
Pending(v) == {a \in DOMAIN version : version[a] < v}

Goto(j, label) == pc' = [pc EXCEPT ![j] = label]

\* upsert_account inserts with the column's default, 1.
AddAccount ==
  LET new == NextRowId(DOMAIN version)
  IN  /\ new <= MaxAccount
      /\ version' = [a \in DOMAIN version \cup {new} |->
                       IF a = new THEN 1 ELSE version[a]]
      /\ UNCHANGED <<row, pc, state, wanted, account, crashes>>

-----------------------------------------------------------------------------
(* begin_rotation *)

\* A target other than the one in progress, or not above the completed one, is
\* refused.
Begin(j, v) ==
  /\ pc[j] = "idle"
  /\ wanted' = [wanted EXCEPT ![j] = v]
  /\ \/ row = NoState /\ Goto(j, "insert")
     \/ row # NoState /\ row.target = v /\ Goto(j, "next")
     \/ row # NoState /\ row.completed /\ v > row.target /\ Goto(j, "reset")
  /\ UNCHANGED <<version, row, state, account, crashes>>

Fresh(v) == [target |-> v, last |-> 0, completed |-> FALSE]

\* An IntegrityError, when another job was faster, is answered with its row.
Insert(j) ==
  /\ pc[j] = "insert"
  /\ row' = IF row = NoState THEN Fresh(wanted[j]) ELSE row
  /\ Goto(j, "next")
  /\ UNCHANGED <<version, state, wanted, account, crashes>>

\* Variant: the progress of the completed rotation is kept.
ResetKeepsLast(j) ==
  /\ pc[j] = "reset"
  /\ row' = [row EXCEPT !.target = wanted[j], !.completed = FALSE]
  /\ Goto(j, "next")
  /\ UNCHANGED <<version, state, wanted, account, crashes>>

Reset(j) ==
  /\ pc[j] = "reset"
  /\ row' = Fresh(wanted[j])
  /\ Goto(j, "next")
  /\ UNCHANGED <<version, state, wanted, account, crashes>>

-----------------------------------------------------------------------------
(* next_pending_account_id, mark_account_rotated, complete_if_finished *)

\* get_state() at the start of an operation.
Read(j, from, to) ==
  /\ pc[j] = from
  /\ state' = [state EXCEPT ![j] = row]
  /\ Goto(j, to)
  /\ UNCHANGED <<version, row, wanted, account, crashes>>

Select(j) ==
  LET found == {a \in Pending(state[j].target) : a > state[j].last}
  IN  /\ pc[j] = "select"
      /\ state' = [state EXCEPT ![j] = NoState]
      /\ \/ /\ found # {}
            /\ account' = [account EXCEPT ![j] = Min(found)]
            /\ Goto(j, "mark")
         \/ /\ found = {}
            /\ Goto(j, "finish")
            /\ UNCHANGED account
      /\ UNCHANGED <<version, row, wanted, crashes>>

\* The write session of mark_account_rotated: version and progress together.
Write(j) ==
  LET a    == account[j]
      last == Max({state[j].last, a})
  IN  /\ pc[j] = "write"
      /\ version' = [version EXCEPT ![a] =
                       IF @ < state[j].target THEN state[j].target ELSE @]
      /\ row' = IF last # state[j].last THEN [row EXCEPT !.last = last] ELSE row
      /\ state' = [state EXCEPT ![j] = NoState]
      /\ account' = [account EXCEPT ![j] = 0]
      /\ Goto(j, "next")
      /\ UNCHANGED <<wanted, crashes>>

\* A rotation that is completed already is reported as such.
ReadFinish(j) ==
  /\ Read(j, "finish", IF row.completed THEN "idle" ELSE "complete")

\* Variant: what is pending is not looked at.
CompleteAnyway(j) ==
  /\ pc[j] = "complete"
  /\ row' = [row EXCEPT !.completed = TRUE] /\ Goto(j, "idle")
  /\ state' = [state EXCEPT ![j] = NoState]
  /\ UNCHANGED <<version, wanted, account, crashes>>

\* Variant: the update asks for a rotation that is completed.
CompleteNothing(j) ==
  /\ pc[j] = "complete"
  /\ Goto(j, IF Pending(state[j].target) # {} THEN "next" ELSE "idle")
  /\ state' = [state EXCEPT ![j] = NoState]
  /\ UNCHANGED <<version, row, wanted, account, crashes>>

Complete(j) ==
  /\ pc[j] = "complete"
  /\ \/ Pending(state[j].target) # {} /\ Goto(j, "next") /\ UNCHANGED row
     \/ /\ Pending(state[j].target) = {}
        /\ row' = [row EXCEPT !.completed = TRUE]
        /\ Goto(j, "idle")
  /\ state' = [state EXCEPT ![j] = NoState]
  /\ UNCHANGED <<version, wanted, account, crashes>>

\* The process dies; the database stays.
Crash(j) ==
  /\ crashes < MaxCrashes
  /\ crashes' = crashes + 1
  /\ pc[j] # "idle"
  /\ Goto(j, "idle")
  /\ state' = [state EXCEPT ![j] = NoState]
  /\ account' = [account EXCEPT ![j] = 0]
  /\ UNCHANGED <<version, row, wanted>>

-----------------------------------------------------------------------------
Step(j) ==
  \/ Insert(j) \/ Reset(j)
  \/ Read(j, "next", "select") \/ Select(j)
  \/ Read(j, "mark", "write") \/ Write(j)
  \/ ReadFinish(j) \/ Complete(j)

Next ==
  \/ AddAccount
  \/ \E j \in Jobs : Step(j) \/ Crash(j) \/ \E v \in Version : Begin(j, v)

Spec == Init /\ [][Next]_vars

\* A job that runs makes progress, and a rotation that was interrupted is begun
\* again with its target.
Fairness ==
  \A j \in Jobs :
    /\ WF_vars(Step(j))
    /\ WF_vars(row # NoState /\ ~row.completed /\ Begin(j, row.target))

FairSpec == Spec /\ Fairness

-----------------------------------------------------------------------------
(* Properties *)

InProgress == row # NoState /\ ~row.completed

\* complete_if_finished() marks the rotation as complete only when every account
\* is at its target version, accounts added in the meantime included.
CompletionIsEarned ==
  [][InProgress /\ row'.completed => Pending(row.target)' = {}]_vars

\* While a rotation is in progress, every account it has not rotated lies beyond
\* last_rotated_account_id, where next_pending_account_id() looks: a crash
\* anywhere, or a new account, never puts one out of its reach.
NoAccountIsSkipped ==
  InProgress => \A a \in Pending(row.target) : a > row.last

\* A rotation that was begun is completed in the end, however often its job was
\* interrupted.
RotationFinishes == InProgress ~> ~InProgress
=============================================================================
