---------------------------- MODULE BootstrapToken ----------------------------
(***************************************************************************)
(* The first bearer token: ensure_bootstrap_bearer_token of                *)
(* tca/auth/bootstrap_token.py, run at every start of the process.  The    *)
(* digest goes to the settings table, the token to a file, and neither     *)
(* write covers the other.  A token stands for its digest as well.         *)
(***************************************************************************)
EXTENDS Naturals, Functions

CONSTANTS
  Procs,       \* the processes that start on one database
  Tokens,      \* the tokens that can be generated, enough to find a fresh one
  MaxCrashes,  \* bound: kills of a process
  Nothing      \* no row, or a file that is absent or torn

ASSUME BootstrapAssumption ==
  MaxCrashes \in Nat /\ Nothing \notin Tokens

VARIABLES
  digest,   \* the settings row auth.bootstrap_bearer_token_sha256
  output,   \* the token in the output file
  pc,       \* process -> the next call of its startup
  token,    \* process -> the token it generated
  crashes

vars == <<digest, output, pc, token, crashes>>

TypeOK ==
  /\ digest \in Tokens \cup {Nothing} /\ output \in Tokens \cup {Nothing}
  /\ crashes \in 0 .. MaxCrashes
  /\ pc \in [Procs -> {"get", "create", "write", "rollback", "failed", "serving"}]
  /\ token \in [Procs -> Tokens \cup {Nothing}]
  /\ \A p, q \in Procs : p # q /\ pc[p] \in {"write", "rollback"}
       => pc[q] \notin {"write", "rollback"}

Init ==
  /\ digest = Nothing /\ output = Nothing /\ crashes = 0
  /\ pc = [p \in Procs |-> "get"] /\ token = [p \in Procs |-> Nothing]

GoTo(p, from, to) == pc[p] = from /\ pc' = [pc EXCEPT ![p] = to]

\* secrets.token_urlsafe() never repeats; which fresh token it is does not matter.
Fresh == Tokens \ (Range(token) \cup {output, digest})

\* A digest that is there ends the call; otherwise a token is generated.
GetDigest(p) ==
  /\ \/ digest # Nothing /\ GoTo(p, "get", "serving") /\ UNCHANGED token
     \/ /\ digest = Nothing
        /\ Fresh # {}
        /\ GoTo(p, "get", "create")
        /\ token' = [token EXCEPT ![p] = CHOOSE t \in Fresh : TRUE]
  /\ UNCHANGED <<digest, output, crashes>>

\* As Create, overwriting what another process stored.
CreateOver(p) ==
  /\ GoTo(p, "create", "write")
  /\ digest' = token[p]
  /\ UNCHANGED <<output, token, crashes>>

\* The row is inserted, or another process was first.
Create(p) ==
  /\ \/ digest = Nothing /\ GoTo(p, "create", "write") /\ digest' = token[p]
     \/ digest # Nothing /\ GoTo(p, "create", "serving") /\ UNCHANGED digest
  /\ UNCHANGED <<output, token, crashes>>

Write(p) ==
  /\ GoTo(p, "write", "serving")
  /\ output' = token[p]
  /\ UNCHANGED <<digest, token, crashes>>

\* As WriteFails, without the rollback.
WriteFailsOnly(p) ==
  /\ GoTo(p, "write", "failed")
  /\ output' \in {output, Nothing, token[p]}
  /\ UNCHANGED <<digest, token, crashes>>

\* mkdir, write_text or chmod raises, before, in or after the write.
WriteFails(p) ==
  /\ GoTo(p, "write", "rollback")
  /\ output' \in {output, Nothing, token[p]}
  /\ UNCHANGED <<digest, token, crashes>>

\* delete_if_value_matches, and the startup fails.
Rollback(p) ==
  /\ GoTo(p, "rollback", "failed")
  /\ digest' = IF digest = token[p] THEN Nothing ELSE digest
  /\ UNCHANGED <<output, token, crashes>>

\* get_by_key or create raises, and the startup fails.
StatementFails(p) ==
  /\ pc[p] \in {"get", "create"}
  /\ pc' = [pc EXCEPT ![p] = "failed"]
  /\ UNCHANGED <<digest, output, token, crashes>>

\* The process, stopped or failed, is started again.
Restart(p) ==
  /\ pc[p] \in {"failed", "serving"}
  /\ pc' = [pc EXCEPT ![p] = "get"] /\ token' = [token EXCEPT ![p] = Nothing]
  /\ UNCHANGED <<digest, output, crashes>>

\* The process is killed, or its rollback fails, and it is started again.
Crash(p) ==
  /\ crashes < MaxCrashes /\ crashes' = crashes + 1
  /\ pc[p] # "failed"
  /\ pc' = [pc EXCEPT ![p] = "get"] /\ token' = [token EXCEPT ![p] = Nothing]
  /\ UNCHANGED <<digest, output>>

Startup(p) ==
  GetDigest(p) \/ Create(p) \/ Write(p) \/ WriteFails(p) \/ Rollback(p) \/ StatementFails(p)

Next == \E p \in Procs : Startup(p) \/ Restart(p) \/ Crash(p)

Spec == Init /\ [][Next]_vars

-----------------------------------------------------------------------------
(* Properties *)

Busy == \E p \in Procs : pc[p] \in {"write", "rollback"}

\* As long as no process is killed, a digest is the digest of the token in the
\* file whenever no process is between the two writes: a write that fails is
\* rolled back, and no digest is left whose token nobody has.
WriteFailuresRecover ==
  crashes = 0 /\ digest # Nothing /\ ~Busy => output = digest

\* A token that was handed out stays valid: no restart, failed start or second
\* process replaces or removes the digest of the token a start has written.
TokenIsNotRotated ==
  [][digest # Nothing /\ ~Busy => digest' = digest]_vars
===============================================================================
