--------------------------- MODULE PlanCycleRunner ---------------------------
(***************************************************************************)
(* scripts/codex_plan_cycle_runner.py: the loop that lets a coding agent   *)
(* (the codex executable) work through an implementation plan.  A cycle    *)
(* implements the next pending item, reviews the commit, now and then      *)
(* reviews the documentation, and passes the pre-commit gate.              *)
(*                                                                         *)
(* The agent is external.  It may commit, edit, fail, run into a rate      *)
(* limit or a quota in any execution, and write its last message or not.   *)
(* What the runner reads from output and last message is one of Texts: the *)
(* patterns it searches for.  A step directory is named after cycle and    *)
(* step only, so a file last_message.txt outlives the run that wrote it.   *)
(***************************************************************************)
EXTENDS Integers, FiniteSetsExt

CONSTANTS
  NItems,        \* items of the plan, numbered in the order of the file
  Verified,      \* the items with verification commands
  MaxCycles,     \* --max-cycles
  MaxRetries,    \* --retryable-rate-limit-max-retries
  MaxWaits,      \* --max-quota-waits
  DocsInterval,  \* --docs-review-interval, 0 for never
  MaxRepairs,    \* --precommit-repair-max-attempts
  AllowDirty,    \* --allow-dirty-start
  MaxStarts,     \* bound: runs of the script
  MaxCommits,    \* bound: commits
  MaxOdd         \* bound: executions whose last message is missing or matches

ASSUME RunnerAssumption ==
  /\ {NItems, MaxCycles, MaxRetries, MaxWaits, DocsInterval} \subseteq Nat
  /\ {MaxStarts, MaxCommits, MaxOdd} \subseteq Nat
  /\ MaxRepairs \in Nat \ {0}
  /\ Verified \subseteq 1 .. NItems
  /\ AllowDirty \in BOOLEAN

VARIABLES
  head,        \* commits of the repository so far
  checked,     \* items whose criteria are all checked in the plan
  dirty,       \* the working tree has changes
  clean,       \* pre-commit would pass
  messages,    \* last_message.txt of every step directory
  at,          \* where the run is, "off" when there is none
  cycle,       \* cycle_number
  step,        \* the agent step that runs or ran last
  attempt,     \* retryable attempts of that step
  probes,      \* probes of wait_for_quota_reset
  check,       \* check_attempt of enforce_precommit_policy
  pending,     \* pending_item, 0 for None
  before,      \* head_before
  result,      \* what the last execution showed
  finishing,   \* PLAN IS DONE was returned
  code,        \* exit code of the last run
  unreviewed,  \* this run has implementation commits no review has seen
  starts,
  odd

repoVars == <<head, checked, dirty, clean>>
loopVars == <<cycle, pending, before, finishing, unreviewed>>
runnerVars == <<repoVars, messages, at, step, attempt, probes, check, result,
                code, loopVars, starts, odd>>

-----------------------------------------------------------------------------
Items == 1 .. NItems
Steps == {"implement", "review", "docs", "repair"}
Limits == {"busy", "quota"}
Texts == {"plain", "noverify", "done"} \cup Limits
NoCode == -1

Results == [rc : {0, 1}, forbidden : BOOLEAN, done : BOOLEAN,
            issue : Limits \cup {"none"}]

RunnerTypeOK ==
  /\ head \in 0 .. MaxCommits
  /\ checked \subseteq Items
  /\ {dirty, clean, finishing, unreviewed} \subseteq BOOLEAN
  /\ messages \in [1 .. MaxCycles -> [Steps -> Texts]]
  /\ at \in {"off", "cycle", "exec", "judge", "probe", "implemented",
             "unchanged", "sync", "verify", "reviewed", "gate"}
  /\ step \in Steps
  /\ cycle \in 0 .. MaxCycles + 1
  /\ attempt \in 0 .. MaxRetries + 1
  /\ probes \in 0 .. MaxWaits
  /\ check \in 0 .. MaxRepairs
  /\ pending \in 0 .. NItems
  /\ before \in 0 .. MaxCommits
  /\ result \in Results
  /\ code \in {NoCode, 0, 1, 2, 4, 130}
  /\ starts \in 0 .. MaxStarts
  /\ odd \in 0 .. MaxOdd

RunnerInit ==
  /\ head = 0
  /\ checked = {}
  /\ dirty = FALSE
  /\ clean \in BOOLEAN
  /\ messages = [c \in 1 .. MaxCycles |-> [s \in Steps |-> "plain"]]
  /\ at = "off"
  /\ step = "implement"
  /\ cycle = 0
  /\ attempt = 0
  /\ probes = 0
  /\ check = 0
  /\ pending = 0
  /\ before = 0
  /\ result = [rc |-> 0, forbidden |-> FALSE, done |-> FALSE, issue |-> "none"]
  /\ finishing = FALSE
  /\ code = NoCode
  /\ unreviewed = FALSE
  /\ starts = 0
  /\ odd = 0

-----------------------------------------------------------------------------
\* What the runner reads off an execution's output and last message.

\* next_pending_item(): the first item with an unchecked criterion, 0 for None.
NextPendingItem ==
  IF checked = Items THEN 0 ELSE Min(Items \ checked)

\* detect_rate_limit_issue(): the output is searched before the last message.
Issue(output, last) ==
  IF output \in Limits THEN output
  ELSE IF last \in Limits THEN last
  ELSE "none"

\* detect_forbidden_no_verify_usage()
Forbidden(output, last) == "noverify" \in {output, last}

\* is_plan_done()
PlanDone(last) == last = "done"

-----------------------------------------------------------------------------
\* Control.

MoveTo(place) == at' = place /\ UNCHANGED code

Exit(c) == at' = "off" /\ code' = c

\* A loop of executions of step s is entered.
Enter(s) == /\ MoveTo("exec")
            /\ step' = s
            /\ attempt' = 0

NextCycle == /\ MoveTo("cycle")
             /\ cycle' = cycle + 1

\* main() up to the loop: a bad argument or a missing executable, and a dirty
\* tree unless that is allowed, end the run at once.
Start ==
  /\ at = "off"
  /\ starts < MaxStarts
  /\ starts' = starts + 1
  /\ \/ /\ Exit(1)
        /\ UNCHANGED <<cycle, finishing, unreviewed>>
     \/ /\ dirty => AllowDirty
        /\ at' = "cycle"
        /\ code' = NoCode
        /\ cycle' = 1
        /\ finishing' = FALSE
        /\ unreviewed' = FALSE
  /\ UNCHANGED <<repoVars, messages, step, attempt, probes, check, pending,
                 before, result, odd>>

\* The head of the cycle loop: the plan is parsed and HEAD is read.
BeginCycle ==
  /\ at = "cycle"
  /\ IF cycle > MaxCycles
       THEN /\ Exit(2)
            /\ UNCHANGED <<step, attempt, pending, before>>
       ELSE /\ Enter("implement")
            /\ pending' = NextPendingItem
            /\ before' = head
  /\ UNCHANGED <<repoVars, messages, probes, check, cycle, finishing,
                 unreviewed, result, starts, odd>>

\* What the agent does to the repository: it may commit, edit, and check the
\* criteria of the item it was given.
CodexWorks ==
  /\ \E commits, edits, tidy \in BOOLEAN :
       /\ commits => head < MaxCommits
       /\ head' = IF commits THEN head + 1 ELSE head
       /\ dirty' = edits
       /\ clean' = IF commits \/ edits \/ dirty THEN tidy ELSE clean
       /\ unreviewed' = (unreviewed \/ (commits /\ step = "implement"))
       /\ checked' \in {checked} \cup
            {checked \cup {i} : i \in {j \in Items :
                                 commits /\ step = "implement" /\ j = pending}}

\* run_codex_step(): one execution.  When the agent writes no last message the
\* file of an earlier execution in the same directory is read.
RunCodexStep ==
  /\ at = "exec"
  /\ CodexWorks
  /\ \E rc \in {0, 1}, output \in Texts \ {"done"},
        written \in Texts \cup {"nothing"} :
       LET last == IF written = "nothing" THEN messages[cycle][step] ELSE written
       IN /\ written # "plain" => odd < MaxOdd
          /\ odd' = IF written = "plain" THEN odd ELSE odd + 1
          /\ messages' = [messages EXCEPT ![cycle][step] = last]
          /\ result' = [rc |-> rc, forbidden |-> Forbidden(output, last),
                        done |-> PlanDone(last), issue |-> Issue(output, last)]
  /\ MoveTo("judge")
  /\ UNCHANGED <<step, attempt, probes, check, cycle, pending, before,
                 finishing, starts>>

\* Variant of Busy that counts the attempts of every execution anew.
BusyForgetful(giveUp) ==
  /\ attempt' = 0
  /\ IF MaxRetries = 0 THEN giveUp ELSE MoveTo("exec")
  /\ UNCHANGED probes

\* A retryable limit: wait_for_retryable_rate_limit() sleeps and lets the step
\* run again while the attempts last.
Busy(giveUp) ==
  /\ attempt' = attempt + 1
  /\ IF attempt' > MaxRetries THEN giveUp ELSE MoveTo("exec")
  /\ UNCHANGED probes

\* A quota: wait_for_quota_reset() is entered unless it may not probe.
Quota(giveUp) ==
  /\ probes' = 0
  /\ IF MaxWaits = 0 THEN giveUp ELSE MoveTo("probe")
  /\ UNCHANGED attempt

\* The loop around the executions of step s.
StepLoop(s, success, giveUp, failure) ==
  /\ at = "judge"
  /\ step = s
  /\ \/ /\ result.forbidden
        /\ Exit(1)
        /\ UNCHANGED <<attempt, probes>>
     \/ /\ ~result.forbidden
        /\ result.rc = 0
        /\ success
        /\ UNCHANGED <<attempt, probes>>
     \/ /\ ~result.forbidden
        /\ result.rc # 0
        /\ \/ result.issue = "busy" /\ Busy(giveUp)
           \/ result.issue = "quota" /\ Quota(giveUp)
           \/ /\ result.issue = "none"
              /\ failure
              /\ UNCHANGED <<attempt, probes>>
  /\ UNCHANGED <<repoVars, messages, step, loopVars, result, starts, odd>>

ImplementStep ==
  /\ StepLoop("implement", MoveTo("implemented"), Exit(4), Exit(result.rc))
  /\ UNCHANGED check

\* Variant of ReviewStep for which a failing review is not critical.
ReviewStepLenient ==
  /\ StepLoop("review", MoveTo("reviewed"), MoveTo("gate"), MoveTo("gate"))
  /\ check' = 1

ReviewStep ==
  /\ StepLoop("review", MoveTo("reviewed"), Exit(4), Exit(result.rc))
  /\ UNCHANGED check

\* run_docs_review(): only a forbidden commit ends the run.
DocsStep ==
  /\ StepLoop("docs", MoveTo("gate"), MoveTo("gate"), MoveTo("gate"))
  /\ check' = 1

\* The repair loop of enforce_precommit_policy(): a successful repair leads to
\* the next check.
RepairStep ==
  /\ StepLoop("repair", MoveTo("gate"), Exit(4), Exit(result.rc))
  /\ check' = IF at' = "gate" THEN check + 1 ELSE check

\* wait_for_quota_reset(): a probe succeeds, or the next one follows until
\* max_quota_waits of them have failed.
QuotaProbe ==
  /\ at \in {"probe", "unchanged"}
  /\ \/ /\ probes' = 0
        /\ IF at = "probe"
             THEN MoveTo("exec") /\ UNCHANGED cycle
             ELSE NextCycle
     \/ /\ probes' = probes + 1
        /\ IF probes' < MaxWaits
             THEN MoveTo(at)
             ELSE IF step = "docs" THEN MoveTo("gate") ELSE Exit(4)
        /\ UNCHANGED cycle
  /\ check' = IF step = "docs" THEN 1 ELSE check
  /\ UNCHANGED <<repoVars, messages, step, attempt, pending, before, finishing,
                 unreviewed, result, starts, odd>>

\* After a successful implement step: the sentinel, or HEAD has to move.
AfterImplement ==
  /\ at = "implemented"
  /\ \/ /\ result.done
        /\ finishing' = TRUE
        /\ check' = 1
        /\ IF DocsInterval > 0
             THEN Enter("docs")
             ELSE MoveTo("gate") /\ UNCHANGED <<step, attempt>>
        /\ UNCHANGED <<cycle, probes>>
     \/ /\ ~result.done
        /\ head = before
        /\ \/ result.issue = "busy" /\ NextCycle
           \/ /\ result.issue = "quota"
              /\ IF MaxWaits = 0 THEN Exit(4) ELSE MoveTo("unchanged")
              /\ UNCHANGED cycle
           \/ result.issue = "none" /\ Exit(1) /\ UNCHANGED cycle
        /\ probes' = 0
        /\ UNCHANGED <<step, attempt, check, finishing>>
     \/ /\ ~result.done
        /\ head # before
        /\ MoveTo("sync")
        /\ UNCHANGED <<step, attempt, cycle, probes, check, finishing>>
  /\ UNCHANGED <<repoVars, messages, pending, before, unreviewed, result,
                 starts, odd>>

\* sync_traceability_sha(): the plan names another commit for the item, and the
\* file is rewritten, or it is left alone.
SyncTraceability ==
  /\ at = "sync"
  /\ \/ /\ pending # 0
        /\ dirty' = TRUE
        /\ clean' \in BOOLEAN
     \/ UNCHANGED <<dirty, clean>>
  /\ MoveTo("verify")
  /\ UNCHANGED <<head, checked, messages, step, attempt, probes, check, result,
                 loopVars, starts, odd>>

\* run_verification_commands(): with a command to run, run_stream() is called
\* without its argument stdin_text; main() reports the TypeError and ends.
RunVerificationCommands ==
  /\ at = "verify"
  /\ IF pending \in Verified
       THEN Exit(1) /\ UNCHANGED <<step, attempt>>
       ELSE Enter("review")
  /\ UNCHANGED <<repoVars, messages, probes, check, result, loopVars, starts,
                 odd>>

AfterReview ==
  /\ at = "reviewed"
  /\ unreviewed' = FALSE
  /\ check' = 1
  /\ IF DocsInterval > 0 /\ cycle % DocsInterval = 0
       THEN Enter("docs")
       ELSE MoveTo("gate") /\ UNCHANGED <<step, attempt>>
  /\ UNCHANGED <<repoVars, messages, probes, result, cycle, pending, before,
                 finishing, starts, odd>>

\* Variant of PrecommitGate that trusts the last repair.
PrecommitGateTrusting ==
  /\ at = "gate"
  /\ \/ /\ clean \/ (check = MaxRepairs /\ check > 1)
        /\ IF finishing
             THEN Exit(0) /\ UNCHANGED cycle
             ELSE NextCycle
        /\ UNCHANGED <<dirty, clean, step, attempt>>
     \/ /\ ~clean
        /\ check < MaxRepairs
        /\ Enter("repair")
        /\ UNCHANGED <<dirty, clean, cycle>>
  /\ UNCHANGED <<head, checked, messages, probes, check, result, pending,
                 before, finishing, unreviewed, starts, odd>>

\* enforce_precommit_policy(): one check.  A failing hook may rewrite files.
PrecommitGate ==
  /\ at = "gate"
  /\ \/ /\ clean
        /\ IF finishing
             THEN Exit(0) /\ UNCHANGED cycle
             ELSE NextCycle
        /\ UNCHANGED <<dirty, clean, step, attempt>>
     \/ /\ ~clean
        /\ dirty' \in {dirty, TRUE}
        /\ clean' \in IF dirty' THEN BOOLEAN ELSE {FALSE}
        /\ IF check = MaxRepairs
             THEN Exit(1) /\ UNCHANGED <<step, attempt>>
             ELSE Enter("repair")
        /\ UNCHANGED cycle
  /\ UNCHANGED <<head, checked, messages, probes, check, result, pending,
                 before, finishing, unreviewed, starts, odd>>

\* The user interrupts the run, or a git command fails and main() reports it.
Interrupt ==
  /\ at # "off"
  /\ \E c \in {1, 130} : Exit(c)
  /\ UNCHANGED <<repoVars, messages, step, attempt, probes, check, result,
                 loopVars, starts, odd>>

\* Between runs the user commits or discards what was left in the tree.
Tidy ==
  /\ at = "off"
  /\ dirty
  /\ dirty' = FALSE
  /\ clean' \in BOOLEAN
  /\ UNCHANGED <<head, checked, messages, at, step, attempt, probes, check,
                 result, code, loopVars, starts, odd>>

Proceed ==
  \/ BeginCycle
  \/ RunCodexStep
  \/ ImplementStep
  \/ ReviewStep
  \/ DocsStep
  \/ RepairStep
  \/ QuotaProbe
  \/ AfterImplement
  \/ SyncTraceability
  \/ RunVerificationCommands
  \/ AfterReview
  \/ PrecommitGate

RunnerNext ==
  \/ Start
  \/ Proceed
  \/ Interrupt
  \/ Tidy

RunnerSpec == RunnerInit /\ [][RunnerNext]_runnerVars

\* The script is one thread of control; executions and probes return.
FairRunnerSpec == RunnerSpec /\ WF_runnerVars(Proceed)

-----------------------------------------------------------------------------
\* A run that reports the plan as done leaves a repository that passes
\* pre-commit: documentation review and repairs happen before the last check,
\* and no repair goes unchecked (main(), enforce_precommit_policy()).
DoneIsGated == [][at # "off" /\ at' = "off" /\ code' = 0 => clean']_runnerVars

\* Within a run no cycle is begun on top of implementation commits that no
\* successful review has followed, whatever attempts and limits came between
\* (the order of the steps in main()).
NextItemAfterReview == [][BeginCycle /\ at' = "exec" => ~unreviewed]_runnerVars

\* A run ends unless the agent runs into a quota again and again: cycles,
\* retries, probes and repairs are all counted (the loops of main()).  Only a
\* quota that each time is found reset lets a step run without limit.
RunnerEnds == <>[](result.issue # "quota") => []<>(at = "off")
=============================================================================
