------------------------------- MODULE Polling -------------------------------
(***************************************************************************)
(* Which channels are polled: the scheduler loop (tca/scheduler), flood    *)
(* waits and account risk (tca/ingest), and the routes that add, change,   *)
(* remove and poll channels (tca/api/routes/channels.py, jobs.py, and the  *)
(* channel forms of tca/ui/routes.py).                                     *)
(*                                                                         *)
(* Granularity.  Every handler writes through the writer queue, so at most *)
(* one of them is being executed (job); it commits more than one           *)
(* transaction and may fail between two of them.  The scheduler reads      *)
(* outside the queue, channels first and their state second, and submits   *)
(* one insert per eligible channel.  A handler takes no time on the scale  *)
(* of the clock, and neither do the scheduler's two reads.                 *)
(*                                                                         *)
(* Time is relative: what is left of a pause, and the age of a success or  *)
(* of a breach.                                                            *)
(***************************************************************************)
EXTENDS RowIds, Sequences

CONSTANTS
  Accounts,
  MaxChannel,     \* bound: the largest channel id
  Interval,       \* poll_interval_seconds
  Jitter,         \* jitter_ratio * poll_interval_seconds
  Waits,          \* the flood waits Telegram asks for
  Window,         \* ACCOUNT_RISK_WINDOW_SECONDS
  Threshold,      \* ACCOUNT_RISK_THRESHOLD
  MaxHandlers,    \* bound: flood waits and refused logins of an account
                  \* whose breach is still to be recorded
  MaxPurges,      \* bound: how often a channel is purged
  MaxFailures,    \* bound: failed transactions and crashes
  Free,           \* the writer queue executes nothing
  Keep            \* a field that a PATCH leaves out

ASSUME PollingAssumption ==
  /\ {MaxChannel, Interval, Jitter, Window, MaxHandlers, MaxPurges, MaxFailures}
       \subseteq Nat
  /\ Jitter <= Interval
  /\ Threshold \in Nat \ {0}
  /\ Waits \subseteq Nat \ {0}
  /\ \E n \in Waits \cup {1} : \A w \in Waits : w <= n

VARIABLES
  channels,   \* telegram_channels: id |-> account and is_enabled
  wait,       \* what is left until channel_state.paused_until
  age,        \* age of channel_state.last_success_at
  paused,     \* telegram_accounts.paused_at is set
  breaches,   \* ages of the breaches in the account's risk state
  jobs,       \* channels with a row in poll_jobs
  job,        \* the handler the writer queue executes
  risk,       \* breaches about to be recorded, per account
  pc,         \* where the scheduler's tick is
  todo,       \* the channels it works on
  purges, failures,
  late,       \* history: jobs scheduled since the channel was stopped or paused
  flood,      \* history: what is left of the last flood wait
  notices     \* history: notifications since the account was last resumed

clientVars == <<channels, wait, age, paused, breaches, job, risk>>
vars == <<clientVars, jobs, pc, todo, purges, failures, late, flood, notices>>

-----------------------------------------------------------------------------
Ids   == 1 .. MaxChannel
Never == Interval + Jitter                       \* an age that is always due
Limit == Max(Waits \cup {1})
Steps == {"patch_read", "patch_write", "flood_end", "risk_reset", "risk_notify"}

TypeOK ==
  /\ DOMAIN channels \subseteq Ids
  /\ channels \in [DOMAIN channels -> [account : Accounts, enabled : BOOLEAN]]
  /\ wait \in [Ids -> 0 .. Limit]
  /\ age \in [Ids -> 0 .. Never]
  /\ paused \in [Accounts -> BOOLEAN]
  /\ \A a \in Accounts : Len(breaches[a]) < Threshold \/ paused[a]
  /\ jobs \subseteq DOMAIN channels
  /\ job = Free \/ job.step \in Steps
  /\ risk \in [Accounts -> 0 .. MaxHandlers + 1]
  /\ pc \in {"sleep", "states", "enqueue"}
  /\ todo \subseteq Ids
  /\ pc = "enqueue" => todo # {}

Init ==
  /\ \E n \in 0 .. MaxChannel, a \in [Ids -> Accounts] :
       channels = [c \in 1 .. n |-> [account |-> a[c], enabled |-> TRUE]]
  /\ wait = [c \in Ids |-> 0]
  /\ age = [c \in Ids |-> Never]
  /\ paused = [a \in Accounts |-> FALSE]
  /\ breaches = [a \in Accounts |-> <<>>]
  /\ jobs = {}
  /\ job = Free
  /\ risk = [a \in Accounts |-> 0]
  /\ pc = "sleep"
  /\ todo = {}
  /\ purges = 0
  /\ failures = 0
  /\ late = [c \in Ids |-> [stopped |-> 0, waiting |-> 0]]
  /\ flood = [c \in Ids |-> 0]
  /\ notices = [a \in Accounts |-> 0]

\* What list_schedulable_channels returns.
Listed(c) == c \in DOMAIN channels /\ channels[c].enabled /\ ~paused[channels[c].account]

Schedulable(c) == Listed(c) /\ wait[c] = 0

Settle ==
  late' = [c \in Ids |-> [stopped |-> IF Listed(c)' THEN 0 ELSE late[c].stopped,
                          waiting |-> IF wait'[c] = 0 THEN 0 ELSE late[c].waiting]]

-----------------------------------------------------------------------------
(* The repositories: one transaction each *)

UpdateChannel(c, enabled) == channels' = [channels EXCEPT ![c].enabled = enabled]

UpsertState(c, pause, success) ==
  /\ wait' = [wait EXCEPT ![c] = pause]
  /\ age' = [age EXCEPT ![c] = success]

UpdatePause(c, pause) == wait' = [wait EXCEPT ![c] = pause]

\* list_states_by_channel_ids
StatesOf(S) == [c \in S |-> [wait |-> wait[c], age |-> age[c]]]

EnqueuePollJob(c) ==
  /\ c \in DOMAIN channels
  /\ jobs' = jobs \cup {c}

PauseAccount(a) == paused' = [paused EXCEPT ![a] = TRUE]

\* The list of breaches is a row of settings.
SaveBreaches(a, list) == breaches' = [breaches EXCEPT ![a] = list]

CreateNotification(a) == notices' = [notices EXCEPT ![a] = @ + 1]

-----------------------------------------------------------------------------
(* The routes *)

CreateChannel(a) ==
  LET c == NextRowId(DOMAIN channels)
  IN  /\ job = Free
      /\ c <= MaxChannel
      /\ channels' = [d \in DOMAIN channels \cup {c} |->
                        IF d = c THEN [account |-> a, enabled |-> TRUE] ELSE channels[d]]
      /\ UNCHANGED <<wait, age, paused, breaches, job, risk, jobs, pc, todo,
                     purges, failures, flood, notices>>
      /\ Settle

\* patch_channel: the channel row first, then the polling state, each field
\* taken from the payload or left as it was read.
PatchChannel(c, enabled, pause, success) ==
  /\ job = Free
  /\ c \in DOMAIN channels
  /\ UpdateChannel(c, IF enabled = Keep THEN channels[c].enabled ELSE enabled)
  /\ job' = IF pause = Keep /\ success = Keep THEN Free
            ELSE [step |-> "patch_read", channel |-> c, pause |-> pause, success |-> success]
  /\ UNCHANGED <<wait, age, paused, breaches, risk, jobs, pc, todo, purges,
                 failures, flood, notices>>
  /\ Settle

PatchRead ==
  /\ job # Free
  /\ job.step = "patch_read"
  /\ LET c == job.channel
     IN  job' = [step |-> "patch_write", channel |-> c, given |-> job.pause # Keep,
                 pause |-> IF job.pause = Keep THEN wait[c] ELSE job.pause,
                 success |-> IF job.success = Keep THEN age[c] ELSE job.success]
  /\ UNCHANGED <<channels, wait, age, paused, breaches, risk, jobs, pc, todo, purges,
                 failures, flood, notices>>
  /\ Settle

PatchWrite ==
  /\ job # Free
  /\ job.step = "patch_write"
  /\ UpsertState(job.channel, job.pause, job.success)
  /\ flood' = [flood EXCEPT ![job.channel] = IF job.given THEN 0 ELSE @]
  /\ job' = Free
  /\ UNCHANGED <<channels, paused, breaches, risk, jobs, pc, todo, purges, failures, notices>>
  /\ Settle

\* delete_channel without purge.
DisableChannel(c) ==
  /\ job = Free
  /\ c \in DOMAIN channels
  /\ channels' = [channels EXCEPT ![c].enabled = FALSE]
  /\ UNCHANGED <<wait, age, paused, breaches, job, risk, jobs, pc, todo, purges,
                 failures, flood, notices>>
  /\ Settle

\* delete_channel with purge: the state and the jobs go with the channel.
PurgeChannel(c) ==
  /\ job = Free
  /\ c \in DOMAIN channels
  /\ purges < MaxPurges
  /\ purges' = purges + 1
  /\ channels' = [d \in DOMAIN channels \ {c} |-> channels[d]]
  /\ wait' = [wait EXCEPT ![c] = 0]
  /\ age' = [age EXCEPT ![c] = Never]
  /\ flood' = [flood EXCEPT ![c] = 0]
  /\ jobs' = jobs \ {c}
  /\ UNCHANGED <<paused, breaches, job, risk, pc, todo, failures, notices>>
  /\ Settle

DeleteChannel(c) == DisableChannel(c) \/ PurgeChannel(c)

\* The forms of the user interface make the same writes; an edit writes is_enabled
\* back as it reads it in the same job.
UiCreateChannel(a)  == CreateChannel(a)
UiEditChannel(c)    == PatchChannel(c, Keep, Keep, Keep)
UiDisableChannel(c) == DisableChannel(c)

\* poll_now looks at the channel and its pause, not at its account.
PollNow(c) ==
  /\ job = Free
  /\ c \in DOMAIN channels
  /\ channels[c].enabled
  /\ wait[c] = 0
  /\ EnqueuePollJob(c)
  /\ UNCHANGED <<clientVars, pc, todo, purges, failures, flood, notices>>
  /\ Settle

\* resume_account
ResumeAccount(a) ==
  /\ job = Free
  /\ paused[a]
  /\ paused' = [paused EXCEPT ![a] = FALSE]
  /\ notices' = [notices EXCEPT ![a] = 0]
  /\ UNCHANGED <<channels, wait, age, breaches, job, risk, jobs, pc, todo, purges,
                 failures, flood>>
  /\ Settle

-----------------------------------------------------------------------------
(* Flood waits and account risk *)

\* Variant: the pause is written outside the queue.
HandleFloodWaitDirectly(c, w) ==
  LET a == channels[c].account
  IN  /\ c \in DOMAIN channels
      /\ risk[a] < MaxHandlers
      /\ wait' = [wait EXCEPT ![c] = w]
      /\ flood' = [flood EXCEPT ![c] = w]
      /\ risk' = [risk EXCEPT ![a] = @ + 1]
      /\ UNCHANGED <<channels, age, paused, breaches, job, jobs, pc, todo, purges,
                     failures, notices>>
      /\ Settle

\* handle_flood_wait, the first of its two jobs: the pause, and a notification
\* when it is a long one.
HandleFloodWait(c, w) ==
  /\ job = Free
  /\ c \in DOMAIN channels
  /\ risk[channels[c].account] < MaxHandlers
  /\ UpdatePause(c, w)
  /\ flood' = [flood EXCEPT ![c] = w]
  /\ job' = [step |-> "flood_end", account |-> channels[c].account]
  /\ UNCHANGED <<channels, age, paused, breaches, risk, jobs, pc, todo, purges,
                 failures, notices>>
  /\ Settle

FloodEnd ==
  /\ job # Free
  /\ job.step = "flood_end"
  /\ job' = Free
  /\ risk' = [risk EXCEPT ![job.account] = @ + 1]
  /\ UNCHANGED <<channels, wait, age, paused, breaches, jobs, pc, todo, purges,
                 failures, flood, notices>>
  /\ Settle

\* A login that Telegram refuses for an account that is stored (telegram_auth.py)
\* counts as a breach as well.
AuthFailure(a) ==
  /\ risk[a] < MaxHandlers
  /\ risk' = [risk EXCEPT ![a] = @ + 1]
  /\ UNCHANGED <<channels, wait, age, paused, breaches, job, jobs, pc, todo, purges,
                 failures, flood, notices>>
  /\ Settle

\* Variant: an account that is paused already is not looked for.
RecordBreachAlways(a) ==
  LET recent == Append(breaches[a], 0)
  IN  /\ job = Free
      /\ risk[a] > 0
      /\ risk' = [risk EXCEPT ![a] = @ - 1]
      /\ \/ /\ Len(recent) < Threshold
            /\ SaveBreaches(a, recent)
            /\ UNCHANGED <<paused, job>>
         \/ /\ Len(recent) >= Threshold
            /\ PauseAccount(a)
            /\ job' = [step |-> "risk_reset", account |-> a]
            /\ UNCHANGED breaches
      /\ UNCHANGED <<channels, wait, age, jobs, pc, todo, purges, failures, flood, notices>>
      /\ Settle

\* record_account_risk_breach, handle_flood_wait's second job: up to its first
\* transaction that writes.  Breaches outside the window are gone, see Tick.
RecordBreach(a) ==
  LET recent == Append(breaches[a], 0)
  IN  /\ job = Free
      /\ risk[a] > 0
      /\ risk' = [risk EXCEPT ![a] = @ - 1]
      /\ \/ paused[a] /\ UNCHANGED <<paused, breaches, job>>
         \/ /\ ~paused[a]
            /\ Len(recent) < Threshold
            /\ SaveBreaches(a, recent)
            /\ UNCHANGED <<paused, job>>
         \/ /\ ~paused[a]
            /\ Len(recent) >= Threshold
            /\ PauseAccount(a)
            /\ job' = [step |-> "risk_reset", account |-> a]
            /\ UNCHANGED breaches
      /\ UNCHANGED <<channels, wait, age, jobs, pc, todo, purges, failures, flood, notices>>
      /\ Settle

RiskReset ==
  /\ job # Free
  /\ job.step = "risk_reset"
  /\ SaveBreaches(job.account, <<>>)
  /\ job' = [job EXCEPT !.step = "risk_notify"]
  /\ UNCHANGED <<channels, wait, age, paused, risk, jobs, pc, todo, purges,
                 failures, flood, notices>>
  /\ Settle

RiskNotify ==
  /\ job # Free
  /\ job.step = "risk_notify"
  /\ CreateNotification(job.account)
  /\ job' = Free
  /\ UNCHANGED <<channels, wait, age, paused, breaches, risk, jobs, pc, todo, purges,
                 failures, flood>>
  /\ Settle

-----------------------------------------------------------------------------
(* The scheduler *)

\* Variant: paused accounts are listed.
ListChannelsOfAll ==
  /\ pc = "sleep"
  /\ todo' = {c \in DOMAIN channels : channels[c].enabled}
  /\ pc' = "states"
  /\ UNCHANGED <<clientVars, jobs, purges, failures, flood, notices>>
  /\ Settle

ListChannels ==
  /\ pc = "sleep"
  /\ todo' = {c \in Ids : Listed(c)}
  /\ pc' = "states"
  /\ UNCHANGED <<clientVars, jobs, purges, failures, flood, notices>>
  /\ Settle

\* _is_due draws the jitter for every channel and tick.
SelectEligible ==
  /\ pc = "states"
  /\ LET state == StatesOf(todo)
     IN  \E due \in SUBSET {c \in todo : state[c].age >= Interval - Jitter} :
           /\ {c \in todo : state[c].age = Never} \subseteq due
           /\ todo' = {c \in due : state[c].wait = 0}
  /\ pc' = IF todo' = {} THEN "sleep" ELSE "enqueue"
  /\ UNCHANGED <<clientVars, jobs, purges, failures, flood, notices>>
  /\ Settle

EnqueueJob ==
  LET c == Min(todo)
  IN  /\ pc = "enqueue"
      /\ job = Free
      /\ EnqueuePollJob(c)
      /\ todo' = todo \ {c}
      /\ pc' = IF todo' = {} THEN "sleep" ELSE "enqueue"
      /\ late' = [late EXCEPT ![c] = [stopped |-> IF Listed(c) THEN 0 ELSE @.stopped + 1,
                                   waiting |-> IF wait[c] = 0 THEN 0 ELSE @.waiting + 1]]
      /\ UNCHANGED <<clientVars, purges, failures, flood, notices>>

\* Variant: the error ends the loop's task.
EnqueueDies ==
  /\ pc = "enqueue"
  /\ job = Free
  /\ \/ Min(todo) \notin DOMAIN channels /\ UNCHANGED failures
     \/ failures < MaxFailures /\ failures' = failures + 1
  /\ todo' = {}
  /\ pc' = "ended"
  /\ UNCHANGED <<clientVars, jobs, purges, flood, notices>>
  /\ Settle

\* The insert is refused, for a channel that was purged in the meantime, or
\* fails: the rest of the tick is skipped, the loop goes on with the next.
EnqueueFails ==
  /\ pc = "enqueue"
  /\ job = Free
  /\ \/ Min(todo) \notin DOMAIN channels /\ UNCHANGED failures
     \/ failures < MaxFailures /\ failures' = failures + 1
  /\ todo' = {}
  /\ pc' = "sleep"
  /\ UNCHANGED <<clientVars, jobs, purges, flood, notices>>
  /\ Settle

-----------------------------------------------------------------------------
(* The environment *)

\* The clock; breaches that leave the window are dropped when they are read next.
Tick ==
  /\ job = Free
  /\ pc # "states"
  /\ wait' = [c \in Ids |-> Max({wait[c] - 1, 0})]
  /\ flood' = [c \in Ids |-> Max({flood[c] - 1, 0})]
  /\ age' = [c \in Ids |-> Min({age[c] + 1, Never})]
  /\ breaches' = [a \in Accounts |->
                    LET Recent(b) == b < Window
                        Older == SelectSeq(breaches[a], Recent)
                    IN  [i \in DOMAIN Older |-> Older[i] + 1]]
  /\ UNCHANGED <<channels, paused, job, risk, jobs, pc, todo, purges, failures, notices>>
  /\ Settle

\* A worker takes up the jobs of a channel.
TakeJob(c) ==
  /\ c \in jobs
  /\ jobs' = jobs \ {c}
  /\ UNCHANGED <<clientVars, pc, todo, purges, failures, flood, notices>>
  /\ Settle

\* A transaction of the handler fails; what it committed stays.
JobFails ==
  /\ job # Free
  /\ failures < MaxFailures
  /\ failures' = failures + 1
  /\ job' = Free
  /\ UNCHANGED <<channels, wait, age, paused, breaches, risk, jobs, pc, todo, purges,
                 flood, notices>>
  /\ Settle

\* The process dies and is started again.
Crash ==
  /\ failures < MaxFailures
  /\ failures' = failures + 1
  /\ job' = Free
  /\ risk' = [a \in Accounts |-> 0]
  /\ pc' = "sleep"
  /\ todo' = {}
  /\ UNCHANGED <<channels, wait, age, paused, breaches, jobs, purges, flood, notices>>
  /\ Settle

-----------------------------------------------------------------------------
Routes ==
  \/ \E a \in Accounts : CreateChannel(a) \/ UiCreateChannel(a) \/ ResumeAccount(a)
  \/ \E c \in Ids :
       \/ DeleteChannel(c) \/ PollNow(c)
       \/ UiEditChannel(c) \/ UiDisableChannel(c)
       \/ \E enabled \in BOOLEAN \cup {Keep}, pause \in {0, Limit, Keep},
             success \in {0, Never, Keep} : PatchChannel(c, enabled, pause, success)

HandlerStep == PatchRead \/ PatchWrite \/ FloodEnd \/ RiskReset \/ RiskNotify

Ingest ==
  \/ \E c \in Ids, w \in Waits : HandleFloodWait(c, w)
  \/ \E a \in Accounts : AuthFailure(a) \/ RecordBreach(a)
  \/ \E c \in Ids : TakeJob(c)

Scheduler == ListChannels \/ SelectEligible \/ EnqueueJob \/ EnqueueFails

Next == Routes \/ HandlerStep \/ Ingest \/ Scheduler \/ Tick \/ JobFails \/ Crash

Spec == Init /\ [][Next]_vars

\* The loop goes on, a handler that runs ends, and the queue serves the
\* scheduler's insert in its turn.
Fairness ==
  /\ WF_vars(ListChannels) /\ WF_vars(SelectEligible)
  /\ WF_vars(HandlerStep)
  /\ SF_vars(EnqueueJob) /\ SF_vars(EnqueueFails)

FairSpec == Spec /\ Fairness

-----------------------------------------------------------------------------
(* Properties *)

\* When a channel is disabled or its account is paused, and likewise when a flood
\* wait begins, the tick that is under way may still insert one job for it.  No
\* later tick does.
OneJobTooManyAtMost ==
  \A c \in Ids : late[c].stopped <= 1 /\ late[c].waiting <= 1

\* A flood wait stays in force until it is over or the user changes the pause:
\* a PATCH of another field, which writes back the pause it has read, never
\* overwrites one that handle_flood_wait wrote in between.
FloodWaitIsHonoured == \A c \in Ids : flood[c] <= wait[c]

\* record_account_risk_breach() emits at most one notification per pause,
\* however many breaches follow and whatever fails in between.
OneNoticePerPause == \A a \in Accounts : notices[a] <= 1

\* A channel that stays enabled, unpaused and due is given a job again and again:
\* no failed insert, purge under the tick, flood wait or account pause of the past
\* keeps the loop of tca/scheduler from coming back to it.
DueChannelIsPolled ==
  \A c \in Ids :
    <>[](Schedulable(c) /\ age[c] = Never) => []<>(c \in jobs)
=============================================================================
