---------------------------- MODULE PollingProofs ----------------------------
(***************************************************************************)
(* Proofs about polling, for any number of accounts and channels, any      *)
(* intervals, waits and thresholds, however many handlers, purges and      *)
(* failures there are.                                                     *)
(***************************************************************************)
EXTENDS Polling, RowIdsProofs

Late == [stopped : Nat, waiting : Nat]

\* Types, of which the proofs need that jobs refer to channels and that a tick
\* that inserts has something to insert.  The list of breaches is not needed.
Types ==
  /\ DOMAIN channels \subseteq Ids
  /\ channels \in [DOMAIN channels -> [account : Accounts, enabled : BOOLEAN]]
  /\ wait \in [Ids -> 0 .. Limit] /\ flood \in [Ids -> 0 .. Limit]
  /\ age \in [Ids -> 0 .. Never]
  /\ paused \in [Accounts -> BOOLEAN]
  /\ notices \in [Accounts -> Nat]
  /\ jobs \subseteq DOMAIN channels
  /\ risk \in [Accounts -> 0 .. MaxHandlers + 1]
  /\ pc \in {"sleep", "states", "enqueue"}
  /\ todo \subseteq Ids
  /\ pc = "enqueue" => todo # {}
  /\ late \in [Ids -> Late]

\* What the handler that is executed holds.
JobType ==
  job # Free =>
    /\ job.step \in Steps
    /\ job.step = "patch_read" =>
         job.channel \in Ids /\ job.pause \in {0, Limit, Keep} /\ job.success \in {0, Never, Keep}
    /\ job.step = "patch_write" =>
         /\ job.channel \in Ids /\ job.given \in BOOLEAN
         /\ job.pause \in 0 .. Limit /\ job.success \in 0 .. Never
    /\ job.step \in {"flood_end", "risk_reset", "risk_notify"} => job.account \in Accounts
    /\ job.step = "flood_end" => risk[job.account] <= MaxHandlers
    /\ job.step = "risk_reset" => job = [step |-> "risk_reset", account |-> job.account]

\* A PATCH that does not name the pause writes back the one that is in force.
FloodInv ==
  /\ FloodWaitIsHonoured
  /\ job # Free /\ job.step = "patch_write" /\ ~job.given => job.pause = wait[job.channel]

\* An account that is not paused has no notification yet, and neither has the one
\* whose pause is being handled.
RiskInv ==
  /\ OneNoticePerPause
  /\ \A a \in Accounts : ~paused[a] => notices[a] = 0
  /\ job # Free /\ job.step \in {"risk_reset", "risk_notify"} =>
       paused[job.account] /\ notices[job.account] = 0

\* A channel that the tick works on was listed when the tick began, and not
\* waiting when its state was read, so this insert is the first one too many.
LateInv ==
  /\ OneJobTooManyAtMost
  /\ \A c \in todo : late[c].stopped = 0
  /\ pc = "enqueue" => \A c \in todo : late[c].waiting = 0

Inv == Types /\ JobType /\ FloodInv /\ RiskInv /\ LateInv

-----------------------------------------------------------------------------
\* The longest wait is one of them, or 1.
LEMMA LimitFacts == Limit \in Nat \ {0} /\ \A w \in Waits : w \in 0 .. Limit
<1>1. PICK n \in Waits \cup {1} : \A w \in Waits : w <= n
  BY PollingAssumption
<1>2. n \in Nat \ {0} /\ Waits \cup {1} \subseteq 0 .. n
  BY <1>1, PollingAssumption
<1>3. Limit \in Waits \cup {1} /\ \A y \in Waits \cup {1} : Limit >= y
  <2> DEFINE T == Waits \cup {1}
  <2>1. T \subseteq 0 .. n /\ T # {} /\ n \in Nat
    BY <1>2
  <2>2. Max(T) \in T /\ \A y \in T : Max(T) >= y
    BY <2>1, MaxFacts
  <2> QED
    BY <2>2 DEF Limit
<1> QED
  BY <1>2, <1>3

\* What is left of a wait after one unit of time.
LEMMA DecFacts ==
  ASSUME NEW x \in Nat
  PROVE  Max({x - 1, 0}) = IF x = 0 THEN 0 ELSE x - 1
<1> DEFINE T == {x - 1, 0}
<1>1. \E m \in T : \A y \in T : m >= y
  <2>1. CASE x = 0
    BY <2>1
  <2>2. CASE x # 0
    BY <2>2
  <2> QED
    BY <2>1, <2>2
<1>2. Max(T) \in T /\ \A y \in T : Max(T) >= y
  BY <1>1, Zenon DEF Max
<1> HIDE DEF T
<1>3. Max(T) \in {x - 1, 0} /\ Max(T) >= x - 1 /\ Max(T) >= 0
  BY <1>2 DEF T
<1> QED
  BY <1>3 DEF T

\* The age of a success grows up to the age that is always due.
LEMMA AgeFacts ==
  ASSUME NEW x \in 0 .. Never
  PROVE  Min({x + 1, Never}) \in 0 .. Never
<1>1. Never \in Nat /\ x + 1 \in Nat
  BY PollingAssumption DEF Never
<1>2. Min({x + 1, Never}) \in {x + 1, Never} /\ Min({x + 1, Never}) <= Never
  BY <1>1, MinFacts
<1> QED
  BY <1>1, <1>2

\* The scheduler's next insert is for one of the channels it works on.
LEMMA FirstFacts ==
  ASSUME Types, pc = "enqueue"
  PROVE  Min(todo) \in todo
<1>1. todo \subseteq Nat /\ todo # {}
  BY DEF Types, Ids
<1> QED
  BY <1>1, MinFacts

\* Settle leaves a counter alone or sets it back.
LEMMA SettleFacts ==
  ASSUME Types, Settle
  PROVE  /\ late' \in [Ids -> Late]
         /\ \A c \in Ids : /\ late'[c].stopped \in {0, late[c].stopped}
                           /\ late'[c].waiting \in {0, late[c].waiting}
                           /\ Listed(c)' => late'[c].stopped = 0
                           /\ wait'[c] = 0 => late'[c].waiting = 0
  BY DEF Types, Settle, Late

\* No step but the insert itself makes a counter grow.
LEMMA SettleStep ==
  ASSUME Types, LateInv, Settle, todo' \subseteq todo, pc' = "enqueue" => pc = "enqueue"
  PROVE  LateInv'
  BY SettleFacts DEF Types, LateInv, OneJobTooManyAtMost, Late

-----------------------------------------------------------------------------
\* Rows keep their types, jobs their channels, and the clock its bounds.
LEMMA TypesStep ==
  ASSUME Types, JobType, Next
  PROVE  Types'
<1> USE PollingAssumption, LimitFacts
<1> DEFINE Row == [account : Accounts, enabled : BOOLEAN]
<1>1. Never \in Nat
  BY DEF Never
<1>2. Settle => late' \in [Ids -> Late]
  BY SettleFacts
\* Steps that change one thing.
<1>3. ASSUME UNCHANGED <<channels, wait, flood, age, paused, notices, jobs, pc, todo>>,
             Settle, risk' \in [Accounts -> 0 .. MaxHandlers + 1]
      PROVE  Types'
  BY <1>2, <1>3 DEF Types
<1>4. ASSUME UNCHANGED <<wait, flood, age, paused, notices, risk, pc, todo>>, Settle,
             DOMAIN channels' \subseteq Ids, channels' \in [DOMAIN channels' -> Row],
             jobs' \subseteq DOMAIN channels'
      PROVE  Types'
  BY <1>2, <1>4 DEF Types
<1>5. ASSUME UNCHANGED <<channels, paused, notices, jobs, risk, pc, todo>>, Settle,
             wait' \in [Ids -> 0 .. Limit], flood' \in [Ids -> 0 .. Limit],
             age' \in [Ids -> 0 .. Never]
      PROVE  Types'
  BY <1>2, <1>5 DEF Types
<1>6. ASSUME UNCHANGED <<channels, wait, flood, age, jobs, pc, todo>>, Settle,
             risk' \in [Accounts -> 0 .. MaxHandlers + 1],
             paused' \in [Accounts -> BOOLEAN], notices' \in [Accounts -> Nat]
      PROVE  Types'
  BY <1>2, <1>6 DEF Types
<1>7. ASSUME UNCHANGED <<channels, wait, flood, age, paused, notices>>, late' \in [Ids -> Late],
             jobs' \subseteq DOMAIN channels,
             risk' \in [Accounts -> 0 .. MaxHandlers + 1],
             pc' \in {"sleep", "states", "enqueue"}, todo' \subseteq Ids,
             pc' = "enqueue" => todo' # {}
      PROVE  Types'
  BY <1>7 DEF Types
\* The routes.
<1>8. ASSUME NEW a \in Accounts, CreateChannel(a) PROVE Types'
  <2> DEFINE c == NextRowId(DOMAIN channels)
  <2>1. c \in 1 .. MaxChannel + 1
    BY NextRowIdFacts DEF Types, Ids
  <2>2. /\ c <= MaxChannel /\ Settle
        /\ channels' = [d \in DOMAIN channels \cup {c} |->
                          IF d = c THEN [account |-> a, enabled |-> TRUE] ELSE channels[d]]
        /\ UNCHANGED <<wait, flood, age, paused, notices, risk, pc, todo, jobs>>
    BY <1>8 DEF CreateChannel
  <2> HIDE DEF c
  <2>3. c \in Ids
    BY <2>1, <2>2 DEF Ids
  <2>4. [account |-> a, enabled |-> TRUE] \in Row
    OBVIOUS
  <2>5. DOMAIN channels' = DOMAIN channels \cup {c}
    BY <2>2
  <2>6. \A d \in DOMAIN channels' : channels'[d] \in Row
    BY <2>2, <2>4, <2>5 DEF Types
  <2>7. channels' \in [DOMAIN channels' -> Row]
    BY <2>2, <2>5, <2>6
  <2> QED
    BY <1>4, <2>2, <2>3, <2>5, <2>7 DEF Types
<1>9. ASSUME NEW c \in DOMAIN channels, NEW b \in BOOLEAN,
             channels' = [channels EXCEPT ![c].enabled = b]
      PROVE  DOMAIN channels' = DOMAIN channels /\ channels' \in [DOMAIN channels -> Row]
  <2>1. channels[c] \in Row
    BY DEF Types
  <2>2. [channels[c] EXCEPT !.enabled = b] \in Row
    BY <2>1
  <2> QED
    BY <1>9, <2>2 DEF Types
<1>10. ASSUME NEW c \in Ids, DisableChannel(c) PROVE Types'
  BY <1>4, <1>9, <1>10 DEF DisableChannel, Types
<1>11. ASSUME NEW c \in Ids, NEW enabled \in BOOLEAN \cup {Keep}, NEW pause, NEW success,
              PatchChannel(c, enabled, pause, success)
       PROVE  Types'
  <2> DEFINE b == IF enabled = Keep THEN channels[c].enabled ELSE enabled
  <2>1. c \in DOMAIN channels /\ channels' = [channels EXCEPT ![c].enabled = b]
    BY <1>11 DEF PatchChannel, UpdateChannel
  <2>2. channels[c] \in Row
    BY <2>1 DEF Types
  <2>3. b \in BOOLEAN
    BY <2>2
  <2>4. Settle /\ UNCHANGED <<wait, flood, age, paused, notices, risk, pc, todo, jobs>>
    BY <1>11 DEF PatchChannel
  <2> HIDE DEF b
  <2> QED
    BY <1>4, <1>9, <2>1, <2>3, <2>4 DEF Types
<1>12. ASSUME NEW c \in Ids, PurgeChannel(c) PROVE Types'
  <2>1. /\ channels' = [d \in DOMAIN channels \ {c} |-> channels[d]] /\ Settle
        /\ wait' = [wait EXCEPT ![c] = 0] /\ age' = [age EXCEPT ![c] = Never]
        /\ flood' = [flood EXCEPT ![c] = 0] /\ jobs' = jobs \ {c}
        /\ UNCHANGED <<paused, notices, risk, pc, todo>>
    BY <1>12 DEF PurgeChannel
  <2>2. DOMAIN channels' = DOMAIN channels \ {c} /\ channels' \in [DOMAIN channels' -> Row]
    BY <2>1 DEF Types
  <2>3. /\ wait' \in [Ids -> 0 .. Limit] /\ flood' \in [Ids -> 0 .. Limit]
        /\ age' \in [Ids -> 0 .. Never]
    BY <1>1, <2>1 DEF Types
  <2> QED
    BY <1>2, <2>1, <2>2, <2>3 DEF Types
<1>13. ASSUME NEW c \in Ids, PollNow(c) PROVE Types'
  BY <1>4, <1>13 DEF PollNow, EnqueuePollJob, clientVars, Types
<1>14. ASSUME NEW a \in Accounts, ResumeAccount(a) PROVE Types'
  BY <1>6, <1>14 DEF ResumeAccount, Types
\* The handlers' further transactions.
<1>15. CASE PatchRead
  BY <1>3, <1>15 DEF PatchRead, Types
<1>16. CASE PatchWrite
  <2>1. /\ job.channel \in Ids /\ job.pause \in 0 .. Limit /\ job.success \in 0 .. Never
        /\ wait' = [wait EXCEPT ![job.channel] = job.pause]
        /\ age' = [age EXCEPT ![job.channel] = job.success]
        /\ flood' = [flood EXCEPT ![job.channel] = IF job.given THEN 0 ELSE @]
        /\ Settle /\ UNCHANGED <<channels, paused, notices, jobs, risk, pc, todo>>
    BY <1>16 DEF PatchWrite, UpsertState, JobType
  <2>2. /\ wait' \in [Ids -> 0 .. Limit] /\ flood' \in [Ids -> 0 .. Limit]
        /\ age' \in [Ids -> 0 .. Never]
    BY <2>1 DEF Types
  <2> QED
    BY <1>5, <2>1, <2>2
<1>17. CASE FloodEnd
  <2>1. /\ job.account \in Accounts /\ risk[job.account] <= MaxHandlers /\ Settle
        /\ risk' = [risk EXCEPT ![job.account] = @ + 1]
        /\ UNCHANGED <<channels, wait, flood, age, paused, notices, jobs, pc, todo>>
    BY <1>17 DEF FloodEnd, JobType
  <2>2. risk' \in [Accounts -> 0 .. MaxHandlers + 1]
    BY <2>1 DEF Types
  <2> QED
    BY <1>3, <2>1, <2>2
<1>18. CASE RiskReset
  BY <1>3, <1>18 DEF RiskReset, Types
<1>19. CASE RiskNotify
  <2>1. /\ job.account \in Accounts /\ Settle
        /\ notices' = [notices EXCEPT ![job.account] = @ + 1]
        /\ UNCHANGED <<channels, wait, flood, age, paused, jobs, risk, pc, todo>>
    BY <1>19 DEF RiskNotify, CreateNotification, JobType
  <2>2. notices' \in [Accounts -> Nat]
    BY <2>1 DEF Types
  <2> QED
    BY <1>6, <2>1, <2>2 DEF Types
\* Flood waits and account risk.
<1>20. ASSUME NEW c \in Ids, NEW w \in Waits, HandleFloodWait(c, w) PROVE Types'
  <2>1. wait' \in [Ids -> 0 .. Limit] /\ flood' \in [Ids -> 0 .. Limit]
    BY <1>20 DEF HandleFloodWait, UpdatePause, Types
  <2> QED
    BY <1>5, <1>20, <2>1 DEF HandleFloodWait, Types
<1>21. ASSUME NEW a \in Accounts, AuthFailure(a) PROVE Types'
  <2>1. risk' \in [Accounts -> 0 .. MaxHandlers + 1]
    BY <1>21 DEF AuthFailure, Types
  <2> QED
    BY <1>3, <1>21, <2>1 DEF AuthFailure
<1>22. ASSUME NEW a \in Accounts, RecordBreach(a) PROVE Types'
  <2>1. /\ risk[a] > 0 /\ risk' = [risk EXCEPT ![a] = @ - 1] /\ Settle
        /\ UNCHANGED <<channels, wait, flood, age, notices, jobs, pc, todo>>
        /\ UNCHANGED paused \/ paused' = [paused EXCEPT ![a] = TRUE]
    BY <1>22 DEF RecordBreach, PauseAccount
  <2>2. risk' \in [Accounts -> 0 .. MaxHandlers + 1]
    BY <2>1 DEF Types
  <2>3. paused' \in [Accounts -> BOOLEAN]
    BY <2>1 DEF Types
  <2> QED
    BY <1>6, <2>1, <2>2, <2>3 DEF Types
<1>23. ASSUME NEW c \in Ids, TakeJob(c) PROVE Types'
  BY <1>4, <1>23 DEF TakeJob, clientVars, Types
\* The scheduler.
<1>24. CASE ListChannels
  BY <1>2, <1>7, <1>24 DEF ListChannels, clientVars, Types
<1>25. CASE SelectEligible
  <2>1. /\ todo' \subseteq todo /\ pc' = (IF todo' = {} THEN "sleep" ELSE "enqueue") /\ Settle
        /\ UNCHANGED <<channels, wait, flood, age, paused, notices, jobs, risk>>
    BY <1>25 DEF SelectEligible, clientVars
  <2> QED
    BY <1>2, <1>7, <2>1 DEF Types
<1>26. CASE EnqueueJob
  <2> DEFINE c == Min(todo)
  <2>1. c \in todo
    BY <1>26, FirstFacts DEF EnqueueJob
  <2>2. /\ c \in DOMAIN channels /\ jobs' = jobs \cup {c} /\ todo' = todo \ {c}
        /\ pc' = (IF todo' = {} THEN "sleep" ELSE "enqueue")
        /\ late' = [late EXCEPT ![c] = [stopped |-> IF Listed(c) THEN 0 ELSE @.stopped + 1,
                                        waiting |-> IF wait[c] = 0 THEN 0 ELSE @.waiting + 1]]
        /\ UNCHANGED <<channels, wait, flood, age, paused, notices, risk>>
    BY <1>26 DEF EnqueueJob, EnqueuePollJob, clientVars
  <2> HIDE DEF c
  <2>3. late[c] \in Late /\ c \in Ids
    BY <2>1 DEF Types
  <2>4. [stopped |-> IF Listed(c) THEN 0 ELSE late[c].stopped + 1,
         waiting |-> IF wait[c] = 0 THEN 0 ELSE late[c].waiting + 1] \in Late
    BY <2>3 DEF Late
  <2>5. late' \in [Ids -> Late]
    BY <2>2, <2>3, <2>4 DEF Types
  <2> QED
    BY <1>7, <2>2, <2>5 DEF Types
<1>27. CASE EnqueueFails
  BY <1>2, <1>7, <1>27 DEF EnqueueFails, clientVars, Types
\* The environment.
<1>28. CASE Tick
  <2>1. /\ wait' = [c \in Ids |-> Max({wait[c] - 1, 0})]
        /\ flood' = [c \in Ids |-> Max({flood[c] - 1, 0})]
        /\ age' = [c \in Ids |-> Min({age[c] + 1, Never})]
        /\ Settle /\ UNCHANGED <<channels, paused, notices, jobs, risk, pc, todo>>
    BY <1>28 DEF Tick
  <2>2. \A x \in 0 .. Limit : Max({x - 1, 0}) \in 0 .. Limit
    <3> SUFFICES ASSUME NEW x \in 0 .. Limit PROVE Max({x - 1, 0}) \in 0 .. Limit
      OBVIOUS
    <3>1. x \in Nat /\ Limit \in Nat /\ x <= Limit
      BY LimitFacts
    <3>2. Max({x - 1, 0}) = IF x = 0 THEN 0 ELSE x - 1
      BY <3>1, DecFacts
    <3> DEFINE m == Max({x - 1, 0})
    <3>3. m = IF x = 0 THEN 0 ELSE x - 1
      BY <3>2
    <3> HIDE DEF m
    <3>4. m \in 0 .. Limit
      BY <3>1, <3>3
    <3> QED
      BY <3>4 DEF m
  <2>3. /\ \A c \in Ids : wait[c] \in 0 .. Limit /\ flood[c] \in 0 .. Limit
        /\ \A c \in Ids : age[c] \in 0 .. Never
    BY DEF Types
  <2>4. wait' \in [Ids -> 0 .. Limit] /\ flood' \in [Ids -> 0 .. Limit]
    BY <2>1, <2>2, <2>3
  <2>5. age' \in [Ids -> 0 .. Never]
    BY <2>1, <2>3, AgeFacts
  <2> QED
    BY <1>5, <2>1, <2>4, <2>5
<1>29. CASE JobFails
  BY <1>3, <1>29 DEF JobFails, Types
<1>30. CASE Crash
  BY <1>2, <1>7, <1>30 DEF Crash, Types
<1> QED
  BY <1>8, <1>10, <1>11, <1>12, <1>13, <1>14, <1>15, <1>16, <1>17, <1>18, <1>19, <1>20, <1>21,
     <1>22, <1>23, <1>24, <1>25, <1>26, <1>27, <1>28, <1>29, <1>30
  DEF Next, Routes, HandlerStep, Ingest, Scheduler, UiCreateChannel, DeleteChannel,
      UiEditChannel, UiDisableChannel
\* What the handlers hold has its type.
LEMMA JobStep ==
  ASSUME Types, JobType, Next
  PROVE  JobType'
<1> USE PollingAssumption, LimitFacts DEF Steps
<1>1. CASE job' = Free
  BY <1>1 DEF JobType
<1>2. ASSUME UNCHANGED job,
             \A a \in Accounts : risk[a] <= MaxHandlers => risk'[a] <= MaxHandlers
      PROVE  JobType'
  BY <1>2 DEF JobType
<1>3. ASSUME NEW c \in Ids, NEW pause \in {0, Limit, Keep}, NEW success \in {0, Never, Keep},
             NEW enabled, PatchChannel(c, enabled, pause, success)
      PROVE  JobType'
  BY <1>1, <1>3 DEF PatchChannel, JobType
<1>4. CASE PatchRead
  <2>1. job.channel \in Ids /\ job.pause \in {0, Limit, Keep} /\ job.success \in {0, Never, Keep}
    BY <1>4 DEF PatchRead, JobType
  <2> DEFINE c == job.channel
             g == job.pause # Keep
             p == IF job.pause = Keep THEN wait[c] ELSE job.pause
             s == IF job.success = Keep THEN age[c] ELSE job.success
  <2>2. job' = [step |-> "patch_write", channel |-> c, given |-> g, pause |-> p, success |-> s]
    BY <1>4 DEF PatchRead
  <2>3. c \in Ids /\ g \in BOOLEAN
    BY <2>1
  <2>4. Limit \in Nat /\ Never \in Nat
    BY DEF Never
  <2>5. p \in 0 .. Limit /\ s \in 0 .. Never
    BY <2>1, <2>3, <2>4 DEF Types
  <2> HIDE DEF c, g, p, s
  <2> QED
    BY ONLY <2>2, <2>3, <2>5 DEF JobType, Steps
<1>5. CASE PatchWrite \/ FloodEnd \/ RiskNotify \/ JobFails \/ Crash
  BY <1>1, <1>5 DEF PatchWrite, FloodEnd, RiskNotify, JobFails, Crash
<1>6. CASE RiskReset
  <2>1. /\ job = [step |-> "risk_reset", account |-> job.account] /\ job.account \in Accounts
        /\ job' = [job EXCEPT !.step = "risk_notify"]
    BY <1>6 DEF RiskReset, JobType
  <2> DEFINE a == job.account
  <2>2. job' = [step |-> "risk_notify", account |-> a] /\ a \in Accounts
    BY <2>1
  <2> HIDE DEF a
  <2> QED
    BY ONLY <2>2 DEF JobType, Steps
<1>7. ASSUME NEW c \in Ids, NEW w \in Waits, HandleFloodWait(c, w) PROVE JobType'
  <2> DEFINE a == channels[c].account
  <2>1. /\ c \in DOMAIN channels /\ risk[a] < MaxHandlers /\ UNCHANGED risk
        /\ job' = [step |-> "flood_end", account |-> a]
    BY <1>7 DEF HandleFloodWait
  <2>2. a \in Accounts
    BY <2>1 DEF Types
  <2>3. risk'[a] <= MaxHandlers
    BY <2>1, <2>2 DEF Types
  <2> HIDE DEF a
  <2> QED
    BY ONLY <2>1, <2>2, <2>3 DEF JobType, Steps
<1>8. ASSUME NEW a \in Accounts, AuthFailure(a) PROVE JobType'
  BY <1>2, <1>8 DEF AuthFailure, Types
<1>9. ASSUME NEW a \in Accounts, RecordBreach(a) PROVE JobType'
  <2>1. CASE UNCHANGED job
    BY <1>1, <1>9, <2>1 DEF RecordBreach
  <2>2. CASE job' = [step |-> "risk_reset", account |-> a]
    BY ONLY <2>2, a \in Accounts DEF JobType, Steps
  <2> QED
    BY <1>9, <2>1, <2>2 DEF RecordBreach
<1>10. CASE UNCHANGED <<job, risk>>
  BY <1>2, <1>10
<1> QED
  BY <1>3, <1>4, <1>5, <1>6, <1>7, <1>8, <1>9, <1>10
  DEF Next, Routes, HandlerStep, Ingest, Scheduler, UiCreateChannel, DeleteChannel,
      UiEditChannel, UiDisableChannel, CreateChannel, ResumeAccount, DisableChannel,
      PurgeChannel, PollNow, TakeJob, ListChannels, SelectEligible, EnqueueJob, EnqueueFails,
      Tick, clientVars

\* No write but the user's shortens a wait.
LEMMA FloodStep ==
  ASSUME Types, JobType, FloodInv, Next
  PROVE  FloodInv'
<1> USE PollingAssumption, LimitFacts DEF FloodInv, FloodWaitIsHonoured
<1>0. \A c \in Ids : wait[c] \in Nat /\ flood[c] \in Nat
  BY DEF Types
<1>1. CASE UNCHANGED <<wait, flood, job>>
  BY <1>1
<1>2. ASSUME UNCHANGED <<wait, flood>>, job' = Free \/ job'.step # "patch_write" PROVE FloodInv'
  BY <1>2
<1>3. CASE PatchRead
  <2>1. job.channel \in Ids
    BY <1>3 DEF PatchRead, JobType
  <2> QED
    BY <1>3, <2>1 DEF PatchRead
<1>4. CASE PatchWrite
  <2> DEFINE c == job.channel
  <2>1. /\ c \in Ids /\ job.pause \in 0 .. Limit /\ job' = Free
        /\ wait' = [wait EXCEPT ![c] = job.pause]
        /\ flood' = [flood EXCEPT ![c] = IF job.given THEN 0 ELSE @]
        /\ ~job.given => job.pause = wait[c]
    BY <1>4 DEF PatchWrite, UpsertState, JobType
  <2> HIDE DEF c
  <2>2. \A d \in Ids : flood'[d] <= wait'[d]
    BY <1>0, <2>1 DEF Types
  <2> QED
    BY <2>1, <2>2
<1>5. ASSUME NEW c \in Ids, PurgeChannel(c) PROVE FloodInv'
  <2>1. /\ wait' = [wait EXCEPT ![c] = 0] /\ flood' = [flood EXCEPT ![c] = 0]
        /\ job = Free /\ UNCHANGED job
    BY <1>5 DEF PurgeChannel
  <2>2. \A d \in Ids : flood'[d] <= wait'[d]
    BY <1>0, <2>1 DEF Types
  <2> QED
    BY <2>1, <2>2
<1>6. ASSUME NEW c \in Ids, NEW w \in Waits, HandleFloodWait(c, w) PROVE FloodInv'
  <2>1. /\ wait' = [wait EXCEPT ![c] = w] /\ flood' = [flood EXCEPT ![c] = w]
        /\ job' = [step |-> "flood_end", account |-> channels[c].account]
    BY <1>6 DEF HandleFloodWait, UpdatePause
  <2>2. \A d \in Ids : flood'[d] <= wait'[d]
    BY <1>0, <2>1 DEF Types
  <2> QED
    BY <2>1, <2>2
<1>7. CASE Tick
  <2>1. /\ wait' = [c \in Ids |-> Max({wait[c] - 1, 0})]
        /\ flood' = [c \in Ids |-> Max({flood[c] - 1, 0})]
        /\ job = Free /\ UNCHANGED job
    BY <1>7 DEF Tick
  <2>2. ASSUME NEW c \in Ids PROVE flood'[c] <= wait'[c]
    <3>1. wait[c] \in Nat /\ flood[c] \in Nat /\ flood[c] <= wait[c]
      BY <1>0
    <3>2. /\ wait'[c] = IF wait[c] = 0 THEN 0 ELSE wait[c] - 1
          /\ flood'[c] = IF flood[c] = 0 THEN 0 ELSE flood[c] - 1
      BY <2>1, <3>1, DecFacts
    <3> QED
      BY <3>1, <3>2
  <2> QED
    BY <2>1, <2>2
<1>8. ASSUME NEW c, NEW pause, NEW success, NEW enabled, PatchChannel(c, enabled, pause, success)
      PROVE  FloodInv'
  BY <1>2, <1>8 DEF PatchChannel
<1>9. CASE RiskReset
  <2>1. job' = [step |-> "risk_notify", account |-> job.account]
    BY <1>9 DEF RiskReset, JobType
  <2> QED
    BY <1>2, <1>9, <2>1 DEF RiskReset
<1>10. ASSUME NEW a \in Accounts, RecordBreach(a) PROVE FloodInv'
  BY <1>1, <1>2, <1>10 DEF RecordBreach
<1>11. CASE FloodEnd \/ RiskNotify \/ JobFails \/ Crash
  BY <1>2, <1>11 DEF FloodEnd, RiskNotify, JobFails, Crash
<1> QED
  BY <1>1, <1>3, <1>4, <1>5, <1>6, <1>7, <1>8, <1>9, <1>10, <1>11
  DEF Next, Routes, HandlerStep, Ingest, Scheduler, UiCreateChannel, DeleteChannel,
      UiEditChannel, UiDisableChannel, CreateChannel, ResumeAccount, DisableChannel,
      PollNow, AuthFailure, TakeJob, ListChannels, SelectEligible, EnqueueJob, EnqueueFails,
      clientVars

\* An account is notified of when it is paused, and not again before it is resumed.
LEMMA RiskStep ==
  ASSUME Types, JobType, RiskInv, Next
  PROVE  RiskInv'
<1> USE DEF RiskInv, OneNoticePerPause
<1>0. \A a \in Accounts : notices[a] \in Nat
  BY DEF Types
<1>1. CASE UNCHANGED <<paused, notices, job>>
  BY <1>1
<1>2. ASSUME UNCHANGED <<paused, notices>>,
             job' = Free \/ job'.step \notin {"risk_reset", "risk_notify"}
      PROVE  RiskInv'
  BY <1>2
<1>3. ASSUME NEW a \in Accounts, ResumeAccount(a) PROVE RiskInv'
  <2>1. /\ paused' = [paused EXCEPT ![a] = FALSE] /\ notices' = [notices EXCEPT ![a] = 0]
        /\ job = Free /\ UNCHANGED job
    BY <1>3 DEF ResumeAccount
  <2>2. \A b \in Accounts : notices'[b] <= 1 /\ (~paused'[b] => notices'[b] = 0)
    BY <2>1 DEF Types
  <2> QED
    BY <2>1, <2>2
<1>4. ASSUME NEW a \in Accounts, RecordBreach(a) PROVE RiskInv'
  <2>1. CASE UNCHANGED <<paused, job>>
    BY <1>1, <1>4, <2>1 DEF RecordBreach
  <2>2. CASE /\ ~paused[a] /\ paused' = [paused EXCEPT ![a] = TRUE]
             /\ job' = [step |-> "risk_reset", account |-> a]
    <3>1. UNCHANGED notices /\ paused'[a] /\ job'.account = a /\ notices[a] = 0
      BY <1>4, <2>2 DEF RecordBreach, Types
    <3>2. \A b \in Accounts : ~paused'[b] => notices'[b] = 0
      BY <2>2, <3>1 DEF Types
    <3> QED
      BY <3>1, <3>2
  <2> QED
    BY <1>4, <2>1, <2>2 DEF RecordBreach, PauseAccount
<1>5. CASE RiskReset
  <2>1. /\ job' = [step |-> "risk_notify", account |-> job.account]
        /\ job # Free /\ job.step = "risk_reset" /\ UNCHANGED <<paused, notices>>
    BY <1>5 DEF RiskReset, JobType
  <2>2. job'.account = job.account
    BY <2>1
  <2> QED
    BY <2>1, <2>2
<1>6. CASE RiskNotify
  <2> DEFINE a == job.account
  <2>1. /\ a \in Accounts /\ notices' = [notices EXCEPT ![a] = @ + 1]
        /\ job' = Free /\ UNCHANGED paused /\ paused[a] /\ notices[a] = 0
    BY <1>6 DEF RiskNotify, CreateNotification, JobType
  <2> HIDE DEF a
  <2>2. \A b \in Accounts : notices'[b] <= 1 /\ (~paused'[b] => notices'[b] = 0)
    BY <2>1 DEF Types
  <2> QED
    BY <2>1, <2>2
<1>7. CASE PatchRead
  BY <1>2, <1>7 DEF PatchRead
<1>8. ASSUME NEW c, NEW pause, NEW success, NEW enabled, PatchChannel(c, enabled, pause, success)
      PROVE  RiskInv'
  BY <1>2, <1>8 DEF PatchChannel
<1>9. ASSUME NEW c, NEW w, HandleFloodWait(c, w) PROVE RiskInv'
  BY <1>2, <1>9 DEF HandleFloodWait
<1>10. CASE PatchWrite \/ FloodEnd \/ JobFails \/ Crash
  BY <1>2, <1>10 DEF PatchWrite, FloodEnd, JobFails, Crash
<1> QED
  BY <1>1, <1>3, <1>4, <1>5, <1>6, <1>7, <1>8, <1>9, <1>10
  DEF Next, Routes, HandlerStep, Ingest, Scheduler, UiCreateChannel, DeleteChannel,
      UiEditChannel, UiDisableChannel, CreateChannel, DisableChannel, PurgeChannel,
      PollNow, AuthFailure, TakeJob, ListChannels, SelectEligible, EnqueueJob, EnqueueFails,
      Tick, clientVars

\* A tick inserts at most one job too many for a channel, and the next one none.
LEMMA LateStep ==
  ASSUME Types, LateInv, Next
  PROVE  LateInv'
<1>1. CASE Settle /\ UNCHANGED <<pc, todo>>
  BY <1>1, SettleStep
<1>2. CASE ListChannels
  <2>1. /\ todo' = {c \in Ids : Listed(c)} /\ pc' = "states" /\ Settle
        /\ UNCHANGED <<channels, paused>>
    BY <1>2 DEF ListChannels, clientVars
  <2>2. \A c \in todo' : c \in Ids /\ Listed(c)'
    BY <2>1 DEF Listed
  <2>3. \A c \in todo' : late'[c].stopped = 0
    BY <2>1, <2>2, SettleFacts
  <2>4. OneJobTooManyAtMost'
    BY <2>1, SettleFacts DEF LateInv, OneJobTooManyAtMost, Types, Late
  <2> QED
    BY <2>1, <2>3, <2>4 DEF LateInv
<1>3. CASE SelectEligible
  <2>1. /\ todo' \subseteq todo /\ \A c \in todo' : wait[c] = 0
        /\ Settle /\ UNCHANGED wait
    BY <1>3 DEF SelectEligible, StatesOf, clientVars
  <2>2. todo \subseteq Ids
    BY DEF Types
  <2>3. \A c \in todo' : late'[c].stopped = 0 /\ late'[c].waiting = 0
    BY <2>1, <2>2, SettleFacts DEF LateInv
  <2>4. OneJobTooManyAtMost'
    BY <2>1, SettleFacts DEF LateInv, OneJobTooManyAtMost, Types, Late
  <2> QED
    BY <2>3, <2>4 DEF LateInv
<1>4. CASE EnqueueJob
  <2> DEFINE c == Min(todo)
  <2>1. /\ pc = "enqueue" /\ todo' = todo \ {c}
        /\ late' = [late EXCEPT ![c] = [stopped |-> IF Listed(c) THEN 0 ELSE @.stopped + 1,
                                        waiting |-> IF wait[c] = 0 THEN 0 ELSE @.waiting + 1]]
    BY <1>4 DEF EnqueueJob
  <2>2. c \in todo /\ c \in Ids
    BY <2>1, FirstFacts DEF Types
  <2> HIDE DEF c
  <2>3. late[c].stopped = 0 /\ late[c].waiting = 0
    BY <2>1, <2>2 DEF LateInv
  <2>4. \A d \in Ids : d # c => late'[d] = late[d]
    BY <2>1 DEF Types
  <2>5. late'[c].stopped <= 1 /\ late'[c].waiting <= 1
    <3>1. late'[c] = [stopped |-> IF Listed(c) THEN 0 ELSE late[c].stopped + 1,
                      waiting |-> IF wait[c] = 0 THEN 0 ELSE late[c].waiting + 1]
      BY <2>1, <2>2 DEF Types
    <3>2. /\ late'[c].stopped = IF Listed(c) THEN 0 ELSE late[c].stopped + 1
          /\ late'[c].waiting = IF wait[c] = 0 THEN 0 ELSE late[c].waiting + 1
      BY <3>1
    <3> QED
      BY ONLY <2>3, <3>2
  <2>6. OneJobTooManyAtMost'
    BY <2>4, <2>5 DEF LateInv, OneJobTooManyAtMost
  <2>7. \A d \in todo' : late'[d] = late[d]
    BY <2>1, <2>4 DEF Types
  <2> QED
    BY <2>1, <2>6, <2>7 DEF LateInv
<1>5. CASE EnqueueFails \/ Crash
  BY <1>5, SettleStep DEF EnqueueFails, Crash
<1> QED
  BY <1>1, <1>2, <1>3, <1>4, <1>5
  DEF Next, Routes, HandlerStep, Ingest, Scheduler, UiCreateChannel, DeleteChannel,
      UiEditChannel, UiDisableChannel, CreateChannel, ResumeAccount, DisableChannel,
      PurgeChannel, PollNow, PatchChannel, PatchRead, PatchWrite, FloodEnd, RiskReset,
      RiskNotify, HandleFloodWait, AuthFailure, RecordBreach, TakeJob, Tick, JobFails

-----------------------------------------------------------------------------
\* The invariant holds in every state, however routes, handlers, the scheduler,
\* failures and crashes interleave.
THEOREM Invariance == Spec => []Inv
<1>1. Init => Inv
  <2> SUFFICES ASSUME Init PROVE Inv
    OBVIOUS
  <2> USE PollingAssumption, LimitFacts DEF Init
  <2>1. PICK n \in 0 .. MaxChannel, a \in [Ids -> Accounts] :
          channels = [c \in 1 .. n |-> [account |-> a[c], enabled |-> TRUE]]
    OBVIOUS
  <2>2. 1 .. n \subseteq Ids /\ DOMAIN channels = 1 .. n
    BY <2>1 DEF Ids
  <2>3. \A c \in 1 .. n : channels[c] \in [account : Accounts, enabled : BOOLEAN]
    BY <2>1, <2>2
  <2>4. channels \in [DOMAIN channels -> [account : Accounts, enabled : BOOLEAN]]
    BY <2>1, <2>2, <2>3
  <2>5. Never \in Nat /\ MaxHandlers + 1 \in Nat
    BY DEF Never
  <2>6. late \in [Ids -> Late] /\ \A c \in Ids : late[c].stopped = 0 /\ late[c].waiting = 0
    BY DEF Late
  <2>7. Types
    BY <2>2, <2>4, <2>5, <2>6, SMTT(30) DEF Types
  <2>8. JobType /\ FloodInv
    BY DEF JobType, FloodInv, FloodWaitIsHonoured
  <2>9. RiskInv
    BY SMTT(30) DEF RiskInv, OneNoticePerPause
  <2>10. LateInv
    BY <2>6 DEF LateInv, OneJobTooManyAtMost
  <2> QED
    BY <2>7, <2>8, <2>9, <2>10 DEF Inv
<1>2. Inv /\ [Next]_vars => Inv'
  <2>1. ASSUME Inv, Next PROVE Inv'
    BY <2>1, TypesStep, JobStep, FloodStep, RiskStep, LateStep DEF Inv
  <2>2. ASSUME Inv, UNCHANGED vars PROVE Inv'
    <3>1. UNCHANGED <<channels, wait, age, paused, job, risk, jobs, pc, todo, late, flood, notices>>
      BY <2>2 DEF vars, clientVars
    <3>2. Types' /\ JobType'
      BY <2>2, <3>1 DEF Inv, Types, JobType
    <3>3. FloodInv' /\ RiskInv' /\ LateInv'
      BY <2>2, <3>1 DEF Inv, FloodInv, FloodWaitIsHonoured, RiskInv, OneNoticePerPause, LateInv,
                        OneJobTooManyAtMost
    <3> QED
      BY <3>2, <3>3 DEF Inv
  <2> QED
    BY <2>1, <2>2
<1> QED
  BY <1>1, <1>2, PTL DEF Spec

\* A channel that is stopped or told to wait is polled once more at most.
THEOREM NoSecondJobTooMany == Spec => []OneJobTooManyAtMost
<1>1. Inv => OneJobTooManyAtMost
  BY DEF Inv, LateInv
<1> QED
  BY <1>1, Invariance, PTL

\* A flood wait stays in force until it is over or a user changes the pause.
THEOREM FloodWaitsHold == Spec => []FloodWaitIsHonoured
<1>1. Inv => FloodWaitIsHonoured
  BY DEF Inv, FloodInv
<1> QED
  BY <1>1, Invariance, PTL

\* A pause of an account is notified of once, whatever fails and however many
\* breaches follow.
THEOREM PausesAreNotifiedOnce == Spec => []OneNoticePerPause
<1>1. Inv => OneNoticePerPause
  BY DEF Inv, RiskInv
<1> QED
  BY <1>1, Invariance, PTL
=============================================================================
