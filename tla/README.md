# Verification of the Telegram Channel Aggregator

TLA+ modules for the program in `src/tca`, the TLC configurations that check
them, and TLAPS proofs of what matters most. The program is one Python process
on one SQLite file: a FastAPI application, two background loops (scheduler and
bot delivery), a writer queue through which nearly all writes go, and a set of
jobs (prune, backup, key rotation) that are library code. Beside it the
repository has a script that drives a coding agent through a plan.

## 1. The system

| Part | State | Operations | What makes it hard |
|---|---|---|---|
| writer queue (`storage/writer_queue.py`) | queue, worker task, `_closed`, a future per call | `submit`, `close`, the worker | callers and worker are cancelled at any await; the worker is restarted; `close` races with `submit` |
| dedupe store (`storage/items_repo.py`, `dedupe_clusters_repo.py`, `channels_repo.py`, `ops/prune_job.py`) | items, clusters, members, decisions, delivery rows | upsert, assign, merge, prune, purge | representatives and references across five tables; row ids come back |
| bot delivery (`bot/delivery.py`, `api/routes/bot_config.py`) | settings, delivery rows, failure counters | `run_once`, configure, unconfigure | reads outside the queue go stale; lost answers; revoked tokens; restarts |
| polling (`scheduler/service.py`, `ingest/flood_wait.py`, `ingest/account_risk.py`, channel and job routes, channel forms of `ui/routes.py`) | channels, channel state, poll jobs, account pauses | tick, PATCH, purge, poll now, flood wait, risk breach, resume | a tick works with a list that goes stale; handlers of several transactions fail half way |
| Telegram login (`api/routes/telegram_auth.py`, `auth/*`, setup wizard of `ui/routes.py`) | login sessions, accounts, salt, passphrase in memory | start, verify code, verify password, unlock | requests race for one session and for the salt; expiry; restarts |
| key rotation (`auth/key_rotation.py`) | one metadata row, a key version per account | begin, next, mark, complete | interrupted and resumed; state read in one session and used in the next |
| lifespan (`api/app.py`, `telegram/client_manager.py`) | started dependencies, queue, engines, loops | startup, shutdown in order | any step fails; loops hang |
| backup job (`ops/backup_job.py`) | temporary files, backups, retention setting | copy, check, replace, clean up, undo | cancelled runs leave a thread; crashes |
| bootstrap token (`auth/bootstrap_token.py`) | digest row, token file | ensure at startup | two stores, no common transaction; two processes |
| settings (`storage/settings_seed.py`, `settings_repo.py`, `api/routes/settings.py`) | settings rows | seed at startup, PUT | another process seeds while PUTs are served; a start fails half way |
| ingest (`ingest/service.py`, `error_capture.py`, `storage/raw_messages_repo.py`, `ingest_errors_repo.py`) | raw messages, error rows, cursor | bounded fetch, upsert, capture, cursor update | a walk takes several polls while the channel changes; limits change, polls die |
| plan-cycle runner (`scripts/codex_plan_cycle_runner.py`) | working tree, plan, step directories, loop counters | implement, review, docs, gate, repair | four nested loops with retries and quotas; files that outlive a run |
| channel groups (`api/routes/channel_groups.py`, `ui/routes.py`) | groups, memberships | CRUD, forms with two writes | compensation of a refused second write |

The parts meet at four places. All of them write through the **writer queue**,
whose promise to its callers is the module `SerialWriter`; the other modules
take from it that jobs do not interleave. The **cluster table** is what the
dedupe store writes and the bot reads: `ClusterTable` is proved of the store and
is the environment of the bot. **Row ids** are reused after a delete
(`RowIds`), which is where stale ids bite. The **startup** of a process seeds the
settings and creates the token, beside another process on the same database:
`Deployment` composes `Lifespan`, `Settings` and `BootstrapToken`.

Components that are not modelled are listed with their reasons in section 8.

## 2. Modules

| Module | Models | Built on |
|---|---|---|
| `WriterQueue` | the queue, its worker tasks and `close()` | |
| `SerialWriter` | abstract: one writer with an orderly line | |
| `WriterQueueProofs` | proofs | `WriterQueue` |
| `RowIds` | `INTEGER PRIMARY KEY` without `AUTOINCREMENT` | |
| `ClusterTable` | abstract: clusters and their delivery rows | `RowIds` |
| `DedupeStore` | the dedupe tables and each transaction on them | `RowIds`, refines `ClusterTable` |
| `DedupeStoreProofs` | proofs | `DedupeStore`, `RowIdsProofs` |
| `RowIdsProofs` | lemmas about row ids | `RowIds` |
| `BotDelivery` | the delivery loop, `/bot/config`, Telegram | `ClusterTable` |
| `Polling` | scheduler tick, channel routes, flood waits, account risk | `RowIds` |
| `PollingProofs` | proofs | `Polling`, `RowIdsProofs` |
| `TelegramLogin` | login routes, key material, account rows | |
| `TelegramLoginProofs` | proofs | `TelegramLogin` |
| `KeyRotation` | rotation metadata and the jobs that drive it | `RowIds` |
| `Lifespan` | startup and shutdown of the process | |
| `BackupJob` | the backup job with its files | |
| `BootstrapToken` | the first bearer token | |
| `Settings` | seeding of defaults and PUT requests | |
| `Deployment` | a process through its lifetimes beside another one | `BootstrapToken`, `Lifespan`, an instance of `Settings` |
| `DeploymentProofs` | proofs about the token, the lifetime and their composition | `Deployment` |
| `Ingest` | walks over one channel, raw messages, cursor | |
| `PipelineProofs` | proofs about both ends of the pipeline | `Ingest`, `BotDelivery`, `RowIdsProofs` |
| `PlanCycleRunner` | the cycle loop of the script | |
| `OperationsProofs` | proofs about the jobs beside the service | `KeyRotation`, `BackupJob`, `PlanCycleRunner`, `RowIdsProofs` |
| `ChannelGroups` | API and forms for groups | `RowIds` |

`MC<Module>` instantiates a module for TLC; `Lifespan`, `Settings` and
`BootstrapToken` are checked in `Deployment`. Definitions introduced by "Variant"
or "As ..." are plausible bugs: with one of them in place of the definition
below it, TLC finds the property named in `PROJECT.json` violated. They are not
part of any specification. Modules that share a module of proofs have names of
their own for what others call `Init`, `Next`, `Spec` and `vars` (`BackupInit`,
`RunnerNext`, `BotSpec`, ...).

### How state and actions correspond to the code

*Granularity.* The process runs on one asyncio loop, so code between two awaits
that can suspend is one step. A write transaction (`BEGIN IMMEDIATE` ...
`COMMIT`) is one step with everything its foreign keys cascade to; one that
raises is rolled back. A handler of several transactions is several steps, and
fails or dies between them. What a handler does inside its writer queue job does
not interleave with another job; reads outside the queue do.

* **WriterQueue.** `queue`, `handle` (`_worker_task`), `closed`, a status per
  task and per future. `Submit` is the locked part of `submit()`; `Take`,
  `Finish`, `TakeSentinel` are the worker; `Crash` is a cancelled worker, whose
  `finally` block rejects what is left; `CrashUnstarted` is one cancelled before
  its first step, whose `finally` block is never entered. `Close`, `CloseAgain`,
  `CloseEnds` are the two halves of `close()`.
* **DedupeStore.** One variable per table. `UpsertItem`, `AssignNew`,
  `AssignMatched`, `MergeClusters`, `Prune`, `PurgeChannel`, `RecordDelivery`
  are the transactions. An item's rank is its `quality` and its id; days are
  ticks. The deletes of the prune job on `raw_messages` and `ingest_errors` touch
  no table of the module.
* **BotDelivery.** `stage` runs through the awaits of `run_once()`: enabled, token,
  chat id, list, then send and record per entry. The `/bot/config` operations
  write three settings in three transactions (`api`). A message may arrive, be
  refused, or arrive with its answer lost. History variables speak of serial
  numbers, since ids are reused.
* **Polling.** `pc`/`todo` are the tick (list, select, insert); `job` is the
  handler that holds the writer queue, with the transaction it comes to next.
  Times are what is left of a pause and the age of a success, so that the clock
  needs no bound. The API routes and the forms of the user interface write the
  same tables in different transactions and are separate actions. A login that
  Telegram refuses counts as a breach like a flood wait. Taking a poll job is
  external: nothing in the repository consumes them yet.
* **TelegramLogin.** `req` holds each request's position and locals; starting a
  login is two steps, the code Telegram sends and the session row. A ciphertext
  is the key it was made with, a key is passphrase and salt. The mode is
  `secure-interactive`. The setup wizard's start and verify steps add a guard to
  the routes', and its unlock step is the only one that sets the passphrase.
* **KeyRotation.** Each operation is a read of the row and a write with that copy.
  The loop that calls them is external; its order is the one of
  `tests/auth/test_key_rotation_resume.py`.
* **Lifespan.** `started` and `down` are the dependencies in order, `at` the step
  of `_shutdown_in_order`, `loop` what each background loop is doing. Cancelling
  the lifespan task itself is not modelled. A startup can fail at every step: without
  engines, with engines and no queue (`OpenFails`), in a dependency (`StartupFails`),
  and with all six started at the cookie key (`CookieKeyFails`).
* **BackupJob.** Paths name inodes, an SQLite connection to a missing path
  creates an empty database. `run` is the coroutine and `thread` the thread it awaits,
  first the copy and then the removal; a cancelled run leaves its thread running. The
  setting is read between the two (`ResolveRetainCount`; 14 if it cannot be) and kept
  in `keep`. The removal lists the old backups and unlinks them one by one.
* **BootstrapToken.** Digest row and token file; two processes may start at once.
* **Settings.** A row per key. `Seed` inserts the next default unless its key is
  there; `PutSubmit` and `PutUpdate` are `put_setting`. The branch in which it creates
  a missing row cannot be reached (section 7) and has no action.
* **Deployment.** One process, `Self`, goes through `Lifespan`: the startup of
  "settings" is its seeding and that of "auth" its token, a PUT is a job of its
  queue. Each of its steps is a step of the parts. Another process seeds, starts,
  serves PUTs, restarts and is killed at any time.
* **Ingest.** A poll is `Begin`, pages (`FetchPage`, `FetchEmpty`), an `Upsert` or a
  failed one and its `Capture` per message, and `UpdateCursor`. Telegram returns the
  newest messages below the offset and a short page only at the end. The channel
  changes between any two calls; `Abandon` is a crash, a failed request or a cursor
  that cannot be written. The caller is not in the repository and no test composes the
  three calls: that it stores what it fetched and then writes the cursor, one poll of a
  channel at a time, is an **assumption** about a worker still to be written. A worker
  that wrote the cursor first would break `WalkedIsKept`.
* **PlanCycleRunner.** `at` is the place in `main()`, `step` the agent's step,
  `attempt`, `probes`, `check` and `cycle` the four counters. The agent is external:
  each execution may commit, edit, fail, hit a limit and write a last message or
  none. `messages` are the files `last_message.txt`, which outlive a run.
* **ChannelGroups.** Each job is its reads and then one step per write. `Rival` is
  another process on the same file (external), the reason for the compensations.

## 3. Runs

Every run is `tlc -config <cfg> <module>`.

| Run | Checks | Shows |
|---|---|---|
| `writer_queue` (`MCWriterQueue.cfg`) | `OneWriter ImplementsSerialWriter SubmitsSettle CloseSettles` | one writer across cancelled callers and workers; refinement of `SerialWriter`, in which jobs start in order and a rejected one never does; every caller and every `close()` is answered |
| `dedupe_store` (`MCDedupeStore.cfg`) | `RepresentativeIsMember ChangedClusterIsReranked DuplicatesStayTogether ImplementsClusterTable` | the tables stay consistent under every transaction; refinement of `ClusterTable` |
| `bot_delivery` (`MCBotDelivery.cfg`) | `RecordedIsNotSentAgain ThirdFailureWarns ClusterGetsDelivered DisabledBotFallsSilent` | nothing recorded is sent again; three failures in a row warn; clusters are delivered past one that is always refused; a disabled bot stops |
| `bot_delivery_reused` (`MCBotDeliveryReused.cfg`) | `RecordedWasSent`, **violated** | a delivery row for a cluster that was never sent, see section 7 |
| `polling` (`MCPolling.cfg`) | `OneJobTooManyAtMost FloodWaitIsHonoured OneNoticePerPause DueChannelIsPolled` | at most the tick in flight polls a stopped channel; a PATCH never undoes a flood wait; at most one notice per pause; a channel that stays due is polled, whatever the ticks before it ran into |
| `telegram_login` (`MCTelegramLogin.cfg`) | `EverythingDecrypts AuthenticatedIsPersisted` | racing first logins agree on one salt; "authenticated" means stored |
| `key_rotation` (`MCKeyRotation.cfg`) | `NoAccountIsSkipped CompletionIsEarned RotationFinishes` | an interrupted rotation resumes without a gap and finishes |
| `deployment` (`MCDeployment.cfg`) | `QueueOutlivesLoops EnginesOutliveWrites ShutdownReversesStartup ShutdownEnds WriteFailuresRecover TokenIsNotRotated UserValueStays` | whatever fails, hangs, restarts or is killed in two processes: the shutdown is orderly and ends, failed token writes are rolled back and a token handed out stays valid, and no start puts a default over a user's value |
| `backup_job` (`MCBackupJob.cfg`) | `BackupsAreWhole SuccessKeepsItsBackup BackupIsLostToNewerOnes` | no failure, cancellation or crash costs or spoils a backup, and the removal goes by the count the run has read, wherever it is cut short |
| `channel_groups` (`MCChannelGroups.cfg`) | `RefusedCreateLeavesNoGroup ConflictKeepsOldChannel PatchKeepsOtherColumns` | refused forms are compensated, a PATCH reverts nobody |
| `ingest` (`MCIngest.cfg`) | `WalkedIsKept CursorAdvances LatestIsStored` | no walk passes over a message, the cursor never goes back, what stays in the channel is stored in its latest version |
| `plan_runner` (`MCPlanCycleRunner.cfg`) | `DoneIsGated NextItemAfterReview RunnerEnds` | a plan reported as done has passed pre-commit, no cycle starts on unreviewed commits of the run, a run ends unless quotas recur |

Deadlock is checked except for `writer_queue` (all jobs settled and the queue
closed), `backup_job` (all runs done) and `plan_runner` (the user starts no further
run), which may stop.

Each module states the type of its state as `TypeOK` (`BotTypeOK`, ...); the runs
leave it out, since it says little beyond the declarations of the variables. It is
proved for `WriterQueue`, for `DedupeStore`, where it is the referential integrity of
the tables, and for `BackupJob`; the other inductive invariants have the part of it
that they need. `StartsInOrder`, `RejectedNeverStarts`, `PendingHasWorker`,
`DrainedOnClose` and `MergeEventsNameMembers` are proved too and in no configuration;
each can be added to the one of its module.

## 4. Bounds

* *writer_queue*: three jobs (one executing, one queued, one arriving), two worker
  tasks (one failure and its successor), two `close()` calls. A third worker adds
  only a second restart; the theorems are for any number.
* *dedupe_store*: two items of different channels, three clusters, two qualities,
  two days. Three clusters are needed for a merge of several sources and for a
  merge whose target is merged away; two items let an item be in several clusters
  and a purge or prune take one member of two. The theorems cover the rest.
* *bot_delivery*: two clusters over two ids, so that ids are reused; a batch of two
  with one entry that Telegram always refuses; one `/bot/config` request and one
  crash. The violation needs one id.
* *polling*: one channel with an interval of 2, jitter 1, flood waits of 1 and 2, a
  threshold of two breaches, two handlers under way, one purge and one failure
  or crash. `DueChannelIsPolled` is checked on this instance: with a second channel
  the liveness check does not end in reasonable time, so that a channel purged
  under the tick of *another* one is not covered; a channel that is purged under
  its own tick and added again is.
* *telegram_login*: two login sessions, two phones of which one has a password, two
  requests under way, two passphrases, one restart, one expiry.
* *key_rotation*: three accounts, versions 1 to 3 (two rotations in a row), two
  crashes, **one job at a time**: see section 7.
* *deployment*: two processes, of which one goes through its lifetimes and the other
  does all it can do to the tables; two accounts, all six dependencies, four tokens
  (a fresh one is always left), one kill, one key (rows of two keys have nothing in
  common) and one user value beside the default.
* *backup_job*: three runs over three days, retention 1 or 2 or the default of 14, which
  keeps everything here, one crash, **no run under the thread of a cancelled one**
  (`Overlap = FALSE`): see section 7.
* *channel_groups*: two requests, two groups, two channels, two transactions of
  another process, one failure or crash.
* *ingest*: four messages in pages of two, three to a poll, so that a walk takes two
  polls and its pages are full, cut by the limit, short or empty; a limit of zero
  pages; one edit or deletion, two failures or crashes.
* *plan_runner*: a plan of two items, one with verification commands; two runs of
  two cycles, one retry, one quota probe, two checks of the gate, documentation
  review every second cycle, two commits and one execution with a missing or
  matching last message. Each counter is at its limit and below it.

Symmetry is used where only safety is checked and the elements are
interchangeable (login sessions, requests, passphrases, runs, channels, versions of a column).

## 5. Fairness

* *WriterQueue*: the event loop schedules a worker that can go on, an operation
  ends (SQLite gives up after `busy_timeout`), and a closer whose worker is done
  wakes up. Nobody has to submit or close.
* *BotDelivery*: `_run_loop()` calls `run_once()` at every interval and its awaits
  return; the writer queue serves the bot in turn (strong fairness of its
  writes, which other requests keep disabling for a moment) and its writes do not
  fail every time. That a message Telegram would accept, or its refusal of a
  revoked token, gets through sometimes is an assumption about Telegram, without
  which no delivery can be promised.
* *Polling*: the loop goes on after any exception, handlers end, and the queue
  serves the insert in turn (strong fairness). Nothing is assumed of the routes.
* *KeyRotation*: a job that runs goes on, and an interrupted rotation is begun
  again with its target, which is what the repository's tests do.
* *Deployment*: the shutdown sequence, its timers and the writer go on. Nothing is
  assumed of the loops: a pass may hang for ever.
* *Ingest*: a poll that was begun goes on, and the scheduler begins one again and
  again whose limits are not zero (strong fairness). Failures are bounded.
* *PlanCycleRunner*: one thread of control that goes on; executions and probes
  return. `RunnerEnds` assumes that the agent does not hit a quota for ever.

## 6. Proofs

TLAPS checks these for every value of the constants. Where a run checks the same
formula it does so on the instances above. The inductive invariants were checked
with TLC on the same instances, that of `BotDelivery` on one with three clusters and
no requests.

**`WriterQueueProofs`**: `TypeCorrect`, `SingleWriter`, `FirstInFirstOut`,
`CloseDrains`, `RejectionIsFinal`, `PendingIsServed`, `Refinement`, from
`ConstantsAssumption` (the special values are no jobs and no workers). None of the
properties is inductive by itself. The invariant `IInv` adds:
`WorkerInv` (only the task `_worker_task` names is live, only a running task
executes), `SentinelInv` (the sentinel is last and means closed), `SettleInv` (a
caller that waits has its job in the queue or executing, a queued job is
unsettled), `OrderInv` (tickets grow along the log and on along the queue) and
`DrainInv` (a worker returns only after `close()` and leaves no job). Each has a
step lemma with one step per action. First-in-first-out needs `SettleInv`,
because a job that was rejected must not be in the queue; `SettleInv` needs
`WorkerInv`, because a stopping worker rejects only its own job. The refinement
maps the queue without its sentinel to the line and the job of the worker
`_worker_task` names to the running one.

**`DedupeStoreProofs`**: `TypeCorrect`, `ClustersAreRepresented`,
`EventsAreAboutMembers`, `DuplicatesAreNotSeparated`, `ChangesAreReranked`,
`Refinement`, from `StoreAssumption` (types of the bounds; `NULL` is no id). The
invariant is type correctness, `RepresentativeIsMember` and
`MergeEventsNameMembers` together: that a prune leaves no dangling event needs
that events name members, and that an emptied cluster can be removed needs that
representatives are members. `BestFacts` and `NextRowIdFacts` say what the
ranking query and SQLite's row ids return.

**`OperationsProofs`**, in three independent parts.

*Key rotation*: `NothingIsSkipped` and `CompletesWhenAllRotated`, from `RotationAssumption`,
`NoStateAssumption` and the hypothesis `OneJob` of each theorem:
no two jobs run at a time. The code has no lock that ensures it, and without it the
theorems are false (section 7). The invariant adds that the copy of the row an
operation works with is current, that the account a job has chosen is the least
pending one, and that the stored progress is the id of an account. The last is what
a new account needs: its row id is above every other (`NextRowIdFacts`), hence ahead
of the progress.

*Backup*: `BackupsStayWhole` (`BackupsAreWhole`), `SuccessLeavesBackup`
(`SuccessKeepsItsBackup`) and `OnlyNewerOnesReplace` (`BackupIsLostToNewerOnes`), from
`BackupAssumption` and the hypothesis `~Overlap`, which the code does not ensure either;
with `Overlap` TLC refutes the first (section 7). A backup is whole because it was once
the temporary file of a run that had copied to it, so `BackupInv` says for every place
of the thread which file the temporary name stands for, and that at most one run, its
thread included, is under way: a second one would unlink that file. A run that ends
well keeps its backup because no backup is of a later day than the run under way. The
removal goes file by file, so `Listed` says what its list is worth half way: all that is
not on it is newer and as many as the run has read. `KeptFacts` is about the
retention itself, by cardinality and without induction: the days with fewer than *n*
newer ones are at most *n*, and a day that is not among them has *n* newer ones that
are. The least kept day shows the first, the latest day above it that is not kept
the second.

*Plan-cycle runner*: `ReviewedBeforeNext` (`NextItemAfterReview`) and `DonePassesGate`
(`DoneIsGated`), with no assumption. The second needs no invariant. For the first,
`RunnerInv` says where unreviewed commits can be: in the present cycle with HEAD
ahead of `head_before`, or in a run that is about to end. A cycle that leaves HEAD
where it was is retried, and has none.

**`TelegramLoginProofs`**: `OneKey` (`EverythingDecrypts`) and `SuccessIsStored`
(`AuthenticatedIsPersisted`), from `LoginAssumption` and `NoneAssumption`. `KeyInv`
follows the secret: a request past `get_secret` holds the one in memory and makes
its key with the stored salt, and while accounts are stored the secret can be
forgotten but not replaced. `SessionInv` ties a request to its login session (the id
of a session still to be created is nobody else's, a session keeps its phone), and
`StoredInv` says what a request has stored at each step; success needs both, since
another request may be in the same session.

**`PipelineProofs`**, in two independent parts.

*Ingest*: `NothingIsPassedOver` (`WalkedIsKept`) and `CursorNeverGoesBack`
(`CursorAdvances`), from `IngestAssumption` (a page holds at least one message).
`WalkedIsKept` is about the committed cursor; the invariant `PollInv` says the same of
the poll in progress: what it has passed is stored, recorded as failed or still in
its hands. It depends on a page being the newest messages below the offset.

*Bot delivery*: `NotSentAgain` (`RecordedIsNotSentAgain`) and `ThirdFailureIsWarned`
(`ThirdFailureWarns`), from `BotAssumption` and `MaxClusterAssumption`. The bot knows
clusters by ids that come back, the properties speak of the clusters. `Ledger` says
that a cluster has one id for life, in the table and in the batch of the run, and
that one with a delivery row is in no batch, although the row may have been written
for the cluster that got a listed id. `Counts` says that the counter under an id is
never behind the failures of the cluster that has the id nor of the one listed under
it, and that where these differ the new one has not failed yet: a success or warning
for the old one resets a counter the new one shares.

**`PollingProofs`**: `NoSecondJobTooMany` (`OneJobTooManyAtMost`), `FloodWaitsHold`
(`FloodWaitIsHonoured`) and `PausesAreNotifiedOnce` (`OneNoticePerPause`), from
`PollingAssumption`. `JobType` follows the handler that holds the writer queue through
its transactions. `FloodInv` says that the pause a PATCH has read, and writes back in a
later transaction, is the one that is stored, because flood waits and PATCHes are jobs
of the same queue. `RiskInv` says that an account has no notification before its pause,
nor until the handler that pauses it comes to the notification. `LateInv` says that no
job too many was inserted yet for a channel that the tick under way still has to do. The
clause of `TypeOK` on the list of breaches is left out of `Types`: it is cut with
`SelectSeq`, of which the libraries state no facts and whose definition is recursive.

**`DeploymentProofs`**, from `BootstrapAssumption` (`Nothing` is no token) and
`DeploymentAssumption` (the followed process is one of them, no stored value means
"absent").

*Token*: `FailuresAreRolledBack` (`WriteFailuresRecover`) and `TokenStays`
(`TokenIsNotRotated`). The two stores have no common transaction, so the invariant is
about who is between the two writes: a process that is holds the token of the stored
digest, and so its rollback removes no other one's.

*Lifespan*: `LoopsEndFirst` (`QueueOutlivesLoops`), `WritesEndFirst`
(`EnginesOutliveWrites`), `ReverseOrder` (`ShutdownReversesStartup`), for any number of
accounts. `QueueInv` states which of loops, queue and engines may be in which state at
each step of the sequence. `OrderInv` counts: the started dependencies are a prefix of
the order, and the ones shut down are the last of them, as many as the sequence has
come to.

*Composition*: `DeploymentImplementsParts` shows step by step that `Deployment`
implements `BootstrapToken` and `Lifespan`, so that `PartsKeepTheirPromises` carries
their five properties over. `UserValuesStay` (`UserValueStays`) and `PutsFindTheirRows`
need both parts: `SelfInv` ties the place of the followed process in its startup to its
token, and `SettingsInv` says that a process that is through with a key
finds its row, since seeding only inserts and nothing deletes.

*Only model-checked.* Liveness under fairness (`SubmitsSettle`, `CloseSettles`,
`ClusterGetsDelivered`, `DisabledBotFallsSilent`, `DueChannelIsPolled`,
`RotationFinishes`, `ShutdownEnds`, `LatestIsStored`, `RunnerEnds`) is out of the
prover's reach, as are `ENABLED`, induction over data and `RECURSIVE` operators (none
is used). The action properties of `ChannelGroups` are checked with TLC only.

## 7. Where the code departs from its documents

`bot_delivery_reused` keeps one as a run. `BotDeliveryCoreLoop.run_once` records
a delivery for the id it listed (`bot/delivery.py:103`). When that cluster is
removed while the message is under way and SQLite gives its id to a new
cluster, the new cluster counts as delivered and is never sent.

The following were met while modelling. The actions that show them are in the
modules; the properties checked are stated so that they hold beside them, or the
instance leaves them out where said.

* `WriterQueue`: a worker task cancelled before its first step rejects nobody
  (`writer_queue.py:106`; `CrashUnstarted`, `Stranded`), and its submitters wait
  until the next `submit()`. A second `close()` returns while the first still drains
  (`:74`; `CloseAgain`), so `DrainedOnClose` speaks of the first.
* `DedupeStore`: `assign_item_to_cluster` leaves the representative alone
  (`dedupe_clusters_repo.py:98`), against "recalculated on cluster change"
  (`docs/option-a-local-design.md:429`); `ChangedClusterIsReranked` is about merge,
  prune and purge. `items_retention_days=0` deletes everything older than now
  (`prune_job.py:280`) instead of keeping it for ever (design, line 566).
* `BotDelivery`: a message whose answer or record is lost is sent again
  (`delivery.py:95`). A full batch of clusters that Telegram refuses starves later ones
  (`:86`); `ClusterGetsDelivered` assumes fewer of them than the batch holds.
* `KeyRotation`: state is read in one session and written in the next, so two
  concurrent jobs can complete the wrong target (`key_rotation.py:260`) or replace
  one in progress (`:71`). The run has one job; with `Jobs` of two elements TLC
  shows both.
* `Polling`: pause, breach state and notice are three transactions, and a failure
  between them pauses without a notice (`account_risk.py:104`). *Poll now* does not
  look at the account's pause (`routes/jobs.py:43`).
* `TelegramLogin`: a code submitted twice makes the second request delete the
  session the first has just signed in (`telegram_auth.py:280`). A crash between
  account row and session leaves an account without one (`:686`). After a restart
  nothing asks for the passphrase once an account exists (`unlock_modes.py:144`).
* `Lifespan`: two loops get 8 seconds each (`app.py:487`). A failed shutdown step
  leaves the runtime on `app.state` (`:519`). A failing `disconnect` leaves later
  clients connected (`client_manager.py:98`).
* `BackupJob`: a run started under the thread of a cancelled one shares its
  temporary file and can publish an empty database (`backup_job.py:149`); set
  `Overlap = TRUE` to see it. The retention count is read before the removal starts
  (`:86`), so a PUT in between counts from the next run on; the properties go by the
  count that was read.
* `BootstrapToken`: killed between digest and file, nobody ever has the token
  (`bootstrap_token.py:47`); `WriteFailuresRecover` is about failures that are
  caught.
* `PlanCycleRunner`: `run_verification_commands` calls `run_stream` without its
  argument `stdin_text` (`codex_plan_cycle_runner.py:1073`), so that an item with
  verification commands ends the run with a `TypeError` after its commit. When an
  execution writes no last message the file of an earlier run is read (`:1613`). A
  run that ends after the traceability sync leaves a dirty tree, and the next one is
  refused (`:1908`), against "You can resume later once limits reset." (`:788`).
* `Settings`: `put_setting` creates a row that its update does not find
  (`api/routes/settings.py:62`). It accepts only keys that are seeded before the
  process serves, and nothing deletes them, so this never happens
  (`PutsFindTheirRows`).
* `ChannelGroups`: only a constraint error puts the old membership back
  (`ui/routes.py:1393`); the form of a group with two channels answers 500 (`:1427`).

## 8. Not modelled

* *Dedupe engine* (strategy chain, candidates, decision rows): stateless comparisons
  of two items, called by nothing in the running program. `DedupeStore` lets each
  assignment and merge choose any cluster, so what it shows holds whatever the
  strategies answer.
* *Notifications*: their creation is part of `Polling`, `BotDelivery` and `BackupJob`;
  listing and acknowledging are one statement each.
* *Resolution of settings* (`config/resolution.py`): merges values in memory.
* *Normalisation, embeddings, message formatting*: text and numerics, no state.
* *Thread query, request authentication, UI rendering, logging, environment*: reads
  or stateless checks.
* *Database engines and migrations*: what is assumed of SQLite is one write
  transaction at a time, rollback on error, cascading foreign keys, and row ids as
  in `RowIds`.
* *Account loader and auto-unlock*: reads and decrypts; `TelegramLogin` has
  secure-interactive mode only.
* *Of the plan-cycle runner*: argument parsing, prompts, the syntax of plan and
  output, log files.

The prune and backup jobs, cluster assignment and merging, the rotation loop and
flood-wait handling exist as library code that nothing calls yet. They are
modelled as called at any time by the process that owns the queue.

## 9. Plan

1. `ChannelGroups`: inductive invariants for its three action properties.
2. `Polling`: the liveness of two channels.
3. `Ingest` as the consumer of the poll jobs of `Polling`, once the repository has the
   worker.
4. Auto-unlock in `TelegramLogin`.
