----------------------------- MODULE WriterQueue -----------------------------
(***************************************************************************)
(* The single-writer queue of tca/storage/writer_queue.py: every mutating  *)
(* API handler and background loop hands its write operation to submit(),  *)
(* one worker task executes the operations first in, first out, and        *)
(* close() stops intake and drains.                                        *)
(*                                                                         *)
(* Granularity.  The code runs on one asyncio event loop and yields only   *)
(* at awaits that suspend.  Under _lifecycle_lock nothing suspends (the    *)
(* queue is unbounded, so put() returns at once), hence the locked part of *)
(* submit() and of close() is one step.  The worker suspends in get() and  *)
(* in the operation; its finally block never suspends, so the end of a     *)
(* worker and the rejection of what is left in the queue are one step.     *)
(***************************************************************************)
EXTENDS Naturals, Sequences

CONSTANTS
  Jobs,             \* submit() calls, each with the operation it carries
  Closers,          \* close() calls
  Workers,          \* identities for the worker tasks create_task() returns
  NoJob,            \* current_job is None
  NoWorker,         \* _worker_task is None
  Sentinel          \* the None that close() puts behind the last job

ASSUME ConstantsAssumption ==
  /\ NoJob \notin Jobs
  /\ Sentinel \notin Jobs
  /\ NoWorker \notin Workers

VARIABLES
  queue,       \* _queue
  handle,      \* _worker_task
  closed,      \* _closed
  task,        \* status of each worker task
  current,     \* the job a worker task is executing
  completion,  \* status of the completion future of each submit() call
  closer,      \* progress of each close() call
  ticket,      \* history: in which position a job was accepted, 0 if it was not
  accepted,    \* history: how many jobs were accepted
  log          \* history: the jobs whose operation was started, in order

vars == <<queue, handle, closed, task, current, completion, closer,
          ticket, accepted, log>>

-----------------------------------------------------------------------------
\* dropped: cancelled before its first step.
TaskStatus == {"none", "created", "running", "returned", "crashed", "dropped"}

\* new: not submitted; refused: submit() found the queue closed; cancelled:
\* the submitting task was cancelled while it awaited the future; rejected:
\* WriterQueueClosedError set by a worker that stopped.
CompletionStatus ==
  {"new", "pending", "result", "error", "rejected", "cancelled", "refused"}

\* early: close() returned at once because another close() came first.
CloserStatus == {"idle", "waiting", "drained", "early", "raised"}

TypeOK ==
  /\ queue \in Seq(Jobs \cup {Sentinel})
  /\ handle \in Workers \cup {NoWorker}
  /\ closed \in BOOLEAN
  /\ task \in [Workers -> TaskStatus]
  /\ current \in [Workers -> Jobs \cup {NoJob}]
  /\ completion \in [Jobs -> CompletionStatus]
  /\ closer \in [Closers -> CloserStatus]
  /\ ticket \in [Jobs -> Nat]
  /\ accepted \in Nat
  /\ log \in Seq(Jobs)

\* asyncio.Task.done() is false.
Live(w) == task[w] \in {"created", "running"}

Queued == {queue[n] : n \in DOMAIN queue}

Init ==
  /\ queue = <<>>
  /\ handle = NoWorker
  /\ closed = FALSE
  /\ task = [w \in Workers |-> "none"]
  /\ current = [w \in Workers |-> NoJob]
  /\ completion = [j \in Jobs |-> "new"]
  /\ closer = [c \in Closers |-> "idle"]
  /\ ticket = [j \in Jobs |-> 0]
  /\ accepted = 0
  /\ log = <<>>

-----------------------------------------------------------------------------
(* submit() *)

\* Variant: done() is not consulted.
EnsureWorkerAlways ==
  \E w \in Workers :
    /\ task[w] = "none"
    /\ handle' = w
    /\ task' = [task EXCEPT ![w] = "created"]

\* _ensure_worker_locked: a new task unless the current one is still live.
EnsureWorker ==
  IF handle \in Workers /\ Live(handle)
  THEN UNCHANGED <<handle, task>>
  ELSE \E w \in Workers :
         /\ task[w] = "none"
         /\ handle' = w
         /\ task' = [task EXCEPT ![w] = "created"]

Submit(j) ==
  /\ completion[j] = "new"
  /\ ~closed
  /\ EnsureWorker
  /\ queue' = Append(queue, j)
  /\ completion' = [completion EXCEPT ![j] = "pending"]
  /\ accepted' = accepted + 1
  /\ ticket' = [ticket EXCEPT ![j] = accepted + 1]
  /\ UNCHANGED <<closed, current, closer, log>>

SubmitRefused(j) ==
  /\ completion[j] = "new"
  /\ closed
  /\ completion' = [completion EXCEPT ![j] = "refused"]
  /\ UNCHANGED <<queue, handle, closed, task, current, closer, ticket,
                 accepted, log>>

\* The task awaiting the future is cancelled (a disconnected client, a loop
\* cancelled at shutdown): the future is cancelled, the job stays queued.
CancelCaller(j) ==
  /\ completion[j] = "pending"
  /\ completion' = [completion EXCEPT ![j] = "cancelled"]
  /\ UNCHANGED <<queue, handle, closed, task, current, closer, ticket,
                 accepted, log>>

-----------------------------------------------------------------------------
(* _run_worker() and _execute_queued_job() *)

StartWorker(w) ==
  /\ task[w] = "created"
  /\ task' = [task EXCEPT ![w] = "running"]
  /\ UNCHANGED <<queue, handle, closed, current, completion, closer, ticket,
                 accepted, log>>

Waiting(w) == task[w] = "running" /\ current[w] = NoJob

\* get() returned a job and its operation starts.
Take(w) ==
  /\ Waiting(w)
  /\ queue # <<>>
  /\ Head(queue) # Sentinel
  /\ current' = [current EXCEPT ![w] = Head(queue)]
  /\ queue' = Tail(queue)
  /\ log' = Append(log, Head(queue))
  /\ UNCHANGED <<handle, closed, task, completion, closer, ticket, accepted>>

\* Variant: the outcome is set on a cancelled future too.
FinishAlways(w, outcome) ==
  /\ current[w] \in Jobs
  /\ completion' = [completion EXCEPT ![current[w]] = outcome]
  /\ current' = [current EXCEPT ![w] = NoJob]
  /\ UNCHANGED <<queue, handle, closed, task, closer, ticket, accepted, log>>

\* The operation returned or raised; a future its caller cancelled keeps
\* that status.
Finish(w, outcome) ==
  /\ current[w] \in Jobs
  /\ completion' = [completion EXCEPT ![current[w]] =
                      IF @ = "pending" THEN outcome ELSE @]
  /\ current' = [current EXCEPT ![w] = NoJob]
  /\ UNCHANGED <<queue, handle, closed, task, closer, ticket, accepted, log>>

\* Variant of the finally block: the current job is forgotten.
StopWorkerForget(w, status) ==
  /\ task' = [task EXCEPT ![w] = status]
  /\ current' = [current EXCEPT ![w] = NoJob]
  /\ queue' = <<>>
  /\ completion' = [j \in Jobs |->
                      IF completion[j] = "pending" /\ j \in Queued
                      THEN "rejected" ELSE completion[j]]
  /\ UNCHANGED <<handle, closed, closer, ticket, accepted, log>>

\* The finally block: the current job and all that is queued are rejected,
\* where their futures are not done yet, and the queue is emptied.
StopWorker(w, status) ==
  /\ task' = [task EXCEPT ![w] = status]
  /\ current' = [current EXCEPT ![w] = NoJob]
  /\ queue' = <<>>
  /\ completion' = [j \in Jobs |->
                      IF completion[j] = "pending" /\ j \in Queued \cup {current[w]}
                      THEN "rejected" ELSE completion[j]]
  /\ UNCHANGED <<handle, closed, closer, ticket, accepted, log>>

TakeSentinel(w) ==
  /\ Waiting(w)
  /\ queue # <<>>
  /\ Head(queue) = Sentinel
  /\ StopWorker(w, "returned")

\* The task is cancelled (its closer was, or the loop shuts down) in get() or
\* in the operation, or the operation raised KeyboardInterrupt or SystemExit.
Crash(w) ==
  /\ task[w] = "running"
  /\ StopWorker(w, "crashed")

\* Cancelled before its first step, the coroutine is never entered and its
\* finally block does not run.
CrashUnstarted(w) ==
  /\ task[w] = "created"
  /\ task' = [task EXCEPT ![w] = "dropped"]
  /\ UNCHANGED <<queue, handle, closed, current, completion, closer, ticket,
                 accepted, log>>
-----------------------------------------------------------------------------
(* close() *)

\* Variant: close() puts no sentinel.
CloseNoSentinel(c) ==
  /\ closer[c] = "idle"
  /\ ~closed
  /\ closed' = TRUE
  /\ closer' = [closer EXCEPT ![c] =
                  IF handle = NoWorker THEN "drained" ELSE "waiting"]
  /\ UNCHANGED <<queue, handle, task, current, completion, ticket, accepted, log>>

Close(c) ==
  /\ closer[c] = "idle"
  /\ ~closed
  /\ closed' = TRUE
  /\ \/ /\ handle = NoWorker
        /\ closer' = [closer EXCEPT ![c] = "drained"]
        /\ UNCHANGED queue
     \/ /\ handle # NoWorker
        /\ closer' = [closer EXCEPT ![c] = "waiting"]
        /\ queue' = Append(queue, Sentinel)
  /\ UNCHANGED <<handle, task, current, completion, ticket, accepted, log>>

CloseAgain(c) ==
  /\ closer[c] = "idle"
  /\ closed
  /\ closer' = [closer EXCEPT ![c] = "early"]
  /\ UNCHANGED <<queue, handle, closed, task, current, completion, ticket,
                 accepted, log>>

\* "await worker" ends; it raises what ended the worker.
CloseEnds(c) ==
  /\ closer[c] = "waiting"
  /\ \/ /\ task[handle] = "returned"
        /\ closer' = [closer EXCEPT ![c] = "drained"]
        /\ handle' = NoWorker
     \/ /\ task[handle] \in {"crashed", "dropped"}
        /\ closer' = [closer EXCEPT ![c] = "raised"]
        /\ UNCHANGED handle
  /\ UNCHANGED <<queue, closed, task, current, completion, ticket, accepted, log>>

-----------------------------------------------------------------------------
Next ==
  \/ \E j \in Jobs : Submit(j) \/ SubmitRefused(j) \/ CancelCaller(j)
  \/ \E w \in Workers :
       \/ StartWorker(w)
       \/ Take(w)
       \/ \E outcome \in {"result", "error"} : Finish(w, outcome)
       \/ TakeSentinel(w)
       \/ Crash(w)
       \/ CrashUnstarted(w)
  \/ \E c \in Closers : Close(c) \/ CloseAgain(c) \/ CloseEnds(c)

Spec == Init /\ [][Next]_vars

\* The event loop runs every ready task: a worker whose get() can return, an
\* operation (each one ends: SQLite gives up after busy_timeout) and a closer
\* whose worker is done are scheduled again.  Nobody has to submit or close.
Fairness ==
  /\ \A w \in Workers :
       /\ WF_vars(StartWorker(w))
       /\ WF_vars(Take(w) \/ TakeSentinel(w))
       /\ WF_vars(\E outcome \in {"result", "error"} : Finish(w, outcome))
  /\ \A c \in Closers : WF_vars(CloseEnds(c))

FairSpec == Spec /\ Fairness

-----------------------------------------------------------------------------
(* Properties *)

\* At most one worker task is live, and it is the one _worker_task names, so
\* that two operations never run at the same time: _ensure_worker_locked()
\* starts a second worker only after the first is done.
OneWriter ==
  /\ \A w \in Workers : Live(w) => handle = w
  /\ \A v, w \in Workers : current[v] # NoJob /\ current[w] # NoJob => v = w

\* Operations start in the order in which submit() accepted them and no
\* operation starts twice, across worker crashes and restarts as well.
StartsInOrder ==
  \A m, n \in DOMAIN log : m < n => ticket[log[m]] < ticket[log[n]]

\* The worker was cancelled before its first step and no submit() has replaced
\* it yet.
Stranded == \E w \in Workers : handle = w /\ task[w] = "dropped"

\* As long as some submit() call awaits its completion there is a live worker
\* that will come to its job: nobody waits for a worker that has stopped, except
\* for one that never started.
PendingHasWorker ==
  (\E j \in Jobs : completion[j] = "pending") =>
     Stranded \/ \E w \in Workers : handle = w /\ Live(w)

\* When the close() that did the closing returns normally, no operation is
\* running, queued or awaited, and no worker is left to start one.
DrainedOnClose ==
  \A c \in Closers : closer[c] = "drained" =>
     /\ \A w \in Workers : ~Live(w) /\ current[w] = NoJob
     /\ \A j \in Jobs : j \notin Queued /\ completion[j] # "pending"

\* A submitter that is told its operation was rejected may submit it again:
\* once a worker that stopped has rejected an operation, no worker starts it.
RejectedNeverStarts ==
  [][\A j \in Jobs :
       completion[j] = "rejected" =>
         \A n \in DOMAIN log' : log'[n] = j => n \in DOMAIN log]_vars

\* The queue without its sentinel, and the job that is executing.
Backlog ==
  IF queue # <<>> /\ queue[Len(queue)] = Sentinel
  THEN SubSeq(queue, 1, Len(queue) - 1)
  ELSE queue

Executing == IF handle = NoWorker THEN NoJob ELSE current[handle]

Serial == INSTANCE SerialWriter WITH
            open <- ~closed, waiting <- Backlog,
            running <- Executing, outcome <- completion

\* The queue, its worker tasks and the sentinel implement one serial writer
\* with an orderly line: what SerialWriter promises to the callers of submit().
ImplementsSerialWriter == Serial!SSpec

\* Every accepted submit() call gets a result, an error or a rejection, unless its
\* worker is cancelled before it has started.
SubmitsSettle ==
  \A j \in Jobs : completion[j] = "pending" ~> completion[j] # "pending" \/ Stranded

\* A close() that waits for the worker ends, whether the worker drains the
\* queue or crashes on the way.
CloseSettles ==
  \A c \in Closers : closer[c] = "waiting" ~> closer[c] \in {"drained", "raised"}
=============================================================================
