-------------------------- MODULE WriterQueueProofs --------------------------
(***************************************************************************)
(* Proofs that the writer queue has one writer, starts jobs in order,      *)
(* drains on close() and implements SerialWriter, for any number of jobs,  *)
(* worker tasks and close() calls.                                         *)
(***************************************************************************)
EXTENDS WriterQueue, SequenceTheorems, TLAPS

\* Only the task _worker_task names is live, and only a running task executes.
WorkerInv ==
  /\ \A w \in Workers : Live(w) => handle = w
  /\ \A w \in Workers : current[w] # NoJob => task[w] = "running"

\* The sentinel is put once, by close(), and nothing is put behind it.
SentinelInv ==
  \A n \in DOMAIN queue : queue[n] = Sentinel => closed /\ n = Len(queue)

\* A job in the queue is unsettled, and one whose caller waits is in the queue
\* or executing.
SettleInv ==
  /\ \A n \in DOMAIN queue :
       queue[n] \in Jobs => completion[queue[n]] \in {"pending", "cancelled"}
  /\ \A j \in Jobs :
       completion[j] = "pending" =>
         \/ \E n \in DOMAIN queue : queue[n] = j
         \/ \E w \in Workers : current[w] = j

\* Tickets grow along the log, which ends in the job that is executing, and then
\* along the queue.
OrderInv ==
  /\ \A n \in DOMAIN log : completion[log[n]] # "new" /\ ticket[log[n]] <= accepted
  /\ \A n \in DOMAIN queue : queue[n] \in Jobs => ticket[queue[n]] <= accepted
  /\ \A m, n \in DOMAIN queue :
       m < n /\ queue[m] \in Jobs /\ queue[n] \in Jobs =>
         ticket[queue[m]] < ticket[queue[n]]
  /\ \A m \in DOMAIN log, n \in DOMAIN queue :
       queue[n] \in Jobs => ticket[log[m]] < ticket[queue[n]]
  /\ \A w \in Workers : current[w] # NoJob => \E n \in DOMAIN log : log[n] = current[w]
  /\ StartsInOrder

\* A worker returns only after close(), and leaves no job in the queue; until
\* the first submit() there is neither a worker nor a job.
DrainInv ==
  /\ \A w \in Workers : task[w] = "returned" => closed
  /\ handle = NoWorker \/ task[handle] = "returned" =>
       \A n \in DOMAIN queue : queue[n] \notin Jobs
  /\ \A c \in Closers : closer[c] \in {"waiting", "drained"} => closed
  /\ \A c \in Closers : closer[c] = "drained" =>
       /\ \A w \in Workers : ~Live(w)
       /\ \A n \in DOMAIN queue : queue[n] \notin Jobs

IInv == TypeOK /\ WorkerInv /\ SentinelInv /\ SettleInv /\ OrderInv /\ DrainInv
-----------------------------------------------------------------------------
\* What Append and Tail do to a sequence, position by position.
IsAppend(t, s, e) ==
  /\ Len(s) \in Nat
  /\ DOMAIN s = 1 .. Len(s)
  /\ DOMAIN t = 1 .. Len(s) + 1
  /\ Len(t) = Len(s) + 1
  /\ \A n \in 1 .. Len(s) : t[n] = s[n]
  /\ t[Len(s) + 1] = e

IsTail(t, s) ==
  /\ Len(s) \in Nat \ {0}
  /\ DOMAIN s = 1 .. Len(s)
  /\ DOMAIN t = 1 .. Len(s) - 1
  /\ Len(t) = Len(s) - 1
  /\ \A n \in 1 .. Len(s) - 1 : t[n] = s[n + 1]

\* put() leaves what is queued where it is.
LEMMA AppendFacts ==
  ASSUME NEW S, NEW s \in Seq(S), NEW e \in S
  PROVE  IsAppend(Append(s, e), s, e)
  BY DEF IsAppend

\* get() moves every other job one place forward.
LEMMA TailFacts ==
  ASSUME NEW S, NEW s \in Seq(S), s # <<>>
  PROVE  IsTail(Tail(s), s) /\ Head(s) = s[1]
  BY HeadTailProperties DEF IsTail

\* The action property RejectedNeverStarts and the refinement need the parts of
\* IInv one at a time; each part has its own lemma, one step per action.

\* Every step of submit(), the worker and close() keeps the types.
LEMMA TypeStep == TypeOK /\ [Next]_vars => TypeOK'
<1> SUFFICES ASSUME TypeOK, [Next]_vars PROVE TypeOK'
  OBVIOUS
<1> USE ConstantsAssumption DEF TypeOK, TaskStatus, CompletionStatus, CloserStatus
<1>1. ASSUME NEW j \in Jobs, Submit(j) PROVE TypeOK'
  <2>1. (handle \in Workers \cup {NoWorker} /\ task \in [Workers -> TaskStatus])'
    BY <1>1 DEF Submit, EnsureWorker
  <2>2. (queue \in Seq(Jobs \cup {Sentinel}))'
    BY <1>1 DEF Submit
  <2> QED
    BY <1>1, <2>1, <2>2 DEF Submit
<1>2. ASSUME NEW j \in Jobs, SubmitRefused(j) PROVE TypeOK'
  BY <1>2 DEF SubmitRefused
<1>3. ASSUME NEW j \in Jobs, CancelCaller(j) PROVE TypeOK'
  BY <1>3 DEF CancelCaller
<1>4. ASSUME NEW w \in Workers, StartWorker(w) PROVE TypeOK'
  BY <1>4 DEF StartWorker
<1>5. ASSUME NEW w \in Workers, Take(w) PROVE TypeOK'
  BY <1>5 DEF Take
<1>6. ASSUME NEW w \in Workers, NEW outcome \in {"result", "error"}, Finish(w, outcome)
      PROVE TypeOK'
  BY <1>6 DEF Finish
<1>7. ASSUME NEW w \in Workers, TakeSentinel(w) PROVE TypeOK'
  BY <1>7 DEF TakeSentinel, StopWorker
<1>8. ASSUME NEW w \in Workers, Crash(w) PROVE TypeOK'
  BY <1>8 DEF Crash, StopWorker
<1>9. ASSUME NEW w \in Workers, CrashUnstarted(w) PROVE TypeOK'
  BY <1>9 DEF CrashUnstarted
<1>10. ASSUME NEW c \in Closers, Close(c) PROVE TypeOK'
  <2>1. queue' = queue \/ queue' = Append(queue, Sentinel)
    BY <1>10 DEF Close
  <2>2. Append(queue, Sentinel) \in Seq(Jobs \cup {Sentinel})
    OBVIOUS
  <2>3. (queue \in Seq(Jobs \cup {Sentinel}))'
    BY <2>1, <2>2
  <2> QED
    BY <1>10, <2>3 DEF Close
<1>11. ASSUME NEW c \in Closers, CloseAgain(c) PROVE TypeOK'
  BY <1>11 DEF CloseAgain
<1>12. ASSUME NEW c \in Closers, CloseEnds(c) PROVE TypeOK'
  BY <1>12 DEF CloseEnds
<1>13. CASE UNCHANGED vars
  BY <1>13 DEF vars
<1> QED
  BY <1>1, <1>2, <1>3, <1>4, <1>5, <1>6, <1>7, <1>8, <1>9, <1>10, <1>11, <1>12,
     <1>13 DEF Next

\* _ensure_worker_locked() keeps one live worker, and each worker executes only
\* between its first step and its end.
LEMMA WorkerStep == TypeOK /\ WorkerInv /\ [Next]_vars => WorkerInv'
<1> SUFFICES ASSUME TypeOK, WorkerInv, [Next]_vars PROVE WorkerInv'
  OBVIOUS
<1> USE ConstantsAssumption DEF TypeOK, WorkerInv, Live, TaskStatus
<1>1. ASSUME NEW j \in Jobs, Submit(j) PROVE WorkerInv'
  BY <1>1 DEF Submit, EnsureWorker
<1>2. ASSUME NEW j \in Jobs, SubmitRefused(j) PROVE WorkerInv'
  BY <1>2 DEF SubmitRefused
<1>3. ASSUME NEW j \in Jobs, CancelCaller(j) PROVE WorkerInv'
  BY <1>3 DEF CancelCaller
<1>4. ASSUME NEW w \in Workers, StartWorker(w) PROVE WorkerInv'
  BY <1>4 DEF StartWorker
<1>5. ASSUME NEW w \in Workers, Take(w) PROVE WorkerInv'
  BY <1>5 DEF Take, Waiting
<1>6. ASSUME NEW w \in Workers, NEW outcome \in {"result", "error"}, Finish(w, outcome)
      PROVE WorkerInv'
  BY <1>6 DEF Finish
<1>7. ASSUME NEW w \in Workers, TakeSentinel(w) PROVE WorkerInv'
  BY <1>7 DEF TakeSentinel, StopWorker
<1>8. ASSUME NEW w \in Workers, Crash(w) PROVE WorkerInv'
  BY <1>8 DEF Crash, StopWorker
<1>9. ASSUME NEW w \in Workers, CrashUnstarted(w) PROVE WorkerInv'
  BY <1>9 DEF CrashUnstarted
<1>10. ASSUME NEW c \in Closers, Close(c) PROVE WorkerInv'
  BY <1>10 DEF Close
<1>11. ASSUME NEW c \in Closers, CloseAgain(c) PROVE WorkerInv'
  BY <1>11 DEF CloseAgain
<1>12. ASSUME NEW c \in Closers, CloseEnds(c) PROVE WorkerInv'
  BY <1>12 DEF CloseEnds
<1>13. CASE UNCHANGED vars
  BY <1>13 DEF vars
<1> QED
  BY <1>1, <1>2, <1>3, <1>4, <1>5, <1>6, <1>7, <1>8, <1>9, <1>10, <1>11, <1>12,
     <1>13 DEF Next

\* close() puts the sentinel behind the last job, and submit() is refused after.
LEMMA SentinelStep == TypeOK /\ SentinelInv /\ [Next]_vars => SentinelInv'
<1> SUFFICES ASSUME TypeOK, SentinelInv, [Next]_vars PROVE SentinelInv'
  OBVIOUS
<1> USE ConstantsAssumption DEF SentinelInv
<1>1. ASSUME NEW j \in Jobs, Submit(j) PROVE SentinelInv'
  BY <1>1 DEF Submit, EnsureWorker, TypeOK
<1>2. ASSUME NEW j \in Jobs, SubmitRefused(j) PROVE SentinelInv'
  BY <1>2 DEF SubmitRefused, TypeOK
<1>3. ASSUME NEW j \in Jobs, CancelCaller(j) PROVE SentinelInv'
  BY <1>3 DEF CancelCaller, TypeOK
<1>4. ASSUME NEW w \in Workers, StartWorker(w) PROVE SentinelInv'
  BY <1>4 DEF StartWorker, TypeOK
<1>5. ASSUME NEW w \in Workers, Take(w) PROVE SentinelInv'
  BY <1>5 DEF Take, Waiting, TypeOK
<1>6. ASSUME NEW w \in Workers, NEW outcome \in {"result", "error"}, Finish(w, outcome)
      PROVE SentinelInv'
  BY <1>6 DEF Finish, TypeOK
<1>7. ASSUME NEW w \in Workers, TakeSentinel(w) PROVE SentinelInv'
  BY <1>7 DEF TakeSentinel, Waiting, StopWorker, Queued, TypeOK
<1>8. ASSUME NEW w \in Workers, Crash(w) PROVE SentinelInv'
  BY <1>8 DEF Crash, StopWorker, Queued, TypeOK
<1>9. ASSUME NEW w \in Workers, CrashUnstarted(w) PROVE SentinelInv'
  BY <1>9 DEF CrashUnstarted, TypeOK
<1>10. ASSUME NEW c \in Closers, Close(c) PROVE SentinelInv'
  <2>1. IsAppend(Append(queue, Sentinel), queue, Sentinel)
    BY AppendFacts DEF TypeOK
  <2>2. queue' = queue \/ IsAppend(queue', queue, Sentinel)
    BY <1>10, <2>1 DEF Close
  <2>3. closed' /\ \A n \in DOMAIN queue : queue[n] # Sentinel
    BY <1>10 DEF Close
  <2> QED
    BY <2>2, <2>3 DEF IsAppend
<1>11. ASSUME NEW c \in Closers, CloseAgain(c) PROVE SentinelInv'
  BY <1>11 DEF CloseAgain, TypeOK
<1>12. ASSUME NEW c \in Closers, CloseEnds(c) PROVE SentinelInv'
  BY <1>12 DEF CloseEnds, TypeOK
<1>13. CASE UNCHANGED vars
  BY <1>13 DEF vars
<1> HIDE DEF SentinelInv
<1> QED
  BY <1>1, <1>2, <1>3, <1>4, <1>5, <1>6, <1>7, <1>8, <1>9, <1>10, <1>11, <1>12,
     <1>13 DEF Next

\* A completion future is settled exactly when its job leaves the queue and the
\* worker, or its caller is cancelled.
LEMMA SettleStep == TypeOK /\ WorkerInv /\ OrderInv /\ SettleInv /\ [Next]_vars => SettleInv'
<1> SUFFICES ASSUME TypeOK, WorkerInv, OrderInv, SettleInv, [Next]_vars PROVE SettleInv'
  OBVIOUS
<1> USE ConstantsAssumption DEF WorkerInv, Live, SettleInv, CompletionStatus
<1>1. ASSUME NEW j \in Jobs, Submit(j) PROVE SettleInv'
  <2>1. IsAppend(queue', queue, j)
    BY <1>1, AppendFacts DEF Submit, TypeOK
  <2>2. /\ current' = current
        /\ completion'[j] = "pending"
        /\ \A i \in Jobs : i # j => completion'[i] = completion[i]
    BY <1>1 DEF Submit, TypeOK
  <2>3. \A n \in DOMAIN queue : queue[n] \in Jobs => queue[n] # j
    BY <1>1 DEF Submit
  <2>4. Len(queue) + 1 \in DOMAIN queue' /\ queue'[Len(queue) + 1] = j
    BY <2>1 DEF IsAppend
  <2>5. \A n \in DOMAIN queue : n \in DOMAIN queue' /\ queue'[n] = queue[n]
    BY <2>1 DEF IsAppend
  <2>6. \A n \in DOMAIN queue' : n \in DOMAIN queue \/ n = Len(queue) + 1
    BY <2>1 DEF IsAppend
  <2> QED
    BY <2>2, <2>3, <2>4, <2>5, <2>6
<1>2. ASSUME NEW j \in Jobs, SubmitRefused(j) PROVE SettleInv'
  BY <1>2 DEF SubmitRefused, TypeOK
<1>3. ASSUME NEW j \in Jobs, CancelCaller(j) PROVE SettleInv'
  BY <1>3 DEF CancelCaller, TypeOK
<1>4. ASSUME NEW w \in Workers, StartWorker(w) PROVE SettleInv'
  BY <1>4 DEF StartWorker, TypeOK
<1>5. ASSUME NEW w \in Workers, Take(w) PROVE SettleInv'
  <2>1. IsTail(queue', queue) /\ current'[w] = queue[1]
    BY <1>5, TailFacts DEF Take, TypeOK
  <2>2. \A v \in Workers : v # w => current'[v] = current[v]
    BY <1>5 DEF Take, TypeOK
  <2>3. completion' = completion
    BY <1>5 DEF Take
  <2>4. ASSUME NEW n \in DOMAIN queue'
        PROVE  n + 1 \in DOMAIN queue /\ queue'[n] = queue[n + 1]
    BY <2>1 DEF IsTail
  <2>5. ASSUME NEW j \in Jobs, completion[j] = "pending"
        PROVE  \/ \E n \in DOMAIN queue' : queue'[n] = j
               \/ \E v \in Workers : current'[v] = j
    <3>1. CASE \E n \in DOMAIN queue : queue[n] = j
      <4>1. PICK n \in 1 .. Len(queue) : queue[n] = j
        BY <3>1, <2>1 DEF IsTail
      <4>2. CASE n = 1
        BY <4>1, <4>2, <2>1
      <4>3. CASE n # 1
        <5>1. n - 1 \in DOMAIN queue' /\ queue'[n - 1] = j
          BY <4>1, <4>3, <2>1 DEF IsTail
        <5> QED
          BY <5>1
      <4> QED
        BY <4>2, <4>3
    <3>2. CASE \E v \in Workers : current[v] = j
      BY <1>5, <3>2, <2>2 DEF Take, Waiting
    <3> QED
      BY <2>5, <3>1, <3>2
  <2> QED
    BY <2>3, <2>4, <2>5
<1>6. ASSUME NEW w \in Workers, NEW outcome \in {"result", "error"}, Finish(w, outcome)
      PROVE SettleInv'
  <2>1. PICK m \in DOMAIN log : log[m] = current[w]
    BY <1>6 DEF Finish, OrderInv
  <2>2. \A n \in DOMAIN queue : queue[n] \in Jobs => queue[n] # current[w]
    BY <1>6, <2>1 DEF Finish, OrderInv, TypeOK
  <2>3. \A v \in Workers : current[v] # NoJob => v = w
    BY <1>6 DEF Finish, TypeOK
  <2> QED
    BY ZenonT(40), <1>6, <2>2, <2>3 DEF Finish, TypeOK
<1>7. ASSUME NEW w \in Workers, TakeSentinel(w) \/ Crash(w) PROVE SettleInv'
  <2>1. /\ task[w] = "running"
        /\ queue' = <<>>
        /\ completion' = [j \in Jobs |->
                            IF completion[j] = "pending" /\ j \in Queued \cup {current[w]}
                            THEN "rejected" ELSE completion[j]]
    BY <1>7 DEF TakeSentinel, Crash, Waiting, StopWorker
  <2>2. ASSUME NEW v \in Workers, v # w PROVE current[v] = NoJob
    BY <2>1, <2>2
  <2>3. ASSUME NEW j \in Jobs PROVE completion'[j] # "pending"
    <3>1. completion[j] = "pending" => j \in Queued \cup {current[w]}
      BY <2>2 DEF Queued
    <3> QED
      BY <2>1, <3>1
  <2>4. DOMAIN queue' = {}
    BY <2>1
  <2> QED
    BY <2>3, <2>4
<1>8. ASSUME NEW w \in Workers, CrashUnstarted(w) PROVE SettleInv'
  BY <1>8 DEF CrashUnstarted, TypeOK
<1>9. ASSUME NEW c \in Closers, Close(c) PROVE SettleInv'
  <2>1. IsAppend(Append(queue, Sentinel), queue, Sentinel)
    BY AppendFacts DEF TypeOK
  <2>2. queue' = queue \/ IsAppend(queue', queue, Sentinel)
    BY <1>9, <2>1 DEF Close
  <2>3. UNCHANGED <<completion, current>>
    BY <1>9 DEF Close
  <2>4. \A n \in DOMAIN queue : n \in DOMAIN queue' /\ queue'[n] = queue[n]
    BY <2>2 DEF IsAppend
  <2>5. \A n \in DOMAIN queue' : n \in DOMAIN queue \/ queue'[n] = Sentinel
    BY <2>2 DEF IsAppend
  <2> QED
    BY <2>3, <2>4, <2>5
<1>10. ASSUME NEW c \in Closers, CloseAgain(c) PROVE SettleInv'
  BY <1>10 DEF CloseAgain, TypeOK
<1>11. ASSUME NEW c \in Closers, CloseEnds(c) PROVE SettleInv'
  BY <1>11 DEF CloseEnds, TypeOK
<1>12. CASE UNCHANGED vars
  BY <1>12 DEF vars
<1> HIDE DEF SettleInv
<1> QED
  BY <1>1, <1>2, <1>3, <1>4, <1>5, <1>6, <1>7, <1>8, <1>9, <1>10, <1>11,
     <1>12 DEF Next

\* The queue is first in, first out, and what has started is not put back.
LEMMA OrderStep == TypeOK /\ SettleInv /\ OrderInv /\ [Next]_vars => OrderInv'
<1> SUFFICES ASSUME TypeOK, SettleInv, OrderInv, [Next]_vars PROVE OrderInv'
  OBVIOUS
<1> USE ConstantsAssumption DEF OrderInv, StartsInOrder
<1>1. ASSUME NEW j \in Jobs, Submit(j) PROVE OrderInv'
  <2>1. IsAppend(queue', queue, j)
    <3>1. queue \in Seq(Jobs \cup {Sentinel}) /\ queue' = Append(queue, j)
      BY <1>1 DEF Submit, TypeOK
    <3>2. IsAppend(Append(queue, j), queue, j)
      BY ONLY j \in Jobs, <3>1, AppendFacts
    <3> QED
      BY ONLY <3>1, <3>2
  <2>2. /\ accepted \in Nat
        /\ accepted' = accepted + 1
        /\ ticket'[j] = accepted + 1
        /\ \A i \in Jobs : i # j => ticket'[i] = ticket[i]
        /\ \A i \in Jobs : ticket[i] \in Nat
        /\ \A i \in Jobs : completion[i] # "new" => completion'[i] # "new"
        /\ UNCHANGED <<log, current>>
    BY <1>1 DEF Submit, TypeOK
  <2>3. \A n \in DOMAIN queue :
          queue[n] \in Jobs => queue[n] # j /\ ticket'[queue[n]] = ticket[queue[n]]
    BY <1>1, <2>2 DEF Submit, SettleInv
  <2>4. \A n \in DOMAIN log :
          /\ log[n] \in Jobs
          /\ log[n] # j /\ ticket'[log[n]] = ticket[log[n]]
    BY <1>1, <2>2 DEF Submit, TypeOK
  <2>5. \A n \in DOMAIN queue' :
          \/ n \in DOMAIN queue /\ queue'[n] = queue[n] /\ n < Len(queue) + 1
          \/ n = Len(queue) + 1 /\ queue'[n] = j
    BY <2>1 DEF IsAppend
  <2>6. Len(queue) \in Nat /\ DOMAIN queue = 1 .. Len(queue)
    BY <2>1 DEF IsAppend
  <2>7. (\A n \in DOMAIN queue : queue[n] \in Jobs => ticket[queue[n]] <= accepted)'
    BY <2>2, <2>3, <2>5
  <2>8. (\A m, n \in DOMAIN queue :
           m < n /\ queue[m] \in Jobs /\ queue[n] \in Jobs =>
             ticket[queue[m]] < ticket[queue[n]])'
    BY <2>2, <2>3, <2>5, <2>6
  <2>9. (\A m \in DOMAIN log, n \in DOMAIN queue :
           queue[n] \in Jobs => ticket[log[m]] < ticket[queue[n]])'
    BY <2>2, <2>3, <2>4, <2>5
  <2>10. (\A n \in DOMAIN log : completion[log[n]] # "new" /\ ticket[log[n]] <= accepted)'
    BY <2>2, <2>4
  <2> QED
    BY <2>2, <2>4, <2>7, <2>8, <2>9, <2>10
<1>2. ASSUME NEW j \in Jobs, SubmitRefused(j) PROVE OrderInv'
  BY <1>2 DEF SubmitRefused, TypeOK
<1>3. ASSUME NEW j \in Jobs, CancelCaller(j) PROVE OrderInv'
  BY <1>3 DEF CancelCaller, TypeOK
<1>4. ASSUME NEW w \in Workers, StartWorker(w) PROVE OrderInv'
  BY <1>4 DEF StartWorker, TypeOK
<1>5. ASSUME NEW w \in Workers, Take(w) PROVE OrderInv'
  <2>1. IsTail(queue', queue) /\ Head(queue) = queue[1]
    BY <1>5, TailFacts DEF Take, TypeOK
  <2>2. queue[1] \in Jobs
    BY <1>5, <2>1 DEF Take, TypeOK, IsTail
  <2>3. IsAppend(log', log, queue[1])
    BY <1>5, <2>1, <2>2, AppendFacts DEF Take, TypeOK
  <2>4. /\ UNCHANGED <<ticket, completion, accepted>>
        /\ \A v \in Workers : current'[v] # NoJob =>
             current'[v] = queue[1] \/ current[v] = current'[v]
    BY <1>5, <2>1 DEF Take, TypeOK
  <2>5. \A n \in DOMAIN queue' :
          n + 1 \in DOMAIN queue /\ queue'[n] = queue[n + 1] /\ 1 < n + 1 /\ n \in Nat
    BY <2>1 DEF IsTail
  <2>6. 1 \in DOMAIN queue
    BY <2>1 DEF IsTail
  <2>7. \A n \in DOMAIN log' :
          \/ n \in DOMAIN log /\ log'[n] = log[n] /\ n < Len(log) + 1
          \/ n = Len(log) + 1 /\ log'[n] = queue[1]
    BY <2>3 DEF IsAppend
  <2>8. Len(log) \in Nat /\ DOMAIN log = 1 .. Len(log)
    BY <2>3 DEF IsAppend
  <2>9. \A n \in DOMAIN log : n \in DOMAIN log' /\ log'[n] = log[n]
    BY <2>3 DEF IsAppend
  <2>10. Len(log) + 1 \in DOMAIN log' /\ log'[Len(log) + 1] = queue[1]
    BY <2>3 DEF IsAppend
  <2>11. (\A n \in DOMAIN log : completion[log[n]] # "new" /\ ticket[log[n]] <= accepted)'
    BY <2>2, <2>4, <2>6, <2>7 DEF SettleInv
  <2>12. (\A m \in DOMAIN log, n \in DOMAIN queue :
            queue[n] \in Jobs => ticket[log[m]] < ticket[queue[n]])'
    BY <2>2, <2>4, <2>5, <2>6, <2>7
  <2>13. StartsInOrder'
    BY <2>2, <2>4, <2>6, <2>7, <2>8
  <2>14. (\A m, n \in DOMAIN queue :
           m < n /\ queue[m] \in Jobs /\ queue[n] \in Jobs =>
             ticket[queue[m]] < ticket[queue[n]])'
    <3> SUFFICES ASSUME NEW m \in DOMAIN queue', NEW n \in DOMAIN queue', m < n,
                        queue'[m] \in Jobs, queue'[n] \in Jobs
                 PROVE  ticket'[queue'[m]] < ticket'[queue'[n]]
      OBVIOUS
    <3>1. m + 1 < n + 1
      BY <2>5
    <3> QED
      BY <3>1, <2>4, <2>5
  <2>15. (\A n \in DOMAIN queue : queue[n] \in Jobs => ticket[queue[n]] <= accepted)'
    BY <2>4, <2>5
  <2>16. (\A v \in Workers : current[v] # NoJob => \E n \in DOMAIN log : log[n] = current[v])'
    BY <2>4, <2>9, <2>10
  <2> QED
    BY <2>11, <2>12, <2>13, <2>14, <2>15, <2>16
<1>6. ASSUME NEW w \in Workers, NEW outcome \in {"result", "error"}, Finish(w, outcome)
      PROVE OrderInv'
  BY <1>6 DEF Finish, TypeOK
<1>7. ASSUME NEW w \in Workers, TakeSentinel(w) PROVE OrderInv'
  BY <1>7 DEF TakeSentinel, Waiting, StopWorker, Queued, TypeOK
<1>8. ASSUME NEW w \in Workers, Crash(w) PROVE OrderInv'
  BY <1>8 DEF Crash, StopWorker, Queued, TypeOK
<1>9. ASSUME NEW w \in Workers, CrashUnstarted(w) PROVE OrderInv'
  BY <1>9 DEF CrashUnstarted, TypeOK
<1>10. ASSUME NEW c \in Closers, Close(c) PROVE OrderInv'
  <2>1. IsAppend(Append(queue, Sentinel), queue, Sentinel)
    <3>1. queue \in Seq(Jobs \cup {Sentinel})
      BY DEF TypeOK
    <3> QED
      BY ONLY <3>1, AppendFacts
  <2>2. queue' = queue \/ IsAppend(queue', queue, Sentinel)
    BY <1>10, <2>1 DEF Close
  <2>3. UNCHANGED <<completion, current, ticket, accepted, log>>
    BY <1>10 DEF Close
  <2>4. \A n \in DOMAIN queue' :
          (n \in DOMAIN queue /\ queue'[n] = queue[n]) \/ queue'[n] = Sentinel
    BY <2>2 DEF IsAppend
  <2> QED
    BY <2>3, <2>4
<1>11. ASSUME NEW c \in Closers, CloseAgain(c) PROVE OrderInv'
  BY <1>11 DEF CloseAgain, TypeOK
<1>12. ASSUME NEW c \in Closers, CloseEnds(c) PROVE OrderInv'
  BY <1>12 DEF CloseEnds, TypeOK
<1>13. CASE UNCHANGED vars
  BY <1>13 DEF vars
<1> HIDE DEF OrderInv
<1> QED
  BY <1>1, <1>2, <1>3, <1>4, <1>5, <1>6, <1>7, <1>8, <1>9, <1>10, <1>11, <1>12,
     <1>13 DEF Next

\* Nothing is accepted after close(), and the worker that meets the sentinel
\* leaves an empty queue.
LEMMA DrainStep == TypeOK /\ WorkerInv /\ SentinelInv /\ DrainInv /\ [Next]_vars => DrainInv'
<1> SUFFICES ASSUME TypeOK, WorkerInv, SentinelInv, DrainInv, [Next]_vars PROVE DrainInv'
  OBVIOUS
<1> USE ConstantsAssumption DEF WorkerInv, Live, SentinelInv, DrainInv, TaskStatus, CloserStatus
<1>1. ASSUME NEW j \in Jobs, Submit(j) PROVE DrainInv'
  BY <1>1 DEF Submit, EnsureWorker, TypeOK
<1>2. ASSUME NEW j \in Jobs, SubmitRefused(j) PROVE DrainInv'
  BY <1>2 DEF SubmitRefused, TypeOK
<1>3. ASSUME NEW j \in Jobs, CancelCaller(j) PROVE DrainInv'
  BY <1>3 DEF CancelCaller, TypeOK
<1>4. ASSUME NEW w \in Workers, StartWorker(w) PROVE DrainInv'
  BY <1>4 DEF StartWorker, TypeOK
<1>5. ASSUME NEW w \in Workers, Take(w) PROVE DrainInv'
  BY <1>5 DEF Take, Waiting, TypeOK
<1>6. ASSUME NEW w \in Workers, NEW outcome \in {"result", "error"}, Finish(w, outcome)
      PROVE DrainInv'
  BY <1>6 DEF Finish, TypeOK
<1>7. ASSUME NEW w \in Workers, TakeSentinel(w) PROVE DrainInv'
  BY <1>7 DEF TakeSentinel, Waiting, StopWorker, Queued, TypeOK
<1>8. ASSUME NEW w \in Workers, Crash(w) PROVE DrainInv'
  BY <1>8 DEF Crash, StopWorker, Queued, TypeOK
<1>9. ASSUME NEW w \in Workers, CrashUnstarted(w) PROVE DrainInv'
  BY <1>9 DEF CrashUnstarted, TypeOK
<1>10. ASSUME NEW c \in Closers, Close(c) PROVE DrainInv'
  <2>1. IsAppend(Append(queue, Sentinel), queue, Sentinel)
    BY AppendFacts DEF TypeOK
  <2>2. queue' = queue \/ IsAppend(queue', queue, Sentinel)
    BY <1>10, <2>1 DEF Close
  <2>3. \A n \in DOMAIN queue' :
          (n \in DOMAIN queue /\ queue'[n] = queue[n]) \/ queue'[n] = Sentinel
    BY <2>2 DEF IsAppend
  <2> QED
    BY <1>10, <2>3 DEF Close, TypeOK
<1>11. ASSUME NEW c \in Closers, CloseAgain(c) PROVE DrainInv'
  BY <1>11 DEF CloseAgain, TypeOK
<1>12. ASSUME NEW c \in Closers, CloseEnds(c) PROVE DrainInv'
  BY <1>12 DEF CloseEnds, TypeOK
<1>13. CASE UNCHANGED vars
  BY <1>13 DEF vars
<1> HIDE DEF DrainInv
<1> QED
  BY <1>1, <1>2, <1>3, <1>4, <1>5, <1>6, <1>7, <1>8, <1>9, <1>10, <1>11, <1>12,
     <1>13 DEF Next

-----------------------------------------------------------------------------
\* The conjunction of the parts is inductive.
THEOREM Invariance == Spec => []IInv
<1>1. Init => IInv
  <2> SUFFICES ASSUME Init PROVE IInv
    OBVIOUS
  <2>1. TypeOK
    <3>1. queue \in Seq(Jobs \cup {Sentinel}) /\ log \in Seq(Jobs)
      BY EmptySeq DEF Init
    <3> QED
      BY <3>1 DEF Init, TypeOK, TaskStatus, CompletionStatus, CloserStatus
  <2>2. WorkerInv
    BY DEF Init, WorkerInv, Live
  <2>3. DOMAIN queue = {} /\ DOMAIN log = {}
    BY DEF Init
  <2>4. SentinelInv /\ SettleInv
    BY <2>3 DEF Init, SentinelInv, SettleInv
  <2>5. OrderInv
    BY <2>3 DEF Init, OrderInv, StartsInOrder
  <2>6. DrainInv
    BY <2>3 DEF Init, DrainInv
  <2> QED
    BY <2>1, <2>2, <2>4, <2>5, <2>6 DEF IInv
<1>2. IInv /\ [Next]_vars => IInv'
  BY TypeStep, WorkerStep, SentinelStep, SettleStep, OrderStep, DrainStep DEF IInv
<1> QED
  BY <1>1, <1>2, PTL DEF Spec

\* Whatever submit(), close(), cancellations and crashes do, every variable of
\* the queue keeps its type.
THEOREM TypeCorrect == Spec => []TypeOK
<1>1. IInv => TypeOK
  BY DEF IInv
<1> QED
  BY <1>1, Invariance, PTL

\* _ensure_worker_locked() never lets two worker tasks be live, so two write
\* operations never overlap, however many submits and crashes there are.
THEOREM SingleWriter == Spec => []OneWriter
<1>1. IInv => OneWriter
  BY DEF IInv, WorkerInv, OneWriter, Live
<1> QED
  BY <1>1, Invariance, PTL

\* Write operations start in the order submit() accepted them, each at most once,
\* across worker restarts.
THEOREM FirstInFirstOut == Spec => []StartsInOrder
<1>1. IInv => StartsInOrder
  BY DEF IInv, OrderInv
<1> QED
  BY <1>1, Invariance, PTL

\* The close() that shuts the queue returns normally only when no operation is
\* running or queued and no submit() call is waiting.
THEOREM CloseDrains == Spec => []DrainedOnClose
<1>1. IInv => DrainedOnClose
  <2> SUFFICES ASSUME IInv, NEW c \in Closers, closer[c] = "drained"
               PROVE  /\ \A w \in Workers : ~Live(w) /\ current[w] = NoJob
                      /\ \A j \in Jobs : j \notin Queued /\ completion[j] # "pending"
    BY DEF DrainedOnClose
  <2>1. \A w \in Workers : ~Live(w) /\ current[w] = NoJob
    BY DEF IInv, WorkerInv, Live, DrainInv
  <2>2. \A n \in DOMAIN queue : queue[n] \notin Jobs
    BY DEF IInv, DrainInv
  <2> QED
    BY <2>1, <2>2, ConstantsAssumption DEF IInv, SettleInv, Queued
<1> QED
  BY <1>1, Invariance, PTL

\* An operation whose submit() call was rejected by a worker that stopped is not
\* started by a later worker.
THEOREM RejectionIsFinal == Spec => RejectedNeverStarts
<1> DEFINE Untouched == \A j \in Jobs :
                          completion[j] = "rejected" =>
                            \A n \in DOMAIN log' : log'[n] = j => n \in DOMAIN log
<1>1. IInv /\ [Next]_vars => Untouched
  <2> SUFFICES ASSUME IInv, [Next]_vars PROVE Untouched
    OBVIOUS
  <2>1. CASE log' = log
    BY <2>1
  <2>2. ASSUME NEW w \in Workers, Take(w) PROVE Untouched
    <3>1. IsTail(queue', queue) /\ Head(queue) = queue[1]
      BY <2>2, TailFacts DEF Take, IInv, TypeOK
    <3>2. 1 \in DOMAIN queue /\ queue[1] \in Jobs
      BY <2>2, <3>1 DEF Take, IInv, TypeOK, IsTail
    <3>3. IsAppend(log', log, queue[1])
      BY <2>2, <3>1, <3>2, AppendFacts DEF Take, IInv, TypeOK
    <3> QED
      BY <3>2, <3>3 DEF IsAppend, IInv, SettleInv
  <2> QED
    BY <2>1, <2>2
    DEF Next, vars, Submit, SubmitRefused, CancelCaller, StartWorker, Finish, TakeSentinel,
        Crash, StopWorker, CrashUnstarted, Close, CloseAgain, CloseEnds
<1> QED
  BY <1>1, Invariance, PTL DEF Spec, RejectedNeverStarts

\* A worker that stops rejects every caller that still waits: only its own job
\* and the queue can hold one.
LEMMA StopRejectsAll ==
  ASSUME IInv, NEW w \in Workers, task[w] = "running", NEW status, StopWorker(w, status)
  PROVE  /\ queue' = <<>>
         /\ handle = w
         /\ completion' = [j \in Jobs |-> IF completion[j] = "pending" THEN "rejected"
                                                                       ELSE completion[j]]
<1>1. handle = w /\ \A v \in Workers : current[v] # NoJob => v = w
  BY DEF IInv, WorkerInv, Live
<1>2. \A j \in Jobs : completion[j] = "pending" => j \in Queued \cup {current[w]}
  BY <1>1, ConstantsAssumption DEF IInv, SettleInv, Queued
<1> QED
  BY <1>1, <1>2 DEF StopWorker

\* No submit() call is left waiting for a worker that has stopped, unless the
\* worker was cancelled before its first step and has no successor yet.
THEOREM PendingIsServed == Spec => []PendingHasWorker
<1>1. Init => PendingHasWorker
  BY DEF Init, PendingHasWorker
<1>2. IInv /\ PendingHasWorker /\ [Next]_vars => PendingHasWorker'
  <2> SUFFICES ASSUME IInv, PendingHasWorker, [Next]_vars PROVE PendingHasWorker'
    OBVIOUS
  <2> USE DEF PendingHasWorker, Stranded, Live
  <2>0. TypeOK
    BY DEF IInv
  <2>1. ASSUME NEW j \in Jobs, Submit(j) PROVE PendingHasWorker'
    BY <2>0, <2>1 DEF Submit, EnsureWorker, TypeOK
  <2>2. ASSUME NEW j \in Jobs, SubmitRefused(j) \/ CancelCaller(j) PROVE PendingHasWorker'
    BY <2>0, <2>2 DEF SubmitRefused, CancelCaller, TypeOK
  <2>3. ASSUME NEW w \in Workers, StartWorker(w) PROVE PendingHasWorker'
    BY <2>0, <2>3 DEF StartWorker, TypeOK
  <2>4. ASSUME NEW w \in Workers, Take(w) PROVE PendingHasWorker'
    BY <2>4 DEF Take
  <2>5. ASSUME NEW w \in Workers, NEW outcome \in {"result", "error"}, Finish(w, outcome)
        PROVE PendingHasWorker'
    BY <2>0, <2>5 DEF Finish, TypeOK
  <2>6. ASSUME NEW w \in Workers, TakeSentinel(w) \/ Crash(w) PROVE PendingHasWorker'
    <3>1. \A j \in Jobs : completion'[j] # "pending"
      BY <2>6, StopRejectsAll DEF TakeSentinel, Crash, Waiting
    <3> QED
      BY <3>1
  <2>7. ASSUME NEW w \in Workers, CrashUnstarted(w) PROVE PendingHasWorker'
    BY <2>0, <2>7 DEF CrashUnstarted, IInv, WorkerInv, TypeOK
  <2>8. ASSUME NEW c \in Closers, Close(c) \/ CloseAgain(c) PROVE PendingHasWorker'
    BY <2>8 DEF Close, CloseAgain
  <2>9. ASSUME NEW c \in Closers, CloseEnds(c) PROVE PendingHasWorker'
    BY <2>9 DEF CloseEnds
  <2>10. CASE UNCHANGED vars
    BY <2>10 DEF vars
  <2> QED
    BY <2>1, <2>2, <2>3, <2>4, <2>5, <2>6, <2>7, <2>8, <2>9, <2>10 DEF Next
<1> QED
  BY <1>1, <1>2, Invariance, PTL DEF Spec

-----------------------------------------------------------------------------
(* Refinement of SerialWriter *)

\* While the queue is open its sentinel is not there yet.
LEMMA BacklogOpen ==
  ASSUME IInv, ~closed
  PROVE  Backlog = queue
  BY EmptySeq DEF IInv, TypeOK, SentinelInv, Backlog

\* Whichever part of the tasks makes a step, the callers see a step of
\* SerialWriter or nothing.
LEMMA RefinementStep == IInv /\ IInv' /\ [Next]_vars => [Serial!SNext]_Serial!svars
<1> SUFFICES ASSUME IInv, IInv', [Next]_vars PROVE [Serial!SNext]_Serial!svars
  OBVIOUS
<1> USE ConstantsAssumption
<1>0. TypeOK /\ WorkerInv
  BY DEF IInv
<1>1. ASSUME NEW j \in Jobs, Submit(j) PROVE Serial!Accept(j)
  <2>1. Backlog = queue /\ Backlog' = queue'
    <3>1. ~closed /\ ~closed'
      BY <1>1 DEF Submit
    <3>2. Backlog = queue
      BY <3>1, BacklogOpen
    <3>3. IsAppend(queue', queue, j) /\ queue' # <<>>
      BY <1>0, <1>1, AppendFacts DEF Submit, TypeOK
    <3>4. Backlog' = queue'
      BY <3>3 DEF Backlog, IsAppend
    <3> QED
      BY <3>2, <3>4
  <2>2. Executing' = Executing
    BY <1>0, <1>1 DEF Submit, EnsureWorker, Executing, TypeOK, WorkerInv, Live
  <2> QED
    BY <1>1, <2>1, <2>2 DEF Submit, Serial!Accept
<1>2. ASSUME NEW j \in Jobs, SubmitRefused(j) PROVE Serial!Refuse(j)
  BY <1>2 DEF SubmitRefused, Serial!Refuse, Backlog, Executing
<1>3. ASSUME NEW j \in Jobs, CancelCaller(j) PROVE Serial!Leave(j)
  BY <1>3 DEF CancelCaller, Serial!Leave, Backlog, Executing
<1>4. ASSUME NEW w \in Workers, StartWorker(w) PROVE UNCHANGED Serial!svars
  BY <1>4 DEF StartWorker, Serial!svars, Backlog, Executing
<1>5. ASSUME NEW w \in Workers, Take(w) PROVE Serial!Begin
  <2> DEFINE S == Jobs \cup {Sentinel}
  <2>1. queue \in Seq(S) /\ queue # <<>> /\ queue' = Tail(queue) /\ queue[1] # Sentinel
    BY <1>0, <1>5, TailFacts DEF Take, TypeOK
  <2>2. IsTail(queue', queue) /\ Head(queue) = queue[1] /\ queue' \in Seq(S)
    BY <2>1, TailFacts
  <2>3. Backlog # <<>> /\ Head(Backlog) = Head(queue) /\ Tail(Backlog) = Backlog'
    <3>1. CASE queue[Len(queue)] # Sentinel
      <4>1. Backlog = queue
        BY <3>1 DEF Backlog
      <4>2. queue' # <<>> => queue'[Len(queue')] = queue[Len(queue)]
        BY <2>2, EmptySeq DEF IsTail
      <4>3. Backlog' = queue'
        BY <3>1, <4>2 DEF Backlog
      <4> QED
        BY <2>1, <4>1, <4>3
    <3>2. CASE queue[Len(queue)] = Sentinel
      <4>1. Len(queue) \in Nat /\ Len(queue) > 1 /\ Len(queue') = Len(queue) - 1
        BY <2>1, <2>2, <3>2 DEF IsTail
      <4>2. queue'[Len(queue')] = Sentinel /\ queue' # <<>>
        BY <2>2, <3>2, <4>1, EmptySeq DEF IsTail
      <4>3. Backlog = SubSeq(queue, 1, Len(queue) - 1)
        BY <2>1, <3>2 DEF Backlog
      <4>4. Backlog' = SubSeq(Tail(queue), 1, Len(queue) - 2)
        BY <2>1, <4>1, <4>2 DEF Backlog
      <4>5. /\ Head(SubSeq(queue, 1, Len(queue) - 1)) = queue[1]
            /\ Tail(SubSeq(queue, 1, Len(queue) - 1)) = SubSeq(queue, 2, Len(queue) - 1)
        BY <2>1, <4>1, HeadTailOfSubSeq
      <4>6. SubSeq(Tail(queue), 1, Len(queue) - 2) = SubSeq(queue, 2, Len(queue) - 1)
        <5> DEFINE left  == SubSeq(Tail(queue), 1, Len(queue) - 2)
                   right == SubSeq(queue, 2, Len(queue) - 1)
        <5>1. /\ \A n \in 1 .. Len(queue) - 2 : Tail(queue)[n] \in S
              /\ \A n \in 1 .. Len(queue) - 2 : Tail(queue)[n] = queue[n + 1]
              /\ \A n \in 2 .. Len(queue) - 1 : queue[n] \in S
          BY <2>1, <2>2, <4>1 DEF IsTail
        <5>2. /\ left \in Seq(S)
              /\ Len(left) = Len(queue) - 2
              /\ \A n \in 1 .. Len(queue) - 2 : left[n] = Tail(queue)[n]
          BY <4>1, <5>1, SubSeqProperties
        <5>3. /\ right \in Seq(S)
              /\ Len(right) = Len(queue) - 2
              /\ \A n \in 1 .. Len(queue) - 2 : right[n] = queue[n + 1]
          BY <4>1, <5>1, SubSeqProperties
        <5> QED
          BY <5>1, <5>2, <5>3, SeqEqual
      <4>7. SubSeq(queue, 1, Len(queue) - 1) # <<>>
        <5>1. \A n \in 1 .. Len(queue) - 1 : queue[n] \in S
          BY <2>1, <2>2 DEF IsTail
        <5>2. Len(SubSeq(queue, 1, Len(queue) - 1)) = Len(queue) - 1
          BY <4>1, <5>1, SubSeqProperties
        <5>3. Len(queue) - 1 # 0
          BY <4>1
        <5>4. Len(<<>>) = 0
          BY EmptySeq
        <5> QED
          BY <5>2, <5>3, <5>4, Zenon
      <4> QED
        BY <2>2, <4>3, <4>4, <4>5, <4>6, <4>7
    <3> QED
      BY <3>1, <3>2
  <2>4. Executing = NoJob /\ Executing' = Head(queue)
    BY <1>0, <1>5 DEF Take, Waiting, Executing, WorkerInv, Live, TypeOK
  <2> QED
    BY <1>5, <2>3, <2>4 DEF Take, Serial!Begin
<1>6. ASSUME NEW w \in Workers, NEW how \in {"result", "error"}, Finish(w, how)
      PROVE Serial!Complete(how)
  <2>1. handle = w /\ Executing = current[w] /\ Executing' = NoJob /\ current[w] # NoJob
    BY <1>0, <1>6 DEF Finish, Executing, WorkerInv, Live, TypeOK
  <2> QED
    BY <1>6, <2>1 DEF Finish, Serial!Complete, Backlog
<1>7. ASSUME NEW w \in Workers, NEW status, task[w] = "running", StopWorker(w, status)
      PROVE Serial!Fail
  <2>1. queue' = <<>> /\ handle = w
    BY <1>7, StopRejectsAll
  <2>2. Backlog' = <<>>
    BY <2>1 DEF Backlog
  <2>3. Executing' = NoJob
    BY <1>0, <1>7, <2>1 DEF StopWorker, Executing, TypeOK
  <2> QED
    BY <1>7, <2>2, <2>3, StopRejectsAll DEF StopWorker, Serial!Fail
<1>8. ASSUME NEW w \in Workers, CrashUnstarted(w) PROVE UNCHANGED Serial!svars
  BY <1>8 DEF CrashUnstarted, Serial!svars, Backlog, Executing
<1>9. ASSUME NEW c \in Closers, Close(c) PROVE Serial!Shut
  <2>1. Backlog = queue
    BY <1>9, BacklogOpen DEF Close
  <2>2. Backlog' = queue
    <3>1. CASE queue' = queue
      BY <2>1, <3>1 DEF Backlog
    <3>2. CASE queue' = Append(queue, Sentinel)
      <4>1. IsAppend(queue', queue, Sentinel)
        BY <1>0, <3>2, AppendFacts DEF TypeOK
      <4> queue' # <<>>
        BY <4>1, EmptySeq DEF IsAppend
      <4>2. Backlog' = SubSeq(Append(queue, Sentinel), 1, Len(queue))
        BY <3>2, <4>1 DEF Backlog, IsAppend
      <4>3. SubSeq(Append(queue, Sentinel), 1, Len(queue)) = queue
        BY <1>0 DEF TypeOK
      <4> QED
        BY <4>2, <4>3
    <3> QED
      BY <1>9, <3>1, <3>2 DEF Close
  <2> QED
    BY <1>9, <2>1, <2>2 DEF Close, Serial!Shut, Executing
<1>10. ASSUME NEW c \in Closers, CloseAgain(c) PROVE UNCHANGED Serial!svars
  BY <1>10 DEF CloseAgain, Serial!svars, Backlog, Executing
<1>11. ASSUME NEW c \in Closers, CloseEnds(c) PROVE UNCHANGED Serial!svars
  <2>1. Executing' = Executing
    BY <1>0, <1>11 DEF CloseEnds, Executing, WorkerInv, TypeOK
  <2> QED
    BY <1>11, <2>1 DEF CloseEnds, Serial!svars, Backlog
<1>12. CASE UNCHANGED vars
  BY <1>12 DEF vars, Serial!svars, Backlog, Executing
<1> QED
  BY <1>1, <1>2, <1>3, <1>4, <1>5, <1>6, <1>7, <1>8, <1>9, <1>10, <1>11, <1>12
  DEF Next, TakeSentinel, Crash, Waiting, Serial!SNext

\* The asyncio queue, its worker tasks and its sentinel implement one serial
\* writer with an orderly line.
THEOREM Refinement == Spec => ImplementsSerialWriter
<1>1. Init => Serial!SInit
  BY DEF Init, Serial!SInit, Backlog, Executing
<1> QED
  BY <1>1, RefinementStep, Invariance, PTL DEF Spec, ImplementsSerialWriter, Serial!SSpec
=============================================================================
