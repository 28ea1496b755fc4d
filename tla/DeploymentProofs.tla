--------------------------- MODULE DeploymentProofs ---------------------------
(***************************************************************************)
(* Proofs about the processes on one database, for any number of them, of  *)
(* keys, values, tokens, Telegram accounts, kills and restarts: first about *)
(* the bootstrap token and about the lifetime of a process by themselves,  *)
(* then that the composition implements both, and what follows for it and  *)
(* for the settings.                                                       *)
(***************************************************************************)
EXTENDS Deployment, TLAPS

(* The bootstrap token.  No step of one process is covered by a transaction   *)
(* with the next, so the argument is about who is between the two writes: at  *)
(* most one process is, and the digest is the one it stored.                  *)

Between(p) == pc[p] \in {"write", "rollback"}

\* The inductive invariant.  WriteFailuresRecover speaks of a digest that is left
\* when nobody is between the writes; that it was written to the file, or is
\* taken back, depends on whose digest it is while somebody is.
TokenInv ==
  /\ TypeOK
  /\ \A p \in Procs : pc[p] = "create" => token[p] \in Tokens
  /\ \A p \in Procs : Between(p) => token[p] \in Tokens /\ digest = token[p]
  /\ WriteFailuresRecover

\* Nothing is stored at first.
LEMMA TokenInit == Init => TokenInv
  BY BootstrapAssumption DEF Init, TokenInv, TypeOK, Between, Busy, WriteFailuresRecover

\* Every step keeps at most one process between the two writes.
LEMMA TokenInvStep == TokenInv /\ [Next]_vars => TokenInv'
<1> USE BootstrapAssumption
<1> SUFFICES ASSUME TokenInv, [Next]_vars PROVE TokenInv'
  OBVIOUS
<1> USE DEF TokenInv, TypeOK, Between, Busy, WriteFailuresRecover, GoTo
<1>1. ASSUME NEW p \in Procs, GetDigest(p) PROVE TokenInv'
  <2>1. CASE digest # Nothing
    BY <1>1, <2>1 DEF GetDigest
  <2>2. CASE digest = Nothing
    <3> DEFINE t == CHOOSE u \in Fresh : TRUE
    <3>1. t \in Tokens
      BY <1>1, <2>2 DEF GetDigest, Fresh
    <3>2. pc' = [pc EXCEPT ![p] = "create"] /\ token' = [token EXCEPT ![p] = t]
      BY <1>1, <2>2 DEF GetDigest
    <3> HIDE DEF t
    <3> QED
      BY <1>1, <2>2, <3>1, <3>2 DEF GetDigest
  <2> QED
    BY <2>1, <2>2
<1>2. ASSUME NEW p \in Procs, Create(p) PROVE TokenInv'
  BY <1>2 DEF Create
<1>3. ASSUME NEW p \in Procs, Write(p) PROVE TokenInv'
  BY <1>3 DEF Write
<1>4. ASSUME NEW p \in Procs, WriteFails(p) PROVE TokenInv'
  BY <1>4 DEF WriteFails
<1>5. ASSUME NEW p \in Procs, Rollback(p) PROVE TokenInv'
  BY <1>5 DEF Rollback
<1>6. ASSUME NEW p \in Procs, StatementFails(p) PROVE TokenInv'
  BY <1>6 DEF StatementFails
<1>7. ASSUME NEW p \in Procs, Restart(p) PROVE TokenInv'
  BY <1>7 DEF Restart
<1>8. ASSUME NEW p \in Procs, Crash(p) PROVE TokenInv'
  BY <1>8 DEF Crash
<1>9. CASE UNCHANGED vars
  BY <1>9 DEF vars
<1> QED
  BY <1>1, <1>2, <1>3, <1>4, <1>5, <1>6, <1>7, <1>8, <1>9 DEF Next, Startup

\* ensure_bootstrap_bearer_token() leaves a database and a file that belong
\* together, and one process at most between writing the two.
THEOREM TokenInvariance == Spec => []TokenInv
  BY TokenInit, TokenInvStep, PTL DEF Spec

\* As long as no process is killed, a digest that nobody is about to write out or
\* take back has its token in the file.
THEOREM FailuresAreRolledBack == Spec => []WriteFailuresRecover
  BY TokenInvariance, PTL DEF TokenInv

\* No start, restart or failed start replaces or removes a digest whose token was
\* handed out.
THEOREM TokenStays == Spec => TokenIsNotRotated
<1>1. TokenInv /\ [Next]_vars => [digest # Nothing /\ ~Busy => digest' = digest]_vars
  BY DEF TokenInv, TypeOK, Next, Startup, GetDigest, Create, Write, WriteFails, Rollback,
         StatementFails, Restart, Crash, GoTo, Busy, vars
<1> QED
  BY <1>1, TokenInvariance, PTL DEF Spec, TokenIsNotRotated

-----------------------------------------------------------------------------
(* The lifetime of a process, whichever steps fail or hang *)

Names == {"db", "settings", "auth", "telethon", "scheduler", "bot"}

Where ==
  /\ phase \in {"opening", "starting", "serving", "stopping", "done"}
  /\ at \in 0 .. 9
  /\ phase = "stopping" <=> at \in 1 .. 8
  /\ phase = "done" <=> at = 9

\* The loops, the queue and the engines.  A loop has ended when the sequence is
\* past its step, or was never started; the queue is closed when it is past the
\* third, and then holds nothing.
QueueInv ==
  /\ loop \in [Loops -> {"off", "idle", "busy", "writing", "ended"}]
  /\ \A l \in Loops : l \notin Range(started) => loop[l] = "off"
  /\ at > 1 => loop["bot"] \in {"off", "ended"}
  /\ at > 2 => loop["scheduler"] \in {"off", "ended"}
  /\ queue \in {"none", "open", "closed", "drained"}
  /\ queue \in {"closed", "drained"} => at > 2
  /\ at > 3 => queue \in {"none", "drained"}
  /\ queue \in {"none", "drained"} => pending = {}
  /\ runtime \in {"none", "open", "disposed"}
  /\ runtime = "disposed" => queue \in {"none", "drained"}

\* How many dependencies the sequence has not come to yet, when it is at step a.
Left(a) ==
  IF a = 0 THEN 6 ELSE IF a <= 2 THEN 7 - a ELSE IF a = 3 THEN 4
  ELSE IF a <= 8 THEN 8 - a ELSE 0

\* How many shutdowns were called before step a, and including it.
Before(a) == IF Len(started) > Left(a) THEN Len(started) - Left(a) ELSE 0
Within(a) == Before(a) + 1

\* The dependencies: the first ones of Order are started, and the last ones of
\* those were shut down, as many as the sequence has come to.  In the step of a
\* loop the shutdown was called before the step is over.
OrderInv ==
  /\ started \in Seq(Names) /\ Len(started) \in 0 .. 6
  /\ \A i \in 1 .. Len(started) : started[i] = Order[i]
  /\ down \in Seq(Names)
  /\ \A i \in 1 .. Len(down) : down[i] = Order[Len(started) + 1 - i]
  /\ at = 0 => down = <<>>
  /\ \/ Len(down) = Before(at)
     \/ at \in {1, 2} /\ Left(at) <= Len(started) /\ Len(down) = Within(at)

LifespanInv == Where /\ QueueInv /\ OrderInv

-----------------------------------------------------------------------------
\* The steps of the sequence, by their number.
LEMMA StepFacts ==
  ASSUME Where
  PROVE  /\ Step = "bot" => at = 1
         /\ Step = "scheduler" => at = 2
         /\ Step = "queue" => at = 3
         /\ Step = "dispose" => at = 8
         /\ Step \in Range(Order) => at \in {1, 2, 4, 5, 6, 7} /\ Step = Order[Left(at)]
         /\ Step # "none" => at \in 1 .. 8 /\ phase = "stopping"
<1>1. Range(Order) = Names
  BY DEF Order, Range, Names
<1>2. CASE phase # "stopping"
  BY <1>1, <1>2 DEF Step, Names
<1>3. CASE phase = "stopping"
  <2>1. at \in {1, 2, 3, 4, 5, 6, 7, 8} /\ Step = Steps[at]
    BY <1>3 DEF Where, Step
  <2> QED
    BY <1>1, <1>3, <2>1 DEF Steps, Order, Left, Names
<1> QED
  BY <1>2, <1>3

\* Nothing is in Order twice.
LEMMA OrderFacts ==
  /\ Len(Order) = 6 /\ Len(Steps) = 8
  /\ \A i \in 1 .. 6 : Order[i] \in Names
  /\ \A i, j \in 1 .. 6 : Order[i] = Order[j] => i = j
<1>1. Len(Order) = 6 /\ Len(Steps) = 8
  BY DEF Order, Steps
<1>2. /\ Order[1] = "db" /\ Order[2] = "settings" /\ Order[3] = "auth"
      /\ Order[4] = "telethon" /\ Order[5] = "scheduler" /\ Order[6] = "bot"
  BY DEF Order
<1>3. \A i \in 1 .. 6 : i = 1 \/ i = 2 \/ i = 3 \/ i = 4 \/ i = 5 \/ i = 6
  OBVIOUS
<1>4. \A i \in 1 .. 6 : Order[i] \in Names
  BY <1>2, <1>3 DEF Names
<1>5. ASSUME NEW i \in 1 .. 6, NEW j \in 1 .. 6, Order[i] = Order[j] PROVE i = j
  BY <1>2, <1>3, <1>5
<1> QED
  BY <1>1, <1>4, <1>5

\* A dependency is started when enough are.
LEMMA StartedFacts ==
  ASSUME OrderInv, NEW i \in 1 .. 6
  PROVE  Order[i] \in Range(started) <=> i <= Len(started)
  BY SMTT(30), OrderFacts DEF OrderInv, Range

\* In the step of a dependency, its shutdown was called or it is still to be.
LEMMA DownFacts ==
  ASSUME Where, OrderInv, at \in {1, 2, 4, 5, 6, 7}
  PROVE  Order[Left(at)] \in Range(down) <=>
           Left(at) <= Len(started) /\ Len(down) = Within(at)
<1>1. Left(at) \in 1 .. 6 /\ Len(started) \in 0 .. 6 /\ Len(down) \in Nat
  <2>1. Left(at) \in 1 .. 6
    BY DEF Left
  <2>2. Len(started) \in 0 .. 6 /\ Len(down) \in Nat
    BY DEF OrderInv
  <2> QED
    BY <2>1, <2>2
<1>2. Range(down) = {Order[Len(started) + 1 - i] : i \in 1 .. Len(down)}
  <2>1. down \in Seq(Names) /\ \A i \in 1 .. Len(down) : down[i] = Order[Len(started) + 1 - i]
    BY DEF OrderInv
  <2>2. DOMAIN down = 1 .. Len(down)
    BY <2>1
  <2> QED
    BY <2>1, <2>2 DEF Range
<1>3. Len(down) \in {Before(at), Within(at)}
  BY DEF OrderInv
<1>4. Len(down) <= Len(started)
  BY <1>1, <1>3 DEF OrderInv, Before, Within
<1>5. ASSUME Order[Left(at)] \in Range(down)
      PROVE  Left(at) <= Len(started) /\ Len(down) = Within(at)
  <2>1. PICK i \in 1 .. Len(down) : Order[Len(started) + 1 - i] = Order[Left(at)]
    BY <1>2, <1>5
  <2>2. Len(started) + 1 - i \in 1 .. 6
    <3> DEFINE n == Len(started)
               d == Len(down)
    <3>1. n \in 0 .. 6 /\ d \in Nat /\ d <= n /\ i \in 1 .. d
      BY <1>1, <1>4
    <3> HIDE DEF n, d
    <3>2. n + 1 - i \in 1 .. 6
      BY <3>1
    <3> QED
      BY <3>2 DEF n
  <2>3. Len(started) + 1 - i = Left(at)
    BY <1>1, <2>1, <2>2, OrderFacts
  <2> QED
    BY <1>1, <1>3, <2>3 DEF Before, Within
<1>6. ASSUME Left(at) <= Len(started), Len(down) = Within(at)
      PROVE  Order[Left(at)] \in Range(down)
  <2>1. Len(down) = Len(started) + 1 - Left(at)
    BY <1>1, <1>6 DEF Before, Within
  <2>2. Len(down) \in 1 .. Len(down) /\ Len(started) + 1 - Len(down) = Left(at)
    BY SMTT(30), <1>1, <1>6, <2>1
  <2> QED
    BY <1>2, <2>2
<1> QED
  BY <1>5, <1>6

\* The bookkeeping of the sequence.
LEMMA LeftFacts ==
  /\ \A a \in {1, 2, 4, 5, 6, 7} : Left(a) \in 1 .. 6 /\ Left(a + 1) = Left(a) - 1
  /\ Left(0) = 6 /\ Left(1) = 6 /\ Left(3) = 4 /\ Left(4) = 4 /\ Left(8) = 0 /\ Left(9) = 0
  BY DEF Left

\* A step ends: its dependency was not started, or it was shut down, or the step
\* has none.
LEMMA Advance ==
  ASSUME Where, OrderInv, at \in 1 .. 8, at' = at + 1, UNCHANGED <<started, down>>,
         \/ at \in {3, 8}
         \/ Len(started) < Left(at)
         \/ Left(at) <= Len(started) /\ Len(down) = Within(at)
  PROVE  OrderInv'
<1> DEFINE n == Len(started)
           d == Len(down)
           left == Left(at)
<1>1. n \in 0 .. 6 /\ d \in Nat
  BY DEF OrderInv
<1>2. d = Before(at) \/ (left <= n /\ d = Within(at) /\ at \in {1, 2})
  BY DEF OrderInv
<1>3. at \in {1, 2, 4, 5, 6, 7} => left \in 1 .. 6 /\ Left(at + 1) = left - 1
  BY LeftFacts
<1>4. at \in {3, 8} => left \in {0, 4} /\ Left(at + 1) = left
  BY LeftFacts
<1>5. at \in {1, 2, 3, 4, 5, 6, 7, 8}
  OBVIOUS
<1>6. /\ Before(at) = IF n > left THEN n - left ELSE 0
      /\ Within(at) = Before(at) + 1
      /\ Before(at)' = IF n > Left(at + 1) THEN n - Left(at + 1) ELSE 0
  BY DEF Before, Within
<1>7. d = Before(at)'
  <2> DEFINE next == Left(at + 1)
             before == Before(at)
             within == Within(at)
             after == Before(at)'
  <2> HIDE DEF n, d, left, next, before, within, after
  <2>1. CASE at \in {3, 8}
    <3>1. d = before /\ next = left /\ left \in {0, 4}
      BY <1>2, <1>4, <2>1 DEF n, d, left, next, before
    <3>2. before = (IF n > left THEN n - left ELSE 0) /\ after = (IF n > next THEN n - next ELSE 0)
      BY <1>6 DEF n, left, next, before, after
    <3> QED
      BY <3>1, <3>2 DEF after
  <2>2. CASE at \notin {3, 8}
    <3>1. left \in 1 .. 6 /\ next = left - 1
      BY <1>3, <1>5, <2>2 DEF left, next
    <3>2. /\ d = before \/ (left <= n /\ d = within)
          /\ n < left \/ (left <= n /\ d = within)
      BY <1>2, <2>2 DEF n, d, left, before, within
    <3>3. /\ before = IF n > left THEN n - left ELSE 0
          /\ within = before + 1
          /\ after = IF n > next THEN n - next ELSE 0
      BY <1>6 DEF n, left, next, before, within, after
    <3>4. d = after
      <4>1. n \in 0 .. 6 /\ d \in Nat
        BY <1>1 DEF n, d
      <4> QED
        BY <3>1, <3>2, <3>3, <4>1
    <3> QED
      BY <3>4 DEF after, d
  <2> QED
    BY <2>1, <2>2
<1> QED
  BY <1>7 DEF OrderInv

\* A shutdown is called: the one of the last dependency that is still up.
LEMMA CallDown ==
  ASSUME Where, OrderInv, at \in {1, 2, 4, 5, 6, 7}, Left(at) <= Len(started),
         Len(down) = Before(at),
         UNCHANGED started, down' = Append(down, Order[Left(at)]),
         IF at \in {1, 2} THEN at' = at ELSE at' = at + 1
  PROVE  OrderInv'
<1> DEFINE n == Len(started)
           d == Len(down)
           left == Left(at)
<1>1. n \in 0 .. 6 /\ d \in Nat /\ down \in Seq(Names)
  BY DEF OrderInv
<1>2. left \in 1 .. 6 /\ Left(at + 1) = left - 1 /\ left <= n
  BY LeftFacts
<1>3. Order[left] \in Names
  BY <1>2, OrderFacts
<1>4. /\ down' \in Seq(Names) /\ Len(down') = d + 1
      /\ down'[d + 1] = Order[left]
      /\ \A i \in 1 .. d : down'[i] = down[i]
  BY <1>1, <1>3
<1>5. d = n - left
  BY <1>1, <1>2 DEF Before
<1>6. \A i \in 1 .. Len(down') : down'[i] = Order[n + 1 - i]
  <2> SUFFICES ASSUME NEW i \in 1 .. d + 1 PROVE down'[i] = Order[n + 1 - i]
    BY <1>4
  <2>1. CASE i = d + 1
    <3>1. n + 1 - i = left
      <4>1. n \in 0 .. 6 /\ left \in 1 .. 6 /\ d = n - left /\ i = d + 1
        BY <1>1, <1>2, <1>5, <2>1
      <4> HIDE DEF n, d, left
      <4> QED
        BY <4>1
    <3> QED
      BY <1>4, <2>1, <3>1
  <2>2. CASE i \in 1 .. d
    BY <1>4, <2>2 DEF OrderInv
  <2> QED
    BY <1>1, <2>1, <2>2
<1>7. Len(down') = n + 1 - left
  BY <1>1, <1>2, <1>4, <1>5
<1>8. \/ Len(down') = Before(at)'
      \/ at' \in {1, 2} /\ Left(at') <= n /\ Len(down') = Within(at)'
  <2>1. CASE at \in {1, 2}
    <3>1. at' = at /\ Within(at)' = n + 1 - left
      BY <1>1, <1>2, <2>1 DEF Within, Before
    <3> QED
      BY <1>2, <1>7, <2>1, <3>1
  <2>2. CASE at \notin {1, 2}
    <3>1. at' = at + 1 /\ Before(at)' = n + 1 - left
      BY <1>1, <1>2, <2>2 DEF Before
    <3> QED
      BY <1>7, <3>1
  <2> QED
    BY <2>1, <2>2
<1>9. at' # 0
  OBVIOUS
<1> QED
  BY <1>4, <1>6, <1>8, <1>9 DEF OrderInv

\* Every step keeps the order in which dependencies are started and shut down.
LEMMA OrderStep ==
  ASSUME Where, OrderInv, LifespanNext
  PROVE  OrderInv'
<1> USE OrderFacts
<1>1. CASE UNCHANGED <<started, at, down>>
  BY <1>1 DEF OrderInv, Before, Within
<1>2. CASE phase \in {"opening", "starting", "serving"} /\ EnterShutdown /\ UNCHANGED <<started, down>>
  <2>1. at = 0 /\ at' = 1
    BY <1>2 DEF Where, EnterShutdown
  <2>2. Before(at)' = Before(at)
    BY <1>2, <2>1, LeftFacts DEF Before
  <2> QED
    BY <1>2, <2>1, <2>2 DEF OrderInv
<1>3. ASSUME NEW d \in Range(Order), DependencyStartup(d) PROVE OrderInv'
  <2>1. at = 0 /\ down = <<>> /\ UNCHANGED <<at, down>>
    BY <1>3 DEF DependencyStartup, Starting, Where, OrderInv
  <2>2. /\ Len(started) \in 0 .. 5 /\ started \in Seq(Names)
        /\ started' = Append(started, Order[Len(started) + 1])
    BY <1>3 DEF DependencyStartup, Starting, OrderInv
  <2>3. Order[Len(started) + 1] \in Names
    <3> DEFINE n == Len(started) + 1
    <3>1. n \in 1 .. 6
      BY <2>2
    <3> HIDE DEF n
    <3>2. Order[n] \in Names
      BY <3>1, OrderFacts
    <3> QED
      BY <3>2 DEF n
  <2>4. /\ started' \in Seq(Names) /\ Len(started') = Len(started) + 1
        /\ started'[Len(started) + 1] = Order[Len(started) + 1]
        /\ \A i \in 1 .. Len(started) : started'[i] = started[i]
    BY <2>2, <2>3
  <2>5. \A i \in 1 .. Len(started') : started'[i] = Order[i]
    BY <2>2, <2>4 DEF OrderInv
  <2>6. Before(at)' = 0
    <3>1. Len(started') \in 1 .. 6
      BY <2>2, <2>4
    <3>2. Left(at') = 6
      BY <2>1, LeftFacts
    <3> DEFINE n == Len(started')
    <3>3. ~(n > 6)
      <4> HIDE DEF n
      <4>1. n \in 1 .. 6
        BY <3>1 DEF n
      <4> QED
        BY ONLY <4>1
    <3> QED
      BY <3>2, <3>3 DEF Before
  <2>7. Len(down') = 0 /\ down' \in Seq(Names)
    BY <2>1
  <2> QED
    BY SMTT(30), <2>1, <2>2, <2>4, <2>5, <2>6, <2>7 DEF OrderInv
<1>4. CASE Skip
  <2>1. at \in 1 .. 8 /\ at' = at + 1 /\ UNCHANGED <<started, down>>
    BY <1>4, StepFacts DEF Skip, GoOn, Where
  <2>2. CASE Step \in {"queue", "dispose"}
    BY <2>1, <2>2, StepFacts, Advance
  <2>3. CASE Step \in Range(Order) /\ Step \notin Range(started)
    <3>1. Step = Order[Left(at)] /\ Left(at) \in 1 .. 6
      BY <2>3, StepFacts, LeftFacts
    <3>2. ~(Left(at) <= Len(started))
      BY <2>3, <3>1, StartedFacts
    <3>3. Len(started) < Left(at)
      BY <3>1, <3>2 DEF OrderInv
    <3> QED
      BY <2>1, <3>3, Advance
  <2> QED
    BY <1>4, <2>2, <2>3 DEF Skip
<1>5. ASSUME NEW l \in Loops, StopLoop(l) PROVE OrderInv'
  <2>1. l \in Range(Order)
    BY DEF Loops, Order, Range
  <2>2. at \in {1, 2} /\ l = Order[Left(at)] /\ Left(at) \in 1 .. 6
    BY <1>5, <2>1, StepFacts, LeftFacts DEF StopLoop, Loops
  <2>3. Left(at) <= Len(started)
    BY <1>5, <2>2, StartedFacts DEF StopLoop
  <2>4. Len(down) = Before(at)
    BY <1>5, <2>2, <2>3, DownFacts DEF StopLoop, OrderInv
  <2> QED
    BY <1>5, <2>2, <2>3, <2>4, CallDown DEF StopLoop
<1>6. ASSUME NEW l \in Loops, LoopStopped(l) \/ DrainTimesOut(l) PROVE OrderInv'
  <2>1. l \in Range(Order)
    BY DEF Loops, Order, Range
  <2>2. at \in {1, 2} /\ l = Order[Left(at)] /\ l \in Range(down)
    BY <1>6, <2>1, StepFacts DEF LoopStopped, DrainTimesOut, Loops
  <2>3. Left(at) <= Len(started) /\ Len(down) = Within(at)
    BY <2>2, DownFacts
  <2> QED
    BY <1>6, <2>2, <2>3, Advance DEF LoopStopped, DrainTimesOut, GoOn
<1>7. CASE QueueClosed
  BY <1>7, StepFacts, Advance DEF QueueClosed, GoOn
<1>8. ASSUME NEW failed \in BOOLEAN, DisposeRuntime(failed) PROVE OrderInv'
  BY <1>8, StepFacts, Advance DEF DisposeRuntime, GoOn
<1>9. ASSUME NEW failed \in BOOLEAN, NEW d \in Range(Order), Shutdown(d, failed) PROVE OrderInv'
  <2>1. at \in {1, 2, 4, 5, 6, 7} /\ d = Order[Left(at)] /\ Left(at) \in 1 .. 6
    BY <1>9, StepFacts, LeftFacts DEF Shutdown
  <2>2. at \notin {1, 2}
    BY <1>9, <2>1 DEF Shutdown, Loops, Order, Left
  <2>3. Left(at) <= Len(started)
    BY <1>9, <2>1, StartedFacts DEF Shutdown
  <2>4. Len(down) = Before(at)
    BY <2>2 DEF OrderInv
  <2> QED
    BY <1>9, <2>1, <2>2, <2>3, <2>4, CallDown DEF Shutdown, GoOn
<1>10. CASE RestartProcess \/ Killed
  <2>1. started' = <<>> /\ down' = <<>> /\ at' = 0
    BY <1>10 DEF RestartProcess, Killed, NewProcess
  <2>2. Len(started') = 0 /\ Len(down') = 0 /\ started' \in Seq(Names) /\ down' \in Seq(Names)
    BY <2>1
  <2> QED
    BY <2>1, <2>2, LeftFacts DEF OrderInv, Before
<1> QED
  BY <1>1, <1>2, <1>3, <1>4, <1>5, <1>6, <1>7, <1>8, <1>9, <1>10
  DEF LifespanNext, ShutdownStep, Open, OpenFails, Serve, CookieKeyFails, Sigterm, ApiWrite,
      Connect, StartupFails, Starting, Tick, Submit, EndTick, EndLoop, JobDone, CloseQueue, Disconnect, lifeVars

\* Every step moves the sequence on by one at most.
LEMMA WhereStep ==
  ASSUME Where, LifespanNext
  PROVE  Where'
<1> USE OrderFacts DEF Where
<1>1. CASE UNCHANGED <<phase, at>>
  BY <1>1
<1>2. ASSUME NEW failed, Step # "none", GoOn(failed) PROVE Where'
  BY <1>2, StepFacts DEF GoOn
<1>3. CASE phase \in {"opening", "starting", "serving"} /\ EnterShutdown
  BY <1>3 DEF EnterShutdown
<1>4. CASE Open \/ Serve \/ RestartProcess \/ Killed
  BY <1>4 DEF Open, Serve, RestartProcess, Killed, NewProcess
<1>5. "none" \notin Range(Order)
  BY DEF Order, Range
<1> QED
  BY <1>1, <1>2, <1>3, <1>4, <1>5
  DEF LifespanNext, ShutdownStep, OpenFails, CookieKeyFails, Sigterm, ApiWrite, Connect,
      DependencyStartup, StartupFails, Starting, Tick, Submit, EndTick, EndLoop, JobDone, lifeVars, Skip, StopLoop,
      LoopStopped, DrainTimesOut, CloseQueue, QueueClosed, Disconnect, Shutdown,
      DisposeRuntime, Loops, appVars

\* Every step keeps the queue open for the loops, and the engines for the queue.
LEMMA QueueStep ==
  ASSUME Where, OrderInv, QueueInv, LifespanNext
  PROVE  QueueInv'
<1> USE DEF QueueInv, Loops
<1>0. phase \in {"opening", "starting", "serving"} => at = 0
  BY DEF Where
<1>1. CASE UNCHANGED <<started, at, loop, queue, pending, runtime>>
  BY <1>1
<1>2. CASE at = 0 /\ at' = 1 /\ UNCHANGED <<started, loop, queue, pending, runtime>>
  BY <1>2
<1>3. CASE Open
  BY <1>3 DEF Open, Where
<1>4. ASSUME NEW d \in Range(Order), DependencyStartup(d) PROVE QueueInv'
  <2>1. at = 0 /\ UNCHANGED <<at, queue, pending, runtime>>
    BY <1>4 DEF DependencyStartup, Starting, Where, appVars
  <2>2. started' = Append(started, d) /\ started \in Seq(Names)
    BY <1>4 DEF DependencyStartup, OrderInv
  <2>3. Range(started') = Range(started) \cup {d}
    BY <2>2 DEF Range
  <2> QED
    BY <1>4, <2>1, <2>3 DEF DependencyStartup
<1>5. CASE ApiWrite
  BY <1>5 DEF ApiWrite, lifeVars
<1>6. ASSUME NEW l \in Loops, Tick(l) \/ Submit(l) \/ EndTick(l) \/ EndLoop(l)
      PROVE  QueueInv'
  BY <1>6 DEF Tick, Submit, EndTick, EndLoop, lifeVars
<1>7. ASSUME NEW o \in Loops \cup {"api"}, JobDone(o) PROVE QueueInv'
  BY <1>7 DEF JobDone, lifeVars
<1>8. CASE Skip
  <2>1. /\ at \in 1 .. 8 /\ at' = at + 1
        /\ UNCHANGED <<started, loop, queue, pending, runtime>>
    BY <1>8, StepFacts DEF Skip, GoOn, loopVars, Where
  <2>2. /\ at = 1 => "bot" \notin Range(started)
        /\ at = 2 => "scheduler" \notin Range(started)
        /\ at = 3 => queue = "none"
    BY <1>8, StepFacts DEF Skip, Where, Step, Steps
  <2> QED
    BY <2>1, <2>2
<1>9. ASSUME NEW l \in Loops, LoopStopped(l) \/ DrainTimesOut(l) PROVE QueueInv'
  <2>1. /\ at' = at + 1 /\ UNCHANGED <<started, queue, pending, runtime>>
        /\ loop' = [loop EXCEPT ![l] = "ended"]
        /\ Step = l /\ l \in Range(down)
    BY <1>9 DEF LoopStopped, DrainTimesOut, GoOn, loopVars
  <2>2. l = "bot" \/ l = "scheduler"
    OBVIOUS
  <2>3. (l = "bot" /\ at = 1) \/ (l = "scheduler" /\ at = 2)
    BY ONLY <2>1, <2>2, StepFacts, Where
  <2>4. l = Order[Left(at)] /\ Left(at) \in 1 .. 6
    BY ONLY <2>3 DEF Order, Left
  <2>5. l \in Range(started)
    <3>1. Left(at) <= Len(started)
      BY <2>1, <2>3, <2>4, DownFacts
    <3> QED
      BY <2>4, <3>1, StartedFacts
  <2> QED
    BY <2>1, <2>3, <2>5
<1>10. CASE CloseQueue
  BY <1>10, StepFacts DEF CloseQueue, appVars
<1>11. CASE QueueClosed
  BY <1>11, StepFacts DEF QueueClosed, GoOn
<1>12. ASSUME NEW failed, NEW d \in Range(Order), Shutdown(d, failed) PROVE QueueInv'
  <2>1. at \in 4 .. 7 /\ at' = at + 1 /\ UNCHANGED <<started, loop, queue, pending, runtime>>
    BY <1>12, StepFacts, OrderFacts DEF Shutdown, GoOn, loopVars, Left, Order
  <2> QED
    BY <2>1
<1>13. ASSUME NEW failed, DisposeRuntime(failed) PROVE QueueInv'
  BY <1>13, StepFacts DEF DisposeRuntime, GoOn, loopVars
<1>14. CASE RestartProcess \/ Killed
  BY <1>14 DEF RestartProcess, Killed, NewProcess
<1>15. CASE CookieKeyFails \/ Sigterm \/ \E d \in Range(Order) : StartupFails(d)
  BY <1>0, <1>2, <1>15
  DEF CookieKeyFails, Sigterm, StartupFails, Starting, EnterShutdown, loopVars, appVars
<1>16. ASSUME NEW a \in Accounts, Connect(a) \/ Disconnect(a) PROVE QueueInv'
  BY <1>1, <1>16 DEF Connect, Disconnect, loopVars
<1>17. CASE Serve \/ \E l \in Loops : StopLoop(l)
  BY <1>1, <1>17 DEF Serve, StopLoop, loopVars, appVars
<1>18. CASE OpenFails
  BY <1>0, <1>18 DEF OpenFails, EnterShutdown, loopVars
<1> QED
  BY <1>3, <1>4, <1>5, <1>6, <1>7, <1>8, <1>9, <1>10, <1>11, <1>12, <1>13, <1>14, <1>15,
     <1>16, <1>17, <1>18
  DEF LifespanNext, ShutdownStep

-----------------------------------------------------------------------------
\* A process that has not begun satisfies the invariant.
LEMMA LifespanInvInit == LifespanInit => LifespanInv
<1> SUFFICES ASSUME LifespanInit PROVE LifespanInv
  OBVIOUS
<1>1. Len(started) = 0 /\ Len(down) = 0 /\ started \in Seq(Names) /\ down \in Seq(Names)
  BY DEF LifespanInit
<1>2. Where /\ QueueInv
  BY DEF LifespanInit, Where, QueueInv, Loops
<1> QED
  BY <1>1, <1>2, LeftFacts DEF LifespanInit, LifespanInv, OrderInv, Before

\* Every step of a lifetime keeps it.
LEMMA LifespanInvStep == LifespanInv /\ [LifespanNext]_lifespanVars => LifespanInv'
<1>1. ASSUME LifespanInv, LifespanNext PROVE LifespanInv'
  BY <1>1, WhereStep, QueueStep, OrderStep DEF LifespanInv
<1>2. ASSUME LifespanInv, UNCHANGED lifespanVars PROVE LifespanInv'
  <2>1. UNCHANGED <<phase, started, at, down, runtime, loop, queue, pending>>
    BY <1>2, Zenon DEF lifespanVars, lifeVars, loopVars, appVars
  <2>2. Where' /\ QueueInv'
    BY <1>2, <2>1 DEF LifespanInv, Where, QueueInv
  <2>3. Before(at)' = Before(at) /\ Within(at)' = Within(at)
    BY <2>1 DEF Before, Within
  <2>4. OrderInv'
    BY <1>2, <2>1, <2>3, Zenon DEF LifespanInv, OrderInv
  <2> QED
    BY <2>2, <2>4 DEF LifespanInv
<1> QED
  BY <1>1, <1>2

\* The invariant holds through startup, service, shutdown and restart.
THEOREM LifespanInvariance == LifespanSpec => []LifespanInv
  BY LifespanInvInit, LifespanInvStep, PTL DEF LifespanSpec

\* No loop is refused a write: both have ended before the queue is closed, also
\* when a drain is cut off.
THEOREM LoopsEndFirst == LifespanSpec => []QueueOutlivesLoops
<1>1. LifespanInv => QueueOutlivesLoops
  BY DEF LifespanInv, QueueInv, QueueOutlivesLoops, Loops, Where
<1> QED
  BY <1>1, LifespanInvariance, PTL

\* No write is left when the engines are disposed of: the queue has been drained,
\* or the startup failed before there was one.
THEOREM WritesEndFirst == LifespanSpec => []EnginesOutliveWrites
<1>1. LifespanInv => EnginesOutliveWrites
  BY DEF LifespanInv, QueueInv, EnginesOutliveWrites
<1> QED
  BY <1>1, LifespanInvariance, PTL

\* Whatever was started is shut down, in reverse order, whichever startup failed
\* and whichever shutdowns raised.
THEOREM ReverseOrder == LifespanSpec => []ShutdownReversesStartup
<1>1. LifespanInv => ShutdownReversesStartup
  <2> SUFFICES ASSUME LifespanInv PROVE ShutdownReversesStartup
    OBVIOUS
  <2> DEFINE n == Len(started)
             d == Len(down)
             rev == Reverse(started)
  <2>1. n \in 0 .. 6 /\ d \in Nat /\ started \in Seq(Names) /\ down \in Seq(Names)
    BY DEF LifespanInv, OrderInv
  <2>2. d <= n /\ (phase = "done" => d = n)
    <3>1. at \in 0 .. 9 /\ (phase = "done" => at = 9)
      BY DEF LifespanInv, Where
    <3>2. Left(at) \in Nat /\ Left(9) = 0
      BY <3>1 DEF Left
    <3>3. \/ d = Before(at)
          \/ at \in {1, 2} /\ Left(at) <= n /\ d = Within(at)
      BY DEF LifespanInv, OrderInv
    <3>4. at \in {1, 2} => Left(at) >= 1
      BY DEF Left
    <3>5. /\ Before(at) = IF n > Left(at) THEN n - Left(at) ELSE 0
          /\ Within(at) = Before(at) + 1
      BY DEF Before, Within
    <3> HIDE DEF n, d
    <3> QED
      BY <2>1, <3>1, <3>2, <3>3, <3>4, <3>5
  <2>3. rev = [i \in 1 .. n |-> started[(n - i) + 1]]
    BY DEF Reverse
  <2>4. \A i \in 1 .. d : down[i] = rev[i]
    <3> SUFFICES ASSUME NEW i \in 1 .. d PROVE down[i] = rev[i]
      OBVIOUS
    <3>1. i \in 1 .. n /\ (n - i) + 1 \in 1 .. n /\ n + 1 - i = (n - i) + 1
      BY <2>1, <2>2
    <3>2. down[i] = Order[n + 1 - i] /\ started[(n - i) + 1] = Order[(n - i) + 1]
      BY <3>1 DEF LifespanInv, OrderInv
    <3> QED
      BY <2>3, <3>1, <3>2
  <2>5. rev \in Seq(Names) /\ Len(rev) = n
    BY <2>1, <2>3
  <2>6. IsPrefix(down, rev)
    BY <2>1, <2>2, <2>4, <2>5 DEF IsPrefix
  <2>7. phase = "done" => down = rev
    BY <2>1, <2>2, <2>4, <2>5
  <2> QED
    BY <2>6, <2>7 DEF ShutdownReversesStartup
<1> QED
  BY <1>1, LifespanInvariance, PTL
-----------------------------------------------------------------------------
(* The composition *)

\* How far the startup of Self is, its token and its seeding go together.  A
\* process that is down was stopped after its token was found or written, or
\* failed before it looked for one, or in doing so.
SelfInv ==
  /\ phase \in {"opening", "starting", "serving", "stopping", "done"}
  /\ Len(started) \in Nat
  /\ phase = "opening" => Len(started) = 0
  /\ phase = "serving" => Len(started) = 6
  /\ pc[Self] = "get" => token[Self] = Nothing
  /\ Len(started) < 2 => pc[Self] = "get"
  /\ Len(started) = 2 /\ phase \in {"stopping", "done"} => pc[Self] = "failed"
  /\ Len(started) > 2 => pc[Self] = "serving"

\* No key that a startup is through with is missing, and a process that looks for
\* its token, and so one that serves, is through with all of them.
SettingsInv ==
  /\ S!SettingsTypeOK
  /\ \A p \in Procs : \A k \in 1 .. seeded[p] : S!Exists(k)
  /\ \A p \in Procs : pc[p] # "get" => seeded[p] = Len(Keys)
  /\ Len(started) >= 2 => seeded[Self] = Len(Keys)
  /\ \A p \in Procs : put[p] # Absent => seeded[p] = Len(Keys)
  /\ \A k \in S!Index : stored[k] # Absent => setting[k] = stored[k]

DeploymentInv == TokenInv /\ LifespanInv /\ SelfInv /\ SettingsInv

\* A write of put_setting that its queue executes finds its row: the branch of
\* put_setting that creates a missing one is never taken.
PutFindsItsRow == \A p \in Procs : put[p] # Absent => S!Exists(put[p].key)

-----------------------------------------------------------------------------
\* Every step is a step of the lifetime of Self or leaves it alone.
LEMMA LifespanStep == [DeploymentNext]_allVars => [LifespanNext]_lifespanVars
  BY DEF DeploymentNext, SelfStep, SeedAtStart, TokenAtStart, PutEnds, Elsewhere, RestartSelf,
         CrashSelf, StartupEnds, StartupRaises, PutSetting, OtherStarts, OtherServes,
         OtherRestarts, SameLifespan, LifespanNext, allVars, Loops

\* Every step is a step of one process' startup or leaves the token alone.  The
\* restart of a process that had not come to its token changes nothing of it.
LEMMA TokenStep ==
  ASSUME TokenInv, SelfInv, [DeploymentNext]_allVars
  PROVE  [Next]_vars
<1> USE DeploymentAssumption
<1>1. CASE RestartSelf
  <2>1. /\ phase = "done"
        /\ pc' = [pc EXCEPT ![Self] = "get"] /\ token' = [token EXCEPT ![Self] = Nothing]
        /\ UNCHANGED <<digest, output, crashes>>
    BY <1>1 DEF RestartSelf, RestartProcess
  <2>2. CASE pc[Self] = "get"
    BY <2>1, <2>2 DEF SelfInv, TokenInv, TypeOK, vars
  <2>3. CASE pc[Self] \in {"failed", "serving"}
    BY <2>1, <2>3 DEF Next, Restart
  <2>4. pc[Self] \in {"get", "failed", "serving"}
    <3> DEFINE n == Len(started)
    <3>1. /\ n \in Nat
          /\ n < 2 => pc[Self] = "get"
          /\ n = 2 => pc[Self] = "failed"
          /\ n > 2 => pc[Self] = "serving"
      BY <2>1 DEF SelfInv
    <3> HIDE DEF n
    <3> QED
      BY <3>1
  <2> QED
    BY <2>2, <2>3, <2>4
<1>2. CASE SelfStep /\ ~RestartSelf
  BY <1>2 DEF SelfStep, SeedAtStart, TokenAtStart, PutEnds, Elsewhere, CrashSelf, StartupEnds,
              StartupRaises, PutSetting, SameToken, Next
<1>3. ASSUME NEW p \in Others, OtherStarts(p) \/ OtherServes(p) \/ OtherRestarts(p)
      PROVE  [Next]_vars
  BY <1>3 DEF Others, OtherStarts, OtherServes, OtherRestarts, SameToken, Next
<1> QED
  BY <1>1, <1>2, <1>3 DEF DeploymentNext, allVars

\* The startup of Self, its token and its seeding stay together.
LEMMA SelfInvStep ==
  ASSUME TokenInv, LifespanInv, SelfInv, [DeploymentNext]_allVars
  PROVE  SelfInv'
<1> USE DeploymentAssumption
<1> DEFINE n == Len(started)
<1>0. n \in 0 .. 6 /\ started \in Seq(Names) /\ Len(Order) = 6
  BY OrderFacts DEF LifespanInv, OrderInv
<1>1. CASE UNCHANGED <<phase, started, pc, token>>
  BY <1>1 DEF SelfInv
<1>2. ASSUME NEW p \in Others, OtherStarts(p) \/ OtherServes(p) \/ OtherRestarts(p)
      PROVE  SelfInv'
  <2>1. p # Self /\ p \in Procs /\ UNCHANGED <<phase, started>>
    BY <1>2 DEF Others, OtherStarts, OtherServes, OtherRestarts, SameLifespan, lifespanVars
  <2>2. Startup(p) \/ Restart(p) \/ Crash(p) \/ UNCHANGED <<pc, token>>
    BY <1>2 DEF OtherStarts, OtherServes, OtherRestarts, SameToken, vars
  <2>3. pc'[Self] = pc[Self] /\ token'[Self] = token[Self]
    BY <2>1, <2>2 DEF TokenInv, TypeOK, Startup, GetDigest, Create, Write, WriteFails, Rollback,
                      StatementFails, Restart, Crash, GoTo
  <2> QED
    BY <2>1, <2>3 DEF SelfInv
<1>3. CASE TokenAtStart
  <2>1. Starting("auth") /\ Startup(Self) /\ UNCHANGED <<phase, started>>
    BY <1>3 DEF TokenAtStart, SameLifespan, lifespanVars
  <2>2. n = 2 /\ phase = "starting"
    <3>1. n < 6 /\ Order[n + 1] = "auth" /\ phase = "starting"
      BY <1>0, <2>1 DEF Starting
    <3>2. Order[3] = "auth"
      BY DEF Order
    <3> HIDE DEF n
    <3>3. n + 1 \in 1 .. 6 /\ 3 \in 1 .. 6
      BY <1>0, <3>1
    <3>4. n + 1 = 3
      BY ONLY <3>1, <3>2, <3>3, OrderFacts
    <3> QED
      BY <1>0, <3>1, <3>4
  <2>3. pc'[Self] # "get"
    BY <2>1 DEF TokenInv, TypeOK, Startup, GetDigest, Create, Write, WriteFails, Rollback,
                StatementFails, GoTo
  <2> QED
    BY <2>1, <2>2, <2>3 DEF SelfInv
<1>4. ASSUME NEW d \in Range(Order), StartupEnds(d) PROVE SelfInv'
  <2>1. /\ Starting(d) /\ started' = Append(started, d) /\ UNCHANGED <<phase, pc, token>>
        /\ d = "auth" => pc[Self] = "serving"
    BY <1>4 DEF StartupEnds, DependencyStartup, SameToken, vars
  <2>2. phase = "starting" /\ n < 6 /\ d = Order[n + 1]
    BY <1>0, <2>1 DEF Starting
  <2>3. n = 2 => d = "auth"
    BY <2>2 DEF Order
  <2>4. Len(started') = n + 1
    BY <1>0, <2>1
  <2>5. /\ n < 2 => pc[Self] = "get"
        /\ n = 2 => pc[Self] = "serving"
        /\ n > 2 => pc[Self] = "serving"
    BY <2>1, <2>3 DEF SelfInv
  <2>6. pc[Self] = "get" => token[Self] = Nothing
    BY DEF SelfInv
  <2>7. n = 1 => pc[Self] = "get"
    BY <2>5
  <2> HIDE DEF n
  <2>8. /\ n + 1 \in Nat
        /\ n + 1 < 2 => pc[Self] = "get"
        /\ n + 1 > 2 => pc[Self] = "serving"
    BY <1>0, <2>5
  <2> QED
    BY <2>1, <2>2, <2>4, <2>6, <2>8 DEF SelfInv
<1>5. ASSUME NEW d \in Range(Order), StartupRaises(d) PROVE SelfInv'
  <2>1. /\ Starting(d) /\ phase' = "stopping" /\ UNCHANGED <<started, pc, token>>
        /\ d = "auth" => pc[Self] = "failed"
    BY <1>5 DEF StartupRaises, StartupFails, EnterShutdown, SameToken, vars
  <2>2. n = 2 => d = "auth"
    BY <1>0, <2>1 DEF Starting, Order
  <2> QED
    BY <2>1, <2>2 DEF SelfInv
<1>6. CASE RestartSelf \/ CrashSelf
  <2>1. /\ phase' = "opening" /\ started' = <<>>
        /\ pc' = [pc EXCEPT ![Self] = "get"] /\ token' = [token EXCEPT ![Self] = Nothing]
    BY <1>6 DEF RestartSelf, CrashSelf, RestartProcess, Killed, NewProcess, Crash
  <2>2. Len(started') = 0
    BY <2>1
  <2> QED
    BY <2>1, <2>2 DEF SelfInv, TokenInv, TypeOK
<1>7. CASE SeedAtStart \/ PutEnds \/ \E k \in S!Index, v \in Values : PutSetting(k, v)
  BY <1>1, <1>7 DEF SeedAtStart, PutEnds, PutSetting, SameToken, SameLifespan, lifespanVars,
                    vars, ApiWrite, JobDone, lifeVars
<1>8. CASE Elsewhere
  <2>1. UNCHANGED <<pc, token>>
    BY <1>8 DEF Elsewhere, SameToken, vars
  <2>2. CASE Serve
    BY <2>1, <2>2, OrderFacts DEF Serve, SelfInv
  <2>3. CASE Open
    BY <2>1, <2>3 DEF Open, SelfInv
  <2>4. CASE OpenFails \/ CookieKeyFails \/ Sigterm
    <3>1. phase' = "stopping" /\ Len(started') = n /\ (n = 0 \/ n = 6)
      BY <2>4, OrderFacts DEF OpenFails, CookieKeyFails, Sigterm, EnterShutdown, SelfInv
    <3>2. /\ n \in Nat /\ (n < 2 => pc[Self] = "get") /\ (n > 2 => pc[Self] = "serving")
          /\ pc[Self] = "get" => token[Self] = Nothing
      BY DEF SelfInv
    <3> HIDE DEF n
    <3>3. n # 2
      BY ONLY <3>1
    <3>4. /\ n < 2 => pc'[Self] = "get"
          /\ n > 2 => pc'[Self] = "serving"
          /\ pc'[Self] = "get" => token'[Self] = Nothing
      BY ONLY <2>1, <3>2
    <3> QED
      BY <3>1, <3>2, <3>3, <3>4 DEF SelfInv
  <2>5. CASE UNCHANGED <<phase, started>>
    BY <1>1, <2>1, <2>5
  <2>6. CASE ShutdownStep
    <3>1. Step # "none" /\ UNCHANGED started /\ phase' \in {phase, "done"}
      <4>1. "none" \notin Range(Order) /\ "none" \notin Loops
        BY DEF Range, Order, Loops
      <4>2. CASE Skip
        BY <4>1, <4>2 DEF Skip, GoOn
      <4>3. CASE CloseQueue \/ QueueClosed
        BY <4>3 DEF CloseQueue, QueueClosed, GoOn
      <4>4. ASSUME NEW l \in Loops, StopLoop(l) \/ LoopStopped(l) \/ DrainTimesOut(l)
            PROVE  Step # "none" /\ UNCHANGED started /\ phase' \in {phase, "done"}
        BY <4>1, <4>4 DEF StopLoop, LoopStopped, DrainTimesOut, GoOn
      <4>5. ASSUME NEW a \in Accounts, Disconnect(a)
            PROVE  Step # "none" /\ UNCHANGED started /\ phase' \in {phase, "done"}
        BY <4>5 DEF Disconnect
      <4>6. ASSUME NEW failed \in BOOLEAN, DisposeRuntime(failed)
            PROVE  Step # "none" /\ UNCHANGED started /\ phase' \in {phase, "done"}
        BY <4>6 DEF DisposeRuntime, GoOn
      <4>7. ASSUME NEW failed \in BOOLEAN, NEW d \in Range(Order), Shutdown(d, failed)
            PROVE  Step # "none" /\ UNCHANGED started /\ phase' \in {phase, "done"}
        BY <4>1, <4>7 DEF Shutdown, GoOn
      <4> QED
        BY <2>6, <4>2, <4>3, <4>4, <4>5, <4>6, <4>7 DEF ShutdownStep
    <3>2. phase = "stopping"
      BY <3>1 DEF Step
    <3> QED
      BY <2>1, <3>1, <3>2 DEF SelfInv
  <2> QED
    BY <1>8, <2>2, <2>3, <2>4, <2>5, <2>6
    DEF Elsewhere, ApiWrite, JobDone, Connect, Tick, Submit, EndTick, EndLoop, lifeVars
<1> QED
  BY <1>1, <1>2, <1>3, <1>4, <1>5, <1>6, <1>7, <1>8 DEF DeploymentNext, SelfStep, allVars, vars,
     lifespanVars

\* The seeding of a process leaves no hole, and no user's value is overwritten.
LEMMA SettingsStep ==
  ASSUME TokenInv, LifespanInv, SelfInv, SettingsInv, [DeploymentNext]_allVars
  PROVE  SettingsInv'
<1> USE DeploymentAssumption
<1>0. S!Index = 1 .. Len(Keys)
  BY DEF S!Index
<1>1. ASSUME NEW p \in Procs, S!Seed(p), UNCHANGED <<pc, started>> PROVE SettingsInv'
  <2> DEFINE k == seeded[p] + 1
             n == Len(Keys)
  <2>1. seeded[p] \in 0 .. n /\ seeded[p] < n /\ n \in Nat
    BY <1>1 DEF S!Seed, S!Seeding, SettingsInv, S!SettingsTypeOK
  <2>2. k \in S!Index /\ k \in 0 .. n
    BY <1>0, <2>1
  <2>3. /\ setting' = IF setting[k] # Absent THEN setting ELSE [setting EXCEPT ![k] = Default]
        /\ seeded' = [seeded EXCEPT ![p] = k]
        /\ UNCHANGED <<put, stored>>
    BY <1>1 DEF S!Seed, S!Exists, S!Store
  <2>4. pc[p] = "get" /\ put[p] = Absent /\ (p = Self => ~(Len(started) >= 2))
    <3>1. seeded[p] # Len(Keys)
      BY <2>1
    <3>2. /\ pc[p] # "get" => seeded[p] = Len(Keys)
          /\ put[p] # Absent => seeded[p] = Len(Keys)
          /\ Len(started) >= 2 => seeded[Self] = Len(Keys)
      BY Zenon DEF SettingsInv
    <3> QED
      BY <3>1, <3>2, Zenon
  <2> HIDE DEF k, n
  <2>5. \A j \in S!Index : setting[j] # Absent => setting'[j] = setting[j]
    BY <2>3 DEF SettingsInv, S!SettingsTypeOK
  <2>6. setting'[k] # Absent
    BY <2>2, <2>3 DEF SettingsInv, S!SettingsTypeOK
  <2>7. S!SettingsTypeOK'
    BY <2>2, <2>3 DEF SettingsInv, S!SettingsTypeOK, S!Put, S!Index, n
  <2>8. \A q \in Procs : \A j \in 1 .. seeded'[q] : setting'[j] # Absent
    <3> SUFFICES ASSUME NEW q \in Procs, NEW j \in 1 .. seeded'[q] PROVE setting'[j] # Absent
      OBVIOUS
    <3>1. seeded'[q] \in 0 .. n
      BY <2>7 DEF S!SettingsTypeOK, n
    <3>2. j \in S!Index
      BY <1>0, <2>1, <3>1 DEF n
    <3>3. CASE j = k
      BY <2>6, <3>3
    <3>4. CASE j # k
      <4>1. j \in 1 .. seeded[q]
        BY <2>1, <2>3, <3>4 DEF k, SettingsInv, S!SettingsTypeOK
      <4> QED
        BY <2>5, <3>2, <4>1 DEF SettingsInv, S!Exists
    <3> QED
      BY <3>3, <3>4
  <2>9. \A q \in Procs : q # p => seeded'[q] = seeded[q]
    BY <2>3 DEF SettingsInv, S!SettingsTypeOK
  <2> QED
    BY <1>1, <2>3, <2>4, <2>5, <2>7, <2>8, <2>9 DEF SettingsInv, S!Exists
<1>2. ASSUME NEW p \in Procs, S!PutUpdate(p), UNCHANGED <<pc, started>> PROVE SettingsInv'
  <2> DEFINE k == put[p].key
             v == put[p].value
  <2>1. k \in S!Index /\ v \in Values
    BY <1>2 DEF S!PutUpdate, SettingsInv, S!SettingsTypeOK, S!Put
  <2>2. /\ setting' = [setting EXCEPT ![k] = v]
        /\ stored' = [stored EXCEPT ![k] = v]
        /\ put' = [put EXCEPT ![p] = Absent] /\ UNCHANGED seeded
    BY <1>2 DEF S!PutUpdate, S!Store
  <2> HIDE DEF k, v
  <2>3. S!SettingsTypeOK'
    BY <2>1, <2>2 DEF SettingsInv, S!SettingsTypeOK, S!Put, S!Index
  <2>4. \A j \in S!Index : setting[j] # Absent => setting'[j] # Absent
    BY <2>1, <2>2 DEF SettingsInv, S!SettingsTypeOK
  <2>5. \A q \in Procs : \A j \in 1 .. seeded[q] : setting'[j] # Absent
    <3> SUFFICES ASSUME NEW q \in Procs, NEW j \in 1 .. seeded[q] PROVE setting'[j] # Absent
      OBVIOUS
    <3>1. j \in S!Index
      BY <1>0 DEF SettingsInv, S!SettingsTypeOK
    <3> QED
      BY <2>4, <3>1 DEF SettingsInv, S!Exists
  <2>6. \A q \in Procs : put'[q] # Absent => put[q] # Absent
    BY <2>2 DEF SettingsInv, S!SettingsTypeOK
  <2>7. \A j \in S!Index : stored'[j] # Absent => setting'[j] = stored'[j]
    BY <2>1, <2>2 DEF SettingsInv, S!SettingsTypeOK
  <2> QED
    BY <1>2, <2>2, <2>3, <2>5, <2>6, <2>7 DEF SettingsInv, S!Exists, S!Index
<1>3. ASSUME NEW p \in Procs, NEW k \in S!Index, NEW v \in Values, S!PutSubmit(p, k, v),
             seeded[p] = Len(Keys), UNCHANGED <<pc, started>>
      PROVE  SettingsInv'
  <2>1. put' = [put EXCEPT ![p] = [key |-> k, value |-> v]] /\ UNCHANGED <<setting, seeded, stored>>
    BY <1>3 DEF S!PutSubmit
  <2>2. [key |-> k, value |-> v] \in S!Put
    BY DEF S!Put
  <2>3. put' \in [Procs -> S!Put \cup {Absent}]
    BY <2>1, <2>2 DEF SettingsInv, S!SettingsTypeOK
  <2>4. S!SettingsTypeOK'
    BY <2>1, <2>3 DEF SettingsInv, S!SettingsTypeOK, S!Put, S!Index
  <2>5. \A q \in Procs : put'[q] # Absent => seeded[q] = Len(Keys)
    BY <1>3, <2>1 DEF SettingsInv, S!SettingsTypeOK
  <2> QED
    BY <1>3, <2>1, <2>4, <2>5 DEF SettingsInv, S!Exists, S!Index
<1>4. ASSUME NEW p \in Procs, S!Forget(p), pc' = [pc EXCEPT ![p] = "get"],
             IF p = Self THEN Len(started') < 2 ELSE UNCHANGED started
      PROVE  SettingsInv'
  <2>1. /\ seeded' = [seeded EXCEPT ![p] = 0] /\ put' = [put EXCEPT ![p] = Absent]
        /\ UNCHANGED <<setting, stored>>
    BY <1>4 DEF S!Forget
  <2>2. S!SettingsTypeOK'
    <3>1. S!SettingsTypeOK /\ 0 \in 0 .. Len(Keys)
      BY DEF SettingsInv
    <3>2. seeded' \in [Procs -> 0 .. Len(Keys)]
      BY <2>1, <3>1 DEF S!SettingsTypeOK
    <3>3. put' \in [Procs -> S!Put \cup {Absent}]
      BY <2>1, <3>1 DEF S!SettingsTypeOK
    <3> QED
      BY <2>1, <3>1, <3>2, <3>3, Zenon DEF S!SettingsTypeOK, S!Put, S!Index
  <2>3. \A q \in Procs : q # p => seeded'[q] = seeded[q] /\ put'[q] = put[q] /\ pc'[q] = pc[q]
    BY <1>4, <2>1 DEF SettingsInv, S!SettingsTypeOK, TokenInv, TypeOK
  <2>4. seeded'[p] = 0 /\ put'[p] = Absent /\ pc'[p] = "get"
    BY <1>4, <2>1 DEF SettingsInv, S!SettingsTypeOK, TokenInv, TypeOK
  <2>5. \A q \in Procs : \A j \in 1 .. seeded'[q] : setting'[j] # Absent
    BY <2>1, <2>3, <2>4 DEF SettingsInv, S!Exists
  <2>6. Len(started') >= 2 => seeded'[Self] = Len(Keys)
    <3>1. CASE p = Self
      <4> DEFINE n == Len(started')
      <4>1. n \in Nat /\ n < 2
        BY <1>4, <3>1, SelfInvStep DEF SelfInv
      <4> HIDE DEF n
      <4>2. ~(n >= 2)
        BY <4>1
      <4> QED
        BY <4>2 DEF n
    <3>2. CASE p # Self
      BY <1>4, <2>3, <3>2 DEF SettingsInv
    <3> QED
      BY <3>1, <3>2
  <2> QED
    BY <2>1, <2>2, <2>3, <2>4, <2>5, <2>6 DEF SettingsInv, S!Exists, S!Index
<1>5. ASSUME UNCHANGED <<settingsVars, started>>, NEW p \in Procs, seeded[p] = Len(Keys),
             \A q \in Procs : q # p => pc'[q] = pc[q]
      PROVE  SettingsInv'
  <2>1. UNCHANGED <<setting, seeded, put, stored, started>>
    BY <1>5 DEF settingsVars
  <2> QED
    BY <1>5, <2>1 DEF SettingsInv, S!SettingsTypeOK, S!Put, S!Index, S!Exists
<1>6. CASE UNCHANGED <<settingsVars, started, pc>>
  BY <1>6 DEF settingsVars, SettingsInv, S!SettingsTypeOK, S!Put, S!Index, S!Exists
<1>7. ASSUME NEW p \in Procs, Startup(p) PROVE \A q \in Procs : q # p => pc'[q] = pc[q]
  BY <1>7 DEF TokenInv, TypeOK, Startup, GetDigest, Create, Write, WriteFails, Rollback,
              StatementFails, GoTo
<1> DEFINE n == Len(started)
<1>8. n \in 0 .. 6 /\ started \in Seq(Names)
  BY DEF LifespanInv, OrderInv
\* The process whose lifetime is followed.
<1>9. CASE SeedAtStart
  BY <1>1, <1>9 DEF SeedAtStart, SameToken, SameLifespan, vars, lifespanVars
<1>10. CASE TokenAtStart
  <2>1. Starting("auth") /\ Startup(Self) /\ UNCHANGED <<settingsVars, started>>
    BY <1>10 DEF TokenAtStart, SameSettings, SameLifespan, lifespanVars
  <2>2. n >= 2
    <3>1. Order[n + 1] = "auth"
      BY <2>1 DEF Starting
    <3>2. Order[1] # "auth" /\ Order[2] # "auth"
      BY DEF Order
    <3> HIDE DEF n
    <3>3. n # 0 /\ n # 1
      BY <3>1, <3>2
    <3> QED
      BY <1>8, <3>3
  <2>3. seeded[Self] = Len(Keys)
    BY <2>2 DEF SettingsInv
  <2> QED
    BY <1>5, <1>7, <2>1, <2>3
<1>11. CASE PutEnds
  BY <1>2, <1>11 DEF PutEnds, JobDone, SameToken, vars, lifeVars
<1>12. ASSUME NEW k \in S!Index, NEW v \in Values, PutSetting(k, v) PROVE SettingsInv'
  <2>1. phase = "serving" /\ S!PutSubmit(Self, k, v) /\ UNCHANGED <<pc, started>>
    BY <1>12 DEF PutSetting, ApiWrite, SameToken, vars, lifeVars
  <2>2. pc[Self] = "serving"
    <3>1. n = 6 /\ (n > 2 => pc[Self] = "serving")
      BY <2>1 DEF SelfInv
    <3> HIDE DEF n
    <3> QED
      BY <3>1
  <2> QED
    BY <1>3, <2>1, <2>2 DEF SettingsInv
<1>13. ASSUME NEW d \in Range(Order), StartupEnds(d) PROVE SettingsInv'
  <2>1. /\ Starting(d) /\ started' = Append(started, d) /\ UNCHANGED <<settingsVars, pc>>
        /\ d = "settings" => ~S!Seeding(Self)
    BY <1>13 DEF StartupEnds, DependencyStartup, SameToken, SameSettings, vars
  <2>2. n = 1 => d = "settings"
    BY <1>8, <2>1 DEF Starting, Order
  <2>3. Len(started') = n + 1
    BY <1>8, <2>1
  <2>4. n = 1 => seeded[Self] = Len(Keys)
    BY <2>1, <2>2 DEF S!Seeding, SettingsInv, S!SettingsTypeOK
  <2>5. n >= 2 => seeded[Self] = Len(Keys)
    BY DEF SettingsInv
  <2>6. n + 1 >= 2 => seeded[Self] = Len(Keys)
    <3> HIDE DEF n
    <3> QED
      BY <1>8, <2>4, <2>5
  <2> QED
    BY <2>1, <2>3, <2>6
    DEF settingsVars, SettingsInv, S!SettingsTypeOK, S!Put, S!Index, S!Exists
<1>14. ASSUME NEW d \in Range(Order), StartupRaises(d) PROVE SettingsInv'
  BY <1>6, <1>14 DEF StartupRaises, StartupFails, SameToken, SameSettings, vars
<1>15. CASE RestartSelf \/ CrashSelf
  <2>1. started' = <<>> /\ S!Forget(Self) /\ pc' = [pc EXCEPT ![Self] = "get"]
    BY <1>15 DEF RestartSelf, CrashSelf, RestartProcess, Killed, NewProcess, Crash
  <2>2. Len(started') < 2
    BY <2>1
  <2> QED
    BY <1>4, <2>1, <2>2
<1>16. CASE Elsewhere
  <2>1. UNCHANGED <<settingsVars, pc>>
    BY <1>16 DEF Elsewhere, SameToken, SameSettings, vars
  <2>2. UNCHANGED started
    BY <1>16 DEF Elsewhere, Open, OpenFails, Serve, CookieKeyFails, Sigterm, ApiWrite, JobDone,
                 Connect, Tick, Submit, EndTick, EndLoop, lifeVars, ShutdownStep, Skip, CloseQueue,
                 QueueClosed, StopLoop, LoopStopped, DrainTimesOut, Disconnect,
                 DisposeRuntime, Shutdown
  <2> QED
    BY <1>6, <2>1, <2>2
\* The other processes.
<1>17. ASSUME NEW p \in Others, OtherStarts(p) PROVE SettingsInv'
  <2>1. p \in Procs /\ UNCHANGED started
    BY <1>17 DEF Others, OtherStarts, SameLifespan, lifespanVars
  <2>2. CASE S!Seed(p) /\ SameToken
    BY <1>1, <2>1, <2>2 DEF SameToken, vars
  <2>3. CASE ~S!Seeding(p) /\ Startup(p) /\ SameSettings
    <3>1. seeded[p] = Len(Keys)
      BY <2>1, <2>3 DEF S!Seeding, SettingsInv, S!SettingsTypeOK
    <3> QED
      BY <1>5, <1>7, <2>1, <2>3, <3>1 DEF SameSettings
  <2> QED
    BY <1>17, <2>2, <2>3 DEF OtherStarts
<1>18. ASSUME NEW p \in Others, OtherServes(p) PROVE SettingsInv'
  <2>1. p \in Procs /\ pc[p] = "serving" /\ UNCHANGED <<pc, started>>
    BY <1>18 DEF Others, OtherServes, SameToken, SameLifespan, vars, lifespanVars
  <2>2. seeded[p] = Len(Keys)
    BY <2>1 DEF SettingsInv
  <2> QED
    BY <1>2, <1>3, <1>18, <2>1, <2>2 DEF OtherServes
<1>19. ASSUME NEW p \in Others, OtherRestarts(p) PROVE SettingsInv'
  <2>1. p \in Procs /\ p # Self /\ UNCHANGED started /\ S!Forget(p)
    BY <1>19 DEF Others, OtherRestarts, SameLifespan, lifespanVars
  <2>2. pc' = [pc EXCEPT ![p] = "get"]
    BY <1>19 DEF OtherRestarts, Restart, Crash
  <2> QED
    BY <1>4, <2>1, <2>2
<1>20. CASE UNCHANGED allVars
  BY <1>6, <1>20 DEF allVars, vars, lifespanVars
<1> QED
  BY <1>9, <1>10, <1>11, <1>12, <1>13, <1>14, <1>15, <1>16, <1>17, <1>18, <1>19, <1>20
  DEF DeploymentNext, SelfStep

\* The invariants of the parts and what ties them together hold in every state
\* of the deployment.
THEOREM DeploymentInvariance == DeploymentSpec => []DeploymentInv
<1>1. DeploymentInit => DeploymentInv
  <2> SUFFICES ASSUME DeploymentInit PROVE DeploymentInv
    OBVIOUS
  <2> USE DeploymentAssumption DEF DeploymentInit
  <2>1. TokenInv /\ LifespanInv
    BY TokenInit, LifespanInvInit
  <2>2. Len(started) = 0
    BY DEF LifespanInit
  <2>3. SelfInv
    BY <2>2 DEF SelfInv, LifespanInit, Init
  <2>4. S!SettingsTypeOK
    BY DEF S!SettingsInit, S!SettingsTypeOK
  <2>5. \A p \in Procs : seeded[p] = 0 /\ put[p] = Absent /\ pc[p] = "get"
    BY DEF S!SettingsInit, Init
  <2>6. \A k \in S!Index : stored[k] = Absent
    BY DEF S!SettingsInit
  <2>7. \A p \in Procs : \A k \in 1 .. seeded[p] : S!Exists(k)
    BY <2>5
  <2>8. ~(Len(started) >= 2)
    BY <2>2
  <2>9. SettingsInv
    BY <2>4, <2>5, <2>6, <2>7, <2>8, Zenon DEF SettingsInv
  <2> QED
    BY <2>1, <2>3, <2>9 DEF DeploymentInv
<1>2. DeploymentInv /\ [DeploymentNext]_allVars => DeploymentInv'
  <2> SUFFICES ASSUME DeploymentInv, [DeploymentNext]_allVars PROVE DeploymentInv'
    OBVIOUS
  <2>1. [Next]_vars /\ [LifespanNext]_lifespanVars
    BY TokenStep, LifespanStep DEF DeploymentInv
  <2>2. TokenInv' /\ LifespanInv'
    BY <2>1, TokenInvStep, LifespanInvStep DEF DeploymentInv
  <2> QED
    BY <2>2, SelfInvStep, SettingsStep DEF DeploymentInv
<1> QED
  BY <1>1, <1>2, PTL DEF DeploymentSpec

\* The deployment implements the specification of the bootstrap token and that of
\* the lifetime of a process: composed with other processes on the same database,
\* each does what it does by itself.
THEOREM DeploymentImplementsParts == DeploymentSpec => Spec /\ LifespanSpec
<1>1. DeploymentInit => Init /\ LifespanInit
  BY DEF DeploymentInit
<1>2. DeploymentInv /\ [DeploymentNext]_allVars => [Next]_vars /\ [LifespanNext]_lifespanVars
  BY TokenStep, LifespanStep DEF DeploymentInv
<1> QED
  BY <1>1, <1>2, DeploymentInvariance, PTL DEF DeploymentSpec, Spec, LifespanSpec

\* No start, restart or kill of a process takes a user's value away, however it
\* interleaves with put_setting.
THEOREM UserValuesStay == DeploymentSpec => []UserValueStays
<1>1. DeploymentInv => UserValueStays
  BY DeploymentAssumption
  DEF DeploymentInv, SettingsInv, UserValueStays, S!UserValueStays, S!Effective, S!Exists
<1> QED
  BY <1>1, DeploymentInvariance, PTL

\* No write of put_setting finds its row missing.
THEOREM PutsFindTheirRows == DeploymentSpec => []PutFindsItsRow
<1>1. DeploymentInv => PutFindsItsRow
  <2> SUFFICES ASSUME DeploymentInv, NEW p \in Procs, put[p] # Absent PROVE S!Exists(put[p].key)
    BY DEF PutFindsItsRow
  <2>1. put[p].key \in 1 .. Len(Keys)
    BY DEF DeploymentInv, SettingsInv, S!SettingsTypeOK, S!Put, S!Index
  <2>2. seeded[p] = Len(Keys)
    BY DEF DeploymentInv, SettingsInv
  <2> QED
    BY <2>1, <2>2 DEF DeploymentInv, SettingsInv
<1> QED
  BY <1>1, DeploymentInvariance, PTL

\* What the parts promise holds of the deployment: tokens and digests belong
\* together, and a shutdown takes everything down in its order.
THEOREM PartsKeepTheirPromises ==
  DeploymentSpec => /\ []WriteFailuresRecover /\ TokenIsNotRotated
                    /\ []QueueOutlivesLoops /\ []EnginesOutliveWrites
                    /\ []ShutdownReversesStartup
  BY DeploymentImplementsParts, FailuresAreRolledBack, TokenStays, LoopsEndFirst,
     WritesEndFirst, ReverseOrder, PTL
===============================================================================
