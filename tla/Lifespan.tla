------------------------------- MODULE Lifespan -------------------------------
(***************************************************************************)
(* The lifetime of the process: `lifespan` in tca/api/app.py starts the    *)
(* six dependencies one after another, serves, and takes everything down   *)
(* in `_shutdown_in_order`.  Meanwhile the scheduler and the bot delivery   *)
(* loop run on their own, submit to the writer queue, and may be stuck in  *)
(* a slow call when the shutdown begins.                                   *)
(***************************************************************************)
EXTENDS Naturals, Sequences, SequencesExt

CONSTANTS Accounts  \* the Telegram accounts the client manager registers, 1..n

Order == <<"db", "settings", "auth", "telethon", "scheduler", "bot">>
Loops == {"scheduler", "bot"}
Steps == <<"bot", "scheduler", "queue", "telethon", "auth", "settings", "db", "dispose">>

VARIABLES
  phase,      \* "opening", "starting", "serving", "stopping" or "done"
  started,    \* started_dependencies
  at,         \* while stopping: the index in Steps of the current step
  down,       \* the dependencies whose shutdown() was called, in order
  loop,       \* what each loop's task is doing
  queue,      \* the writer queue: "none", "open", "closed" (refusing), "drained"
  pending,    \* who submitted the jobs that the queue still holds
  runtime,    \* the database engines: "none", "open" or "disposed"
  attached,   \* app.state holds the runtime objects
  connected,  \* the accounts whose Telethon client is connected
  errors      \* shutdown_errors is not empty

lifespanVars == <<phase, started, at, down, loop, queue, pending, runtime, attached,
                  connected, errors>>

loopVars == <<loop, queue, pending>>
appVars  == <<runtime, attached, connected, errors>>

LifespanTypeOK ==
  /\ phase \in {"opening", "starting", "serving", "stopping", "done"}
  /\ \E n \in 0 .. Len(Order) : started = SubSeq(Order, 1, n)
  /\ phase = "serving" => started = Order
  /\ at \in 0 .. Len(Steps) + 1
  /\ at > 0 <=> phase \in {"stopping", "done"}
  /\ down \in Seq(Range(Order)) /\ Len(down) <= Len(Order)
  /\ loop \in [Loops -> {"off", "idle", "busy", "writing", "ended"}]
  /\ queue \in {"none", "open", "closed", "drained"}
  /\ pending \subseteq Loops \cup {"api"}
  /\ runtime \in {"none", "open", "disposed"}
  /\ attached \in BOOLEAN /\ errors \in BOOLEAN
  /\ connected \subseteq Accounts

LifespanInit ==
  /\ phase = "opening" /\ started = <<>> /\ at = 0 /\ down = <<>>
  /\ loop = [l \in Loops |-> "off"]
  /\ queue = "none" /\ pending = {}
  /\ runtime = "none" /\ attached = FALSE
  /\ connected = {} /\ errors = FALSE

-----------------------------------------------------------------------------
(* Startup *)

\* The finally block is entered, from a failed startup or after the yield.
EnterShutdown == phase' = "stopping" /\ at' = 1

\* The engines and the writer queue are made and put on app.state.
Open ==
  /\ phase = "opening"
  /\ phase' = "starting"
  /\ runtime' = "open" /\ queue' = "open" /\ attached' = TRUE
  /\ UNCHANGED <<started, at, down, loop, pending, connected, errors>>

\* The engines cannot be made, or the factory gives no queue for them: then the
\* engines are there, without a queue and not on app.state.
OpenFails ==
  /\ phase = "opening"
  /\ EnterShutdown
  /\ runtime' \in {"none", "open"}
  /\ UNCHANGED <<started, down, attached, connected, errors>> /\ UNCHANGED loopVars

Starting(d) == phase = "starting" /\ Len(started) < Len(Order)
                                  /\ d = Order[Len(started) + 1]

\* TelethonClientManager.startup connects one client after another.
Connect(a) ==
  /\ Starting("telethon")
  /\ a \in Accounts \ connected
  /\ \A b \in Accounts \ connected : a <= b
  /\ connected' = connected \cup {a}
  /\ UNCHANGED <<phase, started, at, down, runtime, attached, errors>>
  /\ UNCHANGED loopVars

\* A dependency's startup() returns and the dependency counts as started.
DependencyStartup(d) ==
  /\ Starting(d)
  /\ d = "telethon" => connected = Accounts
  /\ started' = Append(started, d)
  /\ loop' = IF d \in Loops THEN [loop EXCEPT ![d] = "idle"] ELSE loop
  /\ UNCHANGED <<phase, at, down, queue, pending>> /\ UNCHANGED appVars

\* A dependency's startup() raises: it does not count as started.
StartupFails(d) ==
  /\ Starting(d)
  /\ EnterShutdown
  /\ UNCHANGED <<started, down>> /\ UNCHANGED loopVars /\ UNCHANGED appVars

\* The cookie key is resolved, from the database or a new one, and the app serves.
Serve ==
  /\ phase = "starting" /\ started = Order
  /\ phase' = "serving"
  /\ UNCHANGED <<started, at, down>> /\ UNCHANGED loopVars /\ UNCHANGED appVars

\* The stored cookie key is found by the create() that it makes fail, and cannot
\* be read: every dependency is started and the startup fails all the same.
CookieKeyFails ==
  /\ phase = "starting" /\ started = Order
  /\ EnterShutdown
  /\ UNCHANGED <<started, down>> /\ UNCHANGED loopVars /\ UNCHANGED appVars

\* SIGTERM: the server has answered its requests and leaves the yield.
Sigterm ==
  /\ phase = "serving"
  /\ EnterShutdown
  /\ UNCHANGED <<started, down>> /\ UNCHANGED loopVars /\ UNCHANGED appVars

-----------------------------------------------------------------------------
(* What runs beside it *)

lifeVars == <<phase, started, at, down, runtime, attached, connected, errors>>

\* A request hands a write to the queue; its client may leave before the
\* write is done.
ApiWrite ==
  /\ phase = "serving" /\ queue = "open"
  /\ pending' = pending \cup {"api"}
  /\ UNCHANGED <<loop, queue>> /\ UNCHANGED lifeVars

\* A pass begins: run_once is called.
Tick(l) ==
  /\ loop[l] = "idle" /\ l \notin Range(down)
  /\ loop' = [loop EXCEPT ![l] = "busy"]
  /\ UNCHANGED <<queue, pending>> /\ UNCHANGED lifeVars

\* The pass submits a job and awaits it.
Submit(l) ==
  /\ loop[l] = "busy" /\ l \notin pending
  /\ queue = "open"
  /\ pending' = pending \cup {l}
  /\ loop' = [loop EXCEPT ![l] = "writing"]
  /\ UNCHANGED queue /\ UNCHANGED lifeVars

\* The pass ends, by itself or by an exception, a refused submit's included.
EndTick(l) ==
  /\ loop[l] = "busy"
  /\ loop' = [loop EXCEPT ![l] = "idle"]
  /\ UNCHANGED <<queue, pending>> /\ UNCHANGED lifeVars

\* The loop sees its stop event.
EndLoop(l) ==
  /\ loop[l] = "idle" /\ l \in Range(down)
  /\ loop' = [loop EXCEPT ![l] = "ended"]
  /\ UNCHANGED <<queue, pending>> /\ UNCHANGED lifeVars

\* The writer finishes a job; a loop that still awaits it goes on.
JobDone(o) ==
  /\ o \in pending
  /\ pending' = pending \ {o}
  /\ loop' = [l \in Loops |-> IF l = o /\ loop[l] = "writing" THEN "busy" ELSE loop[l]]
  /\ UNCHANGED queue /\ UNCHANGED lifeVars

-----------------------------------------------------------------------------
(* Shutdown *)

Step == IF phase = "stopping" THEN Steps[at] ELSE "none"

\* The next step, or the end of _shutdown_in_order.  _clear_runtime_state
\* follows it only if no step failed: the first error is raised.
GoOn(failed) ==
  /\ errors' = (errors \/ failed)
  /\ at' = at + 1
  /\ phase' = IF at = Len(Steps) THEN "done" ELSE phase
  /\ attached' = (attached /\ ~(at = Len(Steps) /\ ~errors'))

\* A step that raises ends the sequence.
GoOnUnlessFailed(failed) ==
  /\ errors' = (errors \/ failed)
  /\ at' = IF failed THEN Len(Steps) + 1 ELSE at + 1
  /\ phase' = IF at = Len(Steps) \/ failed THEN "done" ELSE phase
  /\ attached' = (attached /\ ~(at = Len(Steps) /\ ~errors'))

\* A step whose dependency was not started is passed over.
Skip ==
  /\ \/ Step \in Range(Order) /\ Step \notin Range(started)
     \/ Step = "queue" /\ queue = "none"
     \/ Step = "dispose" /\ runtime = "none"
  /\ GoOn(FALSE)
  /\ UNCHANGED <<started, down, runtime, connected>> /\ UNCHANGED loopVars

\* A loop's shutdown() sets the stop event and awaits the task.
StopLoop(l) ==
  /\ Step = l /\ l \in Range(started) /\ l \notin Range(down)
  /\ down' = Append(down, l)
  /\ UNCHANGED <<phase, started, at>> /\ UNCHANGED loopVars /\ UNCHANGED appVars

LoopStopped(l) ==
  /\ Step = l /\ l \in Range(down) /\ loop[l] = "ended"
  /\ GoOn(FALSE)
  /\ UNCHANGED <<started, down, runtime, connected>> /\ UNCHANGED loopVars

\* As DrainTimesOut, for a loop that merely sleeps.
DrainTimesOutIdle(l) ==
  /\ Step = l /\ l \in Range(down) /\ loop[l] = "idle"
  /\ loop' = [loop EXCEPT ![l] = "ended"]
  /\ GoOn(FALSE)
  /\ UNCHANGED <<started, down, runtime, connected, queue, pending>>

\* As DrainTimesOut, leaving the loop's task alone.
DrainTimesOutOnly(l) ==
  /\ Step = l /\ l \in Range(down) /\ loop[l] # "ended"
  /\ GoOn(FALSE)
  /\ UNCHANGED <<started, down, runtime, connected, queue, pending, loop>>

\* The drain is cut off.  Cancelling the task that runs shutdown() cancels
\* the loop's task, which that one awaits; a submitted job stays in the queue.
DrainTimesOut(l) ==
  /\ Step = l /\ l \in Range(down) /\ loop[l] # "ended"
  /\ loop' = [loop EXCEPT ![l] = "ended"]
  /\ GoOn(FALSE)
  /\ UNCHANGED <<started, down, runtime, connected, queue, pending>>

\* WriterQueue.close refuses further jobs and waits for those it has.
CloseQueue ==
  /\ Step = "queue" /\ queue = "open"
  /\ queue' = "closed"
  /\ UNCHANGED <<phase, started, at, down, loop, pending>> /\ UNCHANGED appVars

\* As QueueClosed, without waiting for the worker.
QueueClosedAtOnce ==
  /\ Step = "queue" /\ queue = "closed"
  /\ queue' = "drained"
  /\ GoOn(FALSE)
  /\ UNCHANGED <<started, down, loop, pending, runtime, connected>>

QueueClosed ==
  /\ Step = "queue" /\ queue = "closed" /\ pending = {}
  /\ queue' = "drained"
  /\ GoOn(FALSE)
  /\ UNCHANGED <<started, down, loop, pending, runtime, connected>>

\* TelethonClientManager.shutdown disconnects one client after another.
Disconnect(a) ==
  /\ Step = "telethon" /\ "telethon" \in Range(started)
  /\ a \in connected /\ \A b \in connected : a <= b
  /\ connected' = connected \ {a}
  /\ UNCHANGED <<phase, started, at, down, runtime, attached, errors>>
  /\ UNCHANGED loopVars

\* As Shutdown, letting the error out.
ShutdownOrRaise(d, failed) ==
  /\ Step = d /\ d \in Range(started) \ Loops
  /\ d = "telethon" /\ ~failed => connected = {}
  /\ down' = Append(down, d)
  /\ GoOnUnlessFailed(failed)
  /\ UNCHANGED <<started, runtime, connected>> /\ UNCHANGED loopVars

\* Any other dependency's shutdown() returns or raises; an error is kept and
\* the sequence goes on.  A client that fails to disconnect ends the manager's.
Shutdown(d, failed) ==
  /\ Step = d /\ d \in Range(started) \ Loops
  /\ d = "telethon" /\ ~failed => connected = {}
  /\ down' = Append(down, d)
  /\ GoOn(failed)
  /\ UNCHANGED <<started, runtime, connected>> /\ UNCHANGED loopVars

DisposeRuntime(failed) ==
  /\ Step = "dispose" /\ runtime = "open"
  /\ runtime' = "disposed"
  /\ GoOn(failed)
  /\ UNCHANGED <<started, down, connected>> /\ UNCHANGED loopVars

ShutdownStep ==
  \/ Skip \/ CloseQueue \/ QueueClosed
  \/ \E l \in Loops : StopLoop(l) \/ LoopStopped(l) \/ DrainTimesOut(l)
  \/ \E a \in Accounts : Disconnect(a)
  \/ \E failed \in BOOLEAN : DisposeRuntime(failed) \/ \E d \in Range(Order) : Shutdown(d, failed)

\* A new process: nothing of the old one's memory is left.
NewProcess ==
  /\ phase' = "opening" /\ started' = <<>> /\ at' = 0 /\ down' = <<>>
  /\ loop' = [l \in Loops |-> "off"]
  /\ queue' = "none" /\ pending' = {}
  /\ runtime' = "none" /\ attached' = FALSE
  /\ connected' = {} /\ errors' = FALSE

RestartProcess == phase = "done" /\ NewProcess

\* The process is killed and started again.  Killed in its shutdown it only
\* leaves out the rest of it.
Killed == phase \in {"starting", "serving"} /\ NewProcess

LifespanNext ==
  \/ Open \/ OpenFails \/ Serve \/ CookieKeyFails \/ Sigterm \/ ApiWrite
  \/ RestartProcess \/ Killed
  \/ \E a \in Accounts : Connect(a)
  \/ \E d \in Range(Order) : DependencyStartup(d) \/ StartupFails(d)
  \/ \E l \in Loops : Tick(l) \/ Submit(l) \/ EndTick(l) \/ EndLoop(l)
  \/ \E o \in Loops \cup {"api"} : JobDone(o)
  \/ ShutdownStep

LifespanSpec == LifespanInit /\ [][LifespanNext]_lifespanVars

-----------------------------------------------------------------------------
(* Properties *)

\* The writer queue stops taking jobs only when both loops have ended, so no
\* pass of theirs is refused a write half way: a drain that is cut off ends
\* the loop before the sequence goes on (_shutdown_scheduler_with_timeout).
QueueOutlivesLoops ==
  queue \in {"closed", "drained"} => \A l \in Loops : loop[l] \in {"off", "ended"}

\* When the engines are disposed of no write is left that would need them,
\* those of requests and of loops that were cut off included: the queue has been
\* drained, or the startup failed before there was one.
EnginesOutliveWrites ==
  runtime = "disposed" => pending = {} /\ queue \in {"none", "drained"}

\* Dependencies are shut down in the reverse of the order in which they were
\* started, and at the end every started one was, whichever startup failed and
\* whichever shutdowns raised.
ShutdownReversesStartup ==
  /\ IsPrefix(down, Reverse(started))
  /\ phase = "done" => down = Reverse(started)

\* A shutdown that has begun ends, even if both loops hang in a pass.
ShutdownEnds == phase = "stopping" ~> phase = "done"

===============================================================================
