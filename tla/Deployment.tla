----------------------------- MODULE Deployment -----------------------------
(***************************************************************************)
(* Two processes of the application on one database, as when a new one is  *)
(* started before the old one is gone.  The lifetime of one, Self, is      *)
(* followed through Lifespan: the startup() of its dependencies "settings" *)
(* and "auth" is the seeding of Settings and the token of BootstrapToken,  *)
(* and its PUT requests are jobs of its writer queue.  Of the others, what *)
(* they do to the shared tables is kept.                                   *)
(***************************************************************************)
EXTENDS BootstrapToken, Lifespan

CONSTANTS
  Self,             \* the process whose lifetime is followed
  Keys, Values, Default, Absent  \* see Settings

ASSUME DeploymentAssumption ==
  Self \in Procs /\ Len(Keys) \in Nat /\ Absent \notin Values \cup {Default}

VARIABLES setting, seeded, put, stored  \* see Settings

S == INSTANCE Settings

settingsVars == <<setting, seeded, put, stored>>
allVars == <<vars, lifespanVars, settingsVars>>

Others == Procs \ {Self}

DeploymentTypeOK == TypeOK /\ LifespanTypeOK /\ S!SettingsTypeOK

DeploymentInit == Init /\ LifespanInit /\ S!SettingsInit

\* Which part of the state a step leaves alone.
SameToken    == UNCHANGED vars
SameSettings == UNCHANGED settingsVars
SameLifespan == UNCHANGED lifespanVars

-----------------------------------------------------------------------------
(* The process whose lifetime is followed *)

\* SettingsSeedDependency.startup: one default after another.
SeedAtStart == Starting("settings") /\ S!Seed(Self) /\ SameToken /\ SameLifespan

\* BootstrapBearerTokenDependency.startup.
TokenAtStart == Starting("auth") /\ Startup(Self) /\ SameSettings /\ SameLifespan

\* A startup() returns when its work is done.
StartupEnds(d) ==
  /\ d = "settings" => ~S!Seeding(Self)
  /\ d = "auth" => pc[Self] = "serving"
  /\ DependencyStartup(d)
  /\ SameToken /\ SameSettings

\* A startup() raises: the seeding at any statement, the token's at a statement
\* or when the file could not be written and the digest is taken back.
StartupRaises(d) ==
  /\ d = "settings" => S!Seeding(Self)
  /\ d = "auth" => pc[Self] = "failed"
  /\ StartupFails(d)
  /\ SameToken /\ SameSettings

\* A PUT hands its write to the queue, whose worker executes it.
PutSetting(k, v) == ApiWrite /\ S!PutSubmit(Self, k, v) /\ SameToken
PutEnds          == JobDone("api") /\ S!PutUpdate(Self) /\ SameToken

\* The rest of the lifetime, the writes of other requests included.
Elsewhere ==
  /\ \/ Open \/ OpenFails \/ Serve \/ CookieKeyFails \/ Sigterm \/ ShutdownStep
     \/ put[Self] = Absent /\ (ApiWrite \/ JobDone("api"))
     \/ \E a \in Accounts : Connect(a)
     \/ \E l \in Loops : Tick(l) \/ Submit(l) \/ EndTick(l) \/ EndLoop(l) \/ JobDone(l)
  /\ SameToken /\ SameSettings

\* The process that is down is started again.
RestartSelf ==
  /\ RestartProcess
  /\ pc' = [pc EXCEPT ![Self] = "get"] /\ token' = [token EXCEPT ![Self] = Nothing]
  /\ S!Forget(Self)
  /\ UNCHANGED <<digest, output, crashes>>

\* It is killed in its startup or while it serves, and started again.
CrashSelf == Killed /\ Crash(Self) /\ S!Forget(Self)

-----------------------------------------------------------------------------
(* The other processes *)

\* Settings are seeded before the token is looked for.
OtherStarts(p) ==
  /\ \/ S!Seed(p) /\ SameToken
     \/ ~S!Seeding(p) /\ Startup(p) /\ SameSettings
  /\ SameLifespan

OtherServes(p) ==
  /\ pc[p] = "serving"
  /\ \/ \E k \in S!Index, v \in Values : S!PutSubmit(p, k, v)
     \/ S!PutUpdate(p)
  /\ SameToken /\ SameLifespan

OtherRestarts(p) ==
  /\ (put[p] = Absent /\ Restart(p)) \/ Crash(p)
  /\ S!Forget(p) /\ SameLifespan

SelfStep ==
  \/ SeedAtStart \/ TokenAtStart \/ PutEnds \/ Elsewhere
  \/ RestartSelf \/ CrashSelf
  \/ \E d \in Range(Order) : StartupEnds(d) \/ StartupRaises(d)
  \/ \E k \in S!Index, v \in Values : PutSetting(k, v)

DeploymentNext ==
  \/ SelfStep
  \/ \E p \in Others : OtherStarts(p) \/ OtherServes(p) \/ OtherRestarts(p)

\* The event loop runs the shutdown, the timers and the writer.  Nothing is
\* assumed of the loops: a pass may hang in a call to Telegram for ever.
DeploymentSpec ==
  /\ DeploymentInit /\ [][DeploymentNext]_allVars
  /\ WF_allVars(ShutdownStep /\ SameToken /\ SameSettings)
  /\ WF_allVars(PutEnds)
  /\ \A o \in Loops \cup {"api"} :
       WF_allVars(put[Self] = Absent /\ JobDone(o) /\ SameToken /\ SameSettings)

-----------------------------------------------------------------------------
\* The properties of Lifespan and BootstrapToken are checked in the composition.

\* What a user stored stays until a user stores something else, whatever
\* starts, restarts or crashes meanwhile (seed_default_dynamic_settings).
UserValueStays == S!UserValueStays
=============================================================================
