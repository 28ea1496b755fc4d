----------------------------- MODULE BotDelivery -----------------------------
(***************************************************************************)
(* The bot delivery loop of tca/bot/delivery.py next to the code it runs   *)
(* concurrently with: the transactions that create and remove clusters     *)
(* (ClusterTable), the /bot/config handlers that change its settings, and  *)
(* the Telegram Bot API, which may fail, lose an answer or refuse a token. *)
(*                                                                         *)
(* Granularity.  Every await of run_once() that reads the database or      *)
(* talks to Telegram is a step.  Writes go through the writer queue, one   *)
(* operation at a time; an operation of several transactions is a step per *)
(* transaction, because run_once() reads the settings outside the queue.   *)
(*                                                                         *)
(* Cluster ids are reused, so clusters are told apart by a serial number   *)
(* the program does not have: the history variables speak of serials.      *)
(***************************************************************************)
EXTENDS ClusterTable, Sequences, FiniteSets

CONSTANTS
  Configs,      \* bot configurations: a token together with a chat id
  None,         \* the setting is absent
  BatchSize,    \* bot.delivery_batch_size
  MaxSerial,    \* bound: how many clusters are created
  MaxRequests,  \* bound: how many /bot/config requests are made
  MaxCrashes,   \* bound: how often the process is restarted
  Poison        \* serials of clusters whose message Telegram always refuses

ASSUME BotAssumption ==
  /\ None \notin Configs
  /\ BatchSize \in Int
  /\ MaxSerial \in Nat
  /\ MaxRequests \in Nat
  /\ MaxCrashes \in Nat
  /\ Poison \subseteq 1 .. MaxSerial

VARIABLES
  settings,   \* bot.token, bot.chat_id and bot.enabled
  api,        \* writes left of the /bot/config operation the queue executes
  valid,      \* configurations whose token Telegram accepts
  stage,      \* where run_once() is
  token,      \* local variable
  chat_id,    \* local variable
  batch,      \* entries left to process: listed cluster id |-> its serial
  consecutive_failures,  \* cluster id |-> its failures in a row
  requests,   \* /bot/config requests so far
  crashes,    \* restarts so far
  serial,     \* history: serial of the cluster that has an id
  created,    \* history: the last serial
  sent,       \* history: serials whose message reached the chat
  resent,     \* history: serials whose message reached the chat again
  recorded,   \* history: serials that got a delivery row
  streak      \* history: failures in a row of a serial, counted up to 3

store   == <<ids, delivered, serial, created>>
config  == <<settings, api, requests, valid>>
locals  == <<token, chat_id, batch>>
bot     == <<stage, locals, consecutive_failures>>
history == <<sent, resent, recorded, streak>>
botVars == <<store, config, bot, crashes, history>>

-----------------------------------------------------------------------------
ClusterId == 1 .. MaxCluster
Serial == 1 .. MaxSerial
Setting == Configs \cup {None}

Write == [key : {"token", "chat_id"}, value : Setting]
           \cup [key : {"enabled"}, value : BOOLEAN]

NoBatch == [c \in {} |-> 0]

BotTypeOK ==
  /\ ids \subseteq ClusterId /\ delivered \subseteq ids
  /\ settings \in [token : Setting, chat_id : Setting, enabled : BOOLEAN]
  /\ api \in Seq(Write)
  /\ valid \subseteq Configs
  /\ stage \in {"idle", "token", "chat_id", "list", "send", "record", "warn",
             "unauthorized", "disable"}
  /\ token \in Setting /\ chat_id \in Setting
  /\ DOMAIN batch \subseteq ClusterId /\ batch \in [DOMAIN batch -> Serial]
  /\ stage \in {"send", "record", "warn"} =>
       token # None /\ chat_id # None /\ batch # NoBatch
  /\ consecutive_failures \in [ClusterId -> 0 .. 2]
  /\ requests \in 0 .. MaxRequests /\ crashes \in 0 .. MaxCrashes
  /\ serial \in [ids -> Serial]
  /\ created \in 0 .. MaxSerial
  /\ resent \subseteq sent /\ sent \subseteq Serial /\ recorded \subseteq Serial
  /\ streak \in [Serial -> 0 .. 3]

BotInit ==
  /\ CInit
  /\ \E k \in Setting :
       settings = [token |-> k, chat_id |-> k, enabled |-> k # None]
  /\ api = <<>>
  /\ requests = 0
  /\ valid = Configs
  /\ stage = "idle"
  /\ token = None /\ chat_id = None
  /\ batch = NoBatch
  /\ consecutive_failures = [c \in ClusterId |-> 0]
  /\ crashes = 0
  /\ serial = NoBatch
  /\ created = 0
  /\ sent = {} /\ resent = {} /\ recorded = {}
  /\ streak = [s \in Serial |-> 0]

-----------------------------------------------------------------------------
(* The store: transactions of the ingest, dedupe, prune and purge code *)

AddCluster ==
  /\ created < MaxSerial
  /\ CreateCluster
  /\ created' = created + 1
  /\ serial' = [c \in ids' |-> IF c \in ids THEN serial[c] ELSE created + 1]
  /\ UNCHANGED <<config, bot, crashes, history>>

DropClusters(S) ==
  /\ S # {}
  /\ RemoveClusters(S)
  /\ serial' = [c \in ids' |-> serial[c]]
  /\ UNCHANGED <<created, config, bot, crashes, history>>

-----------------------------------------------------------------------------
(* POST and DELETE /bot/config, and Telegram revoking a token *)

QueueFree == api = <<>> /\ stage # "disable"

Request ==
  /\ QueueFree
  /\ requests < MaxRequests
  /\ requests' = requests + 1

\* The token was validated before the operation was queued.
Configure(k) ==
  /\ Request
  /\ k \in valid
  /\ api' = << [key |-> "token", value |-> k],
               [key |-> "chat_id", value |-> k],
               [key |-> "enabled", value |-> TRUE] >>
  /\ UNCHANGED <<store, settings, valid, bot, crashes, history>>

Unconfigure ==
  /\ Request
  /\ api' = << [key |-> "token", value |-> None],
               [key |-> "chat_id", value |-> None],
               [key |-> "enabled", value |-> FALSE] >>
  /\ UNCHANGED <<store, settings, valid, bot, crashes, history>>

\* One transaction of the operation.
ApiWrite ==
  /\ api # <<>>
  /\ settings' = [settings EXCEPT ![Head(api).key] = Head(api).value]
  /\ api' = Tail(api)
  /\ UNCHANGED <<store, requests, valid, bot, crashes, history>>

\* A transaction raises: the rest of the operation is not done.
ApiFails ==
  /\ api # <<>>
  /\ api' = <<>>
  /\ UNCHANGED <<store, settings, requests, valid, bot, crashes, history>>

Revoke(k) ==
  /\ k \in valid
  /\ valid' = valid \ {k}
  /\ UNCHANGED <<store, settings, api, requests, bot, crashes, history>>

-----------------------------------------------------------------------------
(* BotDeliveryCoreLoop.run_once, first half: settings and the batch *)

\* Variant: the setting is not looked at.
WakeAlways ==
  /\ stage = "idle"
  /\ stage' = "token"
  /\ UNCHANGED <<store, config, locals, consecutive_failures, crashes, history>>

\* A run that finds the bot disabled returns at once.
Wake ==
  /\ stage = "idle"
  /\ stage' = IF settings.enabled THEN "token" ELSE "idle"
  /\ UNCHANGED <<store, config, locals, consecutive_failures, crashes, history>>

ReadToken ==
  /\ stage = "token"
  /\ token' = settings.token
  /\ stage' = "chat_id"
  /\ UNCHANGED <<store, config, chat_id, batch, consecutive_failures, crashes,
                 history>>

\* run_once() ends, and with it its local variables.
Return ==
  stage' = "idle" /\ token' = None /\ chat_id' = None /\ batch' = NoBatch

ReadChatId ==
  /\ stage = "chat_id"
  /\ IF token = None \/ settings.chat_id = None
     THEN Return
     ELSE /\ chat_id' = settings.chat_id
          /\ stage' = "list"
          /\ UNCHANGED <<token, batch>>
  /\ UNCHANGED <<store, config, consecutive_failures, crashes, history>>

\* ORDER BY clusters.id ASC LIMIT n; SQLite takes a negative limit for none.
Oldest(S, n) == {c \in S : n < 0 \/ Cardinality({d \in S : d < c}) < n}

\* The loop over the entries goes on with b.
Continue(b) ==
  IF b = NoBatch
  THEN Return
  ELSE stage' = "send" /\ batch' = b /\ UNCHANGED <<token, chat_id>>

\* Variant: the join with bot_deliveries is left out.
ListDelivered ==
  /\ stage = "list"
  /\ Continue([c \in Oldest(ids, BatchSize) |-> serial[c]])
  /\ UNCHANGED <<store, config, consecutive_failures, crashes, history>>

List ==
  /\ stage = "list"
  /\ Continue([c \in Oldest(ids \ delivered, BatchSize) |-> serial[c]])
  /\ UNCHANGED <<store, config, consecutive_failures, crashes, history>>

-----------------------------------------------------------------------------
(* BotDeliveryCoreLoop.run_once, second half: one entry after the other *)

Entry == Min(DOMAIN batch)

Advance == Continue([c \in DOMAIN batch \ {Entry} |-> batch[c]])

Reaches(s) ==
  /\ sent' = sent \cup {s}
  /\ resent' = IF s \in sent THEN resent \cup {s} ELSE resent

\* Variants of "except Exception": the loop is inside the try block; the
\* warning comes one failure later.
FailedEndsRun ==
  /\ streak' = [streak EXCEPT ![batch[Entry]] = Min({3, @ + 1})]
  /\ Return
  /\ UNCHANGED consecutive_failures

FailedLate ==
  /\ streak' = [streak EXCEPT ![batch[Entry]] = Min({3, @ + 1})]
  /\ IF consecutive_failures[Entry] + 1 >= 3 /\ streak[batch[Entry]] = 3
     THEN stage' = "warn" /\ UNCHANGED <<locals, consecutive_failures>>
     ELSE /\ consecutive_failures' =
               [consecutive_failures EXCEPT ![Entry] = Min({2, @ + 1})]
          /\ Advance

\* "except Exception": the third failure in a row is to be warned about.
Failed ==
  /\ streak' = [streak EXCEPT ![batch[Entry]] = Min({3, @ + 1})]
  /\ IF consecutive_failures[Entry] + 1 >= 3
     THEN stage' = "warn" /\ UNCHANGED <<locals, consecutive_failures>>
     ELSE /\ consecutive_failures' = [consecutive_failures EXCEPT ![Entry] = @ + 1]
          /\ Advance

SendOk ==
  /\ stage = "send"
  /\ token \in valid
  /\ batch[Entry] \notin Poison
  /\ Reaches(batch[Entry])
  /\ stage' = "record"
  /\ UNCHANGED <<store, config, locals, consecutive_failures, crashes, recorded,
                 streak>>

\* The message reaches the chat and the answer is lost, late or unreadable.
SendUnanswered ==
  /\ stage = "send"
  /\ token \in valid
  /\ batch[Entry] \notin Poison
  /\ Reaches(batch[Entry])
  /\ Failed
  /\ UNCHANGED <<store, config, crashes, recorded>>

SendFails ==
  /\ stage = "send"
  /\ Failed
  /\ UNCHANGED <<store, config, crashes, sent, resent, recorded>>

SendUnauthorized ==
  /\ stage = "send"
  /\ token \notin valid
  /\ stage' = "unauthorized"
  /\ UNCHANGED <<store, config, locals, consecutive_failures, crashes, history>>

\* _write_delivery: the row is keyed by the id that was listed.
RecordOk ==
  /\ stage = "record"
  /\ QueueFree
  /\ DeliverCluster(Entry)
  /\ recorded' = recorded \cup {serial[Entry]}
  /\ consecutive_failures' = [consecutive_failures EXCEPT ![Entry] = 0]
  /\ streak' = [streak EXCEPT ![batch[Entry]] = 0]
  /\ Advance
  /\ UNCHANGED <<serial, created, config, crashes, sent, resent>>

\* The cluster is gone, the row exists, the database is locked or the queue is
\* closed.
RecordFails ==
  /\ stage = "record"
  /\ QueueFree
  /\ Failed
  /\ UNCHANGED <<store, config, crashes, sent, resent, recorded>>

\* _log_failure.
Warn ==
  /\ stage = "warn"
  /\ QueueFree
  /\ consecutive_failures' = [consecutive_failures EXCEPT ![Entry] = 0]
  /\ streak' = [streak EXCEPT ![batch[Entry]] = 0]
  /\ Advance
  /\ UNCHANGED <<store, config, crashes, sent, resent, recorded>>

\* _handle_token_invalid: the notification, then bot.enabled.
NotifyUnauthorized ==
  /\ stage = "unauthorized"
  /\ QueueFree
  /\ stage' = "disable"
  /\ UNCHANGED <<store, config, locals, consecutive_failures, crashes, history>>

Disable ==
  /\ stage = "disable"
  /\ settings' = [settings EXCEPT !.enabled = FALSE]
  /\ Return
  /\ UNCHANGED <<store, api, requests, valid, consecutive_failures, crashes,
                 history>>

\* A write of an exception handler raises: run_once() ends with it.
HandlerFails ==
  /\ stage = "disable" \/ (stage \in {"warn", "unauthorized"} /\ QueueFree)
  /\ Return
  /\ UNCHANGED <<store, config, consecutive_failures, crashes, history>>

\* The process dies and is started again: what is in memory is lost.
Crash ==
  /\ crashes < MaxCrashes
  /\ crashes' = crashes + 1
  /\ Return
  /\ consecutive_failures' = [c \in ClusterId |-> 0]
  /\ streak' = [s \in Serial |-> 0]
  /\ api' = <<>>
  /\ UNCHANGED <<store, settings, requests, valid, sent, resent, recorded>>

-----------------------------------------------------------------------------
Send == SendOk \/ SendUnanswered \/ SendFails \/ SendUnauthorized

BotNext ==
  \/ AddCluster \/ (\E S \in SUBSET ids : DropClusters(S))
  \/ (\E k \in Configs : Configure(k) \/ Revoke(k))
  \/ Unconfigure \/ ApiWrite \/ ApiFails
  \/ Wake \/ ReadToken \/ ReadChatId \/ List
  \/ Send \/ RecordOk \/ RecordFails \/ Warn
  \/ NotifyUnauthorized \/ Disable \/ HandlerFails
  \/ Crash

BotSpec == BotInit /\ [][BotNext]_botVars

\* _run_loop() calls run_once() at every interval and no step of it hangs; the
\* writer queue is first in, first out, so the bot gets its turn.  A message that
\* Telegram accepts, a refusal of the token and a write do not fail to come
\* through every time they are tried.
Fairness ==
  /\ WF_botVars(Wake) /\ WF_botVars(ReadToken) /\ WF_botVars(ReadChatId)
  /\ WF_botVars(List)
  /\ WF_botVars(Send) /\ WF_botVars(RecordOk \/ RecordFails)
  /\ WF_botVars(Warn \/ NotifyUnauthorized \/ Disable \/ HandlerFails)
  /\ WF_botVars(ApiWrite \/ ApiFails)
  /\ \A s \in Serial \ Poison :
       SF_botVars(batch # NoBatch /\ batch[Entry] = s /\ SendOk)
  /\ SF_botVars(SendUnauthorized)
  /\ SF_botVars(RecordOk) /\ SF_botVars(Warn)
  /\ SF_botVars(NotifyUnauthorized) /\ SF_botVars(Disable)

FairBotSpec == BotSpec /\ Fairness

-----------------------------------------------------------------------------
(* Properties *)

\* Once a cluster has its delivery row, its message is never sent again:
\* list_undelivered_entries() leaves it out, and no later step of a run that
\* listed it earlier, of a restarted process or of a cluster that gets its id
\* brings it back.
RecordedIsNotSentAgain ==
  [][\A s \in recorded :
       (s \in sent' => s \in sent) /\ (s \in resent' => s \in resent)]_botVars

\* The third failure in a row to deliver a cluster takes run_once() to the
\* warning, although runs, other entries and, after a removal, other clusters
\* with the same id come in between.
ThirdFailureWarns ==
  [][\A s \in Serial : streak[s] = 2 /\ streak'[s] = 3 => stage' = "warn"]_botVars

\* record_delivery() records a delivery that took place: a cluster that has its
\* row was sent.
RecordedWasSent == recorded \subseteq sent

Configured ==
  settings.enabled /\ settings.token # None /\ settings.chat_id # None

\* While the bot is enabled and configured, a cluster that stays gets delivered,
\* unless Telegram refuses its message: failures of other entries do not hold it
\* up.
ClusterGetsDelivered ==
  \A s \in Serial \ Poison :
    (\E c \in ids : serial[c] = s) ~>
       (s \in recorded \/ ~Configured \/ ~\E c \in ids : serial[c] = s)

\* A bot that is disabled for good, by its user or because of its token, sends
\* at most what the current run has listed and then stays quiet.
DisabledBotFallsSilent == <>[]~settings.enabled => <>[](stage = "idle")
=============================================================================
