-------------------------------- MODULE Ingest --------------------------------
(***************************************************************************)
(* Reading one channel: fetch_bounded_messages and upsert_raw_message of   *)
(* tca/ingest/service.py, execute_with_ingest_error_capture of             *)
(* error_capture.py, and the raw_messages, ingest_errors and channel_state *)
(* rows they write.  A walk goes from the newest message to the oldest and *)
(* may take several polls, each bounded in pages and in messages; the next *)
(* offset is kept in the cursor.                                           *)
(*                                                                         *)
(* The worker that calls them is not in the repository, and no test puts   *)
(* them together.  It is ASSUMED to poll a channel in one place at a time, *)
(* and to write the cursor after the raw rows of the messages it fetched.  *)
(* Telegram is external: the channel changes between any two calls.  An id *)
(* is 0 where the code has None.                                           *)
(***************************************************************************)
EXTENDS Integers, FiniteSets

CONSTANTS
  PageSize,     \* page_size
  Limits,       \* max_pages_per_poll and max_messages_per_poll, as users set them
  MaxId,        \* bound: messages ever posted
  MaxChanges,   \* bound: edits and deletions
  MaxFailures   \* bound: failed calls and crashes

ASSUME IngestAssumption ==
  /\ PageSize \in Nat \ {0}
  /\ Limits \subseteq [pages : Nat, messages : Nat]
  /\ {MaxId, MaxChanges, MaxFailures} \subseteq Nat

VARIABLES
  posts,     \* Telegram: message id |-> how often it was edited
  issued,    \* Telegram: the last id
  raw,       \* raw_messages: message id |-> the edit that is stored
  failed,    \* ingest_errors: the messages whose upsert failed
  cursor,    \* channel_state.cursor_json
  pc,        \* where the poll is
  limits,    \* its limits
  offset,    \* offset_id
  recent,    \* most_recent_id
  pages,     \* pages_fetched
  fetched,   \* messages, without those that are dealt with
  size,      \* len(messages)
  changes, failures,
  scope,     \* history: the messages that were there when the poll's walk began
  walk       \* history: as scope, of the walk the cursor is about

channelVars == <<posts, issued, changes>>
tableVars   == <<raw, failed, cursor, walk>>
pollVars    == <<limits, offset, recent, pages, fetched, size, scope>>
vars == <<channelVars, tableVars, pollVars, pc, failures>>

-----------------------------------------------------------------------------
NoId == 0
Ids == 1 .. MaxId
Version == 0 .. MaxChanges
Cursor == [last : Ids \cup {NoId}, next : Ids \cup {NoId}]
Empty == [m \in {} |-> 0]

Message == UNION {[S -> Version] : S \in SUBSET Ids}

TypeOK ==
  /\ posts \in Message /\ raw \in Message /\ fetched \in Message
  /\ issued \in 0 .. MaxId
  /\ DOMAIN posts \cup DOMAIN raw \cup DOMAIN fetched \cup failed \subseteq 1 .. issued
  /\ scope \cup walk \subseteq 1 .. issued
  /\ cursor \in Cursor
  /\ pc \in {"idle", "fetch", "store", "capture"}
  /\ limits \in Limits
  /\ offset \in Ids \cup {NoId} /\ recent \in Ids \cup {NoId}
  /\ pages \in Nat /\ size \in Nat
  /\ changes \in 0 .. MaxChanges /\ failures \in 0 .. MaxFailures

Init ==
  /\ issued \in 0 .. MaxId
  /\ posts = [m \in 1 .. issued |-> 0]
  /\ raw = Empty /\ failed = {} /\ cursor = [last |-> NoId, next |-> NoId]
  /\ pc = "idle" /\ limits \in Limits
  /\ offset = NoId /\ recent = NoId /\ pages = 0 /\ fetched = Empty /\ size = 0
  /\ changes = 0 /\ failures = 0
  /\ scope = {} /\ walk = {}

-----------------------------------------------------------------------------
(* The channel *)

Post ==
  /\ issued < MaxId
  /\ issued' = issued + 1
  /\ posts' = [m \in DOMAIN posts \cup {issued'} |-> IF m = issued' THEN 0 ELSE posts[m]]
  /\ UNCHANGED <<changes, tableVars, pollVars, pc, failures>>

Change == changes < MaxChanges /\ changes' = changes + 1

Edit(m) ==
  /\ Change
  /\ m \in DOMAIN posts
  /\ posts' = [posts EXCEPT ![m] = @ + 1]
  /\ UNCHANGED <<issued, tableVars, pollVars, pc, failures>>

Delete(m) ==
  /\ Change
  /\ m \in DOMAIN posts
  /\ posts' = [n \in DOMAIN posts \ {m} |-> posts[n]]
  /\ UNCHANGED <<issued, tableVars, pollVars, pc, failures>>

-----------------------------------------------------------------------------
(* fetch_bounded_messages *)

\* get_messages returns messages older than the offset.
Older == {m \in DOMAIN posts : offset = NoId \/ m < offset}

\* It returns the newest ones, and fewer than asked for only if there are no more.
IsPage(batch, limit) ==
  /\ \A m \in batch, n \in Older \ batch : n < m
  /\ Cardinality(batch) <= limit
  /\ Cardinality(batch) < limit => batch = Older

\* The poll reads its cursor; without a page or a message to fetch it is over.
Begin(l) ==
  /\ pc = "idle"
  /\ limits' = l
  /\ offset' = cursor.next /\ recent' = cursor.last
  /\ pages' = 0 /\ fetched' = Empty /\ size' = 0
  /\ \/ /\ l.pages = 0 \/ l.messages = 0
        /\ pc' = "store"
        /\ scope' = walk
     \/ /\ l.pages > 0 /\ l.messages > 0
        /\ pc' = "fetch"
        /\ scope' = IF cursor.next = NoId THEN DOMAIN posts ELSE walk
  /\ UNCHANGED <<channelVars, tableVars, failures>>

PageLimit ==
  LET remaining == limits.messages - size
  IN  IF PageSize <= remaining THEN PageSize ELSE remaining

\* messages.extend(batch)
Extend(batch) ==
  /\ fetched' = [m \in DOMAIN fetched \cup batch |->
                   IF m \in batch THEN posts[m] ELSE fetched[m]]
  /\ size' = size + Cardinality(batch)
  /\ pages' = pages + 1

More == pages' < limits.pages /\ size' < limits.messages

\* Nothing is left: the walk is over.
FetchEmpty ==
  /\ pc = "fetch"
  /\ IsPage({}, PageLimit)
  /\ Extend({})
  /\ offset' = NoId
  /\ pc' = "store"
  /\ UNCHANGED <<channelVars, tableVars, limits, recent, scope, failures>>

\* Variant: the last id of the page is the most recent one of the cursor.
FetchPageForgets ==
  /\ pc = "fetch"
  /\ \E batch \in SUBSET Older : \E hi, lo \in batch :
       /\ IsPage(batch, PageLimit)
       /\ \A m \in batch : lo <= m /\ m <= hi
       /\ Extend(batch)
       /\ recent' = hi
       /\ offset' = IF Cardinality(batch) < PageLimit THEN NoId ELSE lo
       /\ pc' = IF offset' # NoId /\ More THEN "fetch" ELSE "store"
  /\ UNCHANGED <<channelVars, tableVars, limits, scope, failures>>

\* Variant: the next page begins below the message after the last one.
FetchPageSkips ==
  /\ pc = "fetch"
  /\ \E batch \in SUBSET Older : \E hi, lo \in batch :
       /\ IsPage(batch, PageLimit)
       /\ \A m \in batch : lo <= m /\ m <= hi
       /\ Extend(batch)
       /\ recent' = IF hi > recent THEN hi ELSE recent
       /\ offset' = IF Cardinality(batch) < PageLimit THEN NoId ELSE lo - 1
       /\ pc' = IF offset' # NoId /\ More THEN "fetch" ELSE "store"
  /\ UNCHANGED <<channelVars, tableVars, limits, scope, failures>>

\* A page with messages; a short one ends the walk.
FetchPage ==
  /\ pc = "fetch"
  /\ \E batch \in SUBSET Older : \E hi, lo \in batch :
       /\ IsPage(batch, PageLimit)
       /\ \A m \in batch : lo <= m /\ m <= hi
       /\ Extend(batch)
       /\ recent' = IF hi > recent THEN hi ELSE recent
       /\ offset' = IF Cardinality(batch) < PageLimit THEN NoId ELSE lo
       /\ pc' = IF offset' # NoId /\ More THEN "fetch" ELSE "store"
  /\ UNCHANGED <<channelVars, tableVars, limits, scope, failures>>

-----------------------------------------------------------------------------
(* The raw rows, newest message first *)

Newest(m) == m \in DOMAIN fetched /\ \A n \in DOMAIN fetched : n <= m

DealtWith(m) == fetched' = [n \in DOMAIN fetched \ {m} |-> fetched[n]]

\* Variant: ON CONFLICT DO NOTHING.
UpsertRowOnce(m, v) ==
  raw' = [n \in DOMAIN raw \cup {m} |-> IF n \in DOMAIN raw THEN raw[n] ELSE v]

\* RawMessagesRepository.upsert_raw_message: what is stored for the id is replaced.
UpsertRow(m, v) ==
  raw' = [n \in DOMAIN raw \cup {m} |-> IF n = m THEN v ELSE raw[n]]

\* IngestErrorsRepository.create
CreateError(m) == failed' = failed \cup {m}

\* upsert_raw_message, a job of the writer queue.
Upsert(m) ==
  /\ pc = "store" /\ Newest(m)
  /\ UpsertRow(m, fetched[m])
  /\ DealtWith(m)
  /\ UNCHANGED <<channelVars, failed, cursor, walk, limits, offset, recent, pages, size,
                 scope, pc, failures>>

Fail == failures < MaxFailures /\ failures' = failures + 1

\* The payload cannot be encoded, or the statement fails.
UpsertFails(m) ==
  /\ pc = "store" /\ Newest(m)
  /\ Fail
  /\ pc' = "capture"
  /\ UNCHANGED <<channelVars, tableVars, pollVars>>

\* capture_ingest_error, in another job of the queue; the poll goes on.
Capture(m) ==
  /\ pc = "capture" /\ Newest(m)
  /\ CreateError(m)
  /\ DealtWith(m)
  /\ pc' = "store"
  /\ UNCHANGED <<channelVars, raw, cursor, walk, limits, offset, recent, pages, size,
                 scope, failures>>

-----------------------------------------------------------------------------
\* The poll's variables no longer matter.
Forget ==
  /\ pc' = "idle"
  /\ offset' = NoId /\ recent' = NoId /\ pages' = 0 /\ fetched' = Empty /\ size' = 0
  /\ scope' = {}
  /\ UNCHANGED limits

\* update_cursor, which the worker is assumed to call when every message it has
\* fetched is stored or recorded as an error.
UpdateCursor ==
  /\ pc = "store" /\ fetched = Empty
  /\ cursor' = [last |-> recent, next |-> offset]
  /\ walk' = scope
  /\ Forget
  /\ UNCHANGED <<channelVars, raw, failed, failures>>

\* The poll ends without a new cursor: the process dies, a call to Telegram or
\* the capture of an error raises, or the cursor cannot be written.
Abandon ==
  /\ pc # "idle"
  /\ Fail
  /\ Forget
  /\ UNCHANGED <<channelVars, tableVars>>

Poll ==
  \/ FetchEmpty \/ FetchPage \/ UpdateCursor
  \/ \E m \in Ids : Upsert(m) \/ Capture(m)

Next ==
  \/ Post \/ Poll \/ Abandon
  \/ \E l \in Limits : Begin(l)
  \/ \E m \in Ids : Edit(m) \/ Delete(m) \/ UpsertFails(m)

Spec == Init /\ [][Next]_vars

\* A poll that was begun goes on, and the scheduler lets one begin again and
\* again whose limits are not zero.
FairSpec ==
  /\ Spec
  /\ WF_vars(Poll)
  /\ SF_vars(\E l \in Limits : l.pages > 0 /\ l.messages > 0 /\ Begin(l))

-----------------------------------------------------------------------------
(* Properties *)

\* The cursor's last_message_id never goes back, although a walk that is taken
\* up again fetches older and older messages (fetch_bounded_messages).
CursorAdvances == [][cursor'.last >= cursor.last]_vars

\* The part of its walk that the cursor has behind it.
Behind(m) == m \in walk /\ m >= cursor.next

\* What the cursor has behind it, all of the walk when next_offset_id is None,
\* is in raw_messages or has a row in ingest_errors, as far as the channel still
\* has it: no page boundary, deletion between two pages, failed upsert, crash or
\* change of the limits makes a walk pass over a message.
WalkedIsKept ==
  \A m \in DOMAIN posts : Behind(m) => m \in DOMAIN raw \cup failed

\* A message that stays in the channel as it is gets stored as it is, an edited
\* one included: the walks come back to it.
LatestIsStored ==
  \A m \in Ids, v \in Version :
    (m \in DOMAIN posts /\ posts[m] = v) ~>
      \/ m \notin DOMAIN posts \/ posts[m] # v
      \/ m \in DOMAIN raw /\ raw[m] = v
===============================================================================
