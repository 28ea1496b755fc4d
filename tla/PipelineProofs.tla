--------------------------- MODULE PipelineProofs ---------------------------
(***************************************************************************)
(* Proofs about the two ends of the pipeline: what is read from a channel, *)
(* for any page size, limits, messages, changes and failures, and what the *)
(* bot delivers, for any clusters, batch size, requests and restarts.      *)
(***************************************************************************)
EXTENDS Ingest, BotDelivery, RowIdsProofs, FiniteSetTheorems

-----------------------------------------------------------------------------
(* Reading a channel: a walk passes over nothing, and the cursor never goes *)
(* back.                                                                    *)

Types ==
  /\ issued \in 0 .. MaxId
  /\ DOMAIN posts \subseteq 1 .. issued
  /\ scope \subseteq 1 .. issued /\ walk \subseteq 1 .. issued
  /\ cursor \in Cursor
  /\ pc \in {"idle", "fetch", "store", "capture"}
  /\ limits \in Limits
  /\ offset \in Ids \cup {NoId} /\ recent \in Ids \cup {NoId}
  /\ size \in Nat

\* The part of its walk that a poll has behind it.  While it fetches, no offset
\* means that it is at the start; afterwards, that the walk is over.
Passed(m) == m >= offset /\ (pc = "fetch" => offset # NoId)

\* What a poll holds on to: the messages it has passed are stored, recorded as
\* failed, or still in its hands.
PollInv ==
  pc # "idle" =>
    /\ cursor.last <= recent
    /\ pc = "fetch" => size < limits.messages
    /\ \A m \in scope \cap DOMAIN posts :
         Passed(m) => m \in DOMAIN raw \cup failed \cup DOMAIN fetched

\* The inductive invariant: WalkedIsKept is about what was committed, PollInv
\* about what the poll in progress is going to commit.
IngestInv == Types /\ PollInv /\ WalkedIsKept

-----------------------------------------------------------------------------
\* A request to Telegram always asks for a message at least.
LEMMA PageLimitFacts ==
  ASSUME Types, size < limits.messages
  PROVE  PageLimit \in Nat \ {0}
<1>1. limits.messages \in Nat
  BY IngestAssumption DEF Types
<1> QED
  BY <1>1, IngestAssumption DEF PageLimit, Types

\* A page is a finite set of messages.
LEMMA PageFacts ==
  ASSUME Types, NEW page \in SUBSET Older
  PROVE  Cardinality(page) \in Nat /\ page \subseteq 1 .. issued /\ page \subseteq Ids
<1>1. page \subseteq 1 .. issued /\ issued \in Nat /\ 1 .. issued \subseteq Ids
  BY IngestAssumption DEF Older, Types, Ids
<1>2. IsFiniteSet(page)
  <2>1. IsFiniteSet(1 .. issued)
    BY <1>1, FS_Interval
  <2> QED
    BY <1>1, <2>1, FS_Subset
<1> QED
  BY <1>1, <1>2, FS_CardinalityType

\* Whatever happens in the channel, nothing enters what a walk has to cover.
LEMMA ChannelStep ==
  ASSUME IngestInv, Post \/ \E m \in Ids : Edit(m) \/ Delete(m)
  PROVE  IngestInv'
<1>1. UNCHANGED <<raw, failed, cursor, walk, limits, offset, recent, fetched, size, scope, pc>>
  BY DEF Post, Edit, Delete, tableVars, pollVars
<1>2. /\ issued' \in 0 .. MaxId /\ issued <= issued'
      /\ DOMAIN posts' \subseteq DOMAIN posts \cup {issued + 1}
      /\ DOMAIN posts' \subseteq 1 .. issued'
  <2>1. MaxId \in Nat /\ issued \in 0 .. MaxId /\ DOMAIN posts \subseteq 1 .. issued
    BY IngestAssumption DEF IngestInv, Types
  <2>2. CASE Post
    BY <2>1, <2>2 DEF Post
  <2>3. CASE \E m \in Ids : Edit(m) \/ Delete(m)
    BY <2>1, <2>3 DEF Edit, Delete
  <2> QED
    BY <2>2, <2>3
<1>3. Types'
  BY <1>1, <1>2 DEF IngestInv, Types
<1>4. issued + 1 \notin scope \cup walk
  BY DEF IngestInv, Types
<1>5. PollInv'
  BY <1>1, <1>2, <1>4 DEF IngestInv, PollInv, Passed
<1>6. WalkedIsKept'
  BY <1>1, <1>2, <1>4 DEF IngestInv, WalkedIsKept, Behind
<1> QED
  BY <1>3, <1>5, <1>6 DEF IngestInv

\* A poll begins where the cursor is.
LEMMA BeginStep ==
  ASSUME IngestInv, NEW l \in Limits, Begin(l)
  PROVE  IngestInv'
<1>1. UNCHANGED <<posts, issued, raw, failed, cursor, walk>>
  BY DEF Begin, channelVars, tableVars
<1>2. /\ offset' = cursor.next /\ recent' = cursor.last /\ size' = 0 /\ limits' = l
      /\ cursor.next \in Ids \cup {NoId} /\ cursor.last \in Ids \cup {NoId}
      /\ l.pages \in Nat /\ l.messages \in Nat
  BY IngestAssumption DEF Begin, IngestInv, Types, Cursor
<1>3. \/ pc' = "store" /\ scope' = walk
      \/ /\ pc' = "fetch" /\ l.messages > 0
         /\ scope' = IF cursor.next = NoId THEN DOMAIN posts ELSE walk
  BY DEF Begin
<1>4. Types'
  BY <1>1, <1>2, <1>3 DEF IngestInv, Types
<1>5. PollInv'
  <2>1. cursor.last <= recent' /\ (pc' = "fetch" => size' < l.messages)
    BY <1>2, <1>3, IngestAssumption DEF Ids, NoId
  <2>2. ASSUME NEW m \in scope' \cap DOMAIN posts, Passed(m)' PROVE m \in DOMAIN raw \cup failed
    BY <1>1, <1>2, <1>3, <2>2 DEF Passed, IngestInv, WalkedIsKept, Behind
  <2> QED
    BY <1>1, <1>2, <2>1, <2>2 DEF PollInv
<1>6. WalkedIsKept'
  BY <1>1 DEF IngestInv, WalkedIsKept, Behind
<1> QED
  BY <1>4, <1>5, <1>6 DEF IngestInv

\* An empty page: everything that is left of the walk was passed.
LEMMA FetchEmptyStep ==
  ASSUME IngestInv, FetchEmpty
  PROVE  IngestInv'
<1>1. /\ UNCHANGED <<posts, issued, raw, failed, cursor, walk, limits, recent, scope>>
      /\ offset' = NoId /\ pc = "fetch" /\ pc' = "store" /\ size' = size + Cardinality({})
      /\ DOMAIN fetched' = DOMAIN fetched
  BY DEF FetchEmpty, Extend, channelVars, tableVars
<1>2. Cardinality({}) = 0
  BY FS_EmptySet
<1>3. PageLimit \in Nat \ {0}
  BY <1>1, PageLimitFacts DEF IngestInv, PollInv
<1>4. Older = {}
  BY <1>2, <1>3 DEF FetchEmpty, IsPage
<1>5. \A m \in DOMAIN posts : Passed(m)
  BY <1>4, IngestAssumption DEF Older, Passed, IngestInv, Types, Ids, NoId
<1>6. Types'
  BY <1>1, <1>2 DEF IngestInv, Types
<1>7. PollInv'
  BY <1>1, <1>5 DEF IngestInv, PollInv
<1>8. WalkedIsKept'
  BY <1>1 DEF IngestInv, WalkedIsKept, Behind
<1> QED
  BY <1>6, <1>7, <1>8 DEF IngestInv

\* A page: what lies between the two offsets is in it, and so is everything that
\* is left if it is short.
LEMMA FetchPageStep ==
  ASSUME IngestInv, FetchPage
  PROVE  IngestInv'
<1> DEFINE PageIs(page, hi, lo) ==
        /\ IsPage(page, PageLimit)
        /\ \A m \in page : lo <= m /\ m <= hi
        /\ Extend(page)
        /\ recent' = IF hi > recent THEN hi ELSE recent
        /\ offset' = IF Cardinality(page) < PageLimit THEN NoId ELSE lo
        /\ pc' = IF offset' # NoId /\ More THEN "fetch" ELSE "store"
<1>0. PICK page \in SUBSET Older : \E hi, lo \in page : PageIs(page, hi, lo)
  BY DEF FetchPage
<1>1. PICK hi \in page, lo \in page : PageIs(page, hi, lo)
  BY <1>0
<1>2. /\ UNCHANGED <<posts, issued, raw, failed, cursor, walk, limits, scope>>
      /\ pc = "fetch" /\ DOMAIN fetched' = DOMAIN fetched \cup page
      /\ size' = size + Cardinality(page)
  BY <1>1 DEF FetchPage, Extend, channelVars, tableVars
<1>3. Cardinality(page) \in Nat /\ page \subseteq 1 .. issued /\ page \subseteq Ids
  BY PageFacts DEF IngestInv
<1>4. Types'
  BY <1>1, <1>2, <1>3 DEF IngestInv, Types
<1>5. ASSUME NEW m \in scope \cap DOMAIN posts, Passed(m)'
      PROVE  m \in DOMAIN raw \cup failed \cup DOMAIN fetched'
  <2>1. m \in Nat /\ offset \in Nat /\ lo \in Nat
    BY <1>3, IngestAssumption DEF IngestInv, Types, Ids, NoId
  <2>2. CASE m \in page
    BY <1>2, <2>2
  <2>3. CASE m \notin Older
    BY <1>2, <2>1, <2>3 DEF Older, IngestInv, PollInv, Passed
  <2>4. CASE m \in Older \ page
    <3>1. m < lo /\ ~(Cardinality(page) < PageLimit)
      BY <1>1, <2>4 DEF IsPage
    <3> QED
      BY <1>1, <1>5, <2>1, <3>1 DEF Passed
  <2> QED
    BY <2>2, <2>3, <2>4
<1>6. cursor.last <= recent'
  BY <1>1, <1>2, <1>3, IngestAssumption DEF IngestInv, PollInv, Types, Cursor, Ids, NoId
<1>7. pc' = "fetch" => size' < limits.messages
  BY <1>1 DEF More
<1>8. PollInv'
  BY <1>2, <1>5, <1>6, <1>7 DEF PollInv
<1>9. WalkedIsKept'
  BY <1>2 DEF IngestInv, WalkedIsKept, Behind
<1> QED
  BY <1>4, <1>8, <1>9 DEF IngestInv

\* A message leaves the poll's hands for one of the two tables.
LEMMA StoreStep ==
  ASSUME IngestInv, NEW m \in Ids, Upsert(m) \/ UpsertFails(m) \/ Capture(m)
  PROVE  IngestInv'
<1>1. /\ UNCHANGED <<posts, issued, cursor, walk, limits, offset, recent, size, scope>>
      /\ pc \in {"store", "capture"} /\ pc' \in {"store", "capture"}
  BY DEF Upsert, UpsertFails, Capture, channelVars, tableVars, pollVars
<1>2. /\ DOMAIN raw \cup failed \subseteq DOMAIN raw' \cup failed'
      /\ DOMAIN raw \cup failed \cup DOMAIN fetched
           \subseteq DOMAIN raw' \cup failed' \cup DOMAIN fetched'
  BY DEF Upsert, UpsertFails, Capture, UpsertRow, CreateError, DealtWith, tableVars, pollVars
<1>3. Types'
  BY <1>1 DEF IngestInv, Types
<1>4. PollInv'
  BY <1>1, <1>2 DEF IngestInv, PollInv, Passed
<1>5. WalkedIsKept'
  BY <1>1, <1>2 DEF IngestInv, WalkedIsKept, Behind
<1> QED
  BY <1>3, <1>4, <1>5 DEF IngestInv

\* The end of a poll: the new cursor has behind it what the poll has passed.
LEMMA EndStep ==
  ASSUME IngestInv, UpdateCursor \/ Abandon
  PROVE  IngestInv'
<1>1. /\ UNCHANGED <<posts, issued, raw, failed, limits>>
      /\ pc' = "idle" /\ offset' = NoId /\ recent' = NoId /\ size' = 0 /\ scope' = {}
  BY DEF UpdateCursor, Abandon, Forget, channelVars, tableVars
<1>2. PollInv'
  BY <1>1 DEF PollInv
<1>3. CASE UpdateCursor
  <2>1. cursor' = [last |-> recent, next |-> offset] /\ walk' = scope
    BY <1>3 DEF UpdateCursor
  <2>2. Types'
    BY <1>1, <2>1 DEF IngestInv, Types, Cursor
  <2>3. pc = "store" /\ DOMAIN fetched = {}
    BY <1>3 DEF UpdateCursor, Empty
  <2>4. WalkedIsKept'
    BY <1>1, <2>1, <2>3 DEF IngestInv, PollInv, Passed, WalkedIsKept, Behind
  <2> QED
    BY <1>2, <2>2, <2>4 DEF IngestInv
<1>4. CASE Abandon
  BY <1>1, <1>2, <1>4 DEF Abandon, tableVars, IngestInv, Types, WalkedIsKept, Behind
<1> QED
  BY <1>3, <1>4

-----------------------------------------------------------------------------
\* The invariant holds however the channel changes and the polls end.
THEOREM IngestInvariance == Spec => []IngestInv
<1>1. Init => IngestInv
  BY IngestAssumption
  DEF Init, IngestInv, Types, PollInv, WalkedIsKept, Behind, Cursor, Ids, NoId
<1>2. IngestInv /\ [Next]_vars => IngestInv'
  <2>1. ASSUME IngestInv, Next PROVE IngestInv'
    BY <2>1, ChannelStep, BeginStep, FetchEmptyStep, FetchPageStep, StoreStep, EndStep
    DEF Next, Poll
  <2>2. ASSUME IngestInv, UNCHANGED vars PROVE IngestInv'
    BY <2>2 DEF vars, channelVars, tableVars, pollVars, IngestInv, Types, PollInv, Passed,
                WalkedIsKept, Behind
  <2> QED
    BY <2>1, <2>2
<1> QED
  BY <1>1, <1>2, PTL DEF Spec

\* fetch_bounded_messages() and the order of the writes make no walk pass over a
\* message that is neither stored nor recorded as failed.
THEOREM NothingIsPassedOver == Spec => []WalkedIsKept
<1>1. IngestInv => WalkedIsKept
  BY DEF IngestInv
<1> QED
  BY <1>1, IngestInvariance, PTL

\* update_cursor() never lowers last_message_id.
THEOREM CursorNeverGoesBack == Spec => CursorAdvances
<1>1. IngestInv /\ [Next]_vars => [cursor'.last >= cursor.last]_vars
  <2> SUFFICES ASSUME IngestInv, Next, cursor' # cursor PROVE cursor'.last >= cursor.last
    BY IngestAssumption DEF IngestInv, Types, Cursor, Ids, NoId
  <2>1. UpdateCursor
    BY DEF Next, Poll, Post, Edit, Delete, Begin, FetchEmpty, FetchPage, Upsert,
           UpsertFails, Capture, Abandon, tableVars
  <2> QED
    BY <2>1, IngestAssumption
    DEF UpdateCursor, IngestInv, PollInv, Types, Cursor, Ids, NoId
<1> QED
  BY <1>1, IngestInvariance, PTL DEF Spec, CursorAdvances

-----------------------------------------------------------------------------
(* The bot: the clusters behind the ids it has listed may be gone, and new   *)
(* ones may have their ids.                                                  *)

BotTypes ==
  /\ ids \subseteq ClusterId /\ delivered \subseteq ids
  /\ serial \in [ids -> Serial] /\ created \in 0 .. MaxSerial
  /\ DOMAIN batch \subseteq ClusterId /\ batch \in [DOMAIN batch -> Serial]
  /\ stage \in {"send", "record", "warn"} => DOMAIN batch # {}
  /\ consecutive_failures \in [ClusterId -> 0 .. 2]
  /\ streak \in [Serial -> 0 .. 3]

\* A cluster has one id for life, in the table and in a batch, and one that has
\* its delivery row is neither listed nor listed again.
Ledger ==
  /\ \A c \in ids : serial[c] <= created
  /\ \A c \in DOMAIN batch : batch[c] <= created
  /\ \A s \in recorded : s \in Nat /\ s <= created
  /\ \A c, d \in ids : serial[c] = serial[d] => c = d
  /\ \A c, d \in DOMAIN batch : batch[c] = batch[d] => c = d
  /\ \A c \in DOMAIN batch, d \in ids : batch[c] = serial[d] => c = d
  /\ \A c \in ids : serial[c] \in recorded => c \in delivered
  /\ \A c \in DOMAIN batch : batch[c] \notin recorded

\* The count under its id is not behind the failures of a cluster.
Counted(s, c) ==
  /\ streak[s] >= 1 => consecutive_failures[c] >= 1
  /\ streak[s] >= 2 => consecutive_failures[c] >= 2

\* The count of an id covers the cluster that has it and the one that was listed
\* under it; a cluster that got the id since then has not failed yet.
Counts ==
  /\ \A s \in Serial : s > created => streak[s] = 0
  /\ \A c \in ids : Counted(serial[c], c)
  /\ \A c \in DOMAIN batch : Counted(batch[c], c)
  /\ \A c \in ids \cap DOMAIN batch : serial[c] # batch[c] => streak[serial[c]] = 0

\* The inductive invariant.
BotInv == BotTypes /\ Ledger /\ Counts

-----------------------------------------------------------------------------
\* A new cluster is one that nothing is known of, whatever id it gets.
LEMMA AddClusterStep ==
  ASSUME BotInv, AddCluster
  PROVE  BotInv'
<1> DEFINE new == NextRowId(ids)
<1>1. MaxCluster \in Nat /\ MaxSerial \in Nat /\ created \in Nat /\ created < MaxSerial
  BY MaxClusterAssumption, BotAssumption DEF AddCluster, BotInv, BotTypes
<1>2. new \in ClusterId /\ new \notin ids
  BY <1>1, NextRowIdFacts DEF AddCluster, CreateCluster, ClusterId, BotInv, BotTypes
<1>3. /\ ids' = ids \cup {new} /\ delivered' = delivered /\ created' = created + 1
      /\ serial' = [c \in ids' |-> IF c \in ids THEN serial[c] ELSE created + 1]
      /\ UNCHANGED <<batch, stage, consecutive_failures, streak, recorded>>
  BY DEF AddCluster, CreateCluster, bot, locals, history
<1> HIDE DEF new
<1>4. /\ \A c \in ids : serial'[c] = serial[c]
      /\ serial'[new] = created + 1 /\ created + 1 \in Serial
  BY <1>1, <1>2, <1>3 DEF Serial
<1>5. /\ \A c \in ids : serial[c] \in Serial /\ serial[c] <= created
      /\ \A c \in DOMAIN batch : batch[c] \in Serial /\ batch[c] <= created
      /\ Serial \subseteq Nat
  BY DEF BotInv, BotTypes, Ledger, Serial
<1>6. BotTypes'
  BY <1>1, <1>2, <1>3, <1>4 DEF BotInv, BotTypes
<1>7. Ledger'
  <2>0. \A x \in Nat : x <= created => x <= created + 1
    BY <1>1
  <2>1. \A c \in ids' : serial'[c] <= created'
    <3> SUFFICES ASSUME NEW c \in ids' PROVE serial'[c] <= created + 1
      BY <1>3
    <3>1. CASE c \in ids
      BY <1>4, <1>5, <2>0, <3>1
    <3>2. CASE c = new
      BY <1>1, <1>4, <3>2
    <3> QED
      BY <1>3, <3>1, <3>2
  <2>2. /\ \A c \in DOMAIN batch' : batch'[c] <= created'
        /\ \A t \in recorded' : t \in Nat /\ t <= created'
    BY <1>3, <1>5, <2>0 DEF BotInv, Ledger
  <2>3. \A c, d \in ids' : serial'[c] = serial'[d] => c = d
    BY <1>1, <1>3, <1>4, <1>5 DEF BotInv, Ledger
  <2>4. \A c \in DOMAIN batch', d \in ids' : batch'[c] = serial'[d] => c = d
    BY <1>1, <1>3, <1>4, <1>5 DEF BotInv, Ledger
  <2>5. \A c \in ids' : serial'[c] \in recorded' => c \in delivered'
    BY <1>1, <1>3, <1>4 DEF BotInv, Ledger
  <2> QED
    BY <1>3, <2>1, <2>2, <2>3, <2>4, <2>5 DEF BotInv, Ledger
<1>8. Counts'
  <2>1. \A t \in Serial : t > created' => streak'[t] = 0
    <3>1. \A t \in Serial : t > created + 1 => t > created
      BY <1>1, <1>5
    <3>2. \A t \in Serial : t > created => streak[t] = 0
      BY DEF BotInv, Counts
    <3> QED
      BY <1>3, <3>1, <3>2
  <2>2. streak'[created + 1] = 0
    BY <1>1, <1>3, <1>4 DEF BotInv, Counts
  <2>3. \A c \in ids' : Counted(serial[c], c)'
    BY <1>3, <1>4, <2>2 DEF BotInv, Counts, Counted
  <2>4. \A c \in DOMAIN batch' : Counted(batch[c], c)'
    BY <1>3 DEF BotInv, Counts, Counted
  <2>5. \A c \in ids' \cap DOMAIN batch' : serial'[c] # batch'[c] => streak'[serial'[c]] = 0
    BY <1>3, <1>4, <2>2 DEF BotInv, Counts
  <2> QED
    BY <2>1, <2>3, <2>4, <2>5 DEF Counts
<1> QED
  BY <1>6, <1>7, <1>8 DEF BotInv

\* Clusters that go and entries that are dealt with leave less to account for.
LEMMA FewerStep ==
  ASSUME BotInv, ids' \subseteq ids, delivered' = delivered \cap ids',
         serial' = [c \in ids' |-> serial[c]], DOMAIN batch' \subseteq DOMAIN batch,
         batch' = [c \in DOMAIN batch' |-> batch[c]],
         stage' \in {"send", "record", "warn"} => DOMAIN batch' # {},
         UNCHANGED <<created, recorded, consecutive_failures, streak>>
  PROVE  BotInv'
<1>1. /\ \A c \in ids' : c \in ids /\ serial'[c] = serial[c]
      /\ \A c \in DOMAIN batch' : c \in DOMAIN batch /\ batch'[c] = batch[c]
  OBVIOUS
<1>2. BotTypes'
  BY <1>1 DEF BotInv, BotTypes
<1>3. Ledger'
  BY <1>1 DEF BotInv, Ledger
<1>4. Counts'
  BY <1>1 DEF BotInv, Counts, Counted
<1> QED
  BY <1>2, <1>3, <1>4 DEF BotInv

\* The batch is what is left to do of clusters that have no delivery row.
LEMMA ListStep ==
  ASSUME BotInv, List
  PROVE  BotInv'
<1> DEFINE b == [c \in Oldest(ids \ delivered, BatchSize) |-> serial[c]]
<1>1. Oldest(ids \ delivered, BatchSize) \subseteq ids \ delivered
  BY DEF Oldest
<1>2. batch' = b /\ (stage' \in {"send", "record", "warn"} => b # NoBatch)
  BY DEF List, Continue, Return
<1>3. UNCHANGED <<ids, delivered, serial, created, recorded, consecutive_failures, streak>>
  BY DEF List, store, history
<1>4. DOMAIN b \subseteq ids \ delivered /\ \A c \in DOMAIN b : b[c] = serial[c]
  BY <1>1
<1>5. b # NoBatch => DOMAIN b # {}
  BY DEF NoBatch
<1>6. b = [c \in DOMAIN b |-> b[c]]
  OBVIOUS
<1> HIDE DEF b
<1>7. BotTypes'
  BY <1>2, <1>3, <1>4, <1>5, <1>6 DEF BotInv, BotTypes
<1>8. Ledger'
  BY <1>2, <1>3, <1>4 DEF BotInv, Ledger
<1>9. Counts'
  BY <1>2, <1>3, <1>4 DEF BotInv, Counts, Counted
<1> QED
  BY <1>7, <1>8, <1>9 DEF BotInv

\* The entry run_once() is at.
LEMMA EntryFacts ==
  ASSUME BotInv, stage \in {"send", "record", "warn"}
  PROVE  Entry \in DOMAIN batch /\ Entry \in ClusterId /\ batch[Entry] \in Serial
<1>1. DOMAIN batch # {} /\ DOMAIN batch \subseteq Nat
  BY DEF BotInv, BotTypes, ClusterId
<1>2. Entry \in DOMAIN batch
  BY <1>1, MinFacts DEF Entry
<1> QED
  BY <1>2 DEF BotInv, BotTypes

\* The loop over the entries goes on without the one it was at, or ends.
LEMMA AdvanceFacts ==
  ASSUME BotInv, Advance
  PROVE  /\ DOMAIN batch' = DOMAIN batch \ {Entry}
         /\ batch' = [c \in DOMAIN batch' |-> batch[c]]
         /\ stage' \in {"send", "record", "warn"} => DOMAIN batch' # {}
<1> DEFINE b == [c \in DOMAIN batch \ {Entry} |-> batch[c]]
<1>1. batch' = b /\ (stage' \in {"send", "record", "warn"} => b # NoBatch)
  BY DEF Advance, Continue, Return
<1>2. b # NoBatch => DOMAIN b # {}
  BY DEF NoBatch
<1> QED
  BY <1>1, <1>2

\* A failure is counted under the id and for the cluster that was listed.
LEMMA FailedStep ==
  ASSUME BotInv, stage \in {"send", "record", "warn"}, Failed,
         UNCHANGED <<ids, delivered, serial, created, recorded>>
  PROVE  BotInv' /\ \A s \in Serial : streak[s] = 2 /\ streak'[s] = 3 => stage' = "warn"
<1> DEFINE e == Entry
           t == batch[Entry]
           n == consecutive_failures[Entry]
<1>1. e \in DOMAIN batch /\ e \in ClusterId /\ t \in Serial /\ t = batch[e]
  BY EntryFacts
<1>2. n \in 0 .. 2 /\ streak[t] \in 0 .. 3
  BY <1>1 DEF BotInv, BotTypes
<1>3. streak' = [streak EXCEPT ![t] = Min({3, streak[t] + 1})]
  BY <1>1 DEF Failed, BotInv, BotTypes
<1>4. Min({3, streak[t] + 1}) = IF streak[t] = 3 THEN 3 ELSE streak[t] + 1
  <2>1. {3, streak[t] + 1} \subseteq Nat /\ {3, streak[t] + 1} # {}
    BY <1>2
  <2>2. /\ Min({3, streak[t] + 1}) \in {3, streak[t] + 1}
        /\ \A y \in {3, streak[t] + 1} : Min({3, streak[t] + 1}) <= y
    BY <2>1, MinFacts
  <2> QED
    BY <1>2, <2>2
<1>5. /\ streak' \in [Serial -> 0 .. 3]
      /\ streak'[t] = IF streak[t] = 3 THEN 3 ELSE streak[t] + 1
      /\ \A s \in Serial \ {t} : streak'[s] = streak[s]
  BY <1>1, <1>2, <1>3, <1>4 DEF BotInv, BotTypes
<1>6. Counted(t, e)
  BY <1>1 DEF BotInv, Counts
<1>7. \/ /\ n = 2 /\ stage' = "warn"
         /\ UNCHANGED <<batch, consecutive_failures>>
      \/ /\ n < 2 /\ Advance
         /\ consecutive_failures' = [consecutive_failures EXCEPT ![e] = n + 1]
  BY <1>2 DEF Failed, locals
<1>8. /\ consecutive_failures' \in [ClusterId -> 0 .. 2]
      /\ \A c \in ClusterId : consecutive_failures'[c] >= consecutive_failures[c]
      /\ consecutive_failures'[e] = IF n = 2 THEN 2 ELSE n + 1
  BY <1>1, <1>2, <1>7 DEF BotInv, BotTypes
<1>9. /\ DOMAIN batch' \subseteq DOMAIN batch
      /\ batch' = [c \in DOMAIN batch' |-> batch[c]]
      /\ stage' \in {"send", "record", "warn"} => DOMAIN batch' # {}
  BY <1>1, <1>7, AdvanceFacts DEF BotInv, BotTypes
<1>10. \A c \in DOMAIN batch' : c \in DOMAIN batch /\ batch'[c] = batch[c]
  BY <1>9
<1> HIDE DEF e, t, n
<1>11. BotTypes'
  BY <1>5, <1>8, <1>9, <1>10 DEF BotInv, BotTypes
<1>12. Ledger'
  BY <1>10 DEF BotInv, Ledger
<1>13. ASSUME NEW s \in Serial, NEW c \in ClusterId, Counted(s, c), s = t => c = e
       PROVE  Counted(s, c)'
  <2>1. consecutive_failures[c] \in 0 .. 2 /\ consecutive_failures'[c] \in 0 .. 2
    BY <1>8 DEF BotInv, BotTypes
  <2>2. CASE s # t
    BY <1>5, <1>8, <1>13, <2>1, <2>2 DEF Counted
  <2>3. CASE s = t
    <3>1. c = e /\ n = consecutive_failures[e]
      BY <1>13, <2>3 DEF e, n
    <3> QED
      BY <1>2, <1>5, <1>6, <1>8, <2>3, <3>1 DEF Counted
  <2> QED
    BY <2>2, <2>3
<1>14. Counts'
  <2>1. \A s \in Serial : s > created' => streak'[s] = 0
    <3>1. ~(t > created)
      BY <1>1 DEF BotInv, BotTypes, Ledger, Serial
    <3> QED
      BY <1>5, <3>1 DEF BotInv, Counts
  <2>2. ASSUME NEW c \in ids' PROVE Counted(serial[c], c)'
    <3>1. serial[c] \in Serial /\ c \in ClusterId /\ Counted(serial[c], c)
      BY DEF BotInv, BotTypes, Counts
    <3>2. serial[c] = t => c = e
      BY <1>1 DEF BotInv, Ledger
    <3> QED
      BY <1>13, <3>1, <3>2 DEF Counted
  <2>3. ASSUME NEW c \in DOMAIN batch' PROVE Counted(batch[c], c)'
    <3>1. batch[c] \in Serial /\ c \in ClusterId /\ Counted(batch[c], c) /\ batch'[c] = batch[c]
      BY <1>10 DEF BotInv, BotTypes, Counts
    <3>2. batch[c] = t => c = e
      BY <1>1, <1>10 DEF BotInv, Ledger
    <3> QED
      BY <1>13, <3>1, <3>2 DEF Counted
  <2>4. ASSUME NEW c \in ids' \cap DOMAIN batch', serial'[c] # batch'[c]
        PROVE  streak'[serial'[c]] = 0
    <3>1. /\ c \in ids /\ c \in DOMAIN batch /\ serial[c] # batch[c] /\ streak[serial[c]] = 0
          /\ serial[c] \in Serial
      BY <1>10, <2>4 DEF BotInv, BotTypes, Counts
    <3>2. serial[c] # t
      BY <1>1, <3>1 DEF BotInv, Ledger
    <3> QED
      BY <1>5, <3>1, <3>2
  <2> QED
    BY <2>1, <2>2, <2>3, <2>4 DEF Counts
<1>15. ASSUME NEW s \in Serial, streak[s] = 2, streak'[s] = 3 PROVE stage' = "warn"
  <2>1. s = t
    BY <1>5, <1>15, SMTT(30)
  <2>2. n = 2
    BY <1>2, <1>6, <1>15, <2>1 DEF Counted, e, n
  <2> QED
    BY <1>7, <2>2
<1> QED
  BY <1>11, <1>12, <1>14, <1>15 DEF BotInv

\* The counts of an entry that is delivered, or warned about, start again.
LEMMA ClearedStep ==
  ASSUME BotInv, stage \in {"send", "record", "warn"}, Advance,
         consecutive_failures' = [consecutive_failures EXCEPT ![Entry] = 0],
         streak' = [streak EXCEPT ![batch[Entry]] = 0],
         \/ UNCHANGED <<delivered, recorded>>
         \/ /\ Entry \in ids /\ delivered' = delivered \cup {Entry}
            /\ recorded' = recorded \cup {serial[Entry]},
         UNCHANGED <<ids, serial, created>>
  PROVE  BotInv'
<1> DEFINE e == Entry
           t == batch[Entry]
<1>1. e \in DOMAIN batch /\ e \in ClusterId /\ t \in Serial /\ t = batch[e]
  BY EntryFacts
<1>2. /\ DOMAIN batch' = DOMAIN batch \ {e}
      /\ batch' = [c \in DOMAIN batch' |-> batch[c]]
      /\ stage' \in {"send", "record", "warn"} => DOMAIN batch' # {}
  BY AdvanceFacts
<1>3. \A c \in DOMAIN batch' : c \in DOMAIN batch /\ c # e /\ batch'[c] = batch[c]
  BY <1>2
<1>4. /\ consecutive_failures' \in [ClusterId -> 0 .. 2] /\ streak' \in [Serial -> 0 .. 3]
      /\ streak'[t] = 0 /\ \A s \in Serial \ {t} : streak'[s] = streak[s]
      /\ \A c \in ClusterId \ {e} : consecutive_failures'[c] = consecutive_failures[c]
  BY <1>1 DEF BotInv, BotTypes
<1>5. \/ UNCHANGED <<delivered, recorded>>
      \/ e \in ids /\ delivered' = delivered \cup {e} /\ recorded' = recorded \cup {serial[e]}
  OBVIOUS
<1> HIDE DEF e, t
<1>6. BotTypes'
  BY <1>2, <1>3, <1>4, <1>5 DEF BotInv, BotTypes
<1>7. Ledger'
  <2>1. \A s \in recorded' : s \in Nat /\ s <= created'
    BY <1>5 DEF BotInv, BotTypes, Ledger, Serial
  <2>2. \A c \in ids' : serial'[c] \in recorded' => c \in delivered'
    BY <1>5 DEF BotInv, Ledger
  <2>3. \A c \in DOMAIN batch' : batch'[c] \notin recorded'
    BY <1>3, <1>5 DEF BotInv, Ledger
  <2> QED
    BY <1>3, <2>1, <2>2, <2>3 DEF BotInv, Ledger
<1>8. Counts'
  <2>1. \A s \in Serial : s > created' => streak'[s] = 0
    BY <1>4 DEF BotInv, Counts
  <2>2. ASSUME NEW s \in Serial, NEW c \in ClusterId, Counted(s, c), c = e => streak'[s] = 0
        PROVE  Counted(s, c)'
    BY <1>1, <1>4, <2>2 DEF Counted
  <2>3. ASSUME NEW c \in ids' PROVE Counted(serial[c], c)'
    <3>1. serial[c] \in Serial /\ c \in ClusterId /\ Counted(serial[c], c)
      BY DEF BotInv, BotTypes, Counts
    <3>2. c = e => streak'[serial[c]] = 0
      BY <1>1, <1>4, <3>1 DEF BotInv, Counts
    <3> QED
      BY <2>2, <3>1, <3>2 DEF Counted
  <2>4. ASSUME NEW c \in DOMAIN batch' PROVE Counted(batch[c], c)'
    <3>1. batch[c] \in Serial /\ c \in ClusterId /\ Counted(batch[c], c) /\ batch'[c] = batch[c]
      BY <1>3 DEF BotInv, BotTypes, Counts
    <3> QED
      BY <1>3, <2>2, <3>1 DEF Counted
  <2>5. ASSUME NEW c \in ids' \cap DOMAIN batch', serial'[c] # batch'[c]
        PROVE  streak'[serial'[c]] = 0
    <3>1. /\ c \in ids /\ c \in DOMAIN batch /\ serial[c] # batch[c] /\ streak[serial[c]] = 0
          /\ serial[c] \in Serial
      BY <1>3, <2>5 DEF BotInv, BotTypes, Counts
    <3> QED
      BY <1>4, <3>1
  <2> QED
    BY <2>1, <2>3, <2>4, <2>5 DEF Counts
<1> QED
  BY <1>6, <1>7, <1>8 DEF BotInv

\* After a restart no run is under way and nothing is counted.
LEMMA CrashStep ==
  ASSUME BotInv, Crash
  PROVE  BotInv'
<1>1. /\ stage' = "idle" /\ batch' = NoBatch
      /\ consecutive_failures' = [c \in ClusterId |-> 0]
      /\ streak' = [s \in Serial |-> 0]
      /\ UNCHANGED <<ids, delivered, serial, created, recorded>>
  BY DEF Crash, Return, store
<1>2. DOMAIN batch' = {} /\ batch' = [c \in DOMAIN batch' |-> batch'[c]]
  BY <1>1 DEF NoBatch
<1>3. BotTypes'
  BY <1>1, <1>2 DEF BotInv, BotTypes
<1>4. Ledger'
  BY <1>1, <1>2 DEF BotInv, Ledger
<1>5. Counts'
  BY <1>1, <1>2 DEF BotInv, BotTypes, Counts, Counted
<1> QED
  BY <1>3, <1>4, <1>5 DEF BotInv

\* Every step of the bot and of what runs beside it keeps the invariant, and no
\* third failure goes without its warning.
LEMMA BotStep ==
  ASSUME BotInv, BotNext
  PROVE  BotInv' /\ \A s \in Serial : streak[s] = 2 /\ streak'[s] = 3 => stage' = "warn"
<1> DEFINE Warned == \A s \in Serial : streak[s] = 2 /\ streak'[s] = 3 => stage' = "warn"
<1>1. UNCHANGED streak => Warned
  OBVIOUS
<1>2. batch = [c \in DOMAIN batch |-> batch[c]] /\ serial = [c \in ids |-> serial[c]]
      /\ delivered = delivered \cap ids
  BY DEF BotInv, BotTypes
<1>3. CASE AddCluster
  BY <1>1, <1>3, AddClusterStep DEF AddCluster, history
<1>4. ASSUME NEW S \in SUBSET ids, DropClusters(S) PROVE BotInv' /\ Warned
  <2>1. /\ ids' = ids \ S /\ delivered' = delivered \ S /\ serial' = [c \in ids' |-> serial[c]]
        /\ UNCHANGED <<created, stage, batch, consecutive_failures, streak, recorded>>
    BY <1>4 DEF DropClusters, RemoveClusters, bot, locals, history
  <2>2. delivered' = delivered \cap ids' /\ DOMAIN batch' \subseteq DOMAIN batch
    BY <1>2, <2>1
  <2>3. stage' \in {"send", "record", "warn"} => DOMAIN batch' # {}
    BY <2>1 DEF BotInv, BotTypes
  <2> QED
    BY <1>1, <1>2, <2>1, <2>2, <2>3, FewerStep
<1>5. ASSUME UNCHANGED <<ids, delivered, serial, created, recorded, consecutive_failures, streak>>,
             \/ /\ batch' = batch
                /\ stage' \in {"send", "record", "warn"} => stage \in {"send", "record", "warn"}
             \/ stage' = "idle" /\ batch' = NoBatch
      PROVE  BotInv' /\ Warned
  <2>1. /\ DOMAIN batch' \subseteq DOMAIN batch /\ batch' = [c \in DOMAIN batch' |-> batch[c]]
        /\ stage' \in {"send", "record", "warn"} => DOMAIN batch' # {}
    BY <1>2, <1>5 DEF NoBatch, BotInv, BotTypes
  <2> QED
    BY <1>1, <1>2, <1>5, <2>1, FewerStep
<1>6. CASE (\E k \in Configs : Configure(k) \/ Revoke(k)) \/ Unconfigure \/ ApiWrite \/ ApiFails
  BY <1>5, <1>6 DEF Configure, Revoke, Unconfigure, ApiWrite, ApiFails, store, bot, locals, history
<1>7. CASE Wake \/ ReadToken \/ ReadChatId
  BY <1>5, <1>7 DEF Wake, ReadToken, ReadChatId, Return, store, locals, history
<1>8. CASE List
  BY <1>1, <1>8, ListStep DEF List, history
<1>9. CASE SendOk \/ SendUnauthorized \/ NotifyUnauthorized
  BY <1>5, <1>9 DEF SendOk, SendUnauthorized, NotifyUnauthorized, store, locals, history
<1>10. CASE SendUnanswered \/ SendFails \/ RecordFails
  <2>1. /\ stage \in {"send", "record", "warn"} /\ Failed
        /\ UNCHANGED <<ids, delivered, serial, created, recorded>>
    BY <1>10 DEF SendUnanswered, SendFails, RecordFails, store
  <2> QED
    BY <2>1, FailedStep
<1>11. CASE RecordOk \/ Warn
  <2>1. /\ stage \in {"send", "record", "warn"} /\ Advance
        /\ consecutive_failures' = [consecutive_failures EXCEPT ![Entry] = 0]
        /\ streak' = [streak EXCEPT ![batch[Entry]] = 0]
        /\ \/ UNCHANGED <<delivered, recorded>>
           \/ /\ Entry \in ids /\ delivered' = delivered \cup {Entry}
              /\ recorded' = recorded \cup {serial[Entry]}
        /\ UNCHANGED <<ids, serial, created>>
    BY <1>11 DEF RecordOk, Warn, DeliverCluster, store
  <2>2. Warned
    BY <2>1 DEF BotInv, BotTypes
  <2> QED
    BY <2>1, <2>2, ClearedStep
<1>12. CASE Disable \/ HandlerFails
  BY <1>5, <1>12 DEF Disable, HandlerFails, Return, store, history
<1>13. CASE Crash
  <2>1. Warned
    BY <1>13 DEF Crash
  <2> QED
    BY <1>13, <2>1, CrashStep
<1> QED
  BY <1>3, <1>4, <1>6, <1>7, <1>8, <1>9, <1>10, <1>11, <1>12, <1>13 DEF BotNext, Send

\* The invariant holds, for any clusters, ids, batch size, requests and restarts.
THEOREM BotInvariance == BotSpec => []BotInv
<1>1. BotInit => BotInv
  <2> SUFFICES ASSUME BotInit PROVE BotInv
    OBVIOUS
  <2>1. /\ ids = {} /\ delivered = {} /\ DOMAIN batch = {} /\ DOMAIN serial = {}
        /\ batch = [c \in {} |-> 0] /\ serial = [c \in {} |-> 0]
        /\ created = 0 /\ recorded = {} /\ stage = "idle"
        /\ consecutive_failures = [c \in ClusterId |-> 0] /\ streak = [s \in Serial |-> 0]
    BY DEF BotInit, CInit, NoBatch
  <2>2. BotTypes
    BY <2>1, BotAssumption DEF BotTypes
  <2> QED
    BY <2>1, <2>2 DEF BotInv, Ledger, Counts, Counted
<1>2. BotInv /\ [BotNext]_botVars => BotInv'
  <2> SUFFICES ASSUME BotInv, [BotNext]_botVars PROVE BotInv'
    OBVIOUS
  <2>1. CASE UNCHANGED botVars
    BY <2>1 DEF botVars, store, bot, locals, history, BotInv, BotTypes, Ledger, Counts, Counted
  <2> QED
    BY <2>1, BotStep
<1> QED
  BY <1>1, <1>2, PTL DEF BotSpec

\* A cluster with a delivery row is not sent again: it is in no batch, whatever ids
\* were reused since the batch was listed.
THEOREM NotSentAgain == BotSpec => RecordedIsNotSentAgain
<1>1. BotInv /\ [BotNext]_botVars =>
        [\A s \in recorded :
           (s \in sent' => s \in sent) /\ (s \in resent' => s \in resent)]_botVars
  <2> SUFFICES ASSUME BotInv, BotNext, NEW s \in recorded
               PROVE  (s \in sent' => s \in sent) /\ (s \in resent' => s \in resent)
    BY DEF botVars
  <2>1. CASE SendOk \/ SendUnanswered
    <3>1. stage = "send" /\ Reaches(batch[Entry])
      BY <2>1 DEF SendOk, SendUnanswered
    <3>2. batch[Entry] # s
      BY <3>1, EntryFacts DEF BotInv, Ledger
    <3> QED
      BY <3>1, <3>2 DEF Reaches
  <2>2. CASE ~(SendOk \/ SendUnanswered)
    <3>1. UNCHANGED <<sent, resent>>
      BY <2>2 DEF BotNext, AddCluster, DropClusters, Configure, Revoke, Unconfigure, ApiWrite,
                  ApiFails, Wake, ReadToken, ReadChatId, List, Send, SendFails, SendUnauthorized,
                  RecordOk, RecordFails, Warn, NotifyUnauthorized, Disable, HandlerFails, Crash,
                  history
    <3> QED
      BY <3>1
  <2> QED
    BY <2>1, <2>2
<1> QED
  BY <1>1, BotInvariance, PTL DEF BotSpec, RecordedIsNotSentAgain

\* The third failure in a row to deliver a cluster leads to the warning, whatever
\* cluster had its id before.
THEOREM ThirdFailureIsWarned == BotSpec => ThirdFailureWarns
<1>1. BotInv /\ [BotNext]_botVars =>
        [\A s \in Serial : streak[s] = 2 /\ streak'[s] = 3 => stage' = "warn"]_botVars
  BY BotStep DEF botVars
<1> QED
  BY <1>1, BotInvariance, PTL DEF BotSpec, ThirdFailureWarns
=============================================================================
