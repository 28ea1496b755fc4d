----------------------------- MODULE DedupeStore -----------------------------
(***************************************************************************)
(* The dedupe tables of the SQLite database and every transaction that     *)
(* writes them: item upsert, cluster assignment, cluster merge, retention  *)
(* prune, channel purge and the bot's delivery row.                        *)
(*                                                                         *)
(* Granularity.  Each operation runs in one write session (BEGIN IMMEDIATE *)
(* ... COMMIT), so it is one step; an operation that raises is rolled back *)
(* and is no step at all.  Foreign keys are enforced: what a delete        *)
(* cascades to or sets to NULL belongs to the step.                        *)
(*                                                                         *)
(* Data.  An item's rank among representatives compares, in this order,    *)
(* "has a canonical URL", the length of title and body, "has a publication *)
(* date", the date and the id.  All but the id are one number here, the    *)
(* item's quality.  Days are ticks of a clock.                             *)
(***************************************************************************)
EXTENDS RowIds

CONSTANTS
  Channels,     \* telegram_channels rows that may exist
  Posts,        \* (channel_id, message_id) pairs
  ChannelOf,    \* the channel of each post
  MaxQuality,   \* bound: the best quality of an item
  MaxItem,      \* bound: the largest item id
  MaxCluster,   \* bound: the largest cluster id
  MaxNow,       \* bound: the last day
  ItemsDays,    \* retention.items_days
  NULL

ASSUME StoreAssumption ==
  /\ ChannelOf \in [Posts -> Channels]
  /\ MaxQuality \in Nat
  /\ MaxItem \in Nat \ {0}
  /\ MaxCluster \in Nat \ {0}
  /\ MaxNow \in Nat
  /\ ItemsDays \in Nat
  /\ NULL \notin 1 .. MaxItem
  /\ NULL \notin 1 .. MaxCluster

VARIABLES
  channels,   \* telegram_channels: the rows that exist
  items,      \* items: id |-> [post, quality, created]
  rep,        \* dedupe_clusters: id |-> representative_item_id
  members,    \* dedupe_members: set of <<cluster_id, item_id>>
  events,     \* dedupe_decisions with strategy cluster_merge
  delivered,  \* bot_deliveries.cluster_id
  now

vars == <<channels, items, rep, members, events, delivered, now>>

-----------------------------------------------------------------------------
ItemId == 1 .. MaxItem
ClusterId == 1 .. MaxCluster
Quality == 0 .. MaxQuality

Item == [post : Posts, quality : Quality, created : 0 .. MaxNow]
Event == [item : ItemId, cluster : ClusterId \cup {NULL}]

\* Types, unique keys and foreign keys: every reference in a committed state
\* points to a row that exists.
TypeOK ==
  /\ channels \subseteq Channels
  /\ DOMAIN items \subseteq ItemId
  /\ items \in [DOMAIN items -> Item]
  /\ \A i, k \in DOMAIN items : items[i].post = items[k].post => i = k
  /\ \A i \in DOMAIN items : ChannelOf[items[i].post] \in channels
  /\ DOMAIN rep \subseteq ClusterId
  /\ rep \in [DOMAIN rep -> DOMAIN items \cup {NULL}]
  /\ members \subseteq (DOMAIN rep) \X (DOMAIN items)
  /\ events \subseteq Event
  /\ \A e \in events : e.item \in DOMAIN items /\ e.cluster \in DOMAIN rep \cup {NULL}
  /\ delivered \subseteq DOMAIN rep
  /\ now \in 0 .. MaxNow

MembersOf(c, m) == {i \in ItemId : <<c, i>> \in m}

\* ROW_NUMBER() OVER (ORDER BY ...) = 1, and NULL when there is no member.
Ranks(i, k, its) ==
  \/ its[i].quality > its[k].quality
  \/ its[i].quality = its[k].quality /\ i <= k

Best(S, its) == IF S = {} THEN NULL ELSE CHOOSE i \in S : \A k \in S : Ranks(i, k, its)

Init ==
  /\ channels = Channels
  /\ items = <<>>
  /\ rep = <<>>
  /\ members = {}
  /\ events = {}
  /\ delivered = {}
  /\ now = 0

-----------------------------------------------------------------------------
(* ItemsRepository.upsert_item and ChannelsRepository.create_channel *)

\* ON CONFLICT(channel_id, message_id) DO UPDATE keeps id and created_at.
UpsertItem(p, q) ==
  /\ ChannelOf[p] \in channels
  /\ \/ \E i \in DOMAIN items :
          /\ items[i].post = p
          /\ items' = [items EXCEPT ![i].quality = q]
     \/ /\ \A i \in DOMAIN items : items[i].post # p
        /\ LET new == NextRowId(DOMAIN items)
           IN  /\ new <= MaxItem
               /\ items' = [i \in DOMAIN items \cup {new} |->
                              IF i = new
                              THEN [post |-> p, quality |-> q, created |-> now]
                              ELSE items[i]]
  /\ UNCHANGED <<channels, rep, members, events, delivered, now>>

AddChannel(ch) ==
  /\ ch \notin channels
  /\ channels' = channels \cup {ch}
  /\ UNCHANGED <<items, rep, members, events, delivered, now>>

-----------------------------------------------------------------------------
(* DedupeClustersRepository.assign_item_to_cluster *)

AssignNew(i) ==
  /\ i \in DOMAIN items
  /\ LET new == NextRowId(DOMAIN rep)
     IN  /\ new <= MaxCluster
         /\ rep' = [c \in DOMAIN rep \cup {new} |-> IF c = new THEN i ELSE rep[c]]
         /\ members' = members \cup {<<new, i>>}
  /\ UNCHANGED <<channels, items, events, delivered, now>>

\* The representative of the matched cluster is left as it is.
AssignMatched(i, c) ==
  /\ i \in DOMAIN items
  /\ c \in DOMAIN rep
  /\ members' = members \cup {<<c, i>>}
  /\ UNCHANGED <<channels, items, rep, events, delivered, now>>

-----------------------------------------------------------------------------
(* DedupeClustersRepository.merge_clusters *)

\* dedupe_decisions.cluster_id is a foreign key ON DELETE SET NULL.
Unlink(gone, log) == {[e EXCEPT !.cluster = IF @ \in gone THEN NULL ELSE @] : e \in log}

\* Variants: only the members of the first source are moved; the target keeps its
\* representative.
MergeFirstSource(S) ==
  LET target  == Min(S)
      sources == S \ {target}
      moved   == MembersOf(Min(sources), members)
      merged  == MembersOf(target, members) \cup moved
      best    == Best(merged, items)
  IN  /\ target \in DOMAIN rep
      /\ sources \cap DOMAIN rep # {}
      /\ merged # {}
      /\ members' = {m \in members : m[1] \notin sources} \cup ({target} \X moved)
      /\ rep' = [c \in DOMAIN rep \ sources |-> IF c = target THEN best ELSE rep[c]]
      /\ events' = Unlink(sources, events) \cup {[item |-> best, cluster |-> target]}
      /\ delivered' = delivered \ sources
      /\ UNCHANGED <<channels, items, now>>

MergeKeepsRepresentative(S) ==
  LET target  == Min(S)
      sources == S \ {target}
      moved   == UNION {MembersOf(c, members) : c \in sources}
      merged  == MembersOf(target, members) \cup moved
      best    == Best(merged, items)
  IN  /\ target \in DOMAIN rep
      /\ sources \cap DOMAIN rep # {}
      /\ merged # {}
      /\ members' = {m \in members : m[1] \notin sources} \cup ({target} \X moved)
      /\ rep' = [c \in DOMAIN rep \ sources |-> rep[c]]
      /\ events' = Unlink(sources, events) \cup {[item |-> best, cluster |-> target]}
      /\ delivered' = delivered \ sources
      /\ UNCHANGED <<channels, items, now>>

\* Ids of clusters that no longer exist are tolerated, except the smallest.
\* A merge that leaves the target without a member raises.
MergeClusters(S) ==
  LET target  == Min(S)
      sources == S \ {target}
      moved   == UNION {MembersOf(c, members) : c \in sources}
      merged  == MembersOf(target, members) \cup moved
      best    == Best(merged, items)
  IN  /\ target \in DOMAIN rep
      /\ sources \cap DOMAIN rep # {}
      /\ merged # {}
      /\ members' = {m \in members : m[1] \notin sources} \cup ({target} \X moved)
      /\ rep' = [c \in DOMAIN rep \ sources |-> IF c = target THEN best ELSE rep[c]]
      /\ events' = Unlink(sources, events) \cup {[item |-> best, cluster |-> target]}
      /\ delivered' = delivered \ sources
      /\ UNCHANGED <<channels, items, now>>

-----------------------------------------------------------------------------
(* RetentionPruneJob.run_once and ChannelsRepository.purge_channel *)

\* Variants: the affected clusters are looked up after the delete, when their
\* rows are gone; delivery rows survive their cluster.
DeleteItemsThenLookUp(D) ==
  /\ items' = [i \in DOMAIN items \ D |-> items[i]]
  /\ members' = {m \in members : m[2] \notin D}
  /\ rep' = [c \in DOMAIN rep |-> IF rep[c] \in D THEN NULL ELSE rep[c]]
  /\ events' = {e \in events : e.item \notin D}
  /\ UNCHANGED delivered

DeleteItemsKeepDeliveries(D) ==
  LET affected == {c \in DOMAIN rep : \E i \in D : <<c, i>> \in members}
      left     == {m \in members : m[2] \notin D}
      empty    == {c \in affected : MembersOf(c, left) = {}}
      kept     == [i \in DOMAIN items \ D |-> items[i]]
  IN  /\ items' = kept
      /\ members' = left
      /\ rep' = [c \in DOMAIN rep \ empty |->
                   IF c \in affected THEN Best(MembersOf(c, left), kept) ELSE rep[c]]
      /\ events' = Unlink(empty, {e \in events : e.item \notin D})
      /\ UNCHANGED delivered

\* Delete the items D, recompute the representative of each cluster that had
\* one of them as a member, and delete those of the clusters that are empty.
DeleteItems(D) ==
  LET affected == {c \in DOMAIN rep : \E i \in D : <<c, i>> \in members}
      left     == {m \in members : m[2] \notin D}
      empty    == {c \in affected : MembersOf(c, left) = {}}
      kept     == [i \in DOMAIN items \ D |-> items[i]]
      nulled   == [c \in DOMAIN rep |-> IF rep[c] \in D THEN NULL ELSE rep[c]]
  IN  /\ items' = kept
      /\ members' = left
      /\ rep' = [c \in DOMAIN rep \ empty |->
                   IF c \in affected THEN Best(MembersOf(c, left), kept) ELSE nulled[c]]
      /\ events' = Unlink(empty, {e \in events : e.item \notin D})
      /\ delivered' = delivered \ empty

\* created_at < cutoff compares texts, and created_at has no fraction of a
\* second: an item created in the very second of the cutoff is expired.
Expired == {i \in DOMAIN items : items[i].created + ItemsDays <= now}

Prune == DeleteItems(Expired) /\ UNCHANGED <<channels, now>>

PurgeChannel(ch) ==
  /\ ch \in channels
  /\ channels' = channels \ {ch}
  /\ DeleteItems({i \in DOMAIN items : ChannelOf[items[i].post] = ch})
  /\ UNCHANGED now

-----------------------------------------------------------------------------
\* BotDeliveriesRepository.record_delivery; a second row for a cluster raises.
RecordDelivery(c) ==
  /\ c \in DOMAIN rep \ delivered
  /\ delivered' = delivered \cup {c}
  /\ UNCHANGED <<channels, items, rep, members, events, now>>

Tick ==
  /\ now < MaxNow
  /\ now' = now + 1
  /\ UNCHANGED <<channels, items, rep, members, events, delivered>>

Next ==
  \/ \E p \in Posts, q \in Quality : UpsertItem(p, q)
  \/ \E ch \in Channels : AddChannel(ch) \/ PurgeChannel(ch)
  \/ \E i \in ItemId : AssignNew(i) \/ \E c \in ClusterId : AssignMatched(i, c)
  \/ \E S \in SUBSET ClusterId : S # {} /\ MergeClusters(S)
  \/ Prune
  \/ \E c \in ClusterId : RecordDelivery(c)
  \/ Tick

Spec == Init /\ [][Next]_vars

-----------------------------------------------------------------------------
(* Properties *)

\* Every cluster has a representative, and it is one of the members: the thread
\* view and the bot join clusters with their representative, so a cluster whose
\* representative was deleted with its item would silently disappear.
RepresentativeIsMember ==
  \A c \in DOMAIN rep : rep[c] # NULL /\ <<c, rep[c]>> \in members

\* A cluster whose members a merge, a prune or a purge changes ends up with the
\* best of its members as representative, whatever the order in which the items
\* arrived and whatever the representative was.
ChangedClusterIsReranked ==
  [][\A c \in DOMAIN rep \cap DOMAIN rep' :
       members \ members' # {} /\ MembersOf(c, members') # MembersOf(c, members) =>
         \A k \in MembersOf(c, members') : Ranks(rep'[c], k, items')]_vars

\* Two items that were found to be duplicates of each other are not separated,
\* and an item that has a cluster keeps having one, by any later merge, prune or
\* purge that spares the items.
DuplicatesStayTogether ==
  [][\A i, k \in DOMAIN items \cap DOMAIN items' :
       (\E c \in DOMAIN rep : {<<c, i>>, <<c, k>>} \subseteq members) =>
          \E c \in DOMAIN rep' : {<<c, i>>, <<c, k>>} \subseteq members']_vars

\* A merge event names a cluster only together with one of its members, although
\* both the cluster and the item may go away, and the cluster id be used again.
MergeEventsNameMembers ==
  \A e \in events : e.cluster # NULL => <<e.cluster, e.item>> \in members

Table == INSTANCE ClusterTable WITH ids <- DOMAIN rep

\* The bot's view: every transaction of the store creates one cluster, records
\* one delivery, or removes clusters together with their delivery rows, so that
\* a cluster with a reused id does not start out as delivered.
ImplementsClusterTable == Table!CSpec
=============================================================================
