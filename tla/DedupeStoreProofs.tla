-------------------------- MODULE DedupeStoreProofs --------------------------
(***************************************************************************)
(* Proofs about the dedupe store, for any channels, posts, qualities,      *)
(* retention and bounds: its tables stay consistent, every cluster is      *)
(* represented by a member, duplicates stay together, and the bot's view   *)
(* of it is ClusterTable.                                                  *)
(***************************************************************************)
EXTENDS DedupeStore, RowIdsProofs

\* The ranking picks one of the members, and none ranks before it.
LEMMA BestFacts ==
  ASSUME NEW S, S \subseteq Nat, S # {}, NEW its, \A i \in S : its[i].quality \in Quality,
         MaxQuality \in Nat
  PROVE  Best(S, its) \in S /\ \A k \in S : Ranks(Best(S, its), k, its)
<1> DEFINE q(i) == its[i].quality
           T == {MaxQuality - q(i) : i \in S}
<1>0. T # {}
  <2>1. PICK s \in S : TRUE
    OBVIOUS
  <2>2. MaxQuality - q(s) \in T
    OBVIOUS
  <2> QED
    BY <2>2
<1>1. T \subseteq Nat
  BY DEF Quality
<1>2. PICK t \in T : \A u \in T : t <= u
  BY <1>0, <1>1, LeastNat
<1> DEFINE U == {i \in S : MaxQuality - q(i) = t}
<1>3. U \subseteq Nat /\ U # {}
  BY <1>2
<1>4. PICK i \in U : \A k \in U : i <= k
  BY <1>3, LeastNat
<1>5. ASSUME NEW k \in S PROVE Ranks(i, k, its)
  <2>1. MaxQuality - q(i) <= MaxQuality - q(k)
    BY <1>2, <1>4
  <2>2. q(i) = q(k) => k \in U
    BY <1>4
  <2> QED
    BY <1>4, <2>1, <2>2 DEF Ranks, Quality
<1> QED
  BY <1>4, <1>5, Zenon DEF Best

-----------------------------------------------------------------------------
\* The inductive invariant: the foreign keys alone do not keep representatives
\* and merge events inside their clusters, and a prune recomputes only clusters
\* it finds through their members.
Inv == TypeOK /\ RepresentativeIsMember /\ MergeEventsNameMembers

\* The part of Inv that deleting items, in a prune or a purge, has to keep.
LEMMA DeleteItemsStep ==
  ASSUME Inv, NEW D, D \subseteq DOMAIN items, DeleteItems(D)
  PROVE  /\ items' = [i \in DOMAIN items \ D |-> items[i]]
         /\ DOMAIN rep' \subseteq DOMAIN rep
         /\ rep' \in [DOMAIN rep' -> DOMAIN items']
         /\ members' \subseteq (DOMAIN rep') \X (DOMAIN items')
         /\ RepresentativeIsMember'
         /\ \A e \in events' :
              /\ e \in Event /\ e.item \in DOMAIN items'
              /\ e.cluster # NULL => <<e.cluster, e.item>> \in members'
         /\ delivered' \subseteq DOMAIN rep'
<1> DEFINE affected == {c \in DOMAIN rep : \E i \in D : <<c, i>> \in members}
           left     == {m \in members : m[2] \notin D}
           empty    == {c \in affected : MembersOf(c, left) = {}}
           kept     == [i \in DOMAIN items \ D |-> items[i]]
           nulled   == [c \in DOMAIN rep |-> IF rep[c] \in D THEN NULL ELSE rep[c]]
<1>1. /\ items' = kept
      /\ members' = left
      /\ rep' = [c \in DOMAIN rep \ empty |->
                   IF c \in affected THEN Best(MembersOf(c, left), kept) ELSE nulled[c]]
      /\ events' = {[e EXCEPT !.cluster = IF @ \in empty THEN NULL ELSE @] :
                      e \in {f \in events : f.item \notin D}}
      /\ delivered' = delivered \ empty
  BY DEF DeleteItems, Unlink
<1>2. TypeOK /\ RepresentativeIsMember /\ MergeEventsNameMembers
  BY DEF Inv
<1>3. DOMAIN items' = DOMAIN items \ D /\ DOMAIN rep' = DOMAIN rep \ empty
  BY <1>1
<1>4. \A m \in members : m = <<m[1], m[2]>> /\ m[1] \in DOMAIN rep /\ m[2] \in DOMAIN items
  BY <1>2 DEF TypeOK
<1>5. \A c, i : <<c, i>> \in left <=> <<c, i>> \in members /\ i \notin D
  OBVIOUS
<1>6. \A c \in DOMAIN rep, i \in DOMAIN items :
        <<c, i>> \in left => c \notin empty /\ i \in MembersOf(c, left)
  BY <1>2 DEF TypeOK, MembersOf
<1>7. ASSUME NEW c \in DOMAIN rep' PROVE rep'[c] \in DOMAIN items' /\ <<c, rep'[c]>> \in left
  <2>1. CASE c \in affected
    <3> DEFINE S == MembersOf(c, left)
    <3>1. S # {} /\ S \subseteq DOMAIN items' /\ S \subseteq Nat
      BY <1>2, <1>3, <1>4, <2>1 DEF MembersOf, ItemId
    <3>2. \A i \in S : kept[i].quality \in Quality
      BY <1>2, <1>3, <3>1 DEF TypeOK, Item
    <3>3. Best(S, kept) \in S
      BY <3>1, <3>2, BestFacts, StoreAssumption
    <3> QED
      BY <1>1, <1>3, <2>1, <3>1, <3>3 DEF MembersOf
  <2>2. CASE c \notin affected
    <3>1. <<c, rep[c]>> \in members /\ rep[c] \notin D /\ rep[c] # NULL
      BY <1>2, <1>3, <2>2 DEF RepresentativeIsMember
    <3>2. rep'[c] = rep[c]
      BY <1>1, <1>3, <2>2, <3>1
    <3>3. rep[c] \in DOMAIN items
      BY <1>2, <1>3, <3>1 DEF TypeOK
    <3> QED
      BY <1>3, <1>5, <3>1, <3>2, <3>3
  <2> QED
    BY <2>1, <2>2
<1>8. rep' \in [DOMAIN rep' -> DOMAIN items'] /\ RepresentativeIsMember'
  <2>1. NULL \notin DOMAIN items'
    BY <1>2, <1>3, StoreAssumption DEF TypeOK, ItemId
  <2> QED
    BY <1>1, <1>7, <2>1 DEF RepresentativeIsMember
<1>9. members' \subseteq (DOMAIN rep') \X (DOMAIN items')
  <2>1. ASSUME NEW m \in left PROVE m \in (DOMAIN rep') \X (DOMAIN items')
    <3>1. m = <<m[1], m[2]>> /\ m[1] \in DOMAIN rep /\ m[2] \in DOMAIN items /\ m[2] \notin D
      BY <1>4
    <3>2. m[1] \notin empty
      BY <1>6, <3>1
    <3> QED
      BY <1>3, <3>1, <3>2
  <2> QED
    BY <1>1, <2>1
<1>10. ASSUME NEW e \in events'
       PROVE  /\ e \in Event /\ e.item \in DOMAIN items'
              /\ e.cluster # NULL => <<e.cluster, e.item>> \in members'
  <2>1. PICK f \in events : /\ f.item \notin D
                            /\ e = [f EXCEPT !.cluster = IF @ \in empty THEN NULL ELSE @]
    BY <1>1
  <2>2. f \in Event /\ f.item \in DOMAIN items
    BY <1>2 DEF TypeOK
  <2>3. e.item = f.item /\ e \in Event
    BY <2>1, <2>2 DEF Event
  <2>4. e.cluster # NULL => e.cluster = f.cluster
    BY <2>1, <2>2 DEF Event
  <2> QED
    BY <1>1, <1>2, <1>3, <1>5, <2>1, <2>2, <2>3, <2>4 DEF MergeEventsNameMembers
<1> QED
  BY <1>1, <1>2, <1>3, <1>8, <1>9, <1>10 DEF TypeOK

\* A merge keeps Inv, and leaves the target with the best of all the members.
LEMMA MergeStep ==
  ASSUME Inv, NEW S \in SUBSET ClusterId, S # {}, MergeClusters(S)
  PROVE  /\ Inv'
         /\ Min(S) \in DOMAIN rep'
         /\ DOMAIN rep' = DOMAIN rep \ (S \ {Min(S)})
         /\ \A k \in MembersOf(Min(S), members') : Ranks(rep'[Min(S)], k, items')
<1> DEFINE target  == Min(S)
           sources == S \ {target}
           moved   == UNION {MembersOf(c, members) : c \in sources}
           merged  == MembersOf(target, members) \cup moved
           best    == Best(merged, items)
<1>1. TypeOK /\ RepresentativeIsMember /\ MergeEventsNameMembers
  BY DEF Inv
<1>2. /\ target \in DOMAIN rep
      /\ merged # {}
      /\ members' = {m \in members : m[1] \notin sources} \cup ({target} \X moved)
      /\ rep' = [c \in DOMAIN rep \ sources |-> IF c = target THEN best ELSE rep[c]]
      /\ events' = {[e EXCEPT !.cluster = IF @ \in sources THEN NULL ELSE @] : e \in events}
                     \cup {[item |-> best, cluster |-> target]}
      /\ delivered' = delivered \ sources
      /\ UNCHANGED <<channels, items, now>>
  BY DEF MergeClusters, Unlink
<1>3. \A m \in members : m = <<m[1], m[2]>> /\ m[1] \in DOMAIN rep /\ m[2] \in DOMAIN items
  BY <1>1 DEF TypeOK
<1>4. ASSUME NEW i \in moved PROVE i \in DOMAIN items
  <2>1. PICK c \in sources : i \in MembersOf(c, members)
    OBVIOUS
  <2>2. <<c, i>> \in members
    BY <2>1 DEF MembersOf
  <2> QED
    BY <1>1, <2>2 DEF TypeOK
<1>5. merged \subseteq DOMAIN items
  BY <1>1, <1>4 DEF TypeOK, MembersOf
<1>6. best \in merged /\ \A k \in merged : Ranks(best, k, items)
  <2>1. merged \subseteq Nat
    BY <1>1, <1>5 DEF TypeOK, ItemId
  <2>2. \A i \in merged : items[i].quality \in Quality
    BY <1>1, <1>5 DEF TypeOK, Item
  <2> QED
    BY <1>2, <2>1, <2>2, BestFacts, StoreAssumption
<1>7. DOMAIN rep' = DOMAIN rep \ sources /\ target \in DOMAIN rep' /\ rep'[target] = best
  BY <1>2
<1>8. \A c, i : <<c, i>> \in members' <=> \/ <<c, i>> \in members /\ c \notin sources
                                          \/ c = target /\ i \in moved
  BY <1>2
<1>9. \A i \in merged : <<target, i>> \in members'
  BY <1>8 DEF MembersOf
<1>10. MembersOf(target, members') \subseteq merged
  BY <1>8 DEF MembersOf
<1> HIDE DEF target, sources, moved, merged, best
<1>11. members' \subseteq (DOMAIN rep') \X (DOMAIN items')
  <2>1. ASSUME NEW m \in members' PROVE m \in (DOMAIN rep') \X (DOMAIN items')
    <3>1. CASE m \in members /\ m[1] \notin sources
      BY <1>2, <1>3, <1>7, <3>1
    <3>2. CASE m \in {target} \X moved
      BY <1>2, <1>4, <1>7, <3>2
    <3> QED
      BY <1>2, <2>1, <3>1, <3>2
  <2> QED
    BY <2>1
<1>12. \A c \in DOMAIN rep' : rep'[c] \in DOMAIN items' /\ <<c, rep'[c]>> \in members'
  <2>1. ASSUME NEW c \in DOMAIN rep', c # target
        PROVE  rep'[c] \in DOMAIN items' /\ <<c, rep'[c]>> \in members'
    <3>1. c \in DOMAIN rep /\ c \notin sources /\ rep'[c] = rep[c]
      BY <1>2, <1>7, <2>1
    <3>2. <<c, rep[c]>> \in members /\ rep[c] \in DOMAIN items
      BY <1>1, <3>1 DEF RepresentativeIsMember, TypeOK
    <3> QED
      BY <1>2, <1>8, <3>1, <3>2
  <2> QED
    BY <1>2, <1>5, <1>6, <1>7, <1>9, <2>1
<1>13. NULL \notin DOMAIN items
  BY <1>1, StoreAssumption DEF TypeOK, ItemId
<1>14. ASSUME NEW e \in events'
       PROVE  /\ e \in Event /\ e.item \in DOMAIN items'
              /\ e.cluster \in DOMAIN rep' \cup {NULL}
              /\ e.cluster # NULL => <<e.cluster, e.item>> \in members'
  <2>1. CASE e = [item |-> best, cluster |-> target]
    BY <1>1, <1>2, <1>5, <1>6, <1>7, <1>9, <2>1 DEF Event, TypeOK
  <2>2. ASSUME NEW f \in events,
               e = [f EXCEPT !.cluster = IF @ \in sources THEN NULL ELSE @]
        PROVE  /\ e \in Event /\ e.item \in DOMAIN items'
               /\ e.cluster \in DOMAIN rep' \cup {NULL}
               /\ e.cluster # NULL => <<e.cluster, e.item>> \in members'
    <3>1. /\ f \in Event /\ f.item \in DOMAIN items /\ f.cluster \in DOMAIN rep \cup {NULL}
          /\ f.cluster # NULL => <<f.cluster, f.item>> \in members
      BY <1>1 DEF TypeOK, MergeEventsNameMembers
    <3>2. e.item = f.item /\ e \in Event
      BY <2>2, <3>1 DEF Event
    <3>3. e.cluster = IF f.cluster \in sources THEN NULL ELSE f.cluster
      BY <2>2, <3>1 DEF Event
    <3> QED
      BY <1>2, <1>7, <1>8, <3>1, <3>2, <3>3
  <2> QED
    BY <1>2, <2>1, <2>2
<1>15. RepresentativeIsMember' /\ MergeEventsNameMembers'
  BY <1>2, <1>12, <1>13, <1>14 DEF RepresentativeIsMember, MergeEventsNameMembers
<1>16. TypeOK'
  <2>1. rep' \in [DOMAIN rep' -> DOMAIN items' \cup {NULL}] /\ DOMAIN rep' \subseteq ClusterId
    BY <1>1, <1>2, <1>7, <1>12 DEF TypeOK
  <2>2. delivered' \subseteq DOMAIN rep'
    BY <1>1, <1>2, <1>7 DEF TypeOK
  <2> QED
    BY <1>1, <1>2, <1>11, <1>14, <2>1, <2>2 DEF TypeOK
<1>17. \A k \in MembersOf(target, members') : Ranks(rep'[target], k, items')
  BY <1>2, <1>6, <1>7, <1>10
<1> QED
  BY <1>7, <1>15, <1>16, <1>17 DEF Inv, target, sources

\* An item that is inserted gets a free id, one that is updated keeps its id.
LEMMA UpsertStep ==
  ASSUME Inv, NEW post \in Posts, NEW q \in Quality, UpsertItem(post, q)
  PROVE  Inv' /\ DOMAIN items \subseteq DOMAIN items'
<1> DEFINE new == NextRowId(DOMAIN items)
<1>1. TypeOK /\ RepresentativeIsMember /\ MergeEventsNameMembers
  BY DEF Inv
<1>2. new \notin DOMAIN items /\ (new <= MaxItem => new \in ItemId)
  <2>1. DOMAIN items \subseteq 1 .. MaxItem /\ MaxItem \in Nat
    BY <1>1, StoreAssumption DEF TypeOK, ItemId
  <2>2. new \in 1 .. MaxItem + 1 /\ new \notin DOMAIN items
    BY <2>1, NextRowIdFacts
  <2> QED
    BY <2>1, <2>2 DEF ItemId
<1> HIDE DEF new
<1>3. /\ ChannelOf[post] \in channels
      /\ UNCHANGED <<channels, rep, members, events, delivered, now>>
  BY DEF UpsertItem
<1> DEFINE ItemsFit ==
             /\ DOMAIN items \subseteq DOMAIN items'
             /\ DOMAIN items' \subseteq ItemId
             /\ items' \in [DOMAIN items' -> Item]
             /\ \A i, k \in DOMAIN items' : items'[i].post = items'[k].post => i = k
             /\ \A i \in DOMAIN items' : ChannelOf[items'[i].post] \in channels
<1>4. ItemsFit
  <2>1. ASSUME NEW i \in DOMAIN items, items[i].post = post,
               items' = [items EXCEPT ![i].quality = q]
        PROVE  ItemsFit
    <3>1. \A k \in DOMAIN items : items'[k].post = items[k].post
      BY <1>1, <2>1 DEF TypeOK, Item
    <3>2. DOMAIN items' = DOMAIN items /\ items' \in [DOMAIN items -> Item]
      BY <1>1, <2>1 DEF TypeOK, Item
    <3> QED
      BY <1>1, <3>1, <3>2 DEF TypeOK
  <2>2. ASSUME \A i \in DOMAIN items : items[i].post # post, new <= MaxItem,
               items' = [i \in DOMAIN items \cup {new} |->
                           IF i = new THEN [post |-> post, quality |-> q, created |-> now]
                                      ELSE items[i]]
        PROVE  ItemsFit
    <3>1. DOMAIN items' = DOMAIN items \cup {new} /\ items'[new].post = post
      BY <2>2
    <3>2. \A k \in DOMAIN items : items'[k] = items[k]
      BY <1>2, <2>2
    <3>3. [post |-> post, quality |-> q, created |-> now] \in Item
      BY <1>1 DEF TypeOK, Item
    <3> QED
      BY <1>1, <1>2, <1>3, <2>2, <3>1, <3>2, <3>3 DEF TypeOK
  <2>3. \/ \E i \in DOMAIN items : /\ items[i].post = post
                                   /\ items' = [items EXCEPT ![i].quality = q]
        \/ /\ \A i \in DOMAIN items : items[i].post # post
           /\ new <= MaxItem
           /\ items' = [i \in DOMAIN items \cup {new} |->
                          IF i = new THEN [post |-> post, quality |-> q, created |-> now]
                                     ELSE items[i]]
    BY DEF UpsertItem, new
  <2> QED
    BY <2>1, <2>2, <2>3
<1>5. TypeOK'
  BY <1>1, <1>3, <1>4 DEF TypeOK
<1> QED
  BY <1>1, <1>3, <1>4, <1>5 DEF Inv, RepresentativeIsMember, MergeEventsNameMembers

\* A cluster made for an unmatched item starts with that item as member and as
\* representative, under a free id.
LEMMA AssignNewStep ==
  ASSUME Inv, NEW i \in ItemId, AssignNew(i)
  PROVE  /\ Inv'
         /\ NextRowId(DOMAIN rep) <= MaxCluster
         /\ DOMAIN rep' = DOMAIN rep \cup {NextRowId(DOMAIN rep)}
<1> DEFINE new == NextRowId(DOMAIN rep)
<1>1. TypeOK /\ RepresentativeIsMember /\ MergeEventsNameMembers
  BY DEF Inv
<1>2. new \notin DOMAIN rep /\ (new <= MaxCluster => new \in ClusterId)
  <2>1. DOMAIN rep \subseteq 1 .. MaxCluster /\ MaxCluster \in Nat
    BY <1>1, StoreAssumption DEF TypeOK, ClusterId
  <2>2. new \in 1 .. MaxCluster + 1 /\ new \notin DOMAIN rep
    BY <2>1, NextRowIdFacts
  <2> QED
    BY <2>1, <2>2 DEF ClusterId
<1>3. /\ i \in DOMAIN items
      /\ new <= MaxCluster
      /\ rep' = [c \in DOMAIN rep \cup {new} |-> IF c = new THEN i ELSE rep[c]]
      /\ members' = members \cup {<<new, i>>}
      /\ UNCHANGED <<channels, items, events, delivered, now>>
  BY DEF AssignNew
<1> HIDE DEF new
<1>4. /\ DOMAIN rep' = DOMAIN rep \cup {new}
      /\ rep'[new] = i
      /\ \A c \in DOMAIN rep : rep'[c] = rep[c]
  BY <1>2, <1>3
<1>5. NULL \notin DOMAIN items
  BY <1>1, StoreAssumption DEF TypeOK, ItemId
<1>6. RepresentativeIsMember' /\ MergeEventsNameMembers'
  BY <1>1, <1>3, <1>4, <1>5 DEF RepresentativeIsMember, MergeEventsNameMembers
<1>7. members' \subseteq (DOMAIN rep') \X (DOMAIN items')
  BY <1>1, <1>3, <1>4 DEF TypeOK
<1>8. rep' \in [DOMAIN rep' -> DOMAIN items' \cup {NULL}] /\ DOMAIN rep' \subseteq ClusterId
  BY <1>1, <1>2, <1>3, <1>4 DEF TypeOK
<1>9. TypeOK'
  BY <1>1, <1>3, <1>4, <1>7, <1>8 DEF TypeOK
<1> QED
  BY <1>3, <1>4, <1>6, <1>9 DEF Inv, new

\* Every transaction keeps the invariant.
LEMMA InvStep == Inv /\ [Next]_vars => Inv'
<1> SUFFICES ASSUME Inv, [Next]_vars PROVE Inv'
  OBVIOUS
<1>0. TypeOK /\ RepresentativeIsMember /\ MergeEventsNameMembers
  BY DEF Inv
<1>1. ASSUME NEW post \in Posts, NEW q \in Quality, UpsertItem(post, q) PROVE Inv'
  BY <1>1, UpsertStep
<1>2. ASSUME NEW ch \in Channels, AddChannel(ch) PROVE Inv'
  BY <1>0, <1>2 DEF AddChannel, Inv, TypeOK, RepresentativeIsMember, MergeEventsNameMembers
<1>3. ASSUME NEW D, D \subseteq DOMAIN items, DeleteItems(D), now' = now,
             channels' \subseteq channels,
             \A i \in DOMAIN items \ D : ChannelOf[items[i].post] \in channels'
      PROVE  Inv'
  <2>1. /\ items' = [i \in DOMAIN items \ D |-> items[i]]
        /\ DOMAIN rep' \subseteq DOMAIN rep
        /\ rep' \in [DOMAIN rep' -> DOMAIN items']
        /\ members' \subseteq (DOMAIN rep') \X (DOMAIN items')
        /\ RepresentativeIsMember'
        /\ \A e \in events' :
              /\ e \in Event /\ e.item \in DOMAIN items'
              /\ e.cluster # NULL => <<e.cluster, e.item>> \in members'
        /\ delivered' \subseteq DOMAIN rep'
    BY <1>3, DeleteItemsStep
  <2>2. MergeEventsNameMembers'
    BY <2>1 DEF MergeEventsNameMembers
  <2>3. DOMAIN items' = DOMAIN items \ D /\ \A i \in DOMAIN items' : items'[i] = items[i]
    BY <2>1
  <2>4. items' \in [DOMAIN items' -> Item]
    BY <1>0, <2>1, <2>3 DEF TypeOK
  <2>5. TypeOK'
    BY ZenonT(40), <1>0, <1>3, <2>1, <2>3, <2>4 DEF TypeOK
  <2> QED
    BY <2>1, <2>2, <2>5 DEF Inv
<1>4. ASSUME NEW ch \in Channels, PurgeChannel(ch) PROVE Inv'
  <2> DEFINE D == {i \in DOMAIN items : ChannelOf[items[i].post] = ch}
  <2>1. D \subseteq DOMAIN items /\ DeleteItems(D) /\ now' = now /\ channels' = channels \ {ch}
    BY <1>4 DEF PurgeChannel
  <2>2. \A i \in DOMAIN items \ D : ChannelOf[items[i].post] \in channels'
    BY <1>0, <2>1 DEF TypeOK
  <2> QED
    BY <1>3, <2>1, <2>2
<1>5. CASE Prune
  <2>1. /\ Expired \subseteq DOMAIN items
        /\ DeleteItems(Expired)
        /\ now' = now /\ channels' = channels
    BY <1>5 DEF Prune, Expired
  <2>2. \A i \in DOMAIN items : ChannelOf[items[i].post] \in channels
    BY <1>0 DEF TypeOK
  <2> QED
    BY <1>3, <2>1, <2>2
<1>6. ASSUME NEW i \in ItemId, AssignNew(i) PROVE Inv'
  BY <1>6, AssignNewStep
<1>7. ASSUME NEW i \in ItemId, NEW c \in ClusterId, AssignMatched(i, c) PROVE Inv'
  BY <1>0, <1>7
  DEF AssignMatched, Inv, TypeOK, RepresentativeIsMember, MergeEventsNameMembers
<1>8. ASSUME NEW S \in SUBSET ClusterId, S # {}, MergeClusters(S) PROVE Inv'
  BY <1>8, MergeStep
<1>9. ASSUME NEW c \in ClusterId, RecordDelivery(c) PROVE Inv'
  BY <1>0, <1>9
  DEF RecordDelivery, Inv, TypeOK, RepresentativeIsMember, MergeEventsNameMembers
<1>10. CASE Tick
  BY <1>0, <1>10, StoreAssumption
  DEF Tick, Inv, TypeOK, RepresentativeIsMember, MergeEventsNameMembers
<1>11. CASE UNCHANGED vars
  BY <1>0, <1>11 DEF vars, Inv, TypeOK, RepresentativeIsMember, MergeEventsNameMembers
<1> QED
  BY <1>1, <1>2, <1>4, <1>5, <1>6, <1>7, <1>8, <1>9, <1>10, <1>11 DEF Next

\* The invariant holds in every reachable state of the database.
THEOREM Invariance == Spec => []Inv
<1>1. Init => Inv
  <2> SUFFICES ASSUME Init PROVE Inv
    OBVIOUS
  <2>1. DOMAIN items = {} /\ DOMAIN rep = {}
    BY DEF Init
  <2> QED
    BY <2>1, StoreAssumption
    DEF Init, Inv, TypeOK, RepresentativeIsMember, MergeEventsNameMembers
<1> QED
  BY <1>1, InvStep, PTL DEF Spec

\* Types, unique keys and foreign keys hold after every transaction.
THEOREM TypeCorrect == Spec => []TypeOK
<1>1. Inv => TypeOK
  BY DEF Inv
<1> QED
  BY <1>1, Invariance, PTL

\* No sequence of assignments, merges, prunes and purges leaves a cluster without
\* a representative, or with one that is not its member.
THEOREM ClustersAreRepresented == Spec => []RepresentativeIsMember
<1>1. Inv => RepresentativeIsMember
  BY DEF Inv
<1> QED
  BY <1>1, Invariance, PTL

\* A merge event that still names a cluster names one of its members.
THEOREM EventsAreAboutMembers == Spec => []MergeEventsNameMembers
<1>1. Inv => MergeEventsNameMembers
  BY DEF Inv
<1> QED
  BY <1>1, Invariance, PTL

-----------------------------------------------------------------------------
(* Action properties *)

\* Who is a member after a merge.
LEMMA MergeMembers ==
  ASSUME Inv, NEW S \in SUBSET ClusterId, MergeClusters(S)
  PROVE  \A c, i : <<c, i>> \in members' <=>
           \/ <<c, i>> \in members /\ c \notin S \ {Min(S)}
           \/ c = Min(S) /\ \E d \in S \ {Min(S)} : i \in ItemId /\ <<d, i>> \in members
<1> DEFINE sources == S \ {Min(S)}
           moved   == UNION {MembersOf(d, members) : d \in sources}
<1>1. members' = {m \in members : m[1] \notin sources} \cup ({Min(S)} \X moved)
  BY DEF MergeClusters, Unlink
<1>2. \A i : i \in moved <=> \E d \in sources : i \in ItemId /\ <<d, i>> \in members
  BY DEF MembersOf
<1> QED
  BY <1>1, <1>2

\* Which transactions take rows out of dedupe_members.
LEMMA MembersShrink ==
  ASSUME Inv, [Next]_vars
  PROVE  \/ members \subseteq members' /\ DOMAIN rep \subseteq DOMAIN rep'
         \/ \E D \in SUBSET DOMAIN items : DeleteItems(D)
         \/ \E S \in SUBSET ClusterId : S # {} /\ MergeClusters(S)
<1>1. ASSUME NEW i \in ItemId, AssignNew(i)
      PROVE  members \subseteq members' /\ DOMAIN rep \subseteq DOMAIN rep'
  BY <1>1 DEF AssignNew
<1>2. ASSUME NEW ch \in Channels, PurgeChannel(ch)
      PROVE  \E D \in SUBSET DOMAIN items : DeleteItems(D)
  BY <1>2 DEF PurgeChannel
<1>3. Prune => \E D \in SUBSET DOMAIN items : DeleteItems(D)
  BY DEF Prune, Expired
<1> QED
  BY <1>1, <1>2, <1>3
  DEF Next, vars, UpsertItem, AddChannel, AssignMatched, RecordDelivery, Tick

\* Items found to be duplicates stay in a common cluster as long as they exist.
THEOREM DuplicatesAreNotSeparated == Spec => DuplicatesStayTogether
<1> DEFINE Together ==
             \A i, k \in DOMAIN items \cap DOMAIN items' :
               (\E c \in DOMAIN rep : {<<c, i>>, <<c, k>>} \subseteq members) =>
                  \E c \in DOMAIN rep' : {<<c, i>>, <<c, k>>} \subseteq members'
<1>1. Inv /\ Inv' /\ [Next]_vars => Together
  <2> SUFFICES ASSUME Inv, Inv', [Next]_vars,
                      NEW i \in DOMAIN items \cap DOMAIN items',
                      NEW k \in DOMAIN items \cap DOMAIN items',
                      NEW c \in DOMAIN rep, <<c, i>> \in members, <<c, k>> \in members
               PROVE  \E d \in DOMAIN rep' : <<d, i>> \in members' /\ <<d, k>> \in members'
    OBVIOUS
  <2>0. i \in ItemId /\ k \in ItemId
    BY DEF Inv, TypeOK
  <2>1. CASE members \subseteq members' /\ DOMAIN rep \subseteq DOMAIN rep'
    BY <2>1
  <2>2. ASSUME NEW D \in SUBSET DOMAIN items, DeleteItems(D)
        PROVE  \E d \in DOMAIN rep' : <<d, i>> \in members' /\ <<d, k>> \in members'
    <3>1. /\ members' \subseteq (DOMAIN rep') \X (DOMAIN items')
          /\ items' = [n \in DOMAIN items \ D |-> items[n]]
      BY <2>2, DeleteItemsStep
    <3>2. members' = {m \in members : m[2] \notin D}
      BY <2>2 DEF DeleteItems
    <3>3. <<c, i>> \in members' /\ <<c, k>> \in members'
      BY <3>1, <3>2
    <3> QED
      BY <3>1, <3>3
  <2>3. ASSUME NEW S \in SUBSET ClusterId, S # {}, MergeClusters(S)
        PROVE  \E d \in DOMAIN rep' : <<d, i>> \in members' /\ <<d, k>> \in members'
    <3>1. Min(S) \in DOMAIN rep' /\ DOMAIN rep' = DOMAIN rep \ (S \ {Min(S)})
      BY <2>3, MergeStep
    <3>2. CASE c \in S \ {Min(S)}
      BY SMTT(30), <2>0, <2>3, <3>1, <3>2, MergeMembers
    <3>3. CASE c \notin S \ {Min(S)}
      BY <2>3, <3>1, <3>3, MergeMembers
    <3> QED
      BY <3>2, <3>3
  <2> QED
    BY <2>1, <2>2, <2>3, MembersShrink
<1> QED
  BY <1>1, Invariance, PTL DEF Spec, DuplicatesStayTogether

\* Merges, prunes and purges leave the best member as representative of each
\* cluster they change.
THEOREM ChangesAreReranked == Spec => ChangedClusterIsReranked
<1> DEFINE Reranked ==
             \A c \in DOMAIN rep \cap DOMAIN rep' :
               members \ members' # {} /\ MembersOf(c, members') # MembersOf(c, members) =>
                 \A k \in MembersOf(c, members') : Ranks(rep'[c], k, items')
<1>1. Inv /\ [Next]_vars => Reranked
  <2> SUFFICES ASSUME Inv, [Next]_vars, NEW c \in DOMAIN rep \cap DOMAIN rep',
                      members \ members' # {},
                      MembersOf(c, members') # MembersOf(c, members)
               PROVE  \A k \in MembersOf(c, members') : Ranks(rep'[c], k, items')
    OBVIOUS
  <2>1. ASSUME NEW D \in SUBSET DOMAIN items, DeleteItems(D)
        PROVE  \A k \in MembersOf(c, members') : Ranks(rep'[c], k, items')
    <3> DEFINE left == {m \in members : m[2] \notin D}
               R    == MembersOf(c, left)
    <3>1. /\ items' = [i \in DOMAIN items \ D |-> items[i]]
          /\ members' \subseteq (DOMAIN rep') \X (DOMAIN items')
          /\ RepresentativeIsMember'
      BY <2>1, DeleteItemsStep
    <3>2. members' = left
      BY <2>1 DEF DeleteItems
    <3>3. \E i \in D : <<c, i>> \in members
      BY <3>2 DEF MembersOf
    <3>4. rep'[c] = Best(R, items')
      BY <2>1, <3>3 DEF DeleteItems
    <3>5. R # {}
      <4>1. <<c, rep'[c]>> \in members' /\ rep'[c] \in DOMAIN items'
        BY <3>1 DEF RepresentativeIsMember
      <4>2. rep'[c] \in ItemId
        BY <3>1, <4>1 DEF Inv, TypeOK
      <4> QED
        BY <3>2, <4>1, <4>2 DEF MembersOf
    <3>6. R \subseteq Nat /\ \A i \in R : items'[i].quality \in Quality
      <4>1. R \subseteq DOMAIN items' /\ R \subseteq ItemId
        BY <3>1, <3>2 DEF MembersOf
      <4>2. \A i \in DOMAIN items' : items'[i].quality \in Quality
        BY <3>1 DEF Inv, TypeOK, Item
      <4> QED
        BY <4>1, <4>2 DEF ItemId
    <3> HIDE DEF R
    <3>7. \A k \in R : Ranks(Best(R, items'), k, items')
      BY <3>5, <3>6, BestFacts, StoreAssumption
    <3> QED
      BY <3>2, <3>4, <3>7 DEF R
  <2>2. ASSUME NEW S \in SUBSET ClusterId, S # {}, MergeClusters(S)
        PROVE  \A k \in MembersOf(c, members') : Ranks(rep'[c], k, items')
    <3>1. /\ DOMAIN rep' = DOMAIN rep \ (S \ {Min(S)})
          /\ \A k \in MembersOf(Min(S), members') : Ranks(rep'[Min(S)], k, items')
      BY <2>2, MergeStep
    <3>2. c # Min(S) => MembersOf(c, members') = MembersOf(c, members)
      BY <2>2, <3>1, MergeMembers DEF MembersOf
    <3> QED
      BY <3>1, <3>2
  <2> QED
    BY <2>1, <2>2, MembersShrink
<1> QED
  BY <1>1, Invariance, PTL DEF Spec, ChangedClusterIsReranked

-----------------------------------------------------------------------------
(* Refinement of ClusterTable *)

\* Whatever transaction runs, the bot sees one cluster created, one delivery
\* recorded, or clusters removed together with their delivery rows.
THEOREM Refinement == Spec => ImplementsClusterTable
<1>1. Init => Table!CInit
  BY DEF Init, Table!CInit
<1>2. Inv /\ [Next]_vars => [Table!CNext]_Table!cvars
  <2> SUFFICES ASSUME Inv, [Next]_vars PROVE [Table!CNext]_Table!cvars
    OBVIOUS
  <2>0. delivered \subseteq DOMAIN rep
    BY DEF Inv, TypeOK
  <2>1. ASSUME NEW S, DOMAIN rep' = DOMAIN rep \ S, delivered' = delivered \ S
        PROVE  [Table!CNext]_Table!cvars
    <3> DEFINE T == S \cap DOMAIN rep
    <3>1. DOMAIN rep' = DOMAIN rep \ T /\ delivered' = delivered \ T
      BY <2>0, <2>1
    <3>2. CASE T = {}
      BY <3>1, <3>2 DEF Table!cvars
    <3>3. CASE T # {}
      BY <3>1, <3>3 DEF Table!CNext, Table!RemoveClusters
    <3> QED
      BY <3>2, <3>3
  <2>2. ASSUME NEW i \in ItemId, AssignNew(i) PROVE Table!CreateCluster
    <3>1. /\ NextRowId(DOMAIN rep) <= MaxCluster
          /\ DOMAIN rep' = DOMAIN rep \cup {NextRowId(DOMAIN rep)}
      BY <2>2, AssignNewStep
    <3>2. delivered' = delivered
      BY <2>2 DEF AssignNew
    <3>3. Table!NextRowId(DOMAIN rep) = NextRowId(DOMAIN rep)
      BY DEF Table!NextRowId, NextRowId, Table!Max, Max
    <3> QED
      BY <3>1, <3>2, <3>3 DEF Table!CreateCluster
  <2>3. ASSUME NEW D, DeleteItems(D) PROVE [Table!CNext]_Table!cvars
    <3> DEFINE empty == {c \in {d \in DOMAIN rep : \E i \in D : <<d, i>> \in members} :
                           MembersOf(c, {m \in members : m[2] \notin D}) = {}}
    <3>1. DOMAIN rep' = DOMAIN rep \ empty /\ delivered' = delivered \ empty
      BY <2>3 DEF DeleteItems
    <3> QED
      BY <2>1, <3>1
  <2>4. ASSUME NEW S \in SUBSET ClusterId, S # {}, MergeClusters(S)
        PROVE  [Table!CNext]_Table!cvars
    <3>1. DOMAIN rep' = DOMAIN rep \ (S \ {Min(S)})
      BY <2>4, MergeStep
    <3>2. delivered' = delivered \ (S \ {Min(S)})
      BY <2>4 DEF MergeClusters
    <3> QED
      BY <2>1, <3>1, <3>2
  <2>5. ASSUME NEW c \in ClusterId, RecordDelivery(c) PROVE Table!CNext
    BY <2>5 DEF RecordDelivery, Table!CNext, Table!DeliverCluster
  <2>6. CASE rep' = rep /\ delivered' = delivered
    BY <2>6 DEF Table!cvars
  <2> QED
    BY <2>2, <2>3, <2>4, <2>5, <2>6
    DEF Next, vars, UpsertItem, AddChannel, PurgeChannel, AssignMatched, Prune, Tick,
        Table!CNext
<1> QED
  BY <1>1, <1>2, Invariance, PTL DEF Spec, ImplementsClusterTable, Table!CSpec

=============================================================================
