----------------------------- MODULE ClusterTable -----------------------------
(***************************************************************************)
(* What the bot sees of the dedupe store: cluster rows come and go, their  *)
(* ids are SQLite row ids, so a new row takes the number after the largest *)
(* one in use and a number can come back, and a delivery row lives exactly *)
(* as long as its cluster.  DedupeStore implements this, and BotDelivery   *)
(* runs against it.                                                        *)
(***************************************************************************)
EXTENDS RowIds

CONSTANT MaxCluster   \* bound: the largest cluster id

ASSUME MaxClusterAssumption == MaxCluster \in Nat \ {0}

VARIABLES
  ids,        \* dedupe_clusters.id
  delivered   \* bot_deliveries.cluster_id

cvars == <<ids, delivered>>

CInit == ids = {} /\ delivered = {}

CreateCluster ==
  /\ NextRowId(ids) <= MaxCluster
  /\ ids' = ids \cup {NextRowId(ids)}
  /\ UNCHANGED delivered

\* bot_deliveries.cluster_id is declared ON DELETE CASCADE.
RemoveClusters(S) ==
  /\ ids' = ids \ S
  /\ delivered' = delivered \ S

\* cluster_id is unique in bot_deliveries and refers to an existing cluster.
DeliverCluster(c) ==
  /\ c \in ids \ delivered
  /\ delivered' = delivered \cup {c}
  /\ UNCHANGED ids

CNext ==
  \/ CreateCluster
  \/ \E S \in SUBSET ids : S # {} /\ RemoveClusters(S)
  \/ \E c \in ids : DeliverCluster(c)

CSpec == CInit /\ [][CNext]_cvars
=============================================================================
