--------------------------- MODULE V2vClusterSap ---------------------------
(***************************************************************************)
(* The vocabulary of the clustering protocol: what vehicles know of each   *)
(* other (model/v2v-cluster-sap.h) and the four headers they exchange      *)
(* (model/v2v-cluster-header.cc).                                          *)
(*                                                                         *)
(* The position and the velocity of a NeighborInfo are a function of the   *)
(* vehicle and of the time at which they were taken (V2vClusterMetrics),   *)
(* so an entry carries only the identity and the time stamp of its author. *)
(* Times are in milliseconds.                                              *)
(***************************************************************************)
EXTENDS Integers, FiniteSets

CONSTANTS
    Node,   \* the vehicles, by ns-3 node id (the imsi of the code)
    Null    \* no entry in a list, no incident socket

NodeDegree == {"STANDALONE", "CH", "CM"}

NodeStatus == {"CLUSTER_INITIALIZATION", "CLUSTER_HEAD_ELECTION",
               "CLUSTER_FORMATION", "CLUSTER_UPDATE"}

\* clusterId is any uint64_t: it is uninitialised before the first cluster,
\* and 0 when a vehicle belongs to none.
NeighborInfo == [imsi: Node, ts: Nat, clusterId: Nat, degree: NodeDegree]

ASSUME NodeAssumption == Node \subseteq Nat /\ IsFiniteSet(Node)

ASSUME NullAssumption == Null \notin Node /\ Null \notin NeighborInfo

(***************************************************************************)
(* A std::map from imsi to NeighborInfo.                                   *)
(***************************************************************************)
NeighborList == [Node -> NeighborInfo \cup {Null}]

EmptyList == [k \in Node |-> Null]

Keys(list) == {k \in Node : list[k] /= Null}

\* insert, or overwrite the entry of the same key
Insert(list, info) == [list EXCEPT ![info.imsi] = info]

Erase(list, keys) == [k \in Node |-> IF k \in keys THEN Null ELSE list[k]]

(***************************************************************************)
(* Headers.  The IncidentEvent header has no field for the vehicle it      *)
(* comes from: origin only keeps apart two incidents of the same instant.  *)
(***************************************************************************)
ClusterInfoHeader(seq, info) ==
    [kind |-> "ClusterInfo", seq |-> seq, info |-> info]

InitiateClusterHeader(seq, id) ==
    [kind |-> "InitiateCluster", seq |-> seq, clusterId |-> id]

FormClusterHeader(seq, info) ==
    [kind |-> "FormCluster", seq |-> seq, info |-> info]

IncidentEventHeader(ts, id, origin) ==
    [kind |-> "IncidentEvent", ts |-> ts, clusterId |-> id, origin |-> origin]

Header ==
    [kind: {"ClusterInfo", "FormCluster"}, seq: Nat, info: NeighborInfo]
      \cup [kind: {"InitiateCluster"}, seq: Nat, clusterId: Nat]
      \cup [kind: {"IncidentEvent"}, ts: Nat, clusterId: Nat, origin: Node]

\* one copy of a packet on its way to one receiver
Packet == [from: Node, to: Node, msg: Header]

=============================================================================
