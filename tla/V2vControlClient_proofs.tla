----------------------- MODULE V2vControlClient_proofs -----------------------
(***************************************************************************)
(* Proofs about V2vControlClient, for every set of vehicles, topology,     *)
(* schedule, mobility and bound that the assumptions allow: types, the     *)
(* places vehicles have in clusters, and what their lists hold.            *)
(***************************************************************************)
EXTENDS V2vControlClient, SequenceTheorems, TLAPS

-----------------------------------------------------------------------------
(***************************************************************************)
(* Types.  First the helpers, then one lemma for each group of actions.    *)
(***************************************************************************)
Plan == Seq([delay: Nat, type: EventType])

LEMMA ListUpdateDelayType == ASSUME now \in Nat PROVE ListUpdateDelay \in Nat
<1>1. now = 1000 * (now \div 1000) + (now % 1000) /\ now % 1000 \in 0..999
  OBVIOUS
<1>2. now \div 1000 \in Nat
  OBVIOUS
<1> QED
  BY <1>1, <1>2 DEF ListUpdateDelay

\* Schedule keeps the queue a set of events.
LEMMA SimulateType ==
  ASSUME TypeOK, NEW n \in Node, NEW done, NEW plan \in Plan,
         Simulate(n, done, plan)
  PROVE  pending' \in [Node -> SUBSET Event] /\ nextUid' \in [Node -> Nat \ {0}]
<1> DEFINE new == {[uid |-> nextUid[n] + i - 1, type |-> plan[i].type,
                    due |-> now + plan[i].delay] : i \in 1..Len(plan)}
<1>1. Len(plan) \in Nat /\ nextUid[n] \in Nat \ {0} /\ now \in Nat
  BY DEF TypeOK, Plan
<1>2. \A i \in 1..Len(plan) : plan[i] \in [delay: Nat, type: EventType]
  BY ElementOfSeq DEF Plan
<1>3. new \subseteq Event
  BY <1>1, <1>2 DEF Event
<1>4. pending' = [pending EXCEPT ![n] = (@ \ done) \cup new]
      /\ nextUid' = [nextUid EXCEPT ![n] = @ + Len(plan)]
  BY DEF Simulate
<1>5. pending \in [Node -> SUBSET Event] /\ nextUid \in [Node -> Nat \ {0}]
  BY DEF TypeOK
<1> QED
  BY <1>1, <1>3, <1>4, <1>5

LEMMA PlanType ==
  ASSUME NEW d \in Nat, NEW t \in EventType, NEW e \in Nat, NEW u \in EventType
  PROVE  /\ <<>> \in Plan
         /\ <<After(d, t)>> \in Plan
         /\ <<After(d, t), After(e, u)>> \in Plan
  BY DEF Plan, After

LEMMA TransmitType ==
  ASSUME TypeOK, NEW n \in Node, NEW msg \in Header
  PROVE  Copies(n, msg) \in SUBSET Packet
  BY ChannelAssumption DEF Copies, Packet

LEMMA CountType ==
  ASSUME TypeOK, NEW n \in Node, NEW counters, Count(n, counters)
  PROVE  stats' \in [Node -> [Counter -> Nat]]
  BY DEF TypeOK, Count

LEMMA WaitType ==
  ASSUME NEW own \in NeighborInfo, NEW list \in NeighborList,
         NEW w \in SuitabilityCheck(own, list)
  PROVE  w \in Nat /\ IncidentDelays(w) \subseteq Nat
<1>1. own.imsi \in Nat
  BY NodeAssumption DEF NeighborInfo
<1>2. 1000 * own.imsi \in Nat
  BY <1>1
<1>3. w \in Nat
  <2>1. CASE Keys(list) = {}
    BY <1>2, <2>1 DEF SuitabilityCheck
  <2>2. CASE Keys(list) /= {}
    BY <2>2, WaitingTimesAssumption DEF SuitabilityCheck
  <2> QED
    BY <2>1, <2>2
<1> DEFINE first == 1000 * (w \div 1000 + 1)
<1>4. first \in Nat
  BY <1>3
<1>5. IncidentDelays(w) \subseteq IncidentSamples \cup {first}
  BY DEF IncidentDelays
<1>6. IncidentSamples \subseteq Nat
  BY TimeAssumption
<1> HIDE DEF first
<1> QED
  BY <1>3, <1>4, <1>5, <1>6

LEMMA StartElectionType ==
  ASSUME TypeOK, NEW n \in Node, NEW done, StartElection(n, done)
  PROVE  /\ pending' \in [Node -> SUBSET Event]
         /\ nextUid' \in [Node -> Nat \ {0}]
         /\ m_chElectionEvent' \in [Node -> Nat]
         /\ m_sendIncidentEvent' \in [Node -> Nat]
<1>1. PICK w \in SuitabilityCheck(m_currentMobility[n], m_rStableList[n]) :
      \E d \in IncidentDelays(w) :
        Simulate(n, done, <<After(w, "FormCluster"), After(d, "SendIncident")>>)
  BY DEF StartElection
<1>2. PICK d \in IncidentDelays(w) :
        Simulate(n, done, <<After(w, "FormCluster"), After(d, "SendIncident")>>)
  BY <1>1
<1>3. w \in Nat /\ d \in Nat
  BY WaitType DEF TypeOK
<1>4. <<After(w, "FormCluster"), After(d, "SendIncident")>> \in Plan
  BY <1>3, PlanType DEF EventType
<1>5. pending' \in [Node -> SUBSET Event] /\ nextUid' \in [Node -> Nat \ {0}]
  BY <1>2, <1>4, SimulateType
<1>6. /\ m_chElectionEvent' = [m_chElectionEvent EXCEPT ![n] = nextUid[n]]
      /\ m_sendIncidentEvent' = [m_sendIncidentEvent EXCEPT ![n] = nextUid[n] + 1]
  BY DEF StartElection
<1> QED
  BY <1>5, <1>6 DEF TypeOK

\* the mobility of a vehicle after each of its changes
LEMMA MobilityType ==
  ASSUME TypeOK, NEW n \in Node, NEW id \in Nat, NEW info \in NeighborInfo,
         NEW stale, NEW list
  PROVE  /\ AcquireMobilityInfo(n) \in NeighborInfo
         /\ AsHead(n, info) \in NeighborInfo
         /\ AsMember(info, id) \in NeighborInfo
         /\ MobilityAfterUpdate(info, stale, list) \in NeighborInfo
<1>1. n \in Nat /\ info.imsi \in Nat /\ m_currentMobility[n] \in NeighborInfo
  BY NodeAssumption DEF TypeOK, NeighborInfo
<1>2. AcquireMobilityInfo(n) \in NeighborInfo
  BY <1>1 DEF TypeOK, NeighborInfo, AcquireMobilityInfo
<1>3. AsHead(n, info) \in NeighborInfo /\ AsMember(info, id) \in NeighborInfo
  BY <1>1 DEF NeighborInfo, NodeDegree, AsHead, AsMember
<1>4. MobilityAfterUpdate(info, stale, list) \in NeighborInfo
  BY <1>1 DEF NeighborInfo, NodeDegree, MobilityAfterUpdate
<1> QED
  BY <1>2, <1>3, <1>4

LEMMA HeaderType ==
  ASSUME TypeOK, NEW n \in Node, NEW info \in NeighborInfo, NEW id \in Nat
  PROVE  /\ ClusterInfoHeader(stats[n]["m_sentCounter"], info) \in Header
         /\ InitiateClusterHeader(stats[n]["m_sentCounter"], n) \in Header
         /\ FormClusterHeader(stats[n]["m_sentCounter"], info) \in Header
         /\ IncidentEventHeader(now, id, n) \in Header
<1>1. stats[n]["m_sentCounter"] \in Nat /\ now \in Nat /\ n \in Nat
  BY NodeAssumption DEF TypeOK, Counter
<1> QED
  BY <1>1 DEF ClusterInfoHeader, InitiateClusterHeader, FormClusterHeader,
              IncidentEventHeader, Header

LEMMA ListType ==
  ASSUME NEW list \in NeighborList, NEW info \in NeighborInfo, NEW keys
  PROVE  /\ EmptyList \in NeighborList
         /\ Insert(list, info) \in NeighborList
         /\ Erase(list, keys) \in NeighborList
  BY DEF NeighborList, EmptyList, Insert, Erase, NeighborInfo

LEMMA InitType == Init => TypeOK
<1> SUFFICES ASSUME Init PROVE TypeOK
  OBVIOUS
<1>1. PICK degree \in [Node -> IndeterminateDegree],
           id \in [Node -> IndeterminateClusterId] :
        m_currentMobility =
          [n \in Node |-> [imsi |-> n, ts |-> 0, clusterId |-> id[n],
                           degree |-> degree[n]]]
  BY DEF Init
<1>2. m_currentMobility \in [Node -> NeighborInfo]
  BY <1>1, IndeterminateAssumption DEF NeighborInfo
<1>3. pending \in [Node -> SUBSET Event]
  BY TimeAssumption DEF Init, Event, EventType
<1>4. EmptyList \in NeighborList
  BY DEF EmptyList, NeighborList
<1>5. losses \in 0..MaxLosses
  BY ChannelAssumption DEF Init
<1> QED
  BY <1>2, <1>3, <1>4, <1>5 DEF Init, TypeOK, NodeStatus

LEMMA ApplicationType ==
  ASSUME TypeOK, NEW n \in Node, Application(n) PROVE TypeOK'
<1>1. CASE StartApplication(n)
  <2>1. PICK e \in Due(n, "Start") :
          Simulate(n, {e}, <<After(TimeWindow[n], "Send")>>)
    BY <1>1 DEF StartApplication
  <2>2. <<After(TimeWindow[n], "Send")>> \in Plan
    BY TimeAssumption, PlanType DEF EventType
  <2>3. pending' \in [Node -> SUBSET Event] /\ nextUid' \in [Node -> Nat \ {0}]
    BY <2>1, <2>2, SimulateType
  <2>4. AcquireMobilityInfo(n) \in NeighborInfo
    BY MobilityType, NodeAssumption DEF TypeOK
  <2>5. EmptyList \in NeighborList
    BY DEF EmptyList, NeighborList
  <2>6. /\ m_2rStableList' \in [Node -> NeighborList]
        /\ m_rStableList' \in [Node -> NeighborList]
        /\ m_clusterList' \in [Node -> SUBSET Node]
    BY <1>1, <2>5 DEF StartApplication, TypeOK
  <2>7. /\ m_currentMobility' \in [Node -> NeighborInfo]
        /\ m_sendEvent' \in [Node -> Nat]
    BY <1>1, <2>4 DEF StartApplication, TypeOK
  <2>8. /\ m_status' \in [Node -> NodeStatus]
        /\ m_socket' \in [Node -> BOOLEAN]
    BY <1>1 DEF StartApplication, TypeOK, NodeStatus
  <2> QED
    BY <1>1, <2>3, <2>6, <2>7, <2>8
    DEF StartApplication, TypeOK, network, incident
<1>2. CASE StopApplication(n)
  <2>1. PICK e \in Due(n, "Stop") : Simulate(n, {e} \cup Cancelled(n), <<>>)
    BY <1>2 DEF StopApplication
  <2>2. <<>> \in Plan
    BY DEF Plan
  <2>3. pending' \in [Node -> SUBSET Event] /\ nextUid' \in [Node -> Nat \ {0}]
    BY <2>1, <2>2, SimulateType
  <2>4. stats' \in [Node -> [Counter -> Nat]]
    BY <1>2, CountType DEF StopApplication, TypeOK
  <2> QED
    BY <1>2, <2>3, <2>4
    DEF StopApplication, TypeOK, network, lists, timers, incident
<1> QED
  BY <1>1, <1>2 DEF Application

LEMMA SendType == ASSUME TypeOK, NEW n \in Node, Send(n) PROVE TypeOK'
<1>0. n \in Nat /\ m_currentMobility[n] \in NeighborInfo
      /\ AcquireMobilityInfo(n) \in NeighborInfo
      /\ AsHead(n, AcquireMobilityInfo(n)) \in NeighborInfo
  BY NodeAssumption, MobilityType DEF TypeOK
<1>1. CASE SendClusterInfo(n)
  <2>1. PICK e \in SendDue(n, "CLUSTER_INITIALIZATION") :
          Simulate(n, {e}, <<After(Slot * MaxUes, "InitiateCluster")>>)
    BY <1>1 DEF SendClusterInfo
  <2>2. <<After(Slot * MaxUes, "InitiateCluster")>> \in Plan
    <3>1. Slot * MaxUes \in Nat
      BY TdmaAssumption
    <3> QED
      BY <3>1, PlanType DEF EventType
  <2>3. pending' \in [Node -> SUBSET Event] /\ nextUid' \in [Node -> Nat \ {0}]
    BY <2>1, <2>2, SimulateType
  <2>4. stats' \in [Node -> [Counter -> Nat]]
    BY <1>1, CountType DEF SendClusterInfo
  <2>5. air' \in SUBSET Packet /\ losses' = losses
    BY <1>0, <1>1, HeaderType, TransmitType
    DEF SendClusterInfo, Transmit, TypeOK
  <2> QED
    BY <1>1, <2>3, <2>4, <2>5
    DEF SendClusterInfo, TypeOK, lists, timers, incident
<1>2. CASE SendInitiateCluster(n)
  <2>1. PICK e \in SendDue(n, "CLUSTER_HEAD_ELECTION") : StartElection(n, {e})
    BY <1>2 DEF SendInitiateCluster
  <2>2. /\ pending' \in [Node -> SUBSET Event]
        /\ nextUid' \in [Node -> Nat \ {0}]
        /\ m_chElectionEvent' \in [Node -> Nat]
        /\ m_sendIncidentEvent' \in [Node -> Nat]
    BY <2>1, StartElectionType
  <2>3. stats' \in [Node -> [Counter -> Nat]]
    BY <1>2, CountType DEF SendInitiateCluster
  <2>4. air' \in SUBSET Packet /\ losses' = losses
    BY <1>0, <1>2, HeaderType, TransmitType
    DEF SendInitiateCluster, Transmit, TypeOK
  <2> QED
    BY <1>2, <2>2, <2>3, <2>4
    DEF SendInitiateCluster, TypeOK, lists, incident
<1>3. CASE SendFormCluster(n)
  <2>1. PICK e \in SendDue(n, "CLUSTER_FORMATION") :
          Simulate(n, {e}, <<After(0, "UpdateNeighbors"),
                             After(ListUpdateDelay, "UpdateNeighborList")>>)
    BY <1>3 DEF SendFormCluster
  <2>2. <<After(0, "UpdateNeighbors"),
          After(ListUpdateDelay, "UpdateNeighborList")>> \in Plan
    <3>1. ListUpdateDelay \in Nat
      BY ListUpdateDelayType DEF TypeOK
    <3> QED
      BY <3>1, PlanType DEF EventType
  <2>3. pending' \in [Node -> SUBSET Event] /\ nextUid' \in [Node -> Nat \ {0}]
    BY <2>1, <2>2, SimulateType
  <2>4. stats' \in [Node -> [Counter -> Nat]]
    BY <1>3, CountType DEF SendFormCluster
  <2>5. air' \in SUBSET Packet /\ losses' = losses
    BY <1>0, <1>3, HeaderType, TransmitType
    DEF SendFormCluster, Transmit, TypeOK
  <2>6. m_currentMobility' \in [Node -> NeighborInfo]
    BY <1>0, <1>3 DEF SendFormCluster, TypeOK
  <2> QED
    BY <1>3, <2>3, <2>4, <2>5, <2>6
    DEF SendFormCluster, TypeOK, lists, timers, incident
<1>4. CASE SendUpdate(n)
  <2>1. PICK e \in SendDue(n, "CLUSTER_UPDATE") :
          Simulate(n, {e}, <<After(Interval, "Send")>>)
    BY <1>4 DEF SendUpdate
  <2>2. <<After(Interval, "Send")>> \in Plan
    BY TimeAssumption, PlanType DEF EventType
  <2>3. pending' \in [Node -> SUBSET Event] /\ nextUid' \in [Node -> Nat \ {0}]
    BY <2>1, <2>2, SimulateType
  <2>4. stats' \in [Node -> [Counter -> Nat]]
    BY <1>4, CountType DEF SendUpdate
  <2>5. air' \in SUBSET Packet /\ losses' = losses
    BY <1>0, <1>4, HeaderType, TransmitType DEF SendUpdate, Transmit, TypeOK
  <2>6. m_currentMobility' \in [Node -> NeighborInfo]
    BY <1>0, <1>4 DEF SendUpdate, TypeOK
  <2> QED
    BY <1>4, <2>3, <2>4, <2>5, <2>6 DEF SendUpdate, TypeOK, lists, incident
<1> QED
  BY <1>1, <1>2, <1>3, <1>4 DEF Send

LEMMA TimerType == ASSUME TypeOK, NEW n \in Node, Timer(n) PROVE TypeOK'
<1>1. CASE InitiateCluster(n)
  <2>1. PICK e \in Due(n, "InitiateCluster") :
          \/ /\ Simulate(n, {e}, <<After(Slot * MaxUes, "Send")>>)
             /\ m_status' = [m_status EXCEPT ![n] = "CLUSTER_HEAD_ELECTION"]
             /\ m_sendEvent' = [m_sendEvent EXCEPT ![n] = nextUid[n]]
          \/ /\ Simulate(n, {e}, <<>>)
             /\ UNCHANGED <<m_status, m_sendEvent>>
    BY <1>1 DEF InitiateCluster
  <2>2. <<>> \in Plan /\ <<After(Slot * MaxUes, "Send")>> \in Plan
    <3>1. Slot * MaxUes \in Nat
      BY TdmaAssumption
    <3> QED
      BY <3>1, PlanType DEF EventType
  <2>3. pending' \in [Node -> SUBSET Event] /\ nextUid' \in [Node -> Nat \ {0}]
    BY <2>1, <2>2, SimulateType
  <2>4. m_status' \in [Node -> NodeStatus]
    BY <2>1 DEF TypeOK, NodeStatus
  <2>5. m_sendEvent' \in [Node -> Nat]
    BY <2>1 DEF TypeOK
  <2> QED
    BY <1>1, <2>3, <2>4, <2>5
    DEF InitiateCluster, TypeOK, network, lists, incident
<1>2. CASE FormCluster(n)
  <2>1. PICK e \in Due(n, "FormCluster") : Simulate(n, {e}, <<After(0, "Send")>>)
    BY <1>2 DEF FormCluster
  <2>2. <<After(0, "Send")>> \in Plan
    BY PlanType DEF EventType
  <2>3. pending' \in [Node -> SUBSET Event] /\ nextUid' \in [Node -> Nat \ {0}]
    BY <2>1, <2>2, SimulateType
  <2> QED
    BY <1>2, <2>3
    DEF FormCluster, TypeOK, NodeStatus, network, lists, incident
<1>3. CASE UpdateNeighbors(n)
  <2>1. PICK e \in Due(n, "UpdateNeighbors") :
          Simulate(n, {e}, <<After(Interval, "Send")>>)
    BY <1>3 DEF UpdateNeighbors
  <2>2. <<After(Interval, "Send")>> \in Plan
    BY TimeAssumption, PlanType DEF EventType
  <2>3. pending' \in [Node -> SUBSET Event] /\ nextUid' \in [Node -> Nat \ {0}]
    BY <2>1, <2>2, SimulateType
  <2> QED
    BY <1>3, <2>3
    DEF UpdateNeighbors, TypeOK, NodeStatus, network, lists, incident
<1>4. CASE UpdateNeighborList(n)
  <2>1. PICK e \in Due(n, "UpdateNeighborList") :
          Simulate(n, {e}, <<After(Interval, "UpdateNeighborList")>>)
    BY <1>4 DEF UpdateNeighborList
  <2>2. <<After(Interval, "UpdateNeighborList")>> \in Plan
    BY TimeAssumption, PlanType DEF EventType
  <2>3. pending' \in [Node -> SUBSET Event] /\ nextUid' \in [Node -> Nat \ {0}]
    BY <2>1, <2>2, SimulateType
  <2>4. stats' \in [Node -> [Counter -> Nat]]
    BY <1>4, CountType DEF UpdateNeighborList, TypeOK
  <2> DEFINE stale == Stale(m_currentMobility[n], m_2rStableList[n])
  <2>5. MobilityAfterUpdate(m_currentMobility[n], stale, m_rStableList[n])
          \in NeighborInfo
    BY MobilityType DEF TypeOK
  <2>6. m_currentMobility' \in [Node -> NeighborInfo]
    BY <1>4, <2>5 DEF UpdateNeighborList, TypeOK
  <2>7. /\ Erase(m_2rStableList[n], stale) \in NeighborList
        /\ Erase(m_rStableList[n], stale) \in NeighborList
        /\ ClusterAfter(n, stale) \in SUBSET Node
    BY ListType DEF TypeOK, NeighborList, Erase, ClusterAfter
  <2>8. /\ m_2rStableList' \in [Node -> NeighborList]
        /\ m_rStableList' \in [Node -> NeighborList]
        /\ m_clusterList' \in [Node -> SUBSET Node]
    BY <1>4, <2>7 DEF UpdateNeighborList, TypeOK
  <2> QED
    BY <1>4, <2>3, <2>4, <2>6, <2>8
    DEF UpdateNeighborList, TypeOK, network, timers, incident
<1>5. CASE SendIncident(n)
  <2>1. PICK e \in Due(n, "SendIncident") :
          Simulate(n, {e}, <<After(IncidentWindow, "SendIncident")>>)
    BY <1>5 DEF SendIncident
  <2>2. <<After(IncidentWindow, "SendIncident")>> \in Plan
    BY TimeAssumption, PlanType DEF EventType
  <2>3. pending' \in [Node -> SUBSET Event] /\ nextUid' \in [Node -> Nat \ {0}]
    BY <2>1, <2>2, SimulateType
  <2> DEFINE msg == IncidentEventHeader(now, m_currentMobility[n].clusterId, n)
  <2>4. Copies(n, msg) \in SUBSET Packet
    <3>1. m_currentMobility[n].clusterId \in Nat /\ m_currentMobility[n] \in NeighborInfo
      BY DEF TypeOK, NeighborInfo
    <3>2. msg \in Header
      BY <3>1, HeaderType
    <3> QED
      BY <3>2, TransmitType
  <2>5. Report(n, msg)
    BY <1>5 DEF SendIncident
  <2>6. air' \in SUBSET Packet /\ losses' = losses
    <3> HIDE DEF msg
    <3> QED
      BY <2>4, <2>5 DEF Report, Transmit, TypeOK
  <2>7. stats' \in [Node -> [Counter -> Nat]]
    <3> HIDE DEF msg
    <3> QED
      BY <2>5, CountType DEF Report, TypeOK
  <2>8. /\ m_incidentTimestamp' \in [Node -> Nat]
        /\ m_sendIncidentEvent' \in [Node -> Nat]
    BY <1>5 DEF SendIncident, TypeOK
  <2> QED
    BY <1>5, <2>3, <2>6, <2>7, <2>8 DEF SendIncident, TypeOK, lists
<1> QED
  BY <1>1, <1>2, <1>3, <1>4, <1>5 DEF Timer

\* what a packet on its way may carry
LEMMA PacketType ==
  ASSUME TypeOK, NEW n \in Node, NEW kind, NEW p \in Inbox(n, kind)
  PROVE  /\ p \in air /\ p.from \in Node /\ p.to = n /\ p.msg \in Header
         /\ m_socket[n] /\ p.msg.kind = kind
         /\ kind \in {"ClusterInfo", "FormCluster"} => p.msg.info \in NeighborInfo
         /\ kind = "InitiateCluster" => p.msg.clusterId \in Nat
  BY DEF TypeOK, Inbox, Packet, Header

LEMMA StableAfterType ==
  ASSUME TypeOK, NEW n \in Node, NEW other \in NeighborInfo
  PROVE  StableAfter(n, other) \in NeighborList
  BY ListType DEF StableAfter, TypeOK

LEMMA ReactType ==
  ASSUME TypeOK, NEW n \in Node, NEW other \in NeighborInfo, NEW from \in Node,
         React(n, other, from)
  PROVE  /\ m_currentMobility' \in [Node -> NeighborInfo]
         /\ m_socketIncident' \in [Node -> Node \cup {Null}]
         /\ m_clusterList' \in [Node -> SUBSET Node]
         /\ stats' \in [Node -> [Counter -> Nat]]
<1> DEFINE potential == MergeCheck(m_currentMobility[n], StableAfter(n, other))
<1>0. m_currentMobility[n] \in NeighborInfo /\ n \in Nat
  BY NodeAssumption DEF TypeOK
<1>1. CASE /\ Attaches(n, other, potential)
           /\ m_currentMobility' =
                 [m_currentMobility EXCEPT ![n] = AsMember(@, potential)]
           /\ m_socketIncident' = [m_socketIncident EXCEPT ![n] =
                 CreateIncidentSocket(RemoveIncidentSocket(@), from)]
           /\ Count(n, {"m_changesCounter"})
           /\ UNCHANGED m_clusterList
  <2> HIDE DEF potential
  <2>1. potential \in Nat
    BY <1>1, NodeAssumption DEF Attaches, Keys
  <2>2. AsMember(m_currentMobility[n], potential) \in NeighborInfo
    BY <1>0, <2>1, MobilityType
  <2>3. m_currentMobility' \in [Node -> NeighborInfo]
    BY <1>1, <2>2 DEF TypeOK
  <2>4. m_socketIncident' \in [Node -> Node \cup {Null}]
    BY <1>1 DEF TypeOK, CreateIncidentSocket, RemoveIncidentSocket
  <2>5. stats' \in [Node -> [Counter -> Nat]]
    BY <1>1, CountType
  <2> QED
    BY <1>1, <2>3, <2>4, <2>5 DEF TypeOK
<1>2. CASE /\ m_currentMobility' =
                 [m_currentMobility EXCEPT ![n] = AsHead(n, @)]
           /\ Count(n, {"m_changesCounter"})
           /\ UNCHANGED <<m_socketIncident, m_clusterList>>
  <2>1. AsHead(n, m_currentMobility[n]) \in NeighborInfo
    BY <1>0, MobilityType
  <2>2. m_currentMobility' \in [Node -> NeighborInfo]
    BY <1>2, <2>1 DEF TypeOK
  <2>3. stats' \in [Node -> [Counter -> Nat]]
    BY <1>2, CountType
  <2> QED
    BY <1>2, <2>2, <2>3 DEF TypeOK
<1>3. CASE /\ m_clusterList' =
                 [m_clusterList EXCEPT ![n] = @ \cup {other.imsi}]
           /\ UNCHANGED <<m_currentMobility, m_socketIncident, stats>>
  <2>1. other.imsi \in Node
    BY DEF NeighborInfo
  <2> QED
    BY <1>3, <2>1 DEF TypeOK
<1>4. CASE UNCHANGED <<m_currentMobility, m_socketIncident, m_clusterList, stats>>
  BY <1>4 DEF TypeOK
<1> QED
  BY <1>1, <1>2, <1>3, <1>4 DEF React

LEMMA HandleReadType == ASSUME TypeOK, NEW n \in Node, HandleRead(n) PROVE TypeOK'
<1>1. CASE HandleClusterInfo(n)
  <2>1. PICK p \in Inbox(n, "ClusterInfo") :
          /\ Receive(p)
          /\ m_rStableList' =
                [m_rStableList EXCEPT ![n] = StableAfter(n, p.msg.info)]
          /\ m_2rStableList' = [m_2rStableList EXCEPT ![n] = Insert(@, p.msg.info)]
          /\ React(n, p.msg.info, p.from)
    BY <1>1 DEF HandleClusterInfo
  <2>2. p.from \in Node /\ p.msg.info \in NeighborInfo
    BY PacketType
  <2>3. /\ m_currentMobility' \in [Node -> NeighborInfo]
        /\ m_socketIncident' \in [Node -> Node \cup {Null}]
        /\ m_clusterList' \in [Node -> SUBSET Node]
        /\ stats' \in [Node -> [Counter -> Nat]]
    BY <2>1, <2>2, ReactType
  <2>4. StableAfter(n, p.msg.info) \in NeighborList
    BY <2>2, StableAfterType
  <2>5. Insert(m_2rStableList[n], p.msg.info) \in NeighborList
    BY <2>2, ListType DEF TypeOK
  <2>6. /\ m_rStableList' \in [Node -> NeighborList]
        /\ m_2rStableList' \in [Node -> NeighborList]
    BY <2>1, <2>4, <2>5 DEF TypeOK
  <2>7. air' \in SUBSET Packet /\ losses' \in 0..MaxLosses
    BY <2>1 DEF Receive, TypeOK
  <2> QED
    BY <1>1, <2>3, <2>6, <2>7 DEF HandleClusterInfo, TypeOK, events, timers
<1>2. CASE HandleInitiateCluster(n)
  <2>1. PICK p \in Inbox(n, "InitiateCluster") :
          /\ Receive(p)
          /\ \/ /\ m_currentMobility' = [m_currentMobility EXCEPT
                                            ![n].clusterId = p.msg.clusterId]
                /\ \/ /\ m_status' = [m_status EXCEPT
                                         ![n] = "CLUSTER_HEAD_ELECTION"]
                      /\ StartElection(n, {})
                   \/ UNCHANGED <<m_status, events, m_chElectionEvent,
                                  m_sendIncidentEvent>>
             \/ UNCHANGED <<m_status, m_currentMobility, events,
                            m_chElectionEvent, m_sendIncidentEvent>>
    BY <1>2 DEF HandleInitiateCluster
  <2>2. p.msg.clusterId \in Nat
    BY PacketType
  <2>3. air' \in SUBSET Packet /\ losses' \in 0..MaxLosses
    BY <2>1 DEF Receive, TypeOK
  <2>4. m_currentMobility' \in [Node -> NeighborInfo]
    <3>1. [m_currentMobility[n] EXCEPT !.clusterId = p.msg.clusterId]
            \in NeighborInfo
      <4>1. m_currentMobility[n] \in NeighborInfo
        BY DEF TypeOK
      <4> QED
        BY <2>2, <4>1 DEF NeighborInfo
    <3> QED
      BY <2>1, <3>1 DEF TypeOK
  <2>5. m_status' \in [Node -> NodeStatus]
    BY <2>1 DEF TypeOK, NodeStatus
  <2>6. /\ pending' \in [Node -> SUBSET Event]
        /\ nextUid' \in [Node -> Nat \ {0}]
        /\ m_chElectionEvent' \in [Node -> Nat]
        /\ m_sendIncidentEvent' \in [Node -> Nat]
    <3>1. CASE StartElection(n, {})
      BY <3>1, StartElectionType
    <3>2. CASE UNCHANGED <<events, m_chElectionEvent, m_sendIncidentEvent>>
      BY <3>2 DEF TypeOK, events
    <3> QED
      BY <2>1, <3>1, <3>2
  <2> QED
    BY <1>2, <2>3, <2>4, <2>5, <2>6
    DEF HandleInitiateCluster, TypeOK, lists, incident
<1>3. CASE HandleFormCluster(n)
  <2>1. PICK p \in Inbox(n, "FormCluster") :
          /\ Receive(p)
          /\ \/ /\ m_status' = [m_status EXCEPT ![n] = "CLUSTER_UPDATE"]
                /\ m_currentMobility' = [m_currentMobility EXCEPT
                      ![n] = AsMember(@, p.msg.info.clusterId)]
                /\ Simulate(n, CancelledByJoin(n),
                            <<After(TimeWindow[n], "Send"),
                              After(ListUpdateDelay, "UpdateNeighborList")>>)
                /\ m_sendEvent' = [m_sendEvent EXCEPT ![n] = nextUid[n]]
                /\ m_socketIncident' = [m_socketIncident EXCEPT
                      ![n] = CreateIncidentSocket(@, p.from)]
             \/ UNCHANGED <<m_status, m_currentMobility, events,
                            m_sendEvent, m_socketIncident>>
    BY <1>3 DEF HandleFormCluster
  <2>2. p.from \in Node /\ p.msg.info.clusterId \in Nat
    <3>1. p.from \in Node /\ p.msg.info \in NeighborInfo
      BY PacketType
    <3> QED
      BY <3>1 DEF NeighborInfo
  <2>3. air' \in SUBSET Packet /\ losses' \in 0..MaxLosses
    BY <2>1 DEF Receive, TypeOK
  <2>4. m_currentMobility' \in [Node -> NeighborInfo]
    <3>1. AsMember(m_currentMobility[n], p.msg.info.clusterId) \in NeighborInfo
      BY <2>2, MobilityType DEF TypeOK
    <3>2. m_currentMobility \in [Node -> NeighborInfo]
      BY DEF TypeOK
    <3>3. \/ m_currentMobility' = [m_currentMobility EXCEPT
                ![n] = AsMember(m_currentMobility[n], p.msg.info.clusterId)]
          \/ m_currentMobility' = m_currentMobility
      BY <2>1
    <3> QED
      BY <3>1, <3>2, <3>3
  <2>5. m_status' \in [Node -> NodeStatus] /\ m_sendEvent' \in [Node -> Nat]
    BY <2>1 DEF TypeOK, NodeStatus
  <2>6. pending' \in [Node -> SUBSET Event] /\ nextUid' \in [Node -> Nat \ {0}]
    <3>1. TimeWindow[n] \in Nat /\ ListUpdateDelay \in Nat
      BY TimeAssumption, ListUpdateDelayType DEF TypeOK
    <3>2. <<After(TimeWindow[n], "Send"),
            After(ListUpdateDelay, "UpdateNeighborList")>> \in Plan
      BY <3>1, PlanType DEF EventType
    <3>3. CASE UNCHANGED events
      BY <3>3 DEF TypeOK, events
    <3> QED
      BY <2>1, <3>2, <3>3, SimulateType
  <2>7. m_socketIncident' \in [Node -> Node \cup {Null}]
    BY <2>1, <2>2 DEF TypeOK, CreateIncidentSocket
  <2> QED
    BY <1>3, <2>3, <2>4, <2>5, <2>6, <2>7 DEF HandleFormCluster, TypeOK, lists
<1>4. CASE HandleIncidentEvent(n)
  <2>1. PICK p \in Inbox(n, "IncidentEvent") :
          /\ air' = (air \ {p}) \cup
                (IF Repeats(n, p.msg.clusterId) THEN Copies(n, p.msg) ELSE {})
          /\ UNCHANGED losses
          /\ Count(n, {"echoes"}) \/ UNCHANGED stats
    BY <1>4 DEF HandleIncidentEvent
  <2>2. Copies(n, p.msg) \in SUBSET Packet
    BY PacketType, TransmitType
  <2>3. air' \in SUBSET Packet /\ losses' \in 0..MaxLosses
    BY <2>1, <2>2 DEF TypeOK
  <2>4. stats' \in [Node -> [Counter -> Nat]]
    BY <2>1, CountType DEF TypeOK
  <2> QED
    BY <1>4, <2>3, <2>4
    DEF HandleIncidentEvent, TypeOK, events, lists, timers, incident
<1> QED
  BY <1>1, <1>2, <1>3, <1>4 DEF HandleRead

\* The invariant with a hypothesis in front: every part of the state has its
\* type after every step of every vehicle, of the channel and of the clock.
LEMMA NextType == TypeOK /\ [Next]_vars => TypeOK'
<1> SUFFICES ASSUME TypeOK, [Next]_vars PROVE TypeOK'
  OBVIOUS
<1>1. CASE \E n \in Node : Application(n) \/ Send(n) \/ Timer(n) \/ HandleRead(n)
  BY <1>1, ApplicationType, SendType, TimerType, HandleReadType
<1>2. CASE NoListener
  BY <1>2 DEF NoListener, Receive, TypeOK, events, lists, timers, incident
<1>3. CASE Lose
  BY <1>3, ChannelAssumption
  DEF Lose, TypeOK, events, lists, timers, incident
<1>4. CASE Tick
  <2>1. Scheduled \subseteq Nat
    BY DEF Scheduled, TypeOK, Event
  <2> QED
    BY <1>4, <2>1 DEF Tick, TypeOK, network, events, lists, timers, incident
<1>5. CASE UNCHANGED vars
  BY <1>5 DEF vars, TypeOK, network, events, lists, timers, incident
<1> QED
  BY <1>1, <1>2, <1>3, <1>4, <1>5 DEF Next

\* Every variable has its type, whatever the vehicles, the topology, the
\* schedule and the movement: no handler stores a value outside the ranges
\* the C++ types and the network leave open.
THEOREM TypeCorrect == Spec => []TypeOK
<1>1. Init => TypeOK
  BY InitType
<1>2. TypeOK /\ [Next]_vars => TypeOK'
  BY NextType
<1> QED
  BY <1>1, <1>2, PTL DEF Spec

-----------------------------------------------------------------------------
(***************************************************************************)
(* Membership.  MemberKnowsItsHead and its two siblings speak of settled   *)
(* vehicles only, and are not inductive: InitiateCluster and FormCluster   *)
(* take a settled vehicle back into an election, which UpdateNeighbors and *)
(* HandleFormCluster end, whatever the degree is by then.  What is kept on *)
(* the way is that a vehicle that has formed a cluster or joined one, once,*)
(* has a sound place for good.  HandleInitiateCluster overwrites the       *)
(* cluster of a vehicle in its initialization: so one that has formed must *)
(* never return to it, which only a second start could cause.              *)
(***************************************************************************)
Identity(n) == m_currentMobility[n].imsi = n

Nested(n) ==
    /\ Keys(m_rStableList[n]) \subseteq Keys(m_2rStableList[n])
    /\ m_clusterList[n] \subseteq Keys(m_2rStableList[n])
    /\ n \notin Keys(m_2rStableList[n])

\* a vehicle that still has to start has no socket and no cluster
StartsOnce(n) ==
    \A e \in pending[n] : e.type = "Start" =>
        /\ ~ Formed(n)
        /\ ~ m_socket[n]
        /\ \A f \in pending[n] : f.type = "Start" => f = e

Sound(n) ==
    LET own == m_currentMobility[n]
    IN  /\ own.degree = "CH" => own.clusterId = n
        /\ own.degree = "CM" => /\ own.clusterId \in Keys(m_2rStableList[n])
                                /\ m_socketIncident[n] /= Null
        /\ own.degree = "STANDALONE" => /\ own.clusterId = 0
                                        /\ Keys(m_rStableList[n]) /= {}

Placed(n) == Formed(n) => m_status[n] /= "CLUSTER_INITIALIZATION" /\ Sound(n)

VehicleInv(n) == Identity(n) /\ Nested(n) /\ StartsOnce(n) /\ Placed(n)

\* a ClusterInfo describes its sender, and nobody hears himself
AirInv ==
    \A p \in air : p.to /= p.from
                   /\ (p.msg.kind = "ClusterInfo" => p.msg.info.imsi = p.from)

MembershipInv == TypeOK /\ AirInv /\ \A n \in Node : VehicleInv(n)

LEMMA KeysAfter ==
  ASSUME NEW list \in NeighborList, NEW info \in NeighborInfo, NEW keys
  PROVE  /\ Keys(EmptyList) = {}
         /\ Keys(Insert(list, info)) = Keys(list) \cup {info.imsi}
         /\ Keys(Erase(list, keys)) = Keys(list) \ keys
<1>1. info /= Null /\ info.imsi \in Node
  BY NullAssumption DEF NeighborInfo
<1> QED
  BY <1>1 DEF Keys, EmptyList, Insert, Erase, NeighborList

\* Only the vehicle that acts schedules or cancels.
LEMMA SimulateOthers ==
  ASSUME TypeOK, NEW n \in Node, NEW done, NEW plan, Simulate(n, done, plan)
  PROVE  \A m \in Node \ {n} : pending'[m] = pending[m]
  BY DEF TypeOK, Simulate

\* What it adds to its queue has the types of its plan.
LEMMA SimulateOwn ==
  ASSUME TypeOK, NEW n \in Node, NEW done, NEW plan, Simulate(n, done, plan),
         NEW e \in pending'[n]
  PROVE  e \in pending[n] \ done \/ \E i \in 1..Len(plan) : e.type = plan[i].type
<1>1. pending'[n] = (pending[n] \ done) \cup
             {[uid |-> nextUid[n] + i - 1, type |-> plan[i].type,
               due |-> now + plan[i].delay] : i \in 1..Len(plan)}
  BY DEF TypeOK, Simulate
<1> QED
  BY <1>1

LEMMA SimulateNothing ==
  ASSUME TypeOK, NEW n \in Node, NEW done, Simulate(n, done, <<>>)
  PROVE  pending'[n] \subseteq pending[n] \ done
<1>1. 1..Len(<<>>) = {}
  OBVIOUS
<1> QED
  BY <1>1, SimulateOwn

LEMMA SimulateOne ==
  ASSUME TypeOK, NEW n \in Node, NEW done, NEW d, NEW t,
         Simulate(n, done, <<After(d, t)>>), NEW e \in pending'[n]
  PROVE  e \in pending[n] \ done \/ e.type = t
<1> DEFINE plan == <<After(d, t)>>
<1>1. \A i \in 1..Len(plan) : plan[i].type = t
  BY DEF After
<1>2. Simulate(n, done, plan)
  OBVIOUS
<1> HIDE DEF plan
<1> QED
  BY <1>1, <1>2, SimulateOwn

LEMMA SimulateTwo ==
  ASSUME TypeOK, NEW n \in Node, NEW done, NEW d, NEW t, NEW c, NEW u,
         Simulate(n, done, <<After(d, t), After(c, u)>>), NEW e \in pending'[n]
  PROVE  e \in pending[n] \ done \/ e.type = t \/ e.type = u
<1> DEFINE plan == <<After(d, t), After(c, u)>>
<1>1. \A i \in 1..Len(plan) : plan[i].type = t \/ plan[i].type = u
  BY DEF After
<1>2. Simulate(n, done, plan)
  OBVIOUS
<1> HIDE DEF plan
<1> QED
  BY <1>1, <1>2, SimulateOwn

\* No vehicle touches the state of another one.
Untouched(m) ==
    /\ pending'[m] = pending[m]
    /\ m_socket'[m] = m_socket[m]
    /\ m_status'[m] = m_status[m]
    /\ m_currentMobility'[m] = m_currentMobility[m]
    /\ m_2rStableList'[m] = m_2rStableList[m]
    /\ m_rStableList'[m] = m_rStableList[m]
    /\ m_clusterList'[m] = m_clusterList[m]
    /\ m_socketIncident'[m] = m_socketIncident[m]

LEMMA UntouchedKeepsInv ==
  ASSUME NEW m \in Node, VehicleInv(m), Untouched(m) PROVE VehicleInv(m)'
  BY DEF VehicleInv, Identity, Nested, StartsOnce, Placed, Formed, Waits, Settled,
         Sound, Untouched

LEMMA OthersUntouched ==
  ASSUME TypeOK, NEW n \in Node, NEW m \in Node \ {n},
         Application(n) \/ Send(n) \/ Timer(n) \/ HandleRead(n)
  PROVE  Untouched(m)
<1> USE DEF Untouched
<1>0. \A done, plan : Simulate(n, done, plan) => pending'[m] = pending[m]
  BY SimulateOthers
<1>1. CASE Application(n)
  BY <1>0, <1>1 DEF Application, StartApplication, StopApplication, TypeOK,
                    lists, incident
<1>2. CASE Send(n)
  <2>1. \A done : StartElection(n, done) => pending'[m] = pending[m]
    BY <1>0 DEF StartElection
  <2> QED
    BY <1>0, <1>2, <2>1
    DEF Send, SendClusterInfo, SendInitiateCluster, SendFormCluster,
        SendUpdate, TypeOK, lists, incident
<1>3. CASE Timer(n)
  BY <1>0, <1>3
  DEF Timer, InitiateCluster, FormCluster, UpdateNeighbors,
      UpdateNeighborList, SendIncident, TypeOK, lists, incident
<1>4. CASE HandleRead(n)
  <2>1. \A done : StartElection(n, done) => pending'[m] = pending[m]
    BY <1>0 DEF StartElection
  <2>2. CASE HandleClusterInfo(n)
    BY <2>2 DEF HandleClusterInfo, React, TypeOK, events
  <2>3. CASE HandleInitiateCluster(n)
    BY <2>1, <2>3 DEF HandleInitiateCluster, TypeOK, lists, events, incident
  <2>4. CASE HandleFormCluster(n)
    BY <1>0, <2>4 DEF HandleFormCluster, TypeOK, lists, events
  <2>5. CASE HandleIncidentEvent(n)
    BY <2>5 DEF HandleIncidentEvent, TypeOK, lists, events, incident
  <2> QED
    BY <1>4, <2>2, <2>3, <2>4, <2>5 DEF HandleRead
<1> QED
  BY <1>1, <1>2, <1>3, <1>4

\* A step that only turns timers, sockets and the status keeps the invariant
\* of its vehicle: it neither settles a vehicle without a place nor brings
\* one back to its initialization.
LEMMA RoutineKeepsInv ==
  ASSUME NEW n \in Node, VehicleInv(n),
         \A e \in pending'[n] :
             e.type \in Upkeep \cup {"Start"} => e \in pending[n],
         m_socket'[n] => m_socket[n],
         m_currentMobility'[n].imsi = m_currentMobility[n].imsi,
         m_currentMobility'[n].clusterId = m_currentMobility[n].clusterId,
         m_currentMobility'[n].degree = m_currentMobility[n].degree,
         UNCHANGED <<m_2rStableList, m_rStableList, m_clusterList,
                     m_socketIncident>>,
         m_status'[n] = "CLUSTER_UPDATE" => Formed(n),
         m_status'[n] = "CLUSTER_INITIALIZATION" =>
             m_status[n] = "CLUSTER_INITIALIZATION"
  PROVE  VehicleInv(n)'
<1>1. Identity(n)' /\ Nested(n)'
  BY DEF VehicleInv, Identity, Nested
<1>2. Formed(n)' => Formed(n)
  BY DEF Formed, Waits, Settled
<1>3. StartsOnce(n)'
  BY <1>2 DEF VehicleInv, StartsOnce
<1>4. Sound(n) => Sound(n)'
  BY DEF Sound
<1>5. Placed(n)'
  BY <1>2, <1>4 DEF VehicleInv, Placed
<1> QED
  BY <1>1, <1>3, <1>5 DEF VehicleInv

\* a vehicle that runs, or has a place, will not start any more
LEMMA NoSecondStart ==
  ASSUME NEW n \in Node, VehicleInv(n), m_socket[n] \/ Formed(n),
         \A e \in pending'[n] : e.type = "Start" => e \in pending[n]
  PROVE  StartsOnce(n)'
  BY DEF VehicleInv, StartsOnce

LEMMA ApplicationKeepsInv ==
  ASSUME TypeOK, NEW n \in Node, VehicleInv(n), Application(n)
  PROVE  VehicleInv(n)'
<1>1. CASE StartApplication(n)
  <2>1. PICK e \in Due(n, "Start") :
          Simulate(n, {e}, <<After(TimeWindow[n], "Send")>>)
    BY <1>1 DEF StartApplication
  <2>2. e \in pending[n] /\ e.type = "Start"
    BY <2>1 DEF Due
  <2>3. \A f \in pending'[n] : f \in pending[n] \ {e} \/ f.type = "Send"
    BY <2>1, SimulateOne
  <2>4. ~ Formed(n) /\ \A f \in pending'[n] : f.type /= "Start"
    BY <2>2, <2>3 DEF VehicleInv, StartsOnce
  <2>5. ~ Formed(n)'
    BY <1>1, <2>3, <2>4 DEF StartApplication, Formed, Waits, Settled, Upkeep, TypeOK
  <2>6. Identity(n)'
    BY <1>1 DEF StartApplication, TypeOK, AcquireMobilityInfo, Identity,
                NeighborInfo
  <2>7. Nested(n)'
    BY <1>1, KeysAfter DEF StartApplication, TypeOK, Nested, Keys, EmptyList
  <2> QED
    BY <2>4, <2>5, <2>6, <2>7 DEF VehicleInv, StartsOnce, Placed
<1>2. CASE StopApplication(n)
  <2>1. PICK e \in Due(n, "Stop") : Simulate(n, {e} \cup Cancelled(n), <<>>)
    BY <1>2 DEF StopApplication
  <2>2. pending'[n] \subseteq pending[n]
    BY <2>1, SimulateNothing
  <2>3. /\ ~ m_socket'[n]
        /\ UNCHANGED <<m_status, m_currentMobility, m_2rStableList,
                       m_rStableList, m_clusterList, m_socketIncident>>
    BY <1>2 DEF StopApplication, TypeOK, lists, incident
  <2> QED
    BY <2>2, <2>3, RoutineKeepsInv DEF Formed, Waits, Settled
<1> QED
  BY <1>1, <1>2 DEF Application

LEMMA SendKeepsInv ==
  ASSUME TypeOK, NEW n \in Node, VehicleInv(n), Send(n) PROVE VehicleInv(n)'
<1>0. m_currentMobility[n] \in NeighborInfo
  BY DEF TypeOK
<1>1. CASE SendClusterInfo(n)
  <2>1. PICK e \in SendDue(n, "CLUSTER_INITIALIZATION") :
          Simulate(n, {e}, <<After(Slot * MaxUes, "InitiateCluster")>>)
    BY <1>1 DEF SendClusterInfo
  <2>2. \A f \in pending'[n] : f \in pending[n] \/ f.type = "InitiateCluster"
    BY <2>1, SimulateOne
  <2>3. UNCHANGED <<m_socket, m_status, m_currentMobility, m_2rStableList,
                    m_rStableList, m_clusterList, m_socketIncident>>
    BY <1>1 DEF SendClusterInfo, lists, incident
  <2> QED
    BY <2>2, <2>3, RoutineKeepsInv DEF Upkeep, Formed, Waits, Settled
<1>2. CASE SendInitiateCluster(n)
  <2>1. PICK e, w, d :
          Simulate(n, {e}, <<After(w, "FormCluster"), After(d, "SendIncident")>>)
    BY <1>2 DEF SendInitiateCluster, StartElection
  <2>2. \A f \in pending'[n] :
          f \in pending[n] \/ f.type = "FormCluster" \/ f.type = "SendIncident"
    BY <2>1, SimulateTwo
  <2>3. UNCHANGED <<m_socket, m_status, m_currentMobility, m_2rStableList,
                    m_rStableList, m_clusterList, m_socketIncident>>
    BY <1>2 DEF SendInitiateCluster, lists, incident
  <2> QED
    BY <2>2, <2>3, RoutineKeepsInv DEF Upkeep, Formed, Waits, Settled
<1>3. CASE SendFormCluster(n)
  <2>1. PICK e \in SendDue(n, "CLUSTER_FORMATION") :
          Simulate(n, {e}, <<After(0, "UpdateNeighbors"),
                             After(ListUpdateDelay, "UpdateNeighborList")>>)
    BY <1>3 DEF SendFormCluster
  <2>2. m_socket[n] /\ m_status[n] = "CLUSTER_FORMATION"
    BY <2>1 DEF SendDue
  <2>3. \A f \in pending'[n] :
          f \in pending[n] \/ f.type = "UpdateNeighbors"
            \/ f.type = "UpdateNeighborList"
    BY <2>1, SimulateTwo
  <2>4. StartsOnce(n)'
    BY <2>2, <2>3, NoSecondStart
  <2>5. m_currentMobility'[n] = AsHead(n, AcquireMobilityInfo(n))
        /\ UNCHANGED <<m_status, m_2rStableList, m_rStableList, m_clusterList>>
    BY <1>3 DEF SendFormCluster, TypeOK, lists
  <2>6. /\ m_currentMobility'[n].imsi = n
        /\ m_currentMobility'[n].clusterId = n
        /\ m_currentMobility'[n].degree = "CH"
    BY <1>0, <2>5 DEF AsHead, AcquireMobilityInfo, NeighborInfo
  <2>7. Placed(n)'
    BY <2>2, <2>5, <2>6 DEF Placed, Sound
  <2> QED
    BY <2>4, <2>5, <2>6, <2>7 DEF VehicleInv, Identity, Nested
<1>4. CASE SendUpdate(n)
  <2>1. PICK e \in SendDue(n, "CLUSTER_UPDATE") :
          Simulate(n, {e}, <<After(Interval, "Send")>>)
    BY <1>4 DEF SendUpdate
  <2>2. \A f \in pending'[n] : f \in pending[n] \/ f.type = "Send"
    BY <2>1, SimulateOne
  <2>3. /\ m_currentMobility'[n] = AcquireMobilityInfo(n)
        /\ UNCHANGED <<m_socket, m_status, m_2rStableList, m_rStableList,
                       m_clusterList, m_socketIncident>>
    BY <1>4 DEF SendUpdate, TypeOK, lists, incident
  <2>4. /\ m_currentMobility'[n].imsi = m_currentMobility[n].imsi
        /\ m_currentMobility'[n].clusterId = m_currentMobility[n].clusterId
        /\ m_currentMobility'[n].degree = m_currentMobility[n].degree
    BY <1>0, <2>3 DEF AcquireMobilityInfo, NeighborInfo, VehicleInv, Identity
  <2> QED
    BY <2>2, <2>3, <2>4, RoutineKeepsInv DEF Upkeep, Formed, Waits, Settled
<1> QED
  BY <1>1, <1>2, <1>3, <1>4 DEF Send

\* the walk of UpdateNeighborList leaves a sound place sound
LEMMA UpdateKeepsInv ==
  ASSUME TypeOK, NEW n \in Node, VehicleInv(n), UpdateNeighborList(n)
  PROVE  VehicleInv(n)'
<1> DEFINE own   == m_currentMobility[n]
           stale == Stale(own, m_2rStableList[n])
           after == MobilityAfterUpdate(own, stale, m_rStableList[n])
<1>1. PICK e \in Due(n, "UpdateNeighborList") :
        Simulate(n, {e}, <<After(Interval, "UpdateNeighborList")>>)
  BY DEF UpdateNeighborList
<1>2. Formed(n) /\ m_status[n] /= "CLUSTER_INITIALIZATION" /\ Sound(n)
  BY <1>1 DEF Due, Formed, Waits, Upkeep, VehicleInv, Placed
<1>3. \A f \in pending'[n] : f \in pending[n] \/ f.type = "UpdateNeighborList"
  BY <1>1, SimulateOne
<1>4. StartsOnce(n)'
  BY <1>2, <1>3, NoSecondStart
<1>5. own \in NeighborInfo /\ own.imsi = n
  BY DEF TypeOK, VehicleInv, Identity
<1>6. /\ m_currentMobility'[n] = after
      /\ m_2rStableList'[n] = Erase(m_2rStableList[n], stale)
      /\ m_rStableList'[n] = Erase(m_rStableList[n], stale)
      /\ m_clusterList'[n] = m_clusterList[n] \ stale
      /\ UNCHANGED <<m_status, m_socketIncident>>
  BY DEF UpdateNeighborList, TypeOK, ClusterAfter, incident
<1>7. /\ Keys(m_2rStableList'[n]) = Keys(m_2rStableList[n]) \ stale
      /\ Keys(m_rStableList'[n]) = Keys(m_rStableList[n]) \ stale
  BY <1>5, <1>6, KeysAfter DEF TypeOK
<1>8. Nested(n)'
  BY <1>6, <1>7 DEF Nested, VehicleInv
<1>9. Identity(n)' /\ Sound(n)'
  <2>1. CASE BecomesHead(own, stale, m_rStableList[n])
    <3>1. after = [own EXCEPT !.degree = "CH", !.clusterId = own.imsi]
      BY <2>1 DEF MobilityAfterUpdate
    <3>2. after.degree = "CH" /\ after.clusterId = n /\ after.imsi = n
      BY <1>5, <3>1 DEF NeighborInfo
    <3> QED
      BY <1>6, <3>2 DEF Identity, Sound
  <2>2. CASE ~ BecomesHead(own, stale, m_rStableList[n]) /\ LostHead(own, stale)
    <3>1. after = [own EXCEPT !.degree = "STANDALONE", !.clusterId = 0]
      BY <2>2 DEF MobilityAfterUpdate
    <3>2. after.degree = "STANDALONE" /\ after.clusterId = 0 /\ after.imsi = n
      BY <1>5, <3>1 DEF NeighborInfo
    <3>3. ~ (Keys(m_rStableList[n]) \subseteq stale)
      BY <2>2 DEF BecomesHead, LostHead
    <3> QED
      BY <1>6, <1>7, <3>2, <3>3 DEF Identity, Sound
  <2>3. CASE ~ BecomesHead(own, stale, m_rStableList[n]) /\ ~ LostHead(own, stale)
    <3>1. after = own /\ own.clusterId \notin stale
      BY <2>3 DEF MobilityAfterUpdate, LostHead
    <3>2. own.degree = "STANDALONE" => Keys(m_rStableList[n]) \ stale /= {}
      BY <1>2, <2>3 DEF BecomesHead, Sound
    <3> QED
      BY <1>2, <1>5, <1>6, <1>7, <3>1, <3>2 DEF Identity, Sound
  <2> QED
    BY <2>1, <2>2, <2>3
<1> QED
  BY <1>2, <1>4, <1>6, <1>8, <1>9 DEF VehicleInv, Placed

LEMMA TimerKeepsInv ==
  ASSUME TypeOK, NEW n \in Node, VehicleInv(n), Timer(n) PROVE VehicleInv(n)'
<1>1. CASE InitiateCluster(n)
  <2>1. PICK e \in Due(n, "InitiateCluster") :
          \/ Simulate(n, {e}, <<After(Slot * MaxUes, "Send")>>)
          \/ Simulate(n, {e}, <<>>)
    BY <1>1 DEF InitiateCluster
  <2>2. \A f \in pending'[n] : f \in pending[n] \/ f.type = "Send"
    BY <2>1, SimulateOne, SimulateNothing
  <2>3. /\ m_status'[n] \in {m_status[n], "CLUSTER_HEAD_ELECTION"}
        /\ UNCHANGED <<m_socket, m_currentMobility, m_2rStableList,
                       m_rStableList, m_clusterList, m_socketIncident>>
    BY <1>1 DEF InitiateCluster, TypeOK, lists, incident
  <2> QED
    BY <2>2, <2>3, RoutineKeepsInv DEF Upkeep, Formed, Waits, Settled
<1>2. CASE FormCluster(n)
  <2>1. PICK e \in Due(n, "FormCluster") : Simulate(n, {e}, <<After(0, "Send")>>)
    BY <1>2 DEF FormCluster
  <2>2. \A f \in pending'[n] : f \in pending[n] \/ f.type = "Send"
    BY <2>1, SimulateOne
  <2>3. /\ m_status'[n] = "CLUSTER_FORMATION"
        /\ UNCHANGED <<m_socket, m_currentMobility, m_2rStableList,
                       m_rStableList, m_clusterList, m_socketIncident>>
    BY <1>2 DEF FormCluster, TypeOK, lists, incident
  <2> QED
    BY <2>2, <2>3, RoutineKeepsInv DEF Upkeep
<1>3. CASE UpdateNeighbors(n)
  <2>1. PICK e \in Due(n, "UpdateNeighbors") :
          Simulate(n, {e}, <<After(Interval, "Send")>>)
    BY <1>3 DEF UpdateNeighbors
  <2>2. Formed(n)
    BY <2>1 DEF Due, Formed, Waits, Upkeep
  <2>3. \A f \in pending'[n] : f \in pending[n] \/ f.type = "Send"
    BY <2>1, SimulateOne
  <2>4. /\ m_status'[n] = "CLUSTER_UPDATE"
        /\ UNCHANGED <<m_socket, m_currentMobility, m_2rStableList,
                       m_rStableList, m_clusterList, m_socketIncident>>
    BY <1>3 DEF UpdateNeighbors, TypeOK, lists, incident
  <2> QED
    BY <2>2, <2>3, <2>4, RoutineKeepsInv DEF Upkeep
<1>4. CASE UpdateNeighborList(n)
  BY <1>4, UpdateKeepsInv
<1>5. CASE SendIncident(n)
  <2>1. PICK e \in Due(n, "SendIncident") :
          Simulate(n, {e}, <<After(IncidentWindow, "SendIncident")>>)
    BY <1>5 DEF SendIncident
  <2>2. \A f \in pending'[n] : f \in pending[n] \/ f.type = "SendIncident"
    BY <2>1, SimulateOne
  <2>3. UNCHANGED <<m_socket, m_status, m_currentMobility, m_2rStableList,
                    m_rStableList, m_clusterList, m_socketIncident>>
    BY <1>5 DEF SendIncident, lists
  <2> QED
    BY <2>2, <2>3, RoutineKeepsInv DEF Upkeep, Formed, Waits, Settled
<1> QED
  BY <1>1, <1>2, <1>3, <1>4, <1>5 DEF Timer

LEMMA HandleClusterInfoKeepsInv ==
  ASSUME TypeOK, AirInv, NEW n \in Node, VehicleInv(n), HandleClusterInfo(n)
  PROVE  VehicleInv(n)'
<1>1. PICK p \in Inbox(n, "ClusterInfo") :
        /\ m_rStableList' =
              [m_rStableList EXCEPT ![n] = StableAfter(n, p.msg.info)]
        /\ m_2rStableList' = [m_2rStableList EXCEPT ![n] = Insert(@, p.msg.info)]
        /\ React(n, p.msg.info, p.from)
  BY DEF HandleClusterInfo
<1> DEFINE other == p.msg.info
           potential == MergeCheck(m_currentMobility[n], StableAfter(n, other))
<1>2. /\ p.from \in Node /\ other \in NeighborInfo /\ m_socket[n]
      /\ other.imsi /= n
  <2>1. p \in air /\ p.from \in Node /\ p.to = n /\ m_socket[n]
        /\ p.msg.kind = "ClusterInfo" /\ other \in NeighborInfo
    BY PacketType
  <2> QED
    BY <2>1 DEF AirInv
<1>3. UNCHANGED <<pending, m_socket, m_status>>
  BY DEF HandleClusterInfo, events
<1> HIDE DEF other
<1>4. Keys(m_2rStableList'[n]) = Keys(m_2rStableList[n]) \cup {other.imsi}
  <2>1. m_2rStableList'[n] = Insert(m_2rStableList[n], other)
    BY <1>1 DEF TypeOK, other
  <2> QED
    BY <1>2, <2>1, KeysAfter DEF TypeOK
<1>5. /\ m_rStableList'[n] = StableAfter(n, other)
      /\ Keys(m_rStableList[n]) \subseteq Keys(StableAfter(n, other))
      /\ Keys(StableAfter(n, other)) \subseteq
            Keys(m_rStableList[n]) \cup {other.imsi}
  <2>1. m_rStableList'[n] = StableAfter(n, other)
    BY <1>1 DEF TypeOK, other
  <2>2. Keys(Insert(m_rStableList[n], other)) =
          Keys(m_rStableList[n]) \cup {other.imsi}
    BY <1>2, KeysAfter DEF TypeOK
  <2> QED
    BY <2>1, <2>2 DEF StableAfter
<1>6. React(n, other, p.from)
  BY <1>1 DEF other
<1>7. m_clusterList'[n] \subseteq m_clusterList[n] \cup {other.imsi}
  BY <1>6 DEF React, TypeOK
<1>8. Nested(n)'
  BY <1>2, <1>4, <1>5, <1>7 DEF VehicleInv, Nested
<1>9. StartsOnce(n)'
  BY <1>2, <1>3, NoSecondStart
<1>10. m_currentMobility[n] \in NeighborInfo /\ m_currentMobility[n].imsi = n
  BY DEF TypeOK, VehicleInv, Identity
<1>11. Identity(n)' /\ (Formed(n) => Sound(n)')
  <2>1. CASE /\ Attaches(n, other, potential)
             /\ m_currentMobility' =
                   [m_currentMobility EXCEPT ![n] = AsMember(@, potential)]
             /\ m_socketIncident' = [m_socketIncident EXCEPT ![n] =
                   CreateIncidentSocket(RemoveIncidentSocket(@), p.from)]
    <3>1. potential \in Keys(StableAfter(n, other))
      BY <2>1 DEF Attaches
    <3>2. potential \in Keys(m_2rStableList'[n])
      BY <1>5, <1>8, <3>1 DEF Nested
    <3>3. m_currentMobility'[n] = AsMember(m_currentMobility[n], potential)
          /\ m_socketIncident'[n] = p.from
      BY <2>1 DEF TypeOK, CreateIncidentSocket, RemoveIncidentSocket
    <3> HIDE DEF potential
    <3>4. /\ m_currentMobility'[n].degree = "CM"
          /\ m_currentMobility'[n].clusterId = potential
          /\ m_currentMobility'[n].imsi = n
      BY <1>10, <3>3 DEF AsMember, NeighborInfo
    <3>5. m_socketIncident'[n] /= Null
      BY <1>2, <3>3, NullAssumption
    <3> QED
      BY <3>2, <3>4, <3>5 DEF Identity, Sound
  <2>2. CASE m_currentMobility' = [m_currentMobility EXCEPT ![n] = AsHead(n, @)]
    <3>1. m_currentMobility'[n] = AsHead(n, m_currentMobility[n])
      BY <2>2 DEF TypeOK
    <3>2. /\ m_currentMobility'[n].degree = "CH"
          /\ m_currentMobility'[n].clusterId = n
          /\ m_currentMobility'[n].imsi = n
      BY <1>10, <3>1 DEF AsHead, NeighborInfo
    <3> QED
      BY <3>2 DEF Identity, Sound
  <2>3. CASE UNCHANGED <<m_currentMobility, m_socketIncident>>
    BY <1>4, <1>5, <2>3 DEF VehicleInv, Identity, Placed, Sound
  <2> QED
    BY <1>6, <2>1, <2>2, <2>3 DEF React
<1>12. Placed(n)'
  BY <1>3, <1>11 DEF VehicleInv, Placed, Formed, Waits, Settled
<1> QED
  BY <1>8, <1>9, <1>11, <1>12 DEF VehicleInv

LEMMA HandleInitiateClusterKeepsInv ==
  ASSUME TypeOK, NEW n \in Node, VehicleInv(n), HandleInitiateCluster(n)
  PROVE  VehicleInv(n)'
<1>1. PICK p \in Inbox(n, "InitiateCluster") :
        \/ /\ AcceptsRequest(n)
           /\ m_currentMobility' = [m_currentMobility EXCEPT
                 ![n].clusterId = p.msg.clusterId]
           /\ \/ /\ m_status' = [m_status EXCEPT ![n] = "CLUSTER_HEAD_ELECTION"]
                 /\ StartElection(n, {})
              \/ UNCHANGED <<m_status, events>>
        \/ UNCHANGED <<m_status, m_currentMobility, events>>
  BY DEF HandleInitiateCluster
<1>2. m_socket[n]
  BY PacketType
<1>3. UNCHANGED <<m_socket, m_2rStableList, m_rStableList, m_clusterList,
                  m_socketIncident>>
  BY DEF HandleInitiateCluster, lists, incident
<1>4. CASE UNCHANGED <<m_status, m_currentMobility, events>>
  BY <1>3, <1>4, RoutineKeepsInv DEF events, Formed, Waits, Settled
<1>5. CASE /\ AcceptsRequest(n)
           /\ m_currentMobility' = [m_currentMobility EXCEPT
                 ![n].clusterId = p.msg.clusterId]
           /\ \/ /\ m_status' = [m_status EXCEPT ![n] = "CLUSTER_HEAD_ELECTION"]
                 /\ StartElection(n, {})
              \/ UNCHANGED <<m_status, events>>
  <2>1. \A f \in pending'[n] :
          f \in pending[n] \/ f.type = "FormCluster" \/ f.type = "SendIncident"
    <3>1. CASE StartElection(n, {})
      <4>1. PICK w, d :
              Simulate(n, {}, <<After(w, "FormCluster"), After(d, "SendIncident")>>)
        BY <3>1 DEF StartElection
      <4> QED
        BY <4>1, SimulateTwo
    <3>2. CASE UNCHANGED events
      BY <3>2 DEF events
    <3> QED
      BY <1>5, <3>1, <3>2
  <2>2. ~ Formed(n)
    BY <1>5 DEF AcceptsRequest, VehicleInv, Placed
  <2>3. m_status'[n] /= "CLUSTER_UPDATE"
    BY <1>5 DEF AcceptsRequest, TypeOK
  <2>4. ~ Formed(n)'
    BY <2>1, <2>2, <2>3 DEF Formed, Waits, Settled, Upkeep
  <2>5. StartsOnce(n)'
    BY <1>2, <2>1, NoSecondStart
  <2>6. m_currentMobility'[n].imsi = m_currentMobility[n].imsi
    <3>1. m_currentMobility[n] \in NeighborInfo
      BY DEF TypeOK
    <3>2. m_currentMobility'[n] =
            [m_currentMobility[n] EXCEPT !.clusterId = p.msg.clusterId]
      BY <1>5 DEF TypeOK
    <3> QED
      BY <3>1, <3>2 DEF NeighborInfo
  <2> QED
    BY <1>3, <2>4, <2>5, <2>6 DEF VehicleInv, Identity, Nested, Placed
<1> QED
  BY <1>1, <1>4, <1>5

LEMMA HandleFormClusterKeepsInv ==
  ASSUME TypeOK, NEW n \in Node, VehicleInv(n), HandleFormCluster(n)
  PROVE  VehicleInv(n)'
<1>1. PICK p \in Inbox(n, "FormCluster") :
        \/ /\ Joins(n, p.msg.info.clusterId)
           /\ m_status' = [m_status EXCEPT ![n] = "CLUSTER_UPDATE"]
           /\ m_currentMobility' = [m_currentMobility EXCEPT
                 ![n] = AsMember(@, p.msg.info.clusterId)]
           /\ Simulate(n, CancelledByJoin(n),
                       <<After(TimeWindow[n], "Send"),
                         After(ListUpdateDelay, "UpdateNeighborList")>>)
           /\ m_socketIncident' = [m_socketIncident EXCEPT
                 ![n] = CreateIncidentSocket(@, p.from)]
        \/ UNCHANGED <<m_status, m_currentMobility, events, m_socketIncident>>
  BY DEF HandleFormCluster
<1>2. m_socket[n] /\ p.from \in Node
  BY PacketType
<1>3. UNCHANGED <<m_socket, m_2rStableList, m_rStableList, m_clusterList>>
  BY DEF HandleFormCluster, lists
<1>4. CASE UNCHANGED <<m_status, m_currentMobility, events, m_socketIncident>>
  BY <1>3, <1>4, RoutineKeepsInv DEF events, Formed, Waits, Settled
<1>5. CASE /\ Joins(n, p.msg.info.clusterId)
           /\ m_status' = [m_status EXCEPT ![n] = "CLUSTER_UPDATE"]
           /\ m_currentMobility' = [m_currentMobility EXCEPT
                 ![n] = AsMember(@, p.msg.info.clusterId)]
           /\ Simulate(n, CancelledByJoin(n),
                       <<After(TimeWindow[n], "Send"),
                         After(ListUpdateDelay, "UpdateNeighborList")>>)
           /\ m_socketIncident' = [m_socketIncident EXCEPT
                 ![n] = CreateIncidentSocket(@, p.from)]
  <2>1. \A f \in pending'[n] : f \in pending[n] \/ f.type = "Send"
                                 \/ f.type = "UpdateNeighborList"
    BY <1>5, SimulateTwo
  <2>2. StartsOnce(n)'
    BY <1>2, <2>1, NoSecondStart
  <2>3. /\ m_status'[n] = "CLUSTER_UPDATE"
        /\ m_currentMobility'[n] =
              AsMember(m_currentMobility[n], p.msg.info.clusterId)
        /\ m_socketIncident'[n] =
              CreateIncidentSocket(m_socketIncident[n], p.from)
    BY <1>5 DEF TypeOK
  <2>4. /\ m_currentMobility'[n].degree = "CM"
        /\ m_currentMobility'[n].clusterId = p.msg.info.clusterId
        /\ m_currentMobility'[n].imsi = m_currentMobility[n].imsi
    <3>1. m_currentMobility[n] \in NeighborInfo
      BY DEF TypeOK
    <3> QED
      BY <2>3, <3>1 DEF AsMember, NeighborInfo
  <2>5. m_socketIncident'[n] /= Null
    BY <1>2, <2>3, NullAssumption DEF CreateIncidentSocket
  <2>6. Sound(n)'
    BY <1>3, <1>5, <2>4, <2>5 DEF Joins, Sound
  <2> QED
    BY <1>3, <2>2, <2>3, <2>4, <2>6 DEF VehicleInv, Identity, Nested, Placed
<1> QED
  BY <1>1, <1>4, <1>5

LEMMA HandleReadKeepsInv ==
  ASSUME TypeOK, AirInv, NEW n \in Node, VehicleInv(n), HandleRead(n)
  PROVE  VehicleInv(n)'
<1>1. CASE HandleIncidentEvent(n)
  BY <1>1, RoutineKeepsInv
  DEF HandleIncidentEvent, events, lists, incident, Formed, Waits, Settled
<1> QED
  BY <1>1, HandleClusterInfoKeepsInv, HandleInitiateClusterKeepsInv,
     HandleFormClusterKeepsInv DEF HandleRead

\* What is on the air stays honest: a vehicle sends to others, and describes
\* itself in its ClusterInfo.
LEMMA AirStep ==
  ASSUME MembershipInv, NEW n \in Node,
         Application(n) \/ Send(n) \/ Timer(n) \/ HandleRead(n)
  PROVE  AirInv'
<1>1. \A msg : \A p \in Copies(n, msg) : p.to /= p.from /\ p.from = n /\ p.msg = msg
  BY ChannelAssumption DEF Copies
<1>2. SUFFICES \A p \in air' \ air :
                  /\ p.to /= p.from
                  /\ p.msg.kind = "ClusterInfo" => p.msg.info.imsi = p.from
  BY DEF MembershipInv, AirInv
<1>3. m_currentMobility[n].imsi = n /\ AcquireMobilityInfo(n).imsi = n
  BY DEF MembershipInv, VehicleInv, Identity, TypeOK, NeighborInfo,
         AcquireMobilityInfo
<1>4. CASE Application(n)
  BY <1>4 DEF Application, StartApplication, StopApplication, network
<1>5. CASE Send(n)
  <2>1. CASE SendClusterInfo(n)
    BY <1>1, <1>3, <2>1 DEF SendClusterInfo, Transmit, ClusterInfoHeader
  <2>2. CASE SendInitiateCluster(n)
    BY <1>1, <2>2 DEF SendInitiateCluster, Transmit, InitiateClusterHeader
  <2>3. CASE SendFormCluster(n)
    BY <1>1, <2>3 DEF SendFormCluster, Transmit, FormClusterHeader
  <2>4. CASE SendUpdate(n)
    BY <1>1, <1>3, <2>4 DEF SendUpdate, Transmit, ClusterInfoHeader
  <2> QED
    BY <1>5, <2>1, <2>2, <2>3, <2>4 DEF Send
<1>6. CASE Timer(n)
  <2>1. CASE SendIncident(n)
    BY <1>1, <2>1 DEF SendIncident, Report, Transmit, IncidentEventHeader
  <2> QED
    BY <1>6, <2>1
    DEF Timer, InitiateCluster, FormCluster, UpdateNeighbors,
        UpdateNeighborList, network
<1>7. CASE HandleRead(n)
  <2>1. CASE HandleIncidentEvent(n)
    <3>1. PICK p \in Inbox(n, "IncidentEvent") :
            air' \subseteq air \cup Copies(n, p.msg)
      BY <2>1 DEF HandleIncidentEvent
    <3>2. p.msg.kind = "IncidentEvent"
      BY DEF Inbox
    <3> QED
      BY <1>1, <3>1, <3>2
  <2>2. CASE air' \subseteq air
    BY <2>2
  <2> QED
    BY <1>7, <2>1, <2>2
    DEF HandleRead, HandleClusterInfo, HandleInitiateCluster,
        HandleFormCluster, Receive
<1> QED
  BY <1>4, <1>5, <1>6, <1>7

LEMMA MembershipInit == Init => MembershipInv
<1> SUFFICES ASSUME Init PROVE MembershipInv
  OBVIOUS
<1>1. TypeOK
  BY InitType
<1>2. AirInv
  BY DEF Init, AirInv
<1>3. ASSUME NEW n \in Node PROVE VehicleInv(n)
  <2>1. Identity(n)
    BY DEF Init, Identity
  <2>2. Nested(n)
    BY KeysAfter DEF Init, Nested, Keys, EmptyList
  <2>3. pending[n] = {[uid |-> 1, type |-> "Start", due |-> StartTime[n]],
                      [uid |-> 2, type |-> "Stop", due |-> StopTime[n]]}
    BY DEF Init
  <2>4. ~ Formed(n) /\ ~ m_socket[n]
    BY <2>3 DEF Init, Formed, Waits, Settled, Upkeep
  <2>5. StartsOnce(n)
    BY <2>3, <2>4 DEF StartsOnce
  <2> QED
    BY <2>1, <2>2, <2>4, <2>5 DEF VehicleInv, Placed
<1> QED
  BY <1>1, <1>2, <1>3 DEF MembershipInv

LEMMA MembershipNext == MembershipInv /\ [Next]_vars => MembershipInv'
<1> SUFFICES ASSUME MembershipInv, [Next]_vars PROVE MembershipInv'
  OBVIOUS
<1>1. TypeOK'
  BY NextType DEF MembershipInv
<1>2. CASE \E n \in Node : Application(n) \/ Send(n) \/ Timer(n) \/ HandleRead(n)
  <2>1. PICK n \in Node : Application(n) \/ Send(n) \/ Timer(n) \/ HandleRead(n)
    BY <1>2
  <2>2. AirInv'
    BY <2>1, AirStep
  <2>3. VehicleInv(n)'
    BY <2>1, ApplicationKeepsInv, SendKeepsInv, TimerKeepsInv, HandleReadKeepsInv
    DEF MembershipInv
  <2>4. \A m \in Node \ {n} : VehicleInv(m)'
    BY <2>1, OthersUntouched, UntouchedKeepsInv DEF MembershipInv
  <2> QED
    BY <1>1, <2>2, <2>3, <2>4 DEF MembershipInv
<1>3. CASE NoListener \/ Lose \/ Tick \/ UNCHANGED vars
  <2>1. air' \subseteq air
    BY <1>3 DEF NoListener, Receive, Lose, Tick, network, vars
  <2>2. UNCHANGED <<pending, m_socket, m_status, m_currentMobility,
                    m_2rStableList, m_rStableList, m_clusterList,
                    m_socketIncident>>
    BY <1>3 DEF NoListener, Lose, Tick, vars, events, lists, incident
  <2>3. AirInv'
    BY <2>1 DEF MembershipInv, AirInv
  <2>4. \A n \in Node : VehicleInv(n)'
    BY <2>2, UntouchedKeepsInv DEF MembershipInv, Untouched
  <2> QED
    BY <1>1, <2>3, <2>4 DEF MembershipInv
<1> QED
  BY <1>2, <1>3 DEF Next

\* The inductive invariant holds in every reachable state.
THEOREM MembershipInvariant == Spec => []MembershipInv
<1> QED
  BY MembershipInit, MembershipNext, PTL DEF Spec

\* The list of stable neighbours and the cluster list never name a vehicle
\* that the list of all neighbours has lost, and no vehicle lists itself:
\* what the erasures of UpdateNeighborList and the assertions of
\* SuitabilityCheck rely on.
THEOREM ListsNested == Spec => []NeighborListsNested
<1>1. MembershipInv => NeighborListsNested
  BY DEF MembershipInv, VehicleInv, Nested, NeighborListsNested
<1> QED
  BY <1>1, MembershipInvariant, PTL

\* A settled head leads the cluster that bears its own id, whatever elections
\* and merges it went through.
THEOREM HeadOwns == Spec => []HeadOwnsItsCluster
<1>1. MembershipInv => HeadOwnsItsCluster
  BY DEF MembershipInv, VehicleInv, Placed, Formed, Waits, Sound, HeadOwnsItsCluster
<1> QED
  BY <1>1, MembershipInvariant, PTL

\* A settled member has its head among its neighbours, so that its silence
\* can be noticed, and a socket for the incidents it has to report.
THEOREM MemberKnows == Spec => []MemberKnowsItsHead
<1>1. MembershipInv => MemberKnowsItsHead
  BY DEF MembershipInv, VehicleInv, Placed, Formed, Waits, Sound, MemberKnowsItsHead
<1> QED
  BY <1>1, MembershipInvariant, PTL

\* A settled vehicle outside all clusters has a stable neighbour left, whose
\* next ClusterInfo, or whose silence, will end that.
THEOREM StandaloneHas == Spec => []StandaloneHasNeighbors
<1>1. MembershipInv => StandaloneHasNeighbors
  BY DEF MembershipInv, VehicleInv, Placed, Formed, Waits, Sound,
         StandaloneHasNeighbors
<1> QED
  BY <1>1, MembershipInvariant, PTL

-----------------------------------------------------------------------------
(***************************************************************************)
(* The lists, whatever the schedule.  Nothing a vehicle knows is younger   *)
(* than now, so a vehicle that dates itself is at least as young as all it *)
(* has heard; until it does, it decides with the speed it decided with     *)
(* when it last heard of a neighbour.                                      *)
(***************************************************************************)
DatedAir == \A p \in air : p.msg.kind = "ClusterInfo" => p.msg.info.ts <= now

Dated(n) ==
    /\ m_currentMobility[n].ts <= now
    /\ \A k \in Keys(m_2rStableList[n]) : m_2rStableList[n][k].ts <= now

Lag(n) ==
    \A k \in Keys(m_rStableList[n]) :
        LET own  == m_currentMobility[n]
            last == m_2rStableList[n][k]
        IN  m_rStableList[n][k] /= last /\ own.ts < last.ts => ~ IsStable(own, last)

LagInv == MembershipInv /\ DatedAir /\ \A n \in Node : Dated(n) /\ Lag(n)

\* Only Tick moves the clock.
LEMMA ClockStops ==
  ASSUME NEW n \in Node, Application(n) \/ Send(n) \/ Timer(n) \/ HandleRead(n)
  PROVE  now' = now
<1>1. CASE Application(n) \/ Send(n)
  BY <1>1 DEF Application, StartApplication, StopApplication, Send,
     SendClusterInfo, SendInitiateCluster, SendFormCluster, SendUpdate
<1>2. CASE Timer(n) \/ HandleRead(n)
  BY <1>2 DEF Timer, InitiateCluster, FormCluster, UpdateNeighbors,
     UpdateNeighborList, SendIncident, HandleRead, HandleClusterInfo,
     HandleInitiateCluster, HandleFormCluster, HandleIncidentEvent
<1> QED
  BY <1>1, <1>2

\* what a step may do to the lists of its vehicle
LEMMA ListsAfter ==
  ASSUME TypeOK, NEW n \in Node,
         Application(n) \/ Send(n) \/ Timer(n) \/ HandleRead(n)
  PROVE  \/ /\ m_2rStableList'[n] = m_2rStableList[n]
            /\ m_rStableList'[n] = m_rStableList[n]
         \/ m_2rStableList'[n] = EmptyList /\ m_rStableList'[n] = EmptyList
         \/ \E keys : /\ m_2rStableList'[n] = Erase(m_2rStableList[n], keys)
                      /\ m_rStableList'[n] = Erase(m_rStableList[n], keys)
         \/ \E p \in Inbox(n, "ClusterInfo") :
               /\ m_2rStableList'[n] = Insert(m_2rStableList[n], p.msg.info)
               /\ m_rStableList'[n] = StableAfter(n, p.msg.info)
<1>1. CASE StartApplication(n)
  BY <1>1 DEF StartApplication, TypeOK
<1>2. CASE UpdateNeighborList(n)
  <2> DEFINE stale == Stale(m_currentMobility[n], m_2rStableList[n])
  <2>1. /\ m_2rStableList' =
             [m_2rStableList EXCEPT ![n] = Erase(m_2rStableList[n], stale)]
        /\ m_rStableList' =
             [m_rStableList EXCEPT ![n] = Erase(m_rStableList[n], stale)]
    BY <1>2 DEF UpdateNeighborList
  <2> HIDE DEF stale
  <2>2. /\ m_2rStableList'[n] = Erase(m_2rStableList[n], stale)
        /\ m_rStableList'[n] = Erase(m_rStableList[n], stale)
    BY <2>1 DEF TypeOK
  <2> QED
    BY <2>2
<1>3. CASE HandleClusterInfo(n)
  <2>1. PICK p \in Inbox(n, "ClusterInfo") :
          /\ m_2rStableList' =
               [m_2rStableList EXCEPT ![n] = Insert(@, p.msg.info)]
          /\ m_rStableList' =
               [m_rStableList EXCEPT ![n] = StableAfter(n, p.msg.info)]
    BY <1>3 DEF HandleClusterInfo
  <2>2. /\ m_2rStableList'[n] = Insert(m_2rStableList[n], p.msg.info)
        /\ m_rStableList'[n] = StableAfter(n, p.msg.info)
    BY <2>1 DEF TypeOK
  <2> QED
    BY <2>2
<1>4. CASE UNCHANGED <<m_2rStableList, m_rStableList>>
  BY <1>4
<1> QED
  BY <1>1, <1>2, <1>3, <1>4
  DEF Application, StopApplication, Send, SendClusterInfo, SendInitiateCluster,
      SendFormCluster, SendUpdate, Timer, InitiateCluster, FormCluster,
      UpdateNeighbors, SendIncident, HandleRead, HandleInitiateCluster,
      HandleFormCluster, HandleIncidentEvent, lists

\* the entries after an insertion
LEMMA EntriesAfter ==
  ASSUME NEW list \in NeighborList, NEW info \in NeighborInfo, NEW k \in Node
  PROVE  /\ k = info.imsi => Insert(list, info)[k] = info
         /\ k /= info.imsi => Insert(list, info)[k] = list[k]
  BY DEF Insert, NeighborList, NeighborInfo

\* A vehicle dates itself now or not at all, and keeps its name.
LEMMA OwnAfter ==
  ASSUME TypeOK, NEW n \in Node, Identity(n),
         Application(n) \/ Send(n) \/ Timer(n) \/ HandleRead(n)
  PROVE  /\ m_currentMobility'[n].imsi = m_currentMobility[n].imsi
         /\ m_currentMobility'[n].ts \in {m_currentMobility[n].ts, now}
<1> DEFINE own == m_currentMobility[n]
<1>1. own \in NeighborInfo /\ own.imsi = n
  BY DEF TypeOK, Identity
<1>2. /\ AsHead(n, own).imsi = n /\ AsHead(n, own).ts = own.ts
      /\ \A id : AsMember(own, id).imsi = n /\ AsMember(own, id).ts = own.ts
      /\ \A stale, list :
            /\ MobilityAfterUpdate(own, stale, list).imsi = n
            /\ MobilityAfterUpdate(own, stale, list).ts = own.ts
  BY <1>1 DEF NeighborInfo, AsHead, AsMember, MobilityAfterUpdate
<1>3. /\ AcquireMobilityInfo(n) \in NeighborInfo
      /\ AcquireMobilityInfo(n).imsi = n /\ AcquireMobilityInfo(n).ts = now
      /\ AsHead(n, AcquireMobilityInfo(n)).imsi = n
      /\ AsHead(n, AcquireMobilityInfo(n)).ts = now
  BY <1>1 DEF AcquireMobilityInfo, NeighborInfo, TypeOK, AsHead
<1>4. CASE Application(n)
  BY <1>1, <1>3, <1>4
  DEF Application, StartApplication, StopApplication, TypeOK
<1>5. CASE Send(n)
  <2>1. CASE SendClusterInfo(n) \/ SendUpdate(n)
    BY <1>1, <1>3, <2>1 DEF SendClusterInfo, SendUpdate, TypeOK
  <2>2. CASE SendInitiateCluster(n) \/ SendFormCluster(n)
    BY <1>1, <1>3, <2>2 DEF SendInitiateCluster, SendFormCluster, TypeOK
  <2> QED
    BY <1>5, <2>1, <2>2 DEF Send
<1>6. CASE Timer(n)
  <2>1. CASE UpdateNeighborList(n)
    <3>1. PICK stale, list :
            m_currentMobility' =
              [m_currentMobility EXCEPT ![n] = MobilityAfterUpdate(own, stale, list)]
      BY <2>1 DEF UpdateNeighborList
    <3> QED
      BY <1>1, <1>2, <3>1 DEF TypeOK
  <2>2. CASE UNCHANGED m_currentMobility
    BY <2>2
  <2> QED
    BY <1>6, <2>1, <2>2
    DEF Timer, InitiateCluster, FormCluster, UpdateNeighbors, SendIncident
<1>7. CASE HandleRead(n)
  <2>1. CASE HandleClusterInfo(n)
    <3>1. PICK other, from : React(n, other, from)
      BY <2>1 DEF HandleClusterInfo
    <3> QED
      BY <1>1, <1>2, <3>1 DEF React, TypeOK
  <2>2. CASE HandleInitiateCluster(n)
    BY <1>1, <2>2 DEF HandleInitiateCluster, TypeOK, NeighborInfo
  <2>3. CASE HandleFormCluster(n)
    BY <1>1, <1>2, <2>3 DEF HandleFormCluster, TypeOK
  <2>4. CASE HandleIncidentEvent(n)
    BY <2>4 DEF HandleIncidentEvent
  <2> QED
    BY <1>7, <2>1, <2>2, <2>3, <2>4 DEF HandleRead
<1> QED
  BY <1>4, <1>5, <1>6, <1>7

LEMMA StepKeepsAirDated ==
  ASSUME TypeOK, DatedAir, NEW n \in Node, Dated(n),
         Application(n) \/ Send(n) \/ Timer(n) \/ HandleRead(n)
  PROVE  DatedAir'
<1>1. now' = now /\ now \in Nat /\ \A msg : \A p \in Copies(n, msg) : p.msg = msg
  BY ClockStops DEF Copies, TypeOK
<1>2. CASE SendClusterInfo(n)
  BY <1>1, <1>2 DEF SendClusterInfo, Transmit, ClusterInfoHeader, DatedAir, Dated
<1>3. CASE SendUpdate(n)
  <2>1. AcquireMobilityInfo(n).ts = now
    BY DEF AcquireMobilityInfo, TypeOK, NeighborInfo
  <2> QED
    BY <1>1, <1>3, <2>1 DEF SendUpdate, Transmit, ClusterInfoHeader, DatedAir
<1>4. CASE \A p \in air' \ air : p.msg.kind /= "ClusterInfo"
  BY <1>1, <1>4 DEF DatedAir
<1>5. CASE SendInitiateCluster(n) \/ SendFormCluster(n)
  <2>1. PICK msg : msg.kind /= "ClusterInfo" /\ Transmit(n, msg)
    BY <1>5 DEF SendInitiateCluster, SendFormCluster, InitiateClusterHeader,
       FormClusterHeader
  <2> QED
    BY <1>1, <1>4, <2>1 DEF Transmit
<1>6. CASE SendIncident(n)
  <2>1. PICK msg : msg.kind = "IncidentEvent" /\ Report(n, msg)
    BY <1>6 DEF SendIncident, IncidentEventHeader
  <2> QED
    BY <1>1, <1>4, <2>1 DEF Report, Transmit
<1>7. CASE HandleIncidentEvent(n)
  <2>1. PICK p \in Inbox(n, "IncidentEvent") : air' \subseteq air \cup Copies(n, p.msg)
    BY <1>7 DEF HandleIncidentEvent
  <2>2. p.msg.kind = "IncidentEvent"
    BY DEF Inbox
  <2> QED
    BY <1>1, <1>4, <2>1, <2>2
<1>8. CASE air' \subseteq air
  BY <1>4, <1>8
<1> QED
  BY <1>2, <1>3, <1>5, <1>6, <1>7, <1>8
  DEF Send, Application, StartApplication, StopApplication, Timer,
      InitiateCluster, FormCluster, UpdateNeighbors, UpdateNeighborList,
      HandleRead, HandleClusterInfo, HandleInitiateCluster, HandleFormCluster,
      Receive, network

LEMMA StepKeepsDated ==
  ASSUME TypeOK, DatedAir, NEW n \in Node, Identity(n), Dated(n),
         Application(n) \/ Send(n) \/ Timer(n) \/ HandleRead(n)
  PROVE  Dated(n)'
<1>1. now' = now /\ now \in Nat /\ m_currentMobility'[n].ts <= now
  <2>1. now' = now /\ now \in Nat
    BY ClockStops DEF TypeOK
  <2>2. m_currentMobility'[n].ts \in {m_currentMobility[n].ts, now}
    BY OwnAfter
  <2> QED
    BY <2>1, <2>2 DEF Dated
<1> SUFFICES ASSUME NEW k \in Node, m_2rStableList'[n][k] /= Null
             PROVE  m_2rStableList'[n][k].ts <= now
  BY <1>1 DEF Dated, Keys
<1>2. /\ m_2rStableList[n] \in NeighborList /\ EmptyList[k] = Null
      /\ m_2rStableList[n][k] /= Null => m_2rStableList[n][k].ts <= now
  BY DEF TypeOK, EmptyList, Dated, Keys
<1>3. ASSUME NEW keys, m_2rStableList'[n] = Erase(m_2rStableList[n], keys)
      PROVE  m_2rStableList'[n][k] = m_2rStableList[n][k]
  BY <1>3 DEF Erase
<1>4. ASSUME NEW p \in Inbox(n, "ClusterInfo"),
             m_2rStableList'[n] = Insert(m_2rStableList[n], p.msg.info)
      PROVE  \/ m_2rStableList'[n][k] = m_2rStableList[n][k]
             \/ m_2rStableList'[n][k] = p.msg.info /\ p.msg.info.ts <= now
  <2>1. p.msg.info \in NeighborInfo /\ p.msg.info.ts <= now
    BY PacketType DEF DatedAir, Inbox
  <2> QED
    BY <1>2, <1>4, <2>1, EntriesAfter
<1> QED
  BY <1>2, <1>3, <1>4, ListsAfter

LEMMA StepKeepsLag ==
  ASSUME TypeOK, TypeOK', NEW n \in Node, Identity(n), Nested(n)', Dated(n)', Lag(n),
         Application(n) \/ Send(n) \/ Timer(n) \/ HandleRead(n)
  PROVE  Lag(n)'
<1> SUFFICES ASSUME NEW k \in Node, m_rStableList'[n][k] /= Null,
                    m_rStableList'[n][k] /= m_2rStableList'[n][k],
                    m_currentMobility'[n].ts < m_2rStableList'[n][k].ts
             PROVE  ~ IsStable(m_currentMobility'[n], m_2rStableList'[n][k])
  BY DEF Lag, Keys
<1>0. /\ m_2rStableList[n] \in NeighborList /\ m_rStableList[n] \in NeighborList
      /\ EmptyList[k] = Null
  BY DEF TypeOK, EmptyList
<1>1. m_2rStableList'[n][k] /= Null /\ m_2rStableList'[n][k].ts <= now
  BY ClockStops DEF Nested, Dated, Keys
\* its own data is that of before, as far as speeds go
<1>2. /\ m_currentMobility'[n].ts = m_currentMobility[n].ts
      /\ m_currentMobility'[n].imsi = m_currentMobility[n].imsi
  <2>1. now \in Nat /\ m_2rStableList'[n][k].ts \in Nat
    BY <1>1 DEF TypeOK, NeighborList, NeighborInfo
  <2> QED
    BY <1>1, <2>1, OwnAfter
<1>3. \A last : IsStable(m_currentMobility'[n], last)
                  <=> IsStable(m_currentMobility[n], last)
  BY <1>2 DEF IsStable, V
<1>4. CASE /\ m_2rStableList'[n][k] = m_2rStableList[n][k]
           /\ m_rStableList'[n][k] = m_rStableList[n][k]
  BY <1>2, <1>3, <1>4 DEF Lag, Keys
<1>5. ASSUME NEW keys, m_2rStableList'[n] = Erase(m_2rStableList[n], keys),
             m_rStableList'[n] = Erase(m_rStableList[n], keys)
      PROVE  /\ m_2rStableList'[n][k] = m_2rStableList[n][k]
             /\ m_rStableList'[n][k] = m_rStableList[n][k]
  BY <1>5 DEF Erase
<1>6. ASSUME NEW p \in Inbox(n, "ClusterInfo"),
             m_2rStableList'[n] = Insert(m_2rStableList[n], p.msg.info),
             m_rStableList'[n] = StableAfter(n, p.msg.info)
      PROVE  ~ IsStable(m_currentMobility'[n], m_2rStableList'[n][k])
  <2> DEFINE other == p.msg.info
  <2>0. other \in NeighborInfo
    BY PacketType
  <2>1. /\ k = other.imsi => m_2rStableList'[n][k] = other
        /\ k /= other.imsi => m_2rStableList'[n][k] = m_2rStableList[n][k]
    BY <1>0, <1>6, <2>0, EntriesAfter
  <2>2. CASE IsStable(m_currentMobility[n], other)
    <3>1. /\ k = other.imsi => m_rStableList'[n][k] = other
          /\ k /= other.imsi => m_rStableList'[n][k] = m_rStableList[n][k]
      BY <1>0, <1>6, <2>0, <2>2, EntriesAfter DEF StableAfter
    <3> QED
      BY <1>4, <2>1, <3>1
  <2>3. CASE ~ IsStable(m_currentMobility[n], other)
    <3>1. m_rStableList'[n][k] = m_rStableList[n][k]
      BY <1>6, <2>3 DEF StableAfter
    <3> QED
      BY <1>3, <1>4, <2>1, <2>3, <3>1
  <2> QED
    BY <2>2, <2>3
<1> QED
  BY <1>0, <1>4, <1>5, <1>6, ListsAfter

LEMMA LagInit == Init => LagInv
<1> SUFFICES ASSUME Init PROVE LagInv
  OBVIOUS
<1>1. DatedAir /\ MembershipInv
  BY MembershipInit DEF Init, DatedAir
<1>2. ASSUME NEW n \in Node PROVE Dated(n) /\ Lag(n)
  <2>1. m_2rStableList[n] = EmptyList /\ m_rStableList[n] = EmptyList
        /\ m_currentMobility[n].ts = 0 /\ now = 0
    BY DEF Init
  <2> QED
    BY <2>1 DEF Dated, Lag, Keys, EmptyList
<1> QED
  BY <1>1, <1>2 DEF LagInv

LEMMA LagNext == LagInv /\ [Next]_vars => LagInv'
<1> SUFFICES ASSUME LagInv, [Next]_vars PROVE LagInv'
  OBVIOUS
<1>1. MembershipInv /\ MembershipInv'
  BY MembershipNext DEF LagInv
<1>2. /\ TypeOK /\ TypeOK' /\ DatedAir
      /\ \A n \in Node : Identity(n) /\ Nested(n)' /\ Dated(n) /\ Lag(n)
  BY <1>1 DEF LagInv, MembershipInv, VehicleInv
<1>3. CASE \E n \in Node : Application(n) \/ Send(n) \/ Timer(n) \/ HandleRead(n)
  <2>1. PICK n \in Node : Application(n) \/ Send(n) \/ Timer(n) \/ HandleRead(n)
    BY <1>3
  <2>2. DatedAir' /\ Dated(n)'
    BY <1>2, <2>1, StepKeepsAirDated, StepKeepsDated
  <2>3. Lag(n)'
    BY <1>2, <2>1, <2>2, StepKeepsLag
  <2>4. ASSUME NEW m \in Node \ {n} PROVE Dated(m)' /\ Lag(m)'
    BY <1>2, <2>1, OthersUntouched, ClockStops DEF Untouched, Dated, Lag, Keys
  <2> QED
    BY <1>1, <2>2, <2>3, <2>4 DEF LagInv
<1>4. CASE NoListener \/ Lose \/ Tick \/ UNCHANGED vars
  <2>1. UNCHANGED <<m_currentMobility, m_2rStableList, m_rStableList>>
    BY <1>4 DEF NoListener, Lose, Tick, vars, lists
  <2>2. \A n \in Node : Lag(n)'
    BY <1>2, <2>1 DEF Lag, Keys
  <2>3. CASE UNCHANGED now
    <3>1. air' \subseteq air
      BY <1>4, <2>3 DEF NoListener, Receive, Lose, Tick, network, vars
    <3> QED
      BY <1>1, <1>2, <2>1, <2>2, <2>3, <3>1 DEF LagInv, DatedAir, Dated, Keys
  <2>4. CASE Tick
    <3>1. air' = {} /\ now < now' /\ now \in Nat /\ now' \in Nat
      BY <1>2, <2>4 DEF Tick, network, TypeOK
    <3>2. ASSUME NEW n \in Node PROVE Dated(n)'
      <4>1. /\ m_currentMobility[n].ts \in Nat /\ m_currentMobility[n].ts <= now
            /\ \A k \in Keys(m_2rStableList[n]) :
                  m_2rStableList[n][k].ts \in Nat /\ m_2rStableList[n][k].ts <= now
        BY <1>2 DEF TypeOK, NeighborList, NeighborInfo, Keys, Dated
      <4> QED
        BY <2>1, <3>1, <4>1 DEF Dated, Keys
    <3> QED
      BY <1>1, <2>2, <3>1, <3>2 DEF LagInv, DatedAir
  <2> QED
    BY <1>4, <2>3, <2>4 DEF NoListener, Lose, vars
<1> QED
  BY <1>3, <1>4 DEF Next

\* When the two copies of a neighbour's data differ, and the vehicle has not
\* dated itself since it last heard of the neighbour, it can tell that the
\* copy among the stable ones is out of date.
THEOREM StableEntriesLagHolds == Spec => []StableEntriesLag
<1>1. LagInv => StableEntriesLag
  BY DEF LagInv, Lag, StableEntriesLag
<1> QED
  BY <1>1, LagInit, LagNext, PTL DEF Spec

=============================================================================
