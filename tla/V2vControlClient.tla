-------------------------- MODULE V2vControlClient --------------------------
(***************************************************************************)
(* The application of every vehicle (model/v2v-control-client.cc), running *)
(* under a discrete event scheduler and over a broadcast channel.          *)
(*                                                                         *)
(* The scheduler: pending[n] holds the scheduled events of vehicle n, now  *)
(* is the clock in milliseconds.  The clock only moves when nothing is due *)
(* and nothing is in the air, to the next time something is due.  Events   *)
(* of the same millisecond happen in any order: ns-3 orders them by        *)
(* nanoseconds, and TDMA slots, the smallest delays, last a millisecond.   *)
(*                                                                         *)
(* A dereferenced null socket ends the program: an event whose handler     *)
(* would do that has no step, it stays due and the clock stops.  NS_ASSERT *)
(* does nothing, as in an optimised build.                                 *)
(***************************************************************************)
EXTENDS V2vClusterMetrics, Sequences

CONSTANTS
    Slot,                    \* m_minimumTdmaSlot
    MaxUes,                  \* m_maxUes
    TimeWindow,              \* m_timeWindow of each vehicle
    Interval,                \* m_interval
    IncidentWindow,          \* m_incidentWindow
    IncidentSamples,         \* values the incident UniformVariable may draw
    StartTime, StopTime,     \* of the application of each vehicle
    IndeterminateDegree,     \* what m_currentMobility.degree and
    IndeterminateClusterId,  \* .clusterId may hold uninitialised
    Reach,                   \* the vehicles in range of each vehicle
    MaxLosses,               \* bound: packet copies the channel loses
    MaxTime                  \* bound: the end of the simulation

\* StartApplication stops the program for more than 100 vehicles.
ASSUME TdmaAssumption ==
    /\ Slot \in Nat \ {0}
    /\ MaxUes \in 1..100

ASSUME TimeAssumption ==
    /\ TimeWindow \in [Node -> Nat]
    /\ Interval \in Nat \ {0}
    /\ IncidentWindow \in Nat \ {0}
    /\ IncidentSamples \subseteq Nat
    /\ StartTime \in [Node -> Nat]
    /\ StopTime \in [Node -> Nat]
    /\ \A n \in Node : StartTime[n] < StopTime[n]
    /\ MaxTime \in Nat

ASSUME IndeterminateAssumption ==
    /\ IndeterminateDegree \subseteq NodeDegree
    /\ IndeterminateClusterId \subseteq Nat

ASSUME ChannelAssumption ==
    /\ Reach \in [Node -> SUBSET Node]
    /\ \A n \in Node : n \notin Reach[n]
    /\ MaxLosses \in Nat

VARIABLES
    now,                  \* the clock of the simulator
    air,                  \* copies of packets sent in this millisecond
    losses,               \* copies lost so far
    pending,              \* the scheduled events of each vehicle
    nextUid,              \* the uid of its next event
    m_socket,             \* are its broadcast and listening sockets open?
    m_status,
    m_currentMobility,
    m_2rStableList,
    m_rStableList,
    m_clusterList,        \* the keys: nothing reads the entries
    m_sendEvent,          \* uids; 0 is the default EventId
    m_chElectionEvent,
    m_sendIncidentEvent,
    m_socketIncident,     \* the vehicle it is connected to, or Null
    m_incidentTimestamp,
    stats                 \* the statistics counters

network  == <<air, losses>>
events   == <<pending, nextUid>>
lists    == <<m_2rStableList, m_rStableList, m_clusterList>>
timers   == <<m_sendEvent, m_chElectionEvent, m_sendIncidentEvent>>
incident == <<m_socketIncident, m_incidentTimestamp>>

vars == <<now, network, events, m_socket, m_status, m_currentMobility, lists,
          timers, incident, stats>>

-----------------------------------------------------------------------------
(***************************************************************************)
(* Events.                                                                 *)
(***************************************************************************)
EventType == {"Start", "Stop", "Send", "InitiateCluster", "FormCluster",
              "UpdateNeighbors", "UpdateNeighborList", "SendIncident"}

Event == [uid: Nat \ {0}, type: EventType, due: Nat]

\* the events of type type that vehicle n may run now
Due(n, type) == {e \in pending[n] : e.type = type /\ e.due <= now}

After(delay, type) == [delay |-> delay, type |-> type]

\* Simulator::Schedule for each entry of plan; the events in done ran or
\* were cancelled.  Event i of plan has uid nextUid[n] + i - 1.
Simulate(n, done, plan) ==
    /\ pending' = [pending EXCEPT ![n] = (@ \ done) \cup
          {[uid |-> nextUid[n] + i - 1, type |-> plan[i].type,
            due |-> now + plan[i].delay] : i \in 1..Len(plan)}]
    /\ nextUid' = [nextUid EXCEPT ![n] = @ + Len(plan)]

\* the events an EventId refers to: the one, or none if it expired
Tracked(n, uid) == {e \in pending[n] : e.uid = uid}

\* (int) Simulator::Now ().GetSeconds () + 1.5 seconds, from now
ListUpdateDelay == 1000 * (now \div 1000) + 1500 - now

Counter == {"m_sentCounter", "m_formationCounter", "m_changesCounter",
            "m_incidentCounter", "echoes"}

\* echoes counts the additions to m_overalDelay
Count(n, counters) ==
    stats' = [stats EXCEPT ![n] =
                 [c \in Counter |-> IF c \in counters THEN @[c] + 1 ELSE @[c]]]

-----------------------------------------------------------------------------
(***************************************************************************)
(* Packets.                                                                *)
(***************************************************************************)
Copies(n, msg) == {[from |-> n, to |-> m, msg |-> msg] : m \in Reach[n]}

Transmit(n, msg) == air' = air \cup Copies(n, msg) /\ UNCHANGED losses

\* packets of kind kind the listening socket of n hands to HandleRead
Inbox(n, kind) ==
    {p \in air : p.to = n /\ m_socket[n] /\ p.msg.kind = kind}

Receive(p) == air' = air \ {p} /\ UNCHANGED losses

-----------------------------------------------------------------------------
(***************************************************************************)
(* Helpers of the handlers.                                                *)
(***************************************************************************)

\* mutant: ids that start at 1
AcquireMobilityInfoFromOne(n) ==
    [m_currentMobility[n] EXCEPT !.ts = now, !.imsi = n + 1]

\* position and velocity come with the time stamp
AcquireMobilityInfo(n) == [m_currentMobility[n] EXCEPT !.ts = now, !.imsi = n]

\* mutant: the cluster of before is kept
AsHeadOfOldCluster(n, info) == [info EXCEPT !.degree = "CH"]

AsHead(n, info) == [info EXCEPT !.degree = "CH", !.clusterId = n]

AsMember(info, head) == [info EXCEPT !.degree = "CM", !.clusterId = head]

\* mutant: from the whole second before the end of the waiting time
IncidentDelaysTooEarly(waitingTime) == {1000 * (waitingTime \div 1000)}

\* UniformVariable ((int) waitingTime + 1, m_incidentWindow): the smaller
\* bound need not be the first one
IncidentDelays(waitingTime) ==
    LET first == 1000 * (waitingTime \div 1000 + 1)
        drawn == {d \in IncidentSamples :
                     \/ first <= d /\ d < IncidentWindow
                     \/ IncidentWindow < d /\ d <= first}
    IN  IF drawn = {} THEN {first} ELSE drawn

\* mutant: nobody waits, FormCluster is left to the other vehicles
StartNoElection(n, done) ==
    \E d \in IncidentDelays(0) :
        /\ Simulate(n, done, <<After(d, "SendIncident")>>)
        /\ m_sendIncidentEvent' = [m_sendIncidentEvent EXCEPT ![n] = nextUid[n]]
        /\ UNCHANGED m_chElectionEvent

\* the election of HandleRead and Send: wait for the time SuitabilityCheck
\* gives, and schedule an incident
StartElection(n, done) ==
    \E w \in SuitabilityCheck(m_currentMobility[n], m_rStableList[n]) :
    \E d \in IncidentDelays(w) :
        /\ Simulate(n, done, <<After(w, "FormCluster"), After(d, "SendIncident")>>)
        /\ m_chElectionEvent' = [m_chElectionEvent EXCEPT ![n] = nextUid[n]]
        /\ m_sendIncidentEvent' =
              [m_sendIncidentEvent EXCEPT ![n] = nextUid[n] + 1]

\* mutant: no socket is created
CreateNoSocket(peer, from) == peer

\* CreateIncidentSocket connects to the sender of the packet, if there is
\* no incident socket yet
CreateIncidentSocket(peer, from) == IF peer = Null THEN from ELSE peer

RemoveIncidentSocket(peer) == Null

-----------------------------------------------------------------------------
(***************************************************************************)
(* Initially nothing ran: ns-3 scheduled the start and the stop of each    *)
(* application.  The constructor leaves the degree and the cluster of      *)
(* m_currentMobility uninitialised; StartApplication sets the rest of it,  *)
(* and m_status, before they are read.                                     *)
(***************************************************************************)
Init ==
    /\ now = 0
    /\ air = {}
    /\ losses = 0
    /\ pending = [n \in Node |->
                    {[uid |-> 1, type |-> "Start", due |-> StartTime[n]],
                     [uid |-> 2, type |-> "Stop", due |-> StopTime[n]]}]
    /\ nextUid = [n \in Node |-> 3]
    /\ m_socket = [n \in Node |-> FALSE]
    /\ m_status = [n \in Node |-> "CLUSTER_INITIALIZATION"]
    /\ \E degree \in [Node -> IndeterminateDegree],
          id \in [Node -> IndeterminateClusterId] :
          m_currentMobility =
            [n \in Node |-> [imsi |-> n, ts |-> 0, clusterId |-> id[n],
                             degree |-> degree[n]]]
    /\ m_2rStableList = [n \in Node |-> EmptyList]
    /\ m_rStableList = [n \in Node |-> EmptyList]
    /\ m_clusterList = [n \in Node |-> {}]
    /\ m_sendEvent = [n \in Node |-> 0]
    /\ m_chElectionEvent = [n \in Node |-> 0]
    /\ m_sendIncidentEvent = [n \in Node |-> 0]
    /\ m_socketIncident = [n \in Node |-> Null]
    /\ m_incidentTimestamp = [n \in Node |-> 0]
    /\ stats = [n \in Node |-> [c \in Counter |-> 0]]

-----------------------------------------------------------------------------
(***************************************************************************)
(* The application starts and stops.                                       *)
(***************************************************************************)
StartApplication(n) ==
    \E e \in Due(n, "Start") :
        /\ m_status' = [m_status EXCEPT ![n] = "CLUSTER_INITIALIZATION"]
        /\ m_socket' = [m_socket EXCEPT ![n] = TRUE]
        /\ m_clusterList' = [m_clusterList EXCEPT ![n] = {}]
        /\ m_rStableList' = [m_rStableList EXCEPT ![n] = EmptyList]
        /\ m_2rStableList' = [m_2rStableList EXCEPT ![n] = EmptyList]
        /\ Simulate(n, {e}, <<After(TimeWindow[n], "Send")>>)
        /\ m_sendEvent' = [m_sendEvent EXCEPT ![n] = nextUid[n]]
        /\ m_currentMobility' =
              [m_currentMobility EXCEPT ![n] = AcquireMobilityInfo(n)]
        /\ UNCHANGED <<now, network, m_chElectionEvent, m_sendIncidentEvent,
                       incident, stats>>

\* mutant: m_sendIncidentEvent goes on
CancelledSendOnly(n) == Tracked(n, m_sendEvent[n])

\* mutant: m_sendEvent goes on
CancelledIncidentOnly(n) == Tracked(n, m_sendIncidentEvent[n])

\* what StopApplication cancels: no election, no update of the neighbours
Cancelled(n) ==
    Tracked(n, m_sendEvent[n]) \cup Tracked(n, m_sendIncidentEvent[n])

\* PrintStatistics turns an incident counter of 0 into 1.
StopApplication(n) ==
    \E e \in Due(n, "Stop") :
        /\ m_socket' = [m_socket EXCEPT ![n] = FALSE]
        /\ Simulate(n, {e} \cup Cancelled(n), <<>>)
        /\ IF stats[n]["m_incidentCounter"] = 0
           THEN Count(n, {"m_incidentCounter"})
           ELSE UNCHANGED stats
        /\ UNCHANGED <<now, network, m_status, m_currentMobility, lists,
                       timers, incident>>

-----------------------------------------------------------------------------
(***************************************************************************)
(* Send, by status.  It uses m_socket, which is null after the stop.       *)
(***************************************************************************)
SendDue(n, status) ==
    {e \in Due(n, "Send") : m_socket[n] /\ m_status[n] = status}

\* what the vehicle was at its start is broadcast, not what it is now
SendClusterInfo(n) ==
    \E e \in SendDue(n, "CLUSTER_INITIALIZATION") :
        /\ Transmit(n, ClusterInfoHeader(stats[n]["m_sentCounter"],
                                         m_currentMobility[n]))
        /\ Count(n, {"m_sentCounter", "m_formationCounter"})
        /\ Simulate(n, {e}, <<After(Slot * MaxUes, "InitiateCluster")>>)
        /\ UNCHANGED <<now, m_socket, m_status, m_currentMobility, lists,
                       timers, incident>>

SendInitiateCluster(n) ==
    \E e \in SendDue(n, "CLUSTER_HEAD_ELECTION") :
        /\ Transmit(n, InitiateClusterHeader(stats[n]["m_sentCounter"], n))
        /\ Count(n, {"m_sentCounter", "m_formationCounter"})
        /\ StartElection(n, {e})
        /\ UNCHANGED <<now, m_socket, m_status, m_currentMobility, lists,
                       m_sendEvent, incident>>

SendFormCluster(n) ==
    \E e \in SendDue(n, "CLUSTER_FORMATION") :
        LET own == AsHead(n, AcquireMobilityInfo(n))
        IN  /\ m_currentMobility' = [m_currentMobility EXCEPT ![n] = own]
            /\ Transmit(n, FormClusterHeader(stats[n]["m_sentCounter"], own))
            /\ Count(n, {"m_sentCounter", "m_formationCounter"})
            /\ Simulate(n, {e}, <<After(0, "UpdateNeighbors"),
                                  After(ListUpdateDelay, "UpdateNeighborList")>>)
            /\ UNCHANGED <<now, m_socket, m_status, lists, timers, incident>>

SendUpdate(n) ==
    \E e \in SendDue(n, "CLUSTER_UPDATE") :
        LET own == AcquireMobilityInfo(n)
        IN  /\ m_currentMobility' = [m_currentMobility EXCEPT ![n] = own]
            /\ Transmit(n, ClusterInfoHeader(stats[n]["m_sentCounter"], own))
            /\ Count(n, {"m_sentCounter"})
            /\ Simulate(n, {e}, <<After(Interval, "Send")>>)
            /\ m_sendEvent' = [m_sendEvent EXCEPT ![n] = nextUid[n]]
            /\ UNCHANGED <<now, m_socket, m_status, lists, m_chElectionEvent,
                           m_sendIncidentEvent, incident>>

-----------------------------------------------------------------------------
(***************************************************************************)
(* The other scheduled events.                                             *)
(***************************************************************************)

\* No look at m_status: whatever went on before, the slowest vehicle
\* starts a cluster.
InitiateCluster(n) ==
    \E e \in Due(n, "InitiateCluster"), g \in IndeterminateDistance :
        /\ IF IsSlowestNode(m_currentMobility[n], m_2rStableList[n], g)
           THEN /\ m_status' = [m_status EXCEPT ![n] = "CLUSTER_HEAD_ELECTION"]
                /\ Simulate(n, {e}, <<After(Slot * MaxUes, "Send")>>)
                /\ m_sendEvent' = [m_sendEvent EXCEPT ![n] = nextUid[n]]
           ELSE /\ Simulate(n, {e}, <<>>)
                /\ UNCHANGED <<m_status, m_sendEvent>>
        /\ UNCHANGED <<now, network, m_socket, m_currentMobility, lists,
                       m_chElectionEvent, m_sendIncidentEvent, incident, stats>>

\* the waiting time is over
FormCluster(n) ==
    \E e \in Due(n, "FormCluster") :
        /\ m_status' = [m_status EXCEPT ![n] = "CLUSTER_FORMATION"]
        /\ Simulate(n, {e}, <<After(0, "Send")>>)
        /\ m_sendEvent' = [m_sendEvent EXCEPT ![n] = nextUid[n]]
        /\ UNCHANGED <<now, network, m_socket, m_currentMobility, lists,
                       m_chElectionEvent, m_sendIncidentEvent, incident, stats>>

UpdateNeighbors(n) ==
    \E e \in Due(n, "UpdateNeighbors") :
        /\ m_status' = [m_status EXCEPT ![n] = "CLUSTER_UPDATE"]
        /\ Simulate(n, {e}, <<After(Interval, "Send")>>)
        /\ m_sendEvent' = [m_sendEvent EXCEPT ![n] = nextUid[n]]
        /\ UNCHANGED <<now, network, m_socket, m_currentMobility, lists,
                       m_chElectionEvent, m_sendIncidentEvent, incident, stats>>

\* mutant: the cluster list is not purged
ClusterUnpurged(n, stale) == m_clusterList[n]

\* the cluster list after the stale neighbours are gone
ClusterAfter(n, stale) == m_clusterList[n] \ stale

\* A vehicle is as old as its last Send (own.ts); a neighbour as its last
\* ClusterInfo.
UpdateNeighborList(n) ==
    \E e \in Due(n, "UpdateNeighborList") :
        LET own   == m_currentMobility[n]
            stale == Stale(own, m_2rStableList[n])
        IN  /\ m_2rStableList' = [m_2rStableList EXCEPT ![n] = Erase(@, stale)]
            /\ m_rStableList' = [m_rStableList EXCEPT ![n] = Erase(@, stale)]
            /\ m_clusterList' = [m_clusterList EXCEPT ![n] = ClusterAfter(n, stale)]
            /\ m_currentMobility' =
                  [m_currentMobility EXCEPT
                      ![n] = MobilityAfterUpdate(own, stale, m_rStableList[n])]
            /\ IF BecomesHead(own, stale, m_rStableList[n])
               THEN Count(n, {"m_changesCounter"})
               ELSE UNCHANGED stats
            /\ Simulate(n, {e}, <<After(Interval, "UpdateNeighborList")>>)
            /\ UNCHANGED <<now, network, m_socket, m_status, timers, incident>>

\* A head or a vehicle on its own tells everybody; a member tells the
\* vehicle its incident socket is connected to.
Report(n, msg) ==
    IF m_currentMobility[n].degree /= "CM"
    THEN m_socket[n] /\ Transmit(n, msg) /\ UNCHANGED stats
    ELSE /\ m_socketIncident[n] /= Null
         /\ air' = air \cup {p \in Copies(n, msg) : p.to = m_socketIncident[n]}
         /\ UNCHANGED losses
         /\ Count(n, {"m_incidentCounter"})

SendIncident(n) ==
    \E e \in Due(n, "SendIncident") :
        /\ m_incidentTimestamp' = [m_incidentTimestamp EXCEPT ![n] = now]
        /\ Report(n, IncidentEventHeader(now, m_currentMobility[n].clusterId, n))
        /\ Simulate(n, {e}, <<After(IncidentWindow, "SendIncident")>>)
        /\ m_sendIncidentEvent' = [m_sendIncidentEvent EXCEPT ![n] = nextUid[n]]
        /\ UNCHANGED <<now, m_socket, m_status, m_currentMobility, lists,
                       m_sendEvent, m_chElectionEvent, m_socketIncident>>

-----------------------------------------------------------------------------
(***************************************************************************)
(* HandleRead, by header.                                                  *)
(***************************************************************************)

\* mutant: an entry that is there is not updated
StableAfterFirst(n, other) ==
    IF IsStable(m_currentMobility[n], other) /\ m_rStableList[n][other.imsi] = Null
    THEN Insert(m_rStableList[n], other)
    ELSE m_rStableList[n]

\* the lists after a ClusterInfo of other: an entry of rStable stays, with
\* its old values, when its vehicle is stable no more
StableAfter(n, other) ==
    IF IsStable(m_currentMobility[n], other)
    THEN Insert(m_rStableList[n], other)
    ELSE m_rStableList[n]

\* A head puts the vehicles that name it as their head on its cluster list.
Admits(n, other) ==
    /\ m_status[n] = "CLUSTER_UPDATE"
    /\ m_currentMobility[n].degree = "CH"
    /\ other.clusterId = n

\* mutant: also a head with members
MayMergeAlways(n, other) ==
    /\ m_currentMobility[n].degree = "CH"
    /\ other.clusterId /= n

\* a head without members hears of another cluster
MayMerge(n, other) ==
    /\ m_currentMobility[n].degree = "CH"
    /\ other.clusterId /= n
    /\ m_clusterList[n] = {}

\* mutant: a head also one with a smaller imsi
AttachesToAny(n, other, potential) ==
    /\ m_status[n] = "CLUSTER_UPDATE"
    /\ potential \in Keys(StableAfter(n, other))
    /\ m_currentMobility[n].degree = "STANDALONE" \/ MayMerge(n, other)

\* A vehicle on its own joins the head MergeCheck finds; a head without
\* members only one with a larger imsi.
Attaches(n, other, potential) ==
    /\ m_status[n] = "CLUSTER_UPDATE"
    /\ potential \in Keys(StableAfter(n, other))
    /\ \/ m_currentMobility[n].degree = "STANDALONE"
       \/ MayMerge(n, other) /\ n < potential

\* mutant: only without any stable neighbour
LeadsOnlyAlone(n, other, potential) ==
    /\ m_status[n] = "CLUSTER_UPDATE"
    /\ m_currentMobility[n].degree = "STANDALONE"
    /\ Keys(StableAfter(n, other)) = {}

\* A vehicle on its own that finds no head becomes one.
Leads(n, other, potential) ==
    /\ m_status[n] = "CLUSTER_UPDATE"
    /\ m_currentMobility[n].degree = "STANDALONE"
    /\ potential \notin Keys(StableAfter(n, other))

\* what a ClusterInfo does to everything but the lists of neighbours
React(n, other, from) ==
    LET potential == MergeCheck(m_currentMobility[n], StableAfter(n, other))
    IN  \/ /\ Attaches(n, other, potential)
           /\ m_currentMobility' =
                 [m_currentMobility EXCEPT ![n] = AsMember(@, potential)]
           /\ m_socketIncident' = [m_socketIncident EXCEPT ![n] =
                 CreateIncidentSocket(RemoveIncidentSocket(@), from)]
           /\ Count(n, {"m_changesCounter"})
           /\ UNCHANGED m_clusterList
        \/ /\ Leads(n, other, potential)
           /\ m_currentMobility' =
                 [m_currentMobility EXCEPT ![n] = AsHead(n, @)]
           /\ Count(n, {"m_changesCounter"})
           /\ UNCHANGED <<m_socketIncident, m_clusterList>>
        \/ /\ Admits(n, other)
           /\ m_clusterList' =
                 [m_clusterList EXCEPT ![n] = @ \cup {other.imsi}]
           /\ UNCHANGED <<m_currentMobility, m_socketIncident, stats>>
        \/ /\ ~ Attaches(n, other, potential)
           /\ ~ Leads(n, other, potential)
           /\ ~ Admits(n, other)
           /\ UNCHANGED <<m_currentMobility, m_socketIncident, m_clusterList,
                          stats>>

HandleClusterInfo(n) ==
    \E p \in Inbox(n, "ClusterInfo") :
        LET other == p.msg.info
        IN  /\ Receive(p)
            /\ m_rStableList' = [m_rStableList EXCEPT ![n] = StableAfter(n, other)]
            /\ m_2rStableList' = [m_2rStableList EXCEPT ![n] = Insert(@, other)]
            /\ React(n, other, p.from)
            /\ UNCHANGED <<now, events, m_socket, m_status, timers,
                           m_incidentTimestamp>>

\* mutant: a vehicle that waits starts to wait again
AcceptsRequestWhileWaiting(n) ==
    m_status[n] \in {"CLUSTER_INITIALIZATION", "CLUSTER_HEAD_ELECTION"}

\* only the first request counts
AcceptsRequest(n) == m_status[n] = "CLUSTER_INITIALIZATION"

\* The cluster is noted even if its initiator is unknown.
HandleInitiateCluster(n) ==
    \E p \in Inbox(n, "InitiateCluster") :
        /\ Receive(p)
        /\ \/ /\ AcceptsRequest(n)
              /\ m_currentMobility' =
                    [m_currentMobility EXCEPT ![n].clusterId = p.msg.clusterId]
              /\ IF p.msg.clusterId \in Keys(m_2rStableList[n])
                 THEN /\ m_status' =
                            [m_status EXCEPT ![n] = "CLUSTER_HEAD_ELECTION"]
                      /\ StartElection(n, {})
                 ELSE UNCHANGED <<m_status, events, m_chElectionEvent,
                                  m_sendIncidentEvent>>
           \/ /\ ~ AcceptsRequest(n)
              /\ UNCHANGED <<m_status, m_currentMobility, events,
                             m_chElectionEvent, m_sendIncidentEvent>>
        /\ UNCHANGED <<now, m_socket, lists, m_sendEvent, incident, stats>>

\* mutant: in any status
JoinsAlways(n, head) == head \in Keys(m_2rStableList[n])

\* mutant: only the cluster that asked for the election
JoinsInitiator(n, head) ==
    /\ m_currentMobility[n].clusterId = head
    /\ m_status[n] = "CLUSTER_HEAD_ELECTION"

\* a head that is known ends an election
Joins(n, head) ==
    /\ head \in Keys(m_2rStableList[n])
    /\ m_status[n] = "CLUSTER_HEAD_ELECTION"

\* mutant: the election goes on
CancelledNothing(n) == {}

\* m_chElectionEvent.Cancel (); the pending Send stays
CancelledByJoin(n) == Tracked(n, m_chElectionEvent[n])

HandleFormCluster(n) ==
    \E p \in Inbox(n, "FormCluster") :
        LET head == p.msg.info.clusterId
        IN  /\ Receive(p)
            /\ \/ /\ Joins(n, head)
                  /\ m_status' = [m_status EXCEPT ![n] = "CLUSTER_UPDATE"]
                  /\ m_currentMobility' =
                        [m_currentMobility EXCEPT ![n] = AsMember(@, head)]
                  /\ Simulate(n, CancelledByJoin(n),
                              <<After(TimeWindow[n], "Send"),
                                After(ListUpdateDelay, "UpdateNeighborList")>>)
                  /\ m_sendEvent' = [m_sendEvent EXCEPT ![n] = nextUid[n]]
                  /\ m_socketIncident' = [m_socketIncident EXCEPT ![n] =
                        CreateIncidentSocket(@, p.from)]
               \/ /\ ~ Joins(n, head)
                  /\ UNCHANGED <<m_status, m_currentMobility, events,
                                 m_sendEvent, m_socketIncident>>
            /\ UNCHANGED <<now, m_socket, lists, m_chElectionEvent,
                           m_sendIncidentEvent, m_incidentTimestamp, stats>>

\* A head repeats the incidents that name its cluster.
Repeats(n, id) ==
    m_currentMobility[n].degree = "CH" /\ m_currentMobility[n].clusterId = id

\* The vehicle takes an incident with the time stamp of its own last one
\* for that one, come back.
HandleIncidentEvent(n) ==
    \E p \in Inbox(n, "IncidentEvent") :
        /\ air' = (air \ {p}) \cup
              (IF Repeats(n, p.msg.clusterId) THEN Copies(n, p.msg) ELSE {})
        /\ UNCHANGED losses
        /\ IF m_incidentTimestamp[n] = p.msg.ts
           THEN Count(n, {"echoes"})
           ELSE UNCHANGED stats
        /\ UNCHANGED <<now, events, m_socket, m_status, m_currentMobility,
                       lists, timers, incident>>

-----------------------------------------------------------------------------
(***************************************************************************)
(* The channel and the clock.                                              *)
(***************************************************************************)

\* a vehicle that has not started, or has stopped, has no listening socket
NoListener ==
    \E p \in air :
        /\ ~ m_socket[p.to]
        /\ Receive(p)
        /\ UNCHANGED <<now, events, m_socket, m_status, m_currentMobility,
                       lists, timers, incident, stats>>

Lose ==
    \E p \in air :
        /\ losses < MaxLosses
        /\ air' = air \ {p}
        /\ losses' = losses + 1
        /\ UNCHANGED <<now, events, m_socket, m_status, m_currentMobility,
                       lists, timers, incident, stats>>

Scheduled == UNION {{e.due : e \in pending[n]} : n \in Node}

Tick ==
    /\ air = {}
    /\ \A t \in Scheduled : now < t
    /\ \E t \in Scheduled :
          /\ \A u \in Scheduled : t <= u
          /\ t <= MaxTime
          /\ now' = t
    /\ UNCHANGED <<network, events, m_socket, m_status, m_currentMobility,
                   lists, timers, incident, stats>>

-----------------------------------------------------------------------------
Application(n) == StartApplication(n) \/ StopApplication(n)

Send(n) == \/ SendClusterInfo(n) \/ SendInitiateCluster(n)
           \/ SendFormCluster(n) \/ SendUpdate(n)

Timer(n) == \/ InitiateCluster(n) \/ FormCluster(n) \/ UpdateNeighbors(n)
            \/ UpdateNeighborList(n) \/ SendIncident(n)

HandleRead(n) == \/ HandleClusterInfo(n) \/ HandleInitiateCluster(n)
                 \/ HandleFormCluster(n) \/ HandleIncidentEvent(n)

Next ==
    \/ \E n \in Node : Application(n) \/ Send(n) \/ Timer(n) \/ HandleRead(n)
    \/ NoListener
    \/ Lose
    \/ Tick

Spec == Init /\ [][Next]_vars

\* The simulator runs until its queue is empty or its time is over.
FairSpec == Spec /\ WF_vars(Next)

-----------------------------------------------------------------------------
TypeOK ==
    /\ now \in Nat
    /\ air \in SUBSET Packet
    /\ losses \in 0..MaxLosses
    /\ pending \in [Node -> SUBSET Event]
    /\ nextUid \in [Node -> Nat \ {0}]
    /\ m_socket \in [Node -> BOOLEAN]
    /\ m_status \in [Node -> NodeStatus]
    /\ m_currentMobility \in [Node -> NeighborInfo]
    /\ m_2rStableList \in [Node -> NeighborList]
    /\ m_rStableList \in [Node -> NeighborList]
    /\ m_clusterList \in [Node -> SUBSET Node]
    /\ m_sendEvent \in [Node -> Nat]
    /\ m_chElectionEvent \in [Node -> Nat]
    /\ m_sendIncidentEvent \in [Node -> Nat]
    /\ m_socketIncident \in [Node -> Node \cup {Null}]
    /\ m_incidentTimestamp \in [Node -> Nat]
    /\ stats \in [Node -> [Counter -> Nat]]

(***************************************************************************)
(* What holds whatever the schedule.                                       *)
(***************************************************************************)

\* The list of stable neighbours and the cluster list of a vehicle only
\* name vehicles of its list of all neighbours, and none names the vehicle
\* itself: what the three find-and-erase of UpdateNeighborList rely on, and
\* the assertions of SuitabilityCheck (key != m_currentMobility.imsi).
NeighborListsNested ==
    \A n \in Node :
        /\ Keys(m_rStableList[n]) \subseteq Keys(m_2rStableList[n])
        /\ m_clusterList[n] \subseteq Keys(m_2rStableList[n])
        /\ n \notin Keys(m_2rStableList[n])

Settled(n) == m_status[n] = "CLUSTER_UPDATE"

\* A settled head leads its own cluster: HandleRead compares the cluster of
\* its members with its imsi, incidents are repeated by clusterId.
HeadOwnsItsCluster ==
    \A n \in Node : Settled(n) /\ m_currentMobility[n].degree = "CH" =>
        m_currentMobility[n].clusterId = n

\* A settled member follows another vehicle, which is among its neighbours
\* (else UpdateNeighborList could never notice that it is gone), and has an
\* incident socket (SendIncident uses it unchecked).
MemberKnowsItsHead ==
    \A n \in Node : Settled(n) /\ m_currentMobility[n].degree = "CM" =>
        /\ m_currentMobility[n].clusterId \in Keys(m_2rStableList[n])
        /\ m_socketIncident[n] /= Null

\* A settled vehicle that belongs to no cluster has a stable neighbour: the
\* silence of the last one would have made it a head (UpdateNeighborList).
\* So somebody's next ClusterInfo takes it out of that state.
StandaloneHasNeighbors ==
    \A n \in Node : Settled(n) /\ m_currentMobility[n].degree = "STANDALONE" =>
        /\ m_currentMobility[n].clusterId = 0
        /\ Keys(m_rStableList[n]) /= {}

Waits(n, types) == \E e \in pending[n] : e.type \in types

\* No running vehicle is left without a timer, whatever it gave up for its
\* new status: an election ends by the waiting time or a Send, a formation
\* by its Send or UpdateNeighbors, and a settled vehicle goes on sending and
\* looking after its lists.
NeverWithoutTimer ==
    \A n \in Node : m_socket[n] =>
        /\ m_status[n] = "CLUSTER_HEAD_ELECTION" =>
              Waits(n, {"FormCluster", "Send"})
        /\ m_status[n] = "CLUSTER_FORMATION" =>
              Waits(n, {"Send", "UpdateNeighbors"})
        /\ Settled(n) => Waits(n, {"Send"}) /\ Waits(n, {"UpdateNeighborList"})

(***************************************************************************)
(* The abstract specification this one implements.  A vehicle has a place  *)
(* as soon as it has ended an election: settled, or on its way there.      *)
(***************************************************************************)

\* the events that only a vehicle with a place schedules
Upkeep == {"UpdateNeighbors", "UpdateNeighborList"}

Formed(n) == Settled(n) \/ Waits(n, Upkeep)

PlaceOf(n) ==
    IF ~ Formed(n) THEN -1
    ELSE IF m_currentMobility[n].degree = "STANDALONE" THEN -2
    ELSE m_currentMobility[n].clusterId

TakesPart(n) == m_status[n] \in {"CLUSTER_HEAD_ELECTION", "CLUSTER_FORMATION"}

Membership == INSTANCE V2vMembership WITH
    place <- [n \in Node |-> PlaceOf(n)],
    electing <- [n \in Node |-> TakesPart(n)]

\* Whatever a step does, it moves vehicles between clusters as V2vMembership
\* allows: one vehicle per step, no head just loses its cluster, and heads
\* merge only towards the larger id, never into each other.
ImplementsMembership == Membership!Spec

(***************************************************************************)
(* What the TDMA schedule buys: all vehicles start together, in different  *)
(* slots of a window of MaxUes slots.                                      *)
(***************************************************************************)

\* An election timer that runs is the one m_chElectionEvent would cancel,
\* and its vehicle still waits for it: none survives a FormCluster, so no
\* member stands for election (InitiateCluster and HandleRead, which both
\* lead to elections, look at neither each other's timer nor the list).
ElectionTimerTracked ==
    \A n \in Node : \A e \in pending[n] : e.type = "FormCluster" =>
        /\ e.uid = m_chElectionEvent[n]
        /\ m_status[n] = "CLUSTER_HEAD_ELECTION"

Sends(n) == {e \in pending[n] : e.type = "Send"}

\* A FormCluster that overtakes the receiver's own InitiateCluster leaves it
\* with two Sends, which m_sendEvent takes turns to forget.  The damage is
\* bounded: it is never more than two, and only a vehicle that joined without
\* ever having waited itself has them, so no head that formed its cluster.
SendChains ==
    \A n \in Node :
        Cardinality(Sends(n)) <=
            IF Settled(n) /\ m_chElectionEvent[n] = 0 THEN 2 ELSE 1

\* Only a settled head has a cluster list: no head with members is elected
\* again, merges with another cluster or loses its degree.
MembersOnlyAtHead ==
    \A n \in Node : m_clusterList[n] /= {} =>
        Settled(n) /\ m_currentMobility[n].degree = "CH"

\* No handler that is due would use a socket that is null: no Send after
\* the stop, and no incident of a vehicle that calls itself a member
\* without having joined (SendIncident).
NoNullSocketUse ==
    \A n \in Node :
        /\ Due(n, "Send") /= {} => m_socket[n]
        /\ Due(n, "SendIncident") /= {} =>
              IF m_currentMobility[n].degree = "CM"
              THEN m_socketIncident[n] /= Null
              ELSE m_socket[n]

\* A vehicle forms a cluster once: ClusterInfo, InitiateCluster and
\* FormCluster are sent at most once each (m_formationCounter), and the
\* first incident finds it settled.
FormsOnce ==
    \A n \in Node :
        /\ stats[n]["m_formationCounter"] <= 3
        /\ Due(n, "SendIncident") /= {} => Settled(n)

\* Status only moves forward, and a vehicle that left the election as a
\* member was not a head in between.
StatusOrder ==
    [][\A n \in Node : m_status'[n] /= m_status[n] =>
          <<m_status[n], m_status'[n]>> \in
             {<<"CLUSTER_INITIALIZATION", "CLUSTER_HEAD_ELECTION">>,
              <<"CLUSTER_HEAD_ELECTION", "CLUSTER_FORMATION">>,
              <<"CLUSTER_HEAD_ELECTION", "CLUSTER_UPDATE">>,
              <<"CLUSTER_FORMATION", "CLUSTER_UPDATE">>}]_m_status

\* Without losses a head ends the elections of all its neighbours: beside a
\* settled head nobody still waits to become one.
NoElectionBesideHead ==
    \A n \in Node : \A m \in Reach[n] :
        (/\ losses = 0 /\ air = {}
         /\ Settled(n) /\ m_currentMobility[n].degree = "CH")
          => m_status[m] /= "CLUSTER_HEAD_ELECTION"

\* the last time vehicle n may wait until, if it waits for w
Deadline(n, w) == StartTime[n] + TimeWindow[n] + 2 * Slot * MaxUes + w

\* Without losses and with everybody in range, every vehicle is in a cluster
\* when the last slot, a window, another one and the longest waiting time are
\* over: somebody is the slowest, whatever maxDistance held, and everybody
\* hears of the election in time.
ClusteredInTime ==
    (/\ losses = 0 /\ air = {}
     /\ \A n \in Node, w \in WaitingTimes, t \in Scheduled : Deadline(n, w) < t)
      => \A n \in Node : Settled(n)

\* the vehicles no event will ever take out of their initialization
Stranded ==
    {n \in Node : /\ m_socket[n]
                  /\ m_status[n] = "CLUSTER_INITIALIZATION"
                  /\ ~ Waits(n, EventType \ {"Stop"})}

\* Once nobody is about to start an election, at most as many vehicles are
\* stranded as copies were lost: no loss spreads.
LossStrandsOne ==
    (/\ air = {}
     /\ \A n \in Node :
            /\ ~ Waits(n, {"InitiateCluster"})
            /\ m_status[n] = "CLUSTER_HEAD_ELECTION" => ~ Waits(n, {"Send"}))
      => Cardinality(Stranded) <= losses

\* A vehicle purges its lists once a second: there is one chain of
\* UpdateNeighborList, though every election it takes part in starts one
\* and none is ever cancelled.
OneUpdateChain ==
    \A n \in Node :
        Cardinality({e \in pending[n] : e.type = "UpdateNeighborList"}) <= 1

(***************************************************************************)
(* The neighbours, in clusters that have formed.                           *)
(***************************************************************************)

\* The waiting times there may be: a vehicle without stable neighbours waits
\* for as many seconds as its imsi says.
Waitings == WaitingTimes \cup {1000 * n : n \in Node}

\* All clusters had formed at time t, if vehicle n sends within the windows:
\* its second window is followed by the slots of the requests.
FormationsOver(n, t) ==
    \A w \in Waitings : StartTime[n] + 3 * Slot * MaxUes + w < t

\* Once it has purged its list, which it does within 1.5 s of having its place,
\* a vehicle that runs keeps no entry older than the limit of 1.2 s and two
\* rounds, though its own time stamp and the list are updated by two timers that
\* know nothing of each other, and its neighbours by theirs.
NeighborsRecent ==
    \A n \in Node : m_socket[n] /\ Settled(n) /\ FormationsOver(n, now - 1500) =>
        \A k \in Keys(m_2rStableList[n]) :
            m_currentMobility[n].ts - m_2rStableList[n][k].ts <= 1200 + 2 * Interval

\* The two copies of a neighbour's data differ only if it was too fast when last
\* heard of: until its next Send the vehicle itself can tell that the copy
\* that MergeCheck and SuitabilityCheck read is out of date.
StableEntriesLag ==
    \A n \in Node : \A k \in Keys(m_rStableList[n]) :
        LET own  == m_currentMobility[n]
            last == m_2rStableList[n][k]
        IN  m_rStableList[n][k] /= last /\ own.ts < last.ts => ~ IsStable(own, last)

Stopped(n) == ~ m_socket[n] /\ ~ Waits(n, {"Start"})

\* Whenever a vehicle stops, and whatever it was waiting for: beside the update
\* of its lists at most one event is left of what it had begun (its election
\* timer, InitiateCluster or the Send that m_sendEvent had forgotten), and no
\* incident, though incidents are scheduled with the election.
StopLeavesOne ==
    \A n \in Node : Stopped(n) =>
        /\ Cardinality({e \in pending[n] : e.type /= "UpdateNeighborList"}) <= 1
        /\ ~ Waits(n, {"SendIncident"})

\* Whatever is lost, an election ends: a time comes when nobody waits and
\* everybody who took part is a member or a head.
ElectionConcludes ==
    (\E n \in Node : m_status[n] = "CLUSTER_HEAD_ELECTION")
      ~> (\A n \in Node : Settled(n) \/ m_status[n] = "CLUSTER_INITIALIZATION")

\* There is time to see how it ends.
Early == now + 2 * Interval <= MaxTime

Standalone(n) ==
    m_socket[n] /\ Settled(n) /\ m_currentMobility[n].degree = "STANDALONE"

\* No running vehicle stays outside all clusters: the next ClusterInfo, or the
\* silence of all neighbours, gives it a place.
StandaloneResolves ==
    (\E n \in Node : Standalone(n)) /\ Early ~> (\A n \in Node : ~ Standalone(n))

FollowsStoppedHead(n) ==
    LET head == m_currentMobility[n].clusterId
    IN  /\ Settled(n) /\ m_currentMobility[n].degree = "CM" /\ head \in Node
        /\ StopTime[head] <= now /\ now < StopTime[n]

\* A member leaves a head that has stopped, at the latest when it stops.
StoppedHeadAbandoned ==
    (\E n \in Node : FollowsStoppedHead(n)) /\ Early
      ~> (\A n \in Node : ~ FollowsStoppedHead(n))

(***************************************************************************)
(* What the code says of itself, and does not keep.                        *)
(***************************************************************************)

\* "Event id of pending send packet event" (m_sendEvent): at most one is
\* scheduled, the one StopApplication will cancel.
SendEventTracked ==
    \A n \in Node : \A e \in pending[n] :
        e.type = "Send" => e.uid = m_sendEvent[n]

\* "Create p2p socket with ClusterHead" (CreateIncidentSocket)
IncidentPeerIsHead ==
    \A n \in Node : Settled(n) /\ m_currentMobility[n].degree = "CM" =>
        m_socketIncident[n] = m_currentMobility[n].clusterId

\* MergeCheck: "return the id of the suitable CH".  A settled vehicle that
\* becomes a member of a cluster knows its new head as a head.
AttachesToHead ==
    [][\A n \in Node :
          (/\ Settled(n) /\ m_currentMobility[n].degree /= "CM"
           /\ m_currentMobility'[n].degree = "CM")
          => m_rStableList'[n][m_currentMobility'[n].clusterId].degree = "CH"]_vars

\* "Update Neighbor's lists according to latest Timestamps": a member drops
\* its head only if that has sent nothing for 1.2 s of the member's time.
HeadDroppedOnlyWhenSilent ==
    [][\A n \in Node :
          LET head == m_currentMobility[n].clusterId
          IN  (/\ Settled(n) /\ m_currentMobility[n].degree = "CM"
               /\ head \in Node
               /\ m_currentMobility'[n].degree /= "CM")
              => m_currentMobility[n].ts - m_currentMobility[head].ts > 1200]_vars

FollowsMember(n) ==
    LET head == m_currentMobility[n].clusterId
    IN  /\ m_socket[n] /\ Settled(n) /\ m_currentMobility[n].degree = "CM"
        /\ head \in Node /\ Settled(head)
        /\ m_currentMobility[head].degree = "CM"

\* "Send Incident event to Cluster Head firstly" (SendIncident): a member
\* whose head has become a member of another cluster comes to a head again.
HeadlessResolves ==
    (\E n \in Node : FollowsMember(n)) /\ Early
      ~> (\A n \in Node : ~ FollowsMember(n))

=============================================================================
