---------------------- MODULE V2vControlClient_silence ----------------------
(***************************************************************************)
(* Proofs of how long what a vehicle knows remains good.  When vehicles    *)
(* hear each other nobody waits in an election alone, so with waits of a   *)
(* window every election outlasts the slots of its requests and a stop     *)
(* after the elections finds nothing left to send: no handler meets a null *)
(* socket.  Whatever the waits, a vehicle sends and purges in rounds: this *)
(* bounds how old the neighbours on its list are.                          *)
(***************************************************************************)
EXTENDS V2vControlClient_tdma

\* everybody is in range of everybody
InRange == \A n \in Node : Reach[n] = Node \ {n}

\* Speeds are close (SimilarSpeed of V2vMobilityModel): all stay stable.
AllStable == \A own, other \in NeighborInfo : IsStable(own, other)

\* too few copies are lost for a vehicle to hear of nobody
FewLosses == MaxLosses + 1 < Cardinality(Node)

\* nobody stops before the elections are over
LateStop ==
    \A n \in Node, w \in WaitingTimes :
        WindowEnd(n) + 2 * Window + w < StopTime[n]

\* A stable neighbour is known, so that waiting times are not those of
\* vehicles on their own (SuitabilityCheck).
KnowsSomebody ==
    \A n \in Node :
        (/\ WindowEnd(n) + Window < now
         /\ m_status[n] \in {"CLUSTER_INITIALIZATION", "CLUSTER_HEAD_ELECTION"})
        => Keys(m_rStableList[n]) /= {}

-----------------------------------------------------------------------------
(***************************************************************************)
(* The life of an application.                                             *)
(***************************************************************************)
Lifetime(n) ==
    /\ \A e \in pending[n] : e.type = "Stop" =>
          e = [uid |-> 2, type |-> "Stop", due |-> StopTime[n]]
    /\ Stopped(n) => StopTime[n] <= now
    /\ Waits(n, {"Start"}) => Keys(m_rStableList[n]) = {}

\* Before its start a vehicle does nothing else.
LEMMA StartFirst ==
  ASSUME TypeOK, NEW n \in Node, VehicleInv(n), StageInv(n), Waits(n, {"Start"}),
         Application(n) \/ Send(n) \/ Timer(n) \/ HandleRead(n)
  PROVE  Application(n)
<1>1. PICK s \in pending[n] : s.type = "Start"
  BY DEF Waits
<1>2. ~ m_socket[n]
  BY <1>1 DEF VehicleInv, StartsOnce
<1>3. \A f \in pending[n] : f.type \in {"Start", "Stop"}
  BY <1>1, Duties, DutyFound DEF StageInv
<1>4. \A t \in {"InitiateCluster", "FormCluster", "UpdateNeighbors",
               "UpdateNeighborList", "SendIncident"} : Due(n, t) = {}
  BY <1>3 DEF Due
<1>5. ~ Send(n)
  BY <1>2 DEF Send, SendClusterInfo, SendInitiateCluster, SendFormCluster,
              SendUpdate, SendDue
<1>6. ~ Timer(n)
  BY <1>4 DEF Timer, InitiateCluster, FormCluster, UpdateNeighbors,
              UpdateNeighborList, SendIncident
<1>7. ~ HandleRead(n)
  BY <1>2 DEF HandleRead, HandleClusterInfo, HandleInitiateCluster,
              HandleFormCluster, HandleIncidentEvent, Inbox
<1> QED
  BY <1>5, <1>6, <1>7

LEMMA StepKeepsLifetime ==
  ASSUME TypeOK, NEW n \in Node, VehicleInv(n), StageInv(n), Lifetime(n),
         Application(n) \/ Send(n) \/ Timer(n) \/ HandleRead(n)
  PROVE  Lifetime(n)'
<1>1. \A e \in pending'[n] : e.type \in {"Start", "Stop"} => e \in pending[n]
  BY SchedulesNoStart
<1>2. now' = now
  BY ClockStops
<1>3. Waits(n, {"Start"})' => Waits(n, {"Start"})
  BY <1>1 DEF Waits
<1>4. CASE StartApplication(n)
  <2>1. m_socket'[n] = TRUE /\ m_rStableList'[n] = EmptyList
    BY <1>4 DEF StartApplication, TypeOK
  <2>2. Keys(EmptyList) = {}
    BY DEF Keys, EmptyList
  <2> QED
    BY <1>1, <2>1, <2>2 DEF Lifetime, Stopped, Keys
<1>5. CASE StopApplication(n)
  <2>1. PICK e \in Due(n, "Stop") : TRUE
    BY <1>5 DEF StopApplication
  <2>2. StopTime[n] <= now
    BY <2>1 DEF Due, Lifetime
  <2>3. UNCHANGED m_rStableList
    BY <1>5 DEF StopApplication, lists
  <2> QED
    BY <1>1, <1>2, <1>3, <2>2, <2>3 DEF Lifetime, Keys
<1>6. CASE Send(n) \/ Timer(n) \/ HandleRead(n)
  <2>1. UNCHANGED m_socket
    BY <1>6
    DEF Send, SendClusterInfo, SendInitiateCluster, SendFormCluster, SendUpdate,
        Timer, InitiateCluster, FormCluster, UpdateNeighbors, UpdateNeighborList,
        SendIncident, HandleRead, HandleClusterInfo, HandleInitiateCluster,
        HandleFormCluster, HandleIncidentEvent
  <2>2. Waits(n, {"Start"}) => Application(n)
    BY StartFirst
  <2>3. CASE Waits(n, {"Start"})
    BY <1>4, <1>5, <2>2, <2>3 DEF Application
  <2>4. CASE ~ Waits(n, {"Start"})
    BY <1>1, <1>2, <1>3, <2>1, <2>4 DEF Lifetime, Stopped
  <2> QED
    BY <2>3, <2>4
<1> QED
  BY <1>4, <1>5, <1>6 DEF Application

LifeInv == TdmaInv /\ \A n \in Node : Lifetime(n)

LEMMA LifeInit == ASSUME TdmaSchedule PROVE Init => LifeInv
<1> SUFFICES ASSUME Init PROVE LifeInv
  OBVIOUS
<1>1. ASSUME NEW n \in Node PROVE Lifetime(n)
  <2>1. /\ pending[n] = {[uid |-> 1, type |-> "Start", due |-> StartTime[n]],
                         [uid |-> 2, type |-> "Stop", due |-> StopTime[n]]}
        /\ m_rStableList[n] = EmptyList
    BY DEF Init
  <2>2. Waits(n, {"Start"}) /\ Keys(EmptyList) = {}
    BY <2>1 DEF Waits, Keys, EmptyList
  <2> QED
    BY <2>1, <2>2 DEF Lifetime, Stopped, Keys
<1> QED
  BY <1>1, TdmaInit DEF LifeInv

LEMMA LifeNext == ASSUME TdmaSchedule PROVE LifeInv /\ [Next]_vars => LifeInv'
<1> SUFFICES ASSUME LifeInv, [Next]_vars PROVE LifeInv'
  OBVIOUS
<1>1. TdmaInv'
  BY TdmaNext DEF LifeInv
<1>2. TypeOK /\ \A n \in Node : VehicleInv(n) /\ StageInv(n) /\ Lifetime(n)
  BY DEF LifeInv, TdmaInv, TimedInv, MembershipInv
<1>3. CASE \E n \in Node : Application(n) \/ Send(n) \/ Timer(n) \/ HandleRead(n)
  <2>1. PICK n \in Node : Application(n) \/ Send(n) \/ Timer(n) \/ HandleRead(n)
    BY <1>3
  <2>2. Lifetime(n)' /\ now' = now
    BY <1>2, <2>1, StepKeepsLifetime, ClockStops
  <2>3. ASSUME NEW m \in Node \ {n} PROVE Lifetime(m)'
    <3>1. Untouched(m)
      BY <1>2, <2>1, OthersUntouched
    <3> QED
      BY <1>2, <2>2, <3>1 DEF Untouched, Lifetime, Stopped, Waits, Keys
  <2> QED
    BY <1>1, <2>2, <2>3 DEF LifeInv
<1>4. CASE NoListener \/ Lose \/ Tick \/ UNCHANGED vars
  <2>1. UNCHANGED <<pending, m_socket, m_rStableList>>
    BY <1>4 DEF NoListener, Lose, Tick, vars, events, lists
  <2>2. now <= now'
    <3>1. CASE Tick
      <4>1. PICK t \in Scheduled : now < t /\ now' = t
        BY <3>1 DEF Tick
      <4>2. t \in Nat
        BY <1>2 DEF Scheduled, TypeOK, Event
      <4> QED
        BY <1>2, <4>1, <4>2 DEF TypeOK
    <3>2. CASE UNCHANGED now
      BY <1>2, <3>2 DEF TypeOK
    <3> QED
      BY <1>4, <3>1, <3>2 DEF NoListener, Lose, vars
  <2>3. now \in Nat /\ now' \in Nat
    BY <1>1, <1>2 DEF TdmaInv, TimedInv, MembershipInv, TypeOK
  <2>4. \A n \in Node : StopTime[n] \in Nat
    BY TimeAssumption
  <2>5. \A n \in Node : Lifetime(n)'
    BY <1>2, <2>1, <2>2, <2>3, <2>4 DEF Lifetime, Stopped, Waits, Keys
  <2> QED
    BY <1>1, <2>5 DEF LifeInv
<1> QED
  BY <1>3, <1>4 DEF Next

-----------------------------------------------------------------------------
(***************************************************************************)
(* Who has heard whom.  A vehicle misses those whose first ClusterInfo was *)
(* lost on its way to it: as many copies were lost as it misses vehicles.  *)
(***************************************************************************)
NotSent(m) ==
    \/ Waits(m, {"Start"})
    \/ m_status[m] = "CLUSTER_INITIALIZATION" /\ Waits(m, {"Send"})

\* a ClusterInfo of the first window
OnItsWay(m, n) ==
    /\ StartTime[m] < now
    /\ now <= WindowEnd(m)
    /\ \E p \in air : p.from = m /\ p.to = n /\ p.msg.kind = "ClusterInfo"

NotMissing(m, n) == NotSent(m) \/ m \in Keys(m_rStableList[n]) \/ OnItsWay(m, n)

Missing(n) == {m \in Node \ {n} : ~ NotMissing(m, n)}

BeforeCluster(n) ==
    m_status[n] \in {"CLUSTER_INITIALIZATION", "CLUSTER_HEAD_ELECTION"}

Hears(n) == BeforeCluster(n) => Cardinality(Missing(n)) <= losses

HearingInv == LifeInv /\ \A n \in Node : Hears(n)

\* a Send of the first window ends before anybody stops
LEMMA FirstSend ==
  ASSUME TypeOK, LateStop, TdmaSchedule, NEW n \in Node, StageInv(n), NotSent(n)
  PROVE  now <= WindowEnd(n) /\ now < StopTime[n]
<1>1. PICK e \in pending[n] : \/ e.type = "Start"
                              \/ /\ m_status[n] = "CLUSTER_INITIALIZATION"
                                 /\ e.type = "Send"
  BY DEF NotSent, Waits
<1>2. now <= e.due /\ (e.due = StartTime[n] \/ e.due <= WindowEnd(n))
  BY <1>1 DEF StageInv, InSlot
<1>3. PICK w \in WaitingTimes : WindowEnd(n) + 2 * Window + w < StopTime[n]
  BY WaitingTimesAssumption DEF LateStop
<1>4. /\ now \in Nat /\ e.due \in Nat /\ StartTime[n] \in Nat /\ w \in Nat
      /\ StopTime[n] \in Nat /\ Window \in Nat
  BY TimeAssumption, TdmaAssumption, WaitingTimesAssumption
  DEF TypeOK, Event, Window
<1> QED
  BY <1>2, <1>3, <1>4 DEF WindowEnd

\* A vehicle that has something to send keeps it until it sends it.
LEMMA SendsFirst ==
  ASSUME TypeOK, LateStop, TdmaSchedule, RequestsInTime, NEW n \in Node,
         VehicleInv(n), StageInv(n), Lifetime(n), NotSent(n),
         Application(n) \/ Send(n) \/ Timer(n) \/ HandleRead(n)
  PROVE  NotSent(n)' \/ SendClusterInfo(n)
<1>1. now <= WindowEnd(n) /\ now < StopTime[n]
  BY FirstSend
<1>2. /\ m_status[n] = "CLUSTER_INITIALIZATION"
      /\ \E e \in pending[n] : e.type \in {"Start", "Send"}
  BY DutyFound DEF StageInv, NotSent, Waits
<1>3. \A f \in pending[n] : f.type \in {"Start", "Send", "Stop"}
  BY <1>2, Duties DEF StageInv, OneDuty
<1>4. CASE StartApplication(n)
  <2>1. PICK e \in Due(n, "Start") :
          Simulate(n, {e}, <<After(TimeWindow[n], "Send")>>)
    BY <1>4 DEF StartApplication
  <2>2. m_status'[n] = "CLUSTER_INITIALIZATION" /\ Waits(n, {"Send"})'
    BY <1>4, <2>1, QueueAfterOne DEF StartApplication, TypeOK, Waits
  <2> QED
    BY <2>2 DEF NotSent
<1>5. ~ StopApplication(n)
  <2> SUFFICES ASSUME NEW e \in Due(n, "Stop") PROVE FALSE
    BY DEF StopApplication
  <2>1. StopTime[n] <= now
    BY DEF Due, Lifetime
  <2> QED
    BY <1>1, <2>1, TimeAssumption DEF TypeOK
<1>6. CASE Send(n)
  BY <1>2, <1>6 DEF Send, SendInitiateCluster, SendFormCluster, SendUpdate, SendDue
<1>7. ~ Timer(n)
  BY <1>3 DEF Timer, InitiateCluster, FormCluster, UpdateNeighbors,
              UpdateNeighborList, SendIncident, Due
<1>8. CASE HandleRead(n)
  <2>1. ~ HandleInitiateCluster(n)
    <3> SUFFICES ASSUME NEW p \in air, p.msg.kind = "InitiateCluster" PROVE FALSE
      BY DEF HandleInitiateCluster, Inbox
    <3>1. WindowEnd(n) + Window < now
      BY DEF RequestsInTime
    <3> QED
      BY <1>1, <3>1, TimeAssumption, TdmaAssumption DEF TypeOK, WindowEnd, Window
  <2>2. UNCHANGED <<pending, m_status>>
    BY <1>2, <1>8, <2>1
    DEF HandleRead, HandleClusterInfo, HandleFormCluster, Joins,
        HandleIncidentEvent, events
  <2> QED
    BY <2>2 DEF NotSent, Waits
<1> QED
  BY <1>4, <1>5, <1>6, <1>7, <1>8 DEF Application

\* A vehicle in an election has not lost anybody yet.
LEMMA NobodyForgotten ==
  ASSUME TypeOK, NEW n \in Node, StageInv(n), Lifetime(n), BeforeCluster(n)',
         Application(n) \/ Send(n) \/ Timer(n) \/ HandleRead(n)
  PROVE  Keys(m_rStableList[n]) \subseteq Keys(m_rStableList'[n])
<1>1. CASE StartApplication(n)
  <2>1. PICK e \in Due(n, "Start") : TRUE
    BY <1>1 DEF StartApplication
  <2>2. Waits(n, {"Start"})
    BY <2>1 DEF Due, Waits
  <2> QED
    BY <2>2 DEF Lifetime
<1>2. ~ UpdateNeighborList(n)
  <2> SUFFICES ASSUME UpdateNeighborList(n) PROVE FALSE
    OBVIOUS
  <2>1. PICK e \in Due(n, "UpdateNeighborList") : UNCHANGED m_status
    BY DEF UpdateNeighborList
  <2>2. m_status[n] \in {"CLUSTER_FORMATION", "CLUSTER_UPDATE"}
    BY DutyFound DEF Due, StageInv
  <2> QED
    BY <2>1, <2>2 DEF BeforeCluster
<1>3. CASE HandleClusterInfo(n)
  <2>1. PICK p \in Inbox(n, "ClusterInfo") :
          m_rStableList' =
             [m_rStableList EXCEPT ![n] = StableAfter(n, p.msg.info)]
    BY <1>3 DEF HandleClusterInfo
  <2>2. p.msg.info \in NeighborInfo
    BY PacketType DEF TypeOK, Inbox
  <2>3. Keys(m_rStableList[n]) \subseteq Keys(StableAfter(n, p.msg.info))
    <3>1. Keys(Insert(m_rStableList[n], p.msg.info))
             = Keys(m_rStableList[n]) \cup {p.msg.info.imsi}
      BY <2>2, KeysAfter DEF TypeOK
    <3> QED
      BY <3>1 DEF StableAfter
  <2>4. m_rStableList'[n] = StableAfter(n, p.msg.info)
    BY <2>1 DEF TypeOK
  <2> QED
    BY <2>3, <2>4
<1>4. CASE UNCHANGED m_rStableList
  BY <1>4
<1> QED
  BY <1>1, <1>2, <1>3, <1>4
  DEF Application, StopApplication, Send, SendClusterInfo, SendInitiateCluster,
      SendFormCluster, SendUpdate, Timer, InitiateCluster, FormCluster,
      UpdateNeighbors, SendIncident, HandleRead, HandleInitiateCluster,
      HandleFormCluster, HandleIncidentEvent, lists

\* A ClusterInfo that a vehicle receives makes its sender a stable neighbour.
LEMMA Delivered ==
  ASSUME TypeOK, AirInv, AllStable, NEW n \in Node, NEW p \in air, p.to = n,
         p.msg.kind = "ClusterInfo", p \notin air',
         Application(n) \/ Send(n) \/ Timer(n) \/ HandleRead(n)
  PROVE  p.from \in Keys(m_rStableList'[n])
<1>1. CASE Application(n) \/ Send(n) \/ Timer(n)
  BY <1>1
  DEF Application, StartApplication, StopApplication, Send, SendClusterInfo,
      SendInitiateCluster, SendFormCluster, SendUpdate, Timer, InitiateCluster,
      FormCluster, UpdateNeighbors, UpdateNeighborList, SendIncident, Report,
      Transmit, network
<1>2. CASE HandleClusterInfo(n)
  <2>1. PICK q \in Inbox(n, "ClusterInfo") :
          /\ air' = air \ {q}
          /\ m_rStableList' =
               [m_rStableList EXCEPT ![n] = StableAfter(n, q.msg.info)]
    BY <1>2 DEF HandleClusterInfo, Receive
  <2>2. p = q /\ p.msg.info \in NeighborInfo
    BY <2>1, PacketType DEF TypeOK
  <2>3. p.msg.info.imsi = p.from /\ m_currentMobility[n] \in NeighborInfo
    BY DEF AirInv, TypeOK
  <2>4. Keys(StableAfter(n, p.msg.info))
           = Keys(m_rStableList[n]) \cup {p.msg.info.imsi}
    BY <2>2, <2>3, KeysAfter DEF AllStable, StableAfter, TypeOK
  <2> QED
    BY <2>1, <2>2, <2>3, <2>4 DEF TypeOK
<1>3. ~ HandleInitiateCluster(n) /\ ~ HandleFormCluster(n)
      /\ ~ HandleIncidentEvent(n)
  BY DEF HandleInitiateCluster, HandleFormCluster, HandleIncidentEvent, Inbox,
         Receive
<1> QED
  BY <1>1, <1>2, <1>3 DEF HandleRead

\* No vehicle takes a packet from another one.
LEMMA OnlyOwnPackets ==
  ASSUME NEW n \in Node, NEW p \in air, p \notin air',
         Application(n) \/ Send(n) \/ Timer(n) \/ HandleRead(n)
  PROVE  p.to = n
<1>1. CASE Application(n) \/ Send(n) \/ Timer(n)
  BY <1>1
  DEF Application, StartApplication, StopApplication, Send, SendClusterInfo,
      SendInitiateCluster, SendFormCluster, SendUpdate, Timer, InitiateCluster,
      FormCluster, UpdateNeighbors, UpdateNeighborList, SendIncident, Report,
      Transmit, network
<1>2. CASE HandleRead(n)
  BY <1>2 DEF HandleRead, HandleClusterInfo, HandleInitiateCluster,
     HandleFormCluster, HandleIncidentEvent, Receive, Inbox
<1> QED
  BY <1>1, <1>2

\* The first ClusterInfo of a vehicle is on its way to all others.
LEMMA Broadcast ==
  ASSUME TypeOK, InRange, NEW m \in Node, StageInv(m), SendClusterInfo(m),
         NEW n \in Node \ {m}
  PROVE  OnItsWay(m, n)'
<1>1. PICK e \in SendDue(m, "CLUSTER_INITIALIZATION") : TRUE
  BY DEF SendClusterInfo
<1>2. e.due = now /\ e \in pending[m] /\ e.type = "Send"
      /\ m_status[m] = "CLUSTER_INITIALIZATION"
  BY DueNow DEF SendDue, Due, StageInv
<1>3. StartTime[m] < now /\ now <= WindowEnd(m) /\ now' = now
  BY <1>2, ClockStops DEF StageInv, InSlot, Send
<1>4. PICK msg : msg.kind = "ClusterInfo" /\ Transmit(m, msg)
  BY DEF SendClusterInfo, ClusterInfoHeader
<1>5. [from |-> m, to |-> n, msg |-> msg] \in air'
  BY <1>4 DEF Transmit, Copies, InRange
<1> QED
  BY <1>3, <1>4, <1>5 DEF OnItsWay

LEMMA StepKeepsNotMissing ==
  ASSUME LateStop, TdmaSchedule, InRange, AllStable, LifeInv, NEW n \in Node,
         Application(n) \/ Send(n) \/ Timer(n) \/ HandleRead(n),
         NEW k \in Node, BeforeCluster(k)', NEW m \in Node \ {k},
         NotMissing(m, k)
  PROVE  NotMissing(m, k)'
<1>1. /\ TypeOK /\ AirInv /\ RequestsInTime /\ now' = now
      /\ \A v \in Node : VehicleInv(v) /\ StageInv(v) /\ Lifetime(v)
  BY ClockStops DEF LifeInv, TdmaInv, TimedInv, MembershipInv
<1>2. \A v \in Node \ {n} : Untouched(v)
  BY <1>1, OthersUntouched
<1>3. CASE NotSent(m)
  <2>1. CASE m = n
    <3>1. NotSent(m)' \/ SendClusterInfo(m)
      BY <1>1, <1>3, <2>1, SendsFirst
    <3>2. SendClusterInfo(m) => OnItsWay(m, k)'
      BY <1>1, Broadcast
    <3> QED
      BY <3>1, <3>2 DEF NotMissing
  <2>2. CASE m /= n
    BY <1>2, <1>3, <2>2 DEF Untouched, NotSent, Waits, NotMissing
  <2> QED
    BY <2>1, <2>2
<1>4. CASE m \in Keys(m_rStableList[k])
  <2>1. CASE k = n
    BY <1>1, <1>4, <2>1, NobodyForgotten DEF NotMissing, Keys
  <2>2. CASE k /= n
    BY <1>2, <1>4, <2>2 DEF Untouched, Keys, NotMissing
  <2> QED
    BY <2>1, <2>2
<1>5. CASE OnItsWay(m, k)
  <2>1. PICK p \in air : p.from = m /\ p.to = k /\ p.msg.kind = "ClusterInfo"
    BY <1>5 DEF OnItsWay
  <2>2. CASE p \in air'
    BY <1>1, <1>5, <2>1, <2>2 DEF OnItsWay, NotMissing
  <2>3. CASE p \notin air'
    <3>1. k = n
      BY <2>1, <2>3, OnlyOwnPackets
    <3>2. m \in Keys(m_rStableList'[k])
      BY <1>1, <2>1, <2>3, <3>1, Delivered
    <3> QED
      BY <3>2 DEF NotMissing, Keys
  <2> QED
    BY <2>2, <2>3
<1> QED
  BY <1>3, <1>4, <1>5 DEF NotMissing

LEMMA NothingLost ==
  ASSUME NEW n \in Node, Application(n) \/ Send(n) \/ Timer(n) \/ HandleRead(n)
  PROVE  losses' = losses
<1>1. CASE Application(n) \/ Send(n) \/ Timer(n)
  BY <1>1
  DEF Application, StartApplication, StopApplication, Send, SendClusterInfo,
      SendInitiateCluster, SendFormCluster, SendUpdate, Timer, InitiateCluster,
      FormCluster, UpdateNeighbors, UpdateNeighborList, SendIncident, Report,
      Transmit, network
<1>2. CASE HandleRead(n)
  BY <1>2 DEF HandleRead, HandleClusterInfo, HandleInitiateCluster,
     HandleFormCluster, HandleIncidentEvent, Receive
<1> QED
  BY <1>1, <1>2

LEMMA MissingFinite ==
  ASSUME NEW n \in Node
  PROVE  /\ IsFiniteSet(Missing(n)) /\ Cardinality(Missing(n)) \in Nat
         /\ IsFiniteSet(Missing(n)') /\ Cardinality(Missing(n)') \in Nat
<1>1. Missing(n) \subseteq Node /\ Missing(n)' \subseteq Node
  BY DEF Missing
<1> QED
  BY <1>1, NodeAssumption, FS_Subset, FS_CardinalityType

\* A step after which a vehicle misses no others than before keeps the count.
LEMMA HearsNoLess ==
  ASSUME TypeOK, TypeOK', NEW n \in Node, Hears(n),
         BeforeCluster(n)' => BeforeCluster(n), losses <= losses',
         BeforeCluster(n)' =>
            \A m \in Node \ {n} : NotMissing(m, n) => NotMissing(m, n)'
  PROVE  Hears(n)'
<1> SUFFICES ASSUME BeforeCluster(n)' PROVE Cardinality(Missing(n)') <= losses'
  BY DEF Hears
<1>1. Missing(n)' \subseteq Missing(n)
  BY DEF Missing
<1>2. Cardinality(Missing(n)') <= Cardinality(Missing(n))
  BY <1>1, MissingFinite, FS_Subset
<1>3. Cardinality(Missing(n)) <= losses
  BY DEF Hears
<1> QED
  BY <1>2, <1>3, MissingFinite DEF TypeOK

\* One copy more is lost, one vehicle more may be missed.
LEMMA LoseKeepsHearing ==
  ASSUME TypeOK, NEW n \in Node, Hears(n), Lose PROVE Hears(n)'
<1>1. PICK p \in air : air' = air \ {p} /\ losses' = losses + 1
  BY DEF Lose
<1>2. UNCHANGED <<now, pending, m_status, m_rStableList>>
  BY DEF Lose, events, lists
<1>3. Missing(n)' \subseteq Missing(n) \cup {p.from}
  <2> SUFFICES ASSUME NEW m \in Node \ {n}, NotMissing(m, n), m /= p.from
               PROVE  NotMissing(m, n)'
    BY DEF Missing
  <2>1. CASE OnItsWay(m, n)
    <3>1. PICK q \in air : q.from = m /\ q.to = n /\ q.msg.kind = "ClusterInfo"
      BY <2>1 DEF OnItsWay
    <3>2. q \in air'
      BY <1>1, <3>1
    <3> QED
      BY <1>2, <2>1, <3>1, <3>2 DEF OnItsWay, NotMissing
  <2>2. CASE NotSent(m) \/ m \in Keys(m_rStableList[n])
    BY <1>2, <2>2 DEF NotMissing, NotSent, Waits, Keys
  <2> QED
    BY <2>1, <2>2 DEF NotMissing
<1>4. Cardinality(Missing(n)') <= Cardinality(Missing(n)) + 1
  <2>1. /\ IsFiniteSet(Missing(n) \cup {p.from})
        /\ \/ Cardinality(Missing(n) \cup {p.from}) = Cardinality(Missing(n))
           \/ Cardinality(Missing(n) \cup {p.from}) = Cardinality(Missing(n)) + 1
    BY MissingFinite, FS_AddElement
  <2>2. Cardinality(Missing(n)') <= Cardinality(Missing(n) \cup {p.from})
    BY <1>3, <2>1, FS_Subset
  <2> QED
    BY <2>1, <2>2, MissingFinite
<1>5. BeforeCluster(n)' => Cardinality(Missing(n)) <= losses
  BY <1>2 DEF Hears, BeforeCluster
<1> QED
  BY <1>1, <1>4, <1>5, MissingFinite DEF Hears, TypeOK

\* Nobody's first ClusterInfo finds no listener: all have started by then, and
\* nobody has stopped.
LEMMA FirstFindsListener ==
  ASSUME TypeOK, LateStop, TdmaSchedule, NEW n \in Node, NEW m \in Node,
         VehicleInv(n), StageInv(n), Lifetime(n), OnItsWay(m, n)
  PROVE  m_socket[n]
<1>1. StartTime[n] < now /\ now <= WindowEnd(n)
  BY DEF OnItsWay, TdmaSchedule, WindowEnd
<1>2. ~ Waits(n, {"Start"})
  <2> SUFFICES ASSUME NEW e \in pending[n], e.type = "Start" PROVE FALSE
    BY DEF Waits
  <2>1. now <= StartTime[n]
    BY DEF StageInv, InSlot
  <2> QED
    BY <1>1, <2>1, TimeAssumption DEF TypeOK
<1>3. PICK w \in WaitingTimes : WindowEnd(n) + 2 * Window + w < StopTime[n]
  BY WaitingTimesAssumption DEF LateStop
<1>4. ~ (StopTime[n] <= now)
  BY <1>1, <1>3, TimeAssumption, TdmaAssumption, WaitingTimesAssumption
  DEF TypeOK, WindowEnd, Window
<1> QED
  BY <1>2, <1>4 DEF Lifetime, Stopped

LEMMA HearingNext ==
  ASSUME LateStop, TdmaSchedule, InRange, AllStable
  PROVE  HearingInv /\ [Next]_vars => HearingInv'
<1> SUFFICES ASSUME HearingInv, [Next]_vars PROVE HearingInv'
  OBVIOUS
<1>1. LifeInv /\ LifeInv'
  BY LifeNext DEF HearingInv
<1>2. /\ TypeOK /\ TypeOK'
      /\ \A n \in Node : VehicleInv(n) /\ StageInv(n) /\ Lifetime(n) /\ Hears(n)
  BY <1>1 DEF HearingInv, LifeInv, TdmaInv, TimedInv, MembershipInv
<1>3. SUFFICES ASSUME NEW k \in Node PROVE Hears(k)'
  BY <1>1 DEF HearingInv
<1>4. CASE \E n \in Node : Application(n) \/ Send(n) \/ Timer(n) \/ HandleRead(n)
  <2>1. PICK n \in Node : Application(n) \/ Send(n) \/ Timer(n) \/ HandleRead(n)
    BY <1>4
  <2>2. BeforeCluster(k)' => BeforeCluster(k)
    <3>1. m_status'[k] = m_status[k] \/ <<m_status[k], m_status'[k]>> \in Forward
      BY <1>2, <2>1, StepForward, OthersUntouched DEF Untouched
    <3> QED
      BY <3>1 DEF BeforeCluster, Forward
  <2>3. BeforeCluster(k)' =>
          \A m \in Node \ {k} : NotMissing(m, k) => NotMissing(m, k)'
    BY <1>1, <2>1, StepKeepsNotMissing
  <2>4. losses <= losses'
    BY <1>2, <2>1, NothingLost DEF TypeOK
  <2> QED
    BY <1>2, <2>2, <2>3, <2>4, HearsNoLess
<1>5. CASE Lose
  BY <1>2, <1>5, LoseKeepsHearing
<1>6. CASE NoListener
  <2>1. PICK p \in air : ~ m_socket[p.to] /\ air' = air \ {p}
    BY <1>6 DEF NoListener, Receive
  <2>2. UNCHANGED <<now, losses, pending, m_status, m_rStableList>>
    BY <1>6 DEF NoListener, Receive, events, lists
  <2>3. ASSUME NEW m \in Node \ {k}, NotMissing(m, k) PROVE NotMissing(m, k)'
    <3>1. CASE OnItsWay(m, k)
      <4>1. m_socket[k]
        BY <1>2, <3>1, FirstFindsListener
      <4>2. PICK q \in air : q.from = m /\ q.to = k /\ q.msg.kind = "ClusterInfo"
        BY <3>1 DEF OnItsWay
      <4>3. q \in air'
        BY <2>1, <4>1, <4>2
      <4> QED
        BY <2>2, <3>1, <4>2, <4>3 DEF OnItsWay, NotMissing
    <3>2. CASE NotSent(m) \/ m \in Keys(m_rStableList[k])
      BY <2>2, <3>2 DEF NotMissing, NotSent, Waits, Keys
    <3> QED
      BY <2>3, <3>1, <3>2 DEF NotMissing
  <2>4. BeforeCluster(k)' => BeforeCluster(k)
    BY <2>2 DEF BeforeCluster
  <2>5. losses <= losses'
    BY <1>2, <2>2 DEF TypeOK
  <2> QED
    BY <1>2, <2>3, <2>4, <2>5, HearsNoLess
<1>7. CASE Tick \/ UNCHANGED vars
  <2>1. UNCHANGED <<losses, pending, m_status, m_rStableList>>
        /\ (air = {} \/ UNCHANGED <<now, air>>)
    BY <1>7 DEF Tick, vars, network, events, lists
  <2>2. ASSUME NEW m \in Node \ {k}, NotMissing(m, k) PROVE NotMissing(m, k)'
    BY <2>1, <2>2 DEF NotMissing, NotSent, Waits, Keys, OnItsWay
  <2>3. BeforeCluster(k)' => BeforeCluster(k)
    BY <2>1 DEF BeforeCluster
  <2>4. losses <= losses'
    BY <1>2, <2>1 DEF TypeOK
  <2> QED
    BY <1>2, <2>2, <2>3, <2>4, HearsNoLess
<1> QED
  BY <1>4, <1>5, <1>6, <1>7 DEF Next

LEMMA HearingInit == ASSUME TdmaSchedule PROVE Init => HearingInv
<1> SUFFICES ASSUME Init PROVE HearingInv
  OBVIOUS
<1>1. LifeInv
  BY LifeInit
<1>2. ASSUME NEW n \in Node PROVE Hears(n)
  <2>1. ASSUME NEW m \in Node PROVE NotSent(m)
    <3>1. [uid |-> 1, type |-> "Start", due |-> StartTime[m]] \in pending[m]
      BY DEF Init
    <3> QED
      BY <3>1 DEF NotSent, Waits
  <2>2. Missing(n) = {}
    BY <2>1 DEF Missing, NotMissing
  <2> QED
    BY <2>2, FS_EmptySet DEF Hears, Init
<1> QED
  BY <1>1, <1>2 DEF HearingInv

LEMMA HearingKnows ==
  ASSUME TdmaSchedule, LateStop, FewLosses, HearingInv PROVE KnowsSomebody
<1> SUFFICES ASSUME NEW n \in Node, WindowEnd(n) + Window < now,
                    BeforeCluster(n), Keys(m_rStableList[n]) = {}
             PROVE  FALSE
  BY DEF KnowsSomebody, BeforeCluster
<1>1. TypeOK /\ Hears(n) /\ \A m \in Node : StageInv(m)
  BY DEF HearingInv, LifeInv, TdmaInv, TimedInv, MembershipInv
<1>2. ASSUME NEW m \in Node \ {n} PROVE ~ NotMissing(m, n)
  <2>1. StartTime[m] = StartTime[n]
    BY DEF TdmaSchedule
  <2>2. ~ (now <= WindowEnd(m))
    BY <1>1, <2>1, TimeAssumption, TdmaAssumption DEF TypeOK, WindowEnd, Window
  <2>3. ~ NotSent(m)
    BY <1>1, <2>2, FirstSend
  <2> QED
    BY <2>2, <2>3 DEF NotMissing, OnItsWay
<1>3. Missing(n) = Node \ {n}
  BY <1>2 DEF Missing
<1>4. Cardinality(Node \ {n}) = Cardinality(Node) - 1
  BY NodeAssumption, FS_RemoveElement
<1>5. Cardinality(Node) \in Nat
  BY NodeAssumption, FS_CardinalityType
<1>6. Cardinality(Missing(n)) <= losses
  BY <1>1 DEF Hears
<1> QED
  BY <1>1, <1>3, <1>4, <1>5, <1>6, ChannelAssumption DEF TypeOK, FewLosses

\* Whatever is lost on the channel, nobody is still without a stable
\* neighbour when the requests for an election may come: the first ClusterInfo
\* of every other vehicle would have to be among the lost ones.
THEOREM SomebodyKnown ==
  ASSUME TdmaSchedule, LateStop, InRange, AllStable, FewLosses
  PROVE  Spec => []KnowsSomebody
<1>1. HearingInv => KnowsSomebody
  BY HearingKnows
<1> QED
  BY <1>1, HearingInit, HearingNext, PTL DEF Spec

-----------------------------------------------------------------------------
(***************************************************************************)
(* The windows and the waiting times.  Requests are sent in the third      *)
(* window, no waiting time ends in it, and all end before the stop.        *)
(***************************************************************************)

\* SuitabilityCheck gives no time shorter than the window.
LongWaits == \A w \in WaitingTimes : Window <= w

\* the end of the window in which requests are sent
ThirdEnd(n) == WindowEnd(n) + 2 * Window

Later(n, t) == ThirdEnd(n) < t /\ t < StopTime[n]

Ordered(n) ==
    \A e \in pending[n] :
        /\ e.type = "Send" => e.uid = m_sendEvent[n]
        /\ m_status[n] = "CLUSTER_HEAD_ELECTION" /\ e.type = "Send" =>
              e.due <= ThirdEnd(n)
        /\ e.type = "FormCluster" => Later(n, e.due)
        /\ /\ m_status[n] = "CLUSTER_FORMATION"
           /\ e.type = "Send" \/ e.type = "UpdateNeighbors"
           => Later(n, e.due)

PacketsOrdered ==
    \A p \in air, n \in Node :
        /\ p.msg.kind = "InitiateCluster" => now <= ThirdEnd(n)
        /\ p.msg.kind = "FormCluster" => ThirdEnd(n) < now

Silent(n) == Stopped(n) => \A e \in pending[n] : e.type = "UpdateNeighborList"

SilenceInv ==
    HearingInv /\ PacketsOrdered /\ \A n \in Node : Ordered(n) /\ Silent(n)

LEMMA Times ==
  ASSUME NEW n \in Node
  PROVE  /\ Window \in Nat \ {0} /\ WindowEnd(n) \in Nat /\ ThirdEnd(n) \in Nat
         /\ StartTime[n] \in Nat /\ StopTime[n] \in Nat
         /\ ThirdEnd(n) = WindowEnd(n) + Window + Window
         /\ WindowEnd(n) = StartTime[n] + Window
<1>1. Slot \in Nat \ {0} /\ MaxUes \in Nat \ {0}
  BY TdmaAssumption
<1>2. Window \in Nat \ {0}
  BY <1>1 DEF Window
<1> QED
  BY <1>2, TimeAssumption DEF WindowEnd, ThirdEnd

\* events that the order says nothing about
LEMMA OrderKept ==
  ASSUME NEW n \in Node, Ordered(n), m_status'[n] = m_status[n],
         m_sendEvent'[n] = m_sendEvent[n],
         \A e \in pending'[n] :
            \/ e \in pending[n]
            \/ e.type \in {"InitiateCluster", "UpdateNeighborList", "SendIncident"}
  PROVE  Ordered(n)'
  BY DEF Ordered, Later, ThirdEnd, WindowEnd

\* An election with a stable neighbour lasts beyond the third window.
LEMMA ElectionKeepsOrder ==
  ASSUME TypeOK, LongWaits, LateStop, NEW n \in Node, NEW done,
         StartElection(n, done), Keys(m_rStableList[n]) /= {},
         \A f \in pending[n] \ done : f.type = "Stop",
         WindowEnd(n) + Window < now, now <= ThirdEnd(n), now' = now
  PROVE  Ordered(n)'
<1>1. PICK w \in Nat, d \in Nat :
        /\ w \in SuitabilityCheck(m_currentMobility[n], m_rStableList[n])
        /\ Simulate(n, done, <<After(w, "FormCluster"), After(d, "SendIncident")>>)
  BY ElectionScheduled
<1>2. w \in WaitingTimes
  BY <1>1 DEF SuitabilityCheck
<1>3. Window <= w /\ ThirdEnd(n) + w < StopTime[n]
  BY <1>2 DEF LongWaits, LateStop, ThirdEnd
<1> DEFINE first == Entry(n, 0, w, "FormCluster")
           second == Entry(n, 1, d, "SendIncident")
<1>4. pending'[n] = (pending[n] \ done) \cup {first, second}
  BY <1>1, TwoScheduled
<1>5. first.type = "FormCluster" /\ first.due = now + w
      /\ second.type = "SendIncident"
  BY DEF Entry
<1>6. Later(n, first.due)
  BY <1>1, <1>3, <1>5, Times DEF TypeOK, Later
<1> HIDE DEF first, second
<1> QED
  BY <1>4, <1>5, <1>6 DEF Ordered, Later, ThirdEnd, WindowEnd

LEMMA ApplicationKeepsOrder ==
  ASSUME TypeOK, NEW n \in Node, StageInv(n), Ordered(n), Application(n)
  PROVE  Ordered(n)'
<1>1. CASE StartApplication(n)
  <2>1. PICK e \in Due(n, "Start") :
          Simulate(n, {e}, <<After(TimeWindow[n], "Send")>>)
    BY <1>1 DEF StartApplication
  <2>2. m_status'[n] = "CLUSTER_INITIALIZATION" /\ m_sendEvent'[n] = nextUid[n]
    BY <1>1 DEF StartApplication, TypeOK
  <2>3. \A f \in pending[n] \ {e} : f.type = "Stop"
    BY <2>1, Duties, DutyFound DEF StageInv, Due
  <2> DEFINE new == Entry(n, 0, TimeWindow[n], "Send")
  <2>4. pending'[n] = (pending[n] \ {e}) \cup {new}
    BY <2>1, OneScheduled
  <2>5. new.type = "Send" /\ new.uid = nextUid[n]
    BY DEF Entry, TypeOK
  <2> HIDE DEF new
  <2> QED
    BY <2>2, <2>3, <2>4, <2>5 DEF Ordered
<1>2. CASE StopApplication(n)
  <2>1. PICK e \in Due(n, "Stop") : Simulate(n, {e} \cup Cancelled(n), <<>>)
    BY <1>2 DEF StopApplication
  <2>2. pending'[n] \subseteq pending[n]
    BY <2>1, NothingScheduled
  <2>3. UNCHANGED <<m_status, m_sendEvent>>
    BY <1>2 DEF StopApplication, timers
  <2> QED
    BY <2>2, <2>3, OrderKept
<1> QED
  BY <1>1, <1>2 DEF Application

LEMMA SendKeepsOrder ==
  ASSUME TypeOK, LongWaits, LateStop, KnowsSomebody, NEW n \in Node, EventIds(n),
         StageInv(n), Ordered(n), Send(n)
  PROVE  Ordered(n)'
<1>0. now' = now
  BY ClockStops
<1>1. CASE SendClusterInfo(n)
  <2>1. PICK e \in SendDue(n, "CLUSTER_INITIALIZATION") :
          Simulate(n, {e}, <<After(Slot * MaxUes, "InitiateCluster")>>)
    BY <1>1 DEF SendClusterInfo
  <2>2. UNCHANGED <<m_status, m_sendEvent>>
    BY <1>1 DEF SendClusterInfo, timers
  <2>3. pending'[n] =
          (pending[n] \ {e}) \cup {Entry(n, 0, Slot * MaxUes, "InitiateCluster")}
    BY <2>1, OneScheduled
  <2>4. Entry(n, 0, Slot * MaxUes, "InitiateCluster").type = "InitiateCluster"
    BY DEF Entry
  <2> QED
    BY <2>2, <2>3, <2>4, OrderKept
<1>2. CASE SendInitiateCluster(n)
  <2>1. PICK e \in SendDue(n, "CLUSTER_HEAD_ELECTION") : StartElection(n, {e})
    BY <1>2 DEF SendInitiateCluster
  <2>2. m_status[n] = "CLUSTER_HEAD_ELECTION" /\ e \in pending[n]
        /\ e.type = "Send" /\ e.due = now
    BY <2>1, DueNow DEF SendDue, Due, StageInv
  <2>3. \A f \in pending[n] \ {e} : f.type \in {"Stop", "SendIncident"}
    BY <2>2, Duties, DutyFound DEF StageInv
  <2>4. \A f \in pending[n] \ {e} : f.type = "Stop"
    BY <2>2, <2>3 DEF StageInv, NotYet, Waits
  <2>5. WindowEnd(n) + Window < now /\ now <= ThirdEnd(n)
    BY <2>2 DEF StageInv, InSlot, Ordered
  <2>6. Keys(m_rStableList[n]) /= {}
    BY <2>2, <2>5 DEF KnowsSomebody
  <2> QED
    BY <1>0, <2>1, <2>4, <2>5, <2>6, ElectionKeepsOrder
<1>3. CASE SendFormCluster(n)
  <2>1. PICK e \in SendDue(n, "CLUSTER_FORMATION") :
          Simulate(n, {e}, <<After(0, "UpdateNeighbors"),
                             After(ListUpdateDelay, "UpdateNeighborList")>>)
    BY <1>3 DEF SendFormCluster
  <2>2. UNCHANGED <<m_status, m_sendEvent>>
    BY <1>3 DEF SendFormCluster, timers
  <2>3. m_status[n] = "CLUSTER_FORMATION" /\ e \in pending[n]
        /\ e.type = "Send" /\ e.due = now
    BY <2>1, DueNow DEF SendDue, Due, StageInv
  <2>4. Later(n, now)
    BY <2>3 DEF Ordered
  <2> DEFINE first == Entry(n, 0, 0, "UpdateNeighbors")
             second == Entry(n, 1, ListUpdateDelay, "UpdateNeighborList")
  <2>5. pending'[n] = (pending[n] \ {e}) \cup {first, second}
    BY <2>1, TwoScheduled
  <2>6. first.type = "UpdateNeighbors" /\ first.due = now
        /\ second.type = "UpdateNeighborList"
    BY DEF Entry, TypeOK
  <2> HIDE DEF first, second
  <2> QED
    BY <2>2, <2>3, <2>4, <2>5, <2>6 DEF Ordered, Later, ThirdEnd, WindowEnd
<1>4. CASE SendUpdate(n)
  <2>1. PICK e \in SendDue(n, "CLUSTER_UPDATE") :
          Simulate(n, {e}, <<After(Interval, "Send")>>)
    BY <1>4 DEF SendUpdate
  <2>2. m_status'[n] = "CLUSTER_UPDATE" /\ m_sendEvent'[n] = nextUid[n]
        /\ m_status[n] = "CLUSTER_UPDATE"
    BY <1>4 DEF SendUpdate, SendDue, TypeOK
  <2>3. e \in pending[n] /\ e.type = "Send"
    BY <2>1 DEF SendDue, Due
  <2>4. \A f \in pending[n] \ {e} : f.type /= "Send"
    BY <2>3 DEF Ordered, EventIds
  <2>5. \A f \in pending[n] : f.type /= "FormCluster"
    BY <2>2, Duties DEF StageInv, OneDuty
  <2> DEFINE new == Entry(n, 0, Interval, "Send")
  <2>6. pending'[n] = (pending[n] \ {e}) \cup {new}
    BY <2>1, OneScheduled
  <2>7. new.type = "Send" /\ new.uid = nextUid[n]
    BY DEF Entry, TypeOK
  <2> HIDE DEF new
  <2> QED
    BY <2>2, <2>4, <2>5, <2>6, <2>7 DEF Ordered
<1> QED
  BY <1>1, <1>2, <1>3, <1>4 DEF Send

LEMMA TimerKeepsOrder ==
  ASSUME TypeOK, NEW n \in Node, StageInv(n), Ordered(n), Timer(n)
  PROVE  Ordered(n)'
<1>1. CASE InitiateCluster(n)
  <2>1. PICK e \in Due(n, "InitiateCluster") :
          \/ /\ m_status' = [m_status EXCEPT ![n] = "CLUSTER_HEAD_ELECTION"]
             /\ Simulate(n, {e}, <<After(Slot * MaxUes, "Send")>>)
             /\ m_sendEvent' = [m_sendEvent EXCEPT ![n] = nextUid[n]]
          \/ Simulate(n, {e}, <<>>) /\ UNCHANGED <<m_status, m_sendEvent>>
    BY <1>1 DEF InitiateCluster
  <2>2. CASE Simulate(n, {e}, <<>>) /\ UNCHANGED <<m_status, m_sendEvent>>
    <3>1. pending'[n] \subseteq pending[n]
      BY <2>2, NothingScheduled
    <3> QED
      BY <2>2, <3>1, OrderKept
  <2>3. CASE /\ m_status' = [m_status EXCEPT ![n] = "CLUSTER_HEAD_ELECTION"]
             /\ Simulate(n, {e}, <<After(Slot * MaxUes, "Send")>>)
             /\ m_sendEvent' = [m_sendEvent EXCEPT ![n] = nextUid[n]]
    <3>1. e \in pending[n] /\ e.type = "InitiateCluster" /\ e.due = now
      BY <2>1, DueNow DEF Due, StageInv
    <3>2. now <= WindowEnd(n) + Window
      BY <3>1 DEF StageInv, InSlot
    <3>3. \A f \in pending[n] \ {e} : f.type = "Stop"
      BY <3>1, Duties, DutyFound DEF StageInv
    <3> DEFINE new == Entry(n, 0, Window, "Send")
    <3>4. pending'[n] = (pending[n] \ {e}) \cup {new}
      BY <2>3, OneScheduled DEF Window
    <3>5. new.type = "Send" /\ new.uid = nextUid[n] /\ new.due = now + Window
      BY DEF Entry, TypeOK
    <3>6. new.due <= ThirdEnd(n)
      BY <3>2, <3>5, Times DEF TypeOK
    <3>7. m_status'[n] = "CLUSTER_HEAD_ELECTION" /\ m_sendEvent'[n] = nextUid[n]
      BY <2>3 DEF TypeOK
    <3> HIDE DEF new
    <3> QED
      BY <3>3, <3>4, <3>5, <3>6, <3>7 DEF Ordered, ThirdEnd, WindowEnd
  <2> QED
    BY <2>1, <2>2, <2>3
<1>2. CASE FormCluster(n)
  <2>1. PICK e \in Due(n, "FormCluster") : Simulate(n, {e}, <<After(0, "Send")>>)
    BY <1>2 DEF FormCluster
  <2>2. m_status'[n] = "CLUSTER_FORMATION" /\ m_sendEvent'[n] = nextUid[n]
    BY <1>2 DEF FormCluster, TypeOK
  <2>3. e \in pending[n] /\ e.type = "FormCluster" /\ e.due = now
    BY <2>1, DueNow DEF Due, StageInv
  <2>4. m_status[n] = "CLUSTER_HEAD_ELECTION"
    BY <2>3, DutyFound DEF StageInv
  <2>5. \A f \in pending[n] \ {e} : f.type \in {"Stop", "SendIncident"}
    BY <2>3, <2>4, Duties, DutyFound DEF StageInv
  <2>6. Later(n, now)
    BY <2>3 DEF Ordered
  <2> DEFINE new == Entry(n, 0, 0, "Send")
  <2>7. pending'[n] = (pending[n] \ {e}) \cup {new}
    BY <2>1, OneScheduled
  <2>8. new.type = "Send" /\ new.uid = nextUid[n] /\ new.due = now
    BY DEF Entry, TypeOK
  <2> HIDE DEF new
  <2> QED
    BY <2>2, <2>5, <2>6, <2>7, <2>8 DEF Ordered, Later, ThirdEnd, WindowEnd
<1>3. CASE UpdateNeighbors(n)
  <2>1. PICK e \in Due(n, "UpdateNeighbors") :
          Simulate(n, {e}, <<After(Interval, "Send")>>)
    BY <1>3 DEF UpdateNeighbors
  <2>2. m_status'[n] = "CLUSTER_UPDATE" /\ m_sendEvent'[n] = nextUid[n]
    BY <1>3 DEF UpdateNeighbors, TypeOK
  <2>3. m_status[n] = "CLUSTER_FORMATION"
    BY <2>1, DutyFound DEF StageInv, Due
  <2>4. \A f \in pending[n] \ {e} :
          f.type \in {"Stop", "SendIncident", "UpdateNeighborList"}
    BY <2>1, <2>3, Duties, DutyFound DEF StageInv, Due
  <2> DEFINE new == Entry(n, 0, Interval, "Send")
  <2>5. pending'[n] = (pending[n] \ {e}) \cup {new}
    BY <2>1, OneScheduled
  <2>6. new.type = "Send" /\ new.uid = nextUid[n]
    BY DEF Entry, TypeOK
  <2> HIDE DEF new
  <2> QED
    BY <2>2, <2>4, <2>5, <2>6 DEF Ordered
<1>4. ASSUME NEW e, NEW d, NEW t \in {"UpdateNeighborList", "SendIncident"},
             Simulate(n, {e}, <<After(d, t)>>), UNCHANGED <<m_status, m_sendEvent>>
      PROVE  Ordered(n)'
  <2>1. pending'[n] = (pending[n] \ {e}) \cup {Entry(n, 0, d, t)}
    BY <1>4, OneScheduled
  <2>2. Entry(n, 0, d, t).type = t
    BY DEF Entry
  <2> QED
    BY <1>4, <2>1, <2>2, OrderKept
<1>5. CASE UpdateNeighborList(n)
  <2>1. PICK e \in Due(n, "UpdateNeighborList") :
          Simulate(n, {e}, <<After(Interval, "UpdateNeighborList")>>)
    BY <1>5 DEF UpdateNeighborList
  <2> QED
    BY <1>4, <1>5, <2>1 DEF UpdateNeighborList, timers
<1>6. CASE SendIncident(n)
  <2>1. PICK e \in Due(n, "SendIncident") :
          Simulate(n, {e}, <<After(IncidentWindow, "SendIncident")>>)
    BY <1>6 DEF SendIncident
  <2> QED
    BY <1>4, <1>6, <2>1 DEF SendIncident
<1> QED
  BY <1>1, <1>2, <1>3, <1>5, <1>6 DEF Timer

\* A request is answered with a stable neighbour in mind; who joins has sent
\* its own request long ago, so that it sends nothing twice.
LEMMA HandleReadKeepsOrder ==
  ASSUME TypeOK, LongWaits, LateStop, KnowsSomebody, NEW n \in Node,
         VehicleInv(n), RequestsInTime, PacketsOrdered, StageInv(n), Ordered(n),
         HandleRead(n)
  PROVE  Ordered(n)'
<1>1. CASE HandleClusterInfo(n) \/ HandleIncidentEvent(n)
  <2>1. UNCHANGED <<pending, m_status, m_sendEvent>>
    BY <1>1 DEF HandleClusterInfo, HandleIncidentEvent, events, timers
  <2> QED
    BY <2>1, OrderKept
<1>2. CASE HandleInitiateCluster(n)
  <2>1. UNCHANGED <<now, m_sendEvent>>
    BY <1>2 DEF HandleInitiateCluster
  <2>2. CASE UNCHANGED <<m_status, events>>
    BY <2>1, <2>2, OrderKept DEF events
  <2>3. CASE AcceptsRequest(n) /\ StartElection(n, {})
    <3>1. m_status[n] = "CLUSTER_INITIALIZATION"
      BY <2>3 DEF AcceptsRequest
    <3>2. m_socket[n] /\ WindowEnd(n) + Window < now /\ now <= ThirdEnd(n)
      BY <1>2 DEF HandleInitiateCluster, Inbox, RequestsInTime, PacketsOrdered
    <3>3. Keys(m_rStableList[n]) /= {}
      BY <3>1, <3>2 DEF KnowsSomebody
    <3>4. \A f \in pending[n] \ {} : f.type = "Stop"
      BY <3>1, <3>2, OnlyStopLeft
    <3> QED
      BY <2>1, <2>3, <3>2, <3>3, <3>4, ElectionKeepsOrder
  <2> QED
    BY <1>2, <2>2, <2>3 DEF HandleInitiateCluster
<1>3. CASE HandleFormCluster(n)
  <2>0. PICK p \in Inbox(n, "FormCluster") : TRUE
    BY <1>3 DEF HandleFormCluster
  <2>1. PICK head :
          \/ /\ Joins(n, head)
             /\ m_status' = [m_status EXCEPT ![n] = "CLUSTER_UPDATE"]
             /\ Simulate(n, CancelledByJoin(n),
                         <<After(TimeWindow[n], "Send"),
                           After(ListUpdateDelay, "UpdateNeighborList")>>)
             /\ m_sendEvent' = [m_sendEvent EXCEPT ![n] = nextUid[n]]
          \/ UNCHANGED <<m_status, events, m_sendEvent>>
    BY <1>3 DEF HandleFormCluster
  <2>2. CASE UNCHANGED <<m_status, events, m_sendEvent>>
    BY <2>2, OrderKept DEF events
  <2>3. CASE /\ Joins(n, head)
             /\ m_status' = [m_status EXCEPT ![n] = "CLUSTER_UPDATE"]
             /\ Simulate(n, CancelledByJoin(n),
                         <<After(TimeWindow[n], "Send"),
                           After(ListUpdateDelay, "UpdateNeighborList")>>)
             /\ m_sendEvent' = [m_sendEvent EXCEPT ![n] = nextUid[n]]
    <3>1. m_status[n] = "CLUSTER_HEAD_ELECTION" /\ ThirdEnd(n) < now
      BY <2>0, <2>3 DEF Joins, PacketsOrdered, Inbox
    <3>2. ASSUME NEW f \in pending[n], f.type = "Send" PROVE FALSE
      <4>1. f.due <= ThirdEnd(n) /\ now <= f.due
        BY <3>1, <3>2 DEF Ordered, StageInv, InSlot
      <4>2. f.due \in Nat /\ now \in Nat
        BY DEF TypeOK, Event
      <4> QED
        BY <3>1, <4>1, <4>2, Times
    <3> DEFINE first == Entry(n, 0, TimeWindow[n], "Send")
               second == Entry(n, 1, ListUpdateDelay, "UpdateNeighborList")
    <3>3. pending'[n] = (pending[n] \ CancelledByJoin(n)) \cup {first, second}
      BY <2>3, TwoScheduled
    <3>4. first.type = "Send" /\ first.uid = nextUid[n]
          /\ second.type = "UpdateNeighborList"
      BY DEF Entry, TypeOK
    <3>5. m_status'[n] = "CLUSTER_UPDATE" /\ m_sendEvent'[n] = nextUid[n]
      BY <2>3 DEF TypeOK
    <3> HIDE DEF first, second
    <3> QED
      BY <3>2, <3>3, <3>4, <3>5 DEF Ordered, Later, ThirdEnd, WindowEnd
  <2> QED
    BY <2>1, <2>2, <2>3
<1> QED
  BY <1>1, <1>2, <1>3 DEF HandleRead

LEMMA StepKeepsPackets ==
  ASSUME TypeOK, TdmaSchedule, NEW n \in Node, StageInv(n), Ordered(n),
         PacketsOrdered,
         Application(n) \/ Send(n) \/ Timer(n) \/ HandleRead(n)
  PROVE  PacketsOrdered'
<1>1. now' = now /\ \A m \in Node : ThirdEnd(m) = ThirdEnd(n)
  BY ClockStops DEF TdmaSchedule, ThirdEnd, WindowEnd
<1>2. \A msg : \A p \in Copies(n, msg) : p.msg = msg
  BY DEF Copies
<1>3. CASE \A p \in air' \ air : p.msg.kind \in {"ClusterInfo", "IncidentEvent"}
  BY <1>1, <1>3 DEF PacketsOrdered, ThirdEnd, WindowEnd
<1>4. CASE SendInitiateCluster(n)
  <2>0. PICK e \in SendDue(n, "CLUSTER_HEAD_ELECTION") : TRUE
    BY <1>4 DEF SendInitiateCluster
  <2>1. PICK msg : msg.kind = "InitiateCluster" /\ Transmit(n, msg)
    BY <1>4 DEF SendInitiateCluster, InitiateClusterHeader
  <2>2. now <= ThirdEnd(n)
    BY <2>0, DueNow DEF SendDue, Due, StageInv, Ordered
  <2> QED
    BY <1>1, <1>2, <2>1, <2>2 DEF PacketsOrdered, Transmit, ThirdEnd, WindowEnd
<1>5. CASE SendFormCluster(n)
  <2>0. PICK e \in SendDue(n, "CLUSTER_FORMATION") : TRUE
    BY <1>5 DEF SendFormCluster
  <2>1. PICK msg : msg.kind = "FormCluster" /\ Transmit(n, msg)
    BY <1>5 DEF SendFormCluster, FormClusterHeader
  <2>2. ThirdEnd(n) < now
    BY <2>0, DueNow DEF SendDue, Due, StageInv, Ordered, Later
  <2> QED
    BY <1>1, <1>2, <2>1, <2>2 DEF PacketsOrdered, Transmit, ThirdEnd, WindowEnd
<1>6. CASE SendClusterInfo(n) \/ SendUpdate(n)
  <2>1. PICK msg : msg.kind = "ClusterInfo" /\ Transmit(n, msg)
    BY <1>6 DEF SendClusterInfo, SendUpdate, ClusterInfoHeader
  <2> QED
    BY <1>2, <1>3, <2>1 DEF Transmit
<1>7. CASE SendIncident(n)
  <2>1. PICK msg : msg.kind = "IncidentEvent" /\ Report(n, msg)
    BY <1>7 DEF SendIncident, IncidentEventHeader
  <2> QED
    BY <1>2, <1>3, <2>1 DEF Report, Transmit
<1>8. CASE HandleIncidentEvent(n)
  <2>1. PICK p \in Inbox(n, "IncidentEvent") :
          air' \subseteq air \cup Copies(n, p.msg)
    BY <1>8 DEF HandleIncidentEvent
  <2>2. p.msg.kind = "IncidentEvent"
    BY DEF Inbox
  <2> QED
    BY <1>2, <1>3, <2>1, <2>2
<1>9. CASE air' \subseteq air
  BY <1>3, <1>9
<1> QED
  BY <1>4, <1>5, <1>6, <1>7, <1>8, <1>9
  DEF Send, Application, StartApplication, StopApplication, Timer,
      InitiateCluster, FormCluster, UpdateNeighbors, UpdateNeighborList,
      HandleRead, HandleClusterInfo, HandleInitiateCluster, HandleFormCluster,
      Receive, network

\* What the stop leaves: everything else it cancels, or was over before.
LEMMA StopSilences ==
  ASSUME TypeOK, LateStop, NEW n \in Node, EventIds(n), StageInv(n), Lifetime(n),
         Ordered(n), StopApplication(n)
  PROVE  Silent(n)'
<1>1. PICK e \in Due(n, "Stop") : Simulate(n, {e} \cup Cancelled(n), <<>>)
  BY DEF StopApplication
<1>2. e \in pending[n] /\ e.type = "Stop" /\ e.due <= now
  BY DEF Due
<1>3. StopTime[n] <= now
  BY <1>2 DEF Lifetime
<1>4. PICK w \in WaitingTimes : WindowEnd(n) + 2 * Window + w < StopTime[n]
  BY WaitingTimesAssumption DEF LateStop
<1>5. w \in Nat /\ now \in Nat
  BY WaitingTimesAssumption DEF TypeOK
<1>6. SUFFICES ASSUME NEW f \in pending[n], f /= e, f \notin Cancelled(n)
               PROVE  f.type = "UpdateNeighborList"
  BY <1>1, NothingScheduled DEF Silent
<1>7. f.due \in Nat /\ f.type \in EventType /\ now <= f.due
  BY DEF TypeOK, Event, StageInv, InSlot
<1>8. f.type /= "Stop"
  BY <1>2, <1>6 DEF Lifetime
<1>9. f.type /= "Send" /\ f.type /= "SendIncident"
  BY <1>6 DEF Cancelled, Tracked, Ordered, StageInv, TimersTracked
<1>10. f.type /= "Start"
  <2> SUFFICES ASSUME f.type = "Start" PROVE FALSE
    OBVIOUS
  <2>1. f.due = StartTime[n]
    BY DEF StageInv, InSlot
  <2> QED
    BY <1>3, <1>5, <1>7, <2>1, TimeAssumption
<1>11. f.type /= "InitiateCluster"
  <2> SUFFICES ASSUME f.type = "InitiateCluster" PROVE FALSE
    OBVIOUS
  <2>1. f.due <= WindowEnd(n) + Window
    BY DEF StageInv, InSlot
  <2> QED
    BY <1>3, <1>4, <1>5, <1>7, <2>1, Times
<1>12. f.type /= "FormCluster" /\ f.type /= "UpdateNeighbors"
  <2> SUFFICES ASSUME f.type \in {"FormCluster", "UpdateNeighbors"} PROVE FALSE
    OBVIOUS
  <2>1. f.type = "UpdateNeighbors" => m_status[n] = "CLUSTER_FORMATION"
    BY DutyFound DEF StageInv
  <2>2. f.due < StopTime[n]
    BY <2>1 DEF Ordered, Later
  <2> QED
    BY <1>3, <1>5, <1>7, <2>2, Times
<1> QED
  BY <1>7, <1>8, <1>9, <1>10, <1>11, <1>12 DEF EventType

\* All a vehicle does after its stop is look after its lists.
LEMMA StoppedStep ==
  ASSUME NEW n \in Node, Silent(n), Stopped(n),
         Application(n) \/ Send(n) \/ Timer(n) \/ HandleRead(n)
  PROVE  UpdateNeighborList(n)
<1>1. ~ m_socket[n] /\ \A e \in pending[n] : e.type = "UpdateNeighborList"
  BY DEF Silent, Stopped
<1>2. /\ Due(n, "Start") = {} /\ Due(n, "Stop") = {} /\ Due(n, "Send") = {}
      /\ Due(n, "InitiateCluster") = {} /\ Due(n, "FormCluster") = {}
      /\ Due(n, "UpdateNeighbors") = {} /\ Due(n, "SendIncident") = {}
  BY <1>1 DEF Due
<1>3. ~ Application(n)
  BY <1>2 DEF Application, StartApplication, StopApplication
<1>4. ~ Send(n)
  BY <1>2 DEF Send, SendClusterInfo, SendInitiateCluster, SendFormCluster,
              SendUpdate, SendDue
<1>5. ~ HandleRead(n)
  BY <1>1 DEF HandleRead, HandleClusterInfo, HandleInitiateCluster,
              HandleFormCluster, HandleIncidentEvent, Inbox
<1> QED
  BY <1>2, <1>3, <1>4, <1>5
  DEF Timer, InitiateCluster, FormCluster, UpdateNeighbors, SendIncident

LEMMA StepKeepsSilence ==
  ASSUME TypeOK, LateStop, NEW n \in Node, VehicleInv(n), EventIds(n),
         StageInv(n), Lifetime(n), Ordered(n), Silent(n),
         Application(n) \/ Send(n) \/ Timer(n) \/ HandleRead(n)
  PROVE  Silent(n)'
<1>1. CASE StartApplication(n)
  BY <1>1 DEF StartApplication, TypeOK, Silent, Stopped
<1>2. CASE StopApplication(n)
  BY <1>2, StopSilences
<1>3. CASE Send(n) \/ Timer(n) \/ HandleRead(n)
  <2>1. UNCHANGED m_socket
    BY <1>3
    DEF Send, SendClusterInfo, SendInitiateCluster, SendFormCluster, SendUpdate,
        Timer, InitiateCluster, FormCluster, UpdateNeighbors, UpdateNeighborList,
        SendIncident, HandleRead, HandleClusterInfo, HandleInitiateCluster,
        HandleFormCluster, HandleIncidentEvent
  <2>2. CASE Waits(n, {"Start"})
    BY <1>1, <1>2, <2>2, StartFirst DEF Application
  <2>3. CASE ~ Waits(n, {"Start"}) /\ m_socket[n]
    BY <2>1, <2>3 DEF Silent, Stopped
  <2>4. CASE ~ Waits(n, {"Start"}) /\ ~ m_socket[n]
    <3>1. \A e \in pending[n] : e.type = "UpdateNeighborList"
      BY <2>4 DEF Silent, Stopped
    <3>2. UpdateNeighborList(n)
      BY <2>4, StoppedStep DEF Stopped
    <3>3. PICK e \in Due(n, "UpdateNeighborList") :
            Simulate(n, {e}, <<After(Interval, "UpdateNeighborList")>>)
      BY <3>2 DEF UpdateNeighborList
    <3>4. pending'[n] = (pending[n] \ {e})
             \cup {Entry(n, 0, Interval, "UpdateNeighborList")}
      BY <3>3, OneScheduled
    <3>5. Entry(n, 0, Interval, "UpdateNeighborList").type = "UpdateNeighborList"
      BY DEF Entry
    <3> QED
      BY <3>1, <3>4, <3>5 DEF Silent
  <2> QED
    BY <2>2, <2>3, <2>4
<1> QED
  BY <1>1, <1>2, <1>3 DEF Application

LEMMA SilenceInit == ASSUME TdmaSchedule PROVE Init => SilenceInv
<1> SUFFICES ASSUME Init PROVE SilenceInv
  OBVIOUS
<1>1. HearingInv /\ PacketsOrdered
  BY HearingInit DEF Init, PacketsOrdered
<1>2. ASSUME NEW n \in Node PROVE Ordered(n) /\ Silent(n)
  <2>1. pending[n] = {[uid |-> 1, type |-> "Start", due |-> StartTime[n]],
                      [uid |-> 2, type |-> "Stop", due |-> StopTime[n]]}
    BY DEF Init
  <2> QED
    BY <2>1 DEF Ordered, Silent, Stopped, Waits
<1> QED
  BY <1>1, <1>2 DEF SilenceInv

LEMMA SilenceNext ==
  ASSUME TdmaSchedule, LateStop, InRange, AllStable, FewLosses, LongWaits
  PROVE  SilenceInv /\ [Next]_vars => SilenceInv'
<1> SUFFICES ASSUME SilenceInv, [Next]_vars PROVE SilenceInv'
  OBVIOUS
<1>1. HearingInv' /\ KnowsSomebody
  BY HearingNext, HearingKnows DEF SilenceInv
<1>2. /\ TypeOK /\ RequestsInTime /\ PacketsOrdered
      /\ \A n \in Node : /\ VehicleInv(n) /\ EventIds(n) /\ StageInv(n)
                         /\ Lifetime(n) /\ Ordered(n) /\ Silent(n)
  BY DEF SilenceInv, HearingInv, LifeInv, TdmaInv, TimedInv, MembershipInv
<1>3. CASE \E n \in Node : Application(n) \/ Send(n) \/ Timer(n) \/ HandleRead(n)
  <2>1. PICK n \in Node : Application(n) \/ Send(n) \/ Timer(n) \/ HandleRead(n)
    BY <1>3
  <2>2. Ordered(n)'
    BY <1>1, <1>2, <2>1, ApplicationKeepsOrder, SendKeepsOrder, TimerKeepsOrder,
       HandleReadKeepsOrder
  <2>3. Silent(n)' /\ PacketsOrdered'
    BY <1>2, <2>1, StepKeepsSilence, StepKeepsPackets
  <2>4. ASSUME NEW m \in Node \ {n} PROVE Ordered(m)' /\ Silent(m)'
    <3>1. Untouched(m) /\ Idle(m)
      BY <1>2, <2>1, OthersUntouched, OthersIdle
    <3> QED
      BY <1>2, <3>1 DEF Untouched, Idle, Ordered, Later, ThirdEnd, WindowEnd,
                        Silent, Stopped, Waits
  <2> QED
    BY <1>1, <2>2, <2>3, <2>4 DEF SilenceInv
<1>4. CASE NoListener \/ Lose \/ Tick \/ UNCHANGED vars
  <2>1. UNCHANGED <<pending, m_socket, m_status, m_sendEvent>>
        /\ ((air = {} /\ air' = {}) \/ (now' = now /\ air' \subseteq air))
    BY <1>4 DEF NoListener, Receive, Lose, Tick, vars, network, events, timers
  <2>2. \A n \in Node : Ordered(n)' /\ Silent(n)'
    BY <1>2, <2>1 DEF Ordered, Later, ThirdEnd, WindowEnd, Silent, Stopped, Waits
  <2>3. PacketsOrdered'
    BY <1>2, <2>1 DEF PacketsOrdered, ThirdEnd, WindowEnd
  <2> QED
    BY <1>1, <2>2, <2>3 DEF SilenceInv
<1> QED
  BY <1>3, <1>4 DEF Next

\* The inductive invariant behind NoNullSocketUse: a Send left over, and an
\* incident that is due before its vehicle has its place, are what could meet
\* a null socket.
THEOREM SilenceInvariant ==
  ASSUME TdmaSchedule, LateStop, InRange, AllStable, FewLosses, LongWaits
  PROVE  Spec => []SilenceInv
<1> QED
  BY SilenceInit, SilenceNext, PTL DEF Spec

\* No handler dereferences a null socket: Send does not run after the stop,
\* and SendIncident not before the vehicle has its place, which it reports
\* through the broadcast socket or, a member, through the one of its head.
THEOREM NoNullSocketUseHolds ==
  ASSUME TdmaSchedule, LateStop, InRange, AllStable, FewLosses, LongWaits,
         WindowOutlastsWaiting
  PROVE  Spec => []NoNullSocketUse
<1>1. SilenceInv /\ FormsOnce /\ MemberKnowsItsHead => NoNullSocketUse
  <2> SUFFICES ASSUME SilenceInv, FormsOnce, MemberKnowsItsHead, NEW n \in Node
               PROVE  /\ Due(n, "Send") /= {} => m_socket[n]
                      /\ Due(n, "SendIncident") /= {} =>
                            IF m_currentMobility[n].degree = "CM"
                            THEN m_socketIncident[n] /= Null
                            ELSE m_socket[n]
    BY DEF NoNullSocketUse
  <2>1. TypeOK /\ StageInv(n) /\ Silent(n)
    BY DEF SilenceInv, HearingInv, LifeInv, TdmaInv, TimedInv, MembershipInv
  <2>2. ~ m_socket[n] => Due(n, "Send") = {} /\ Due(n, "SendIncident") = {}
    <3>1. CASE Waits(n, {"Start"})
      <4>1. PICK s \in pending[n] : s.type = "Start"
        BY <3>1 DEF Waits
      <4>2. \A f \in pending[n] : f.type \in {"Start", "Stop"}
        BY <2>1, <4>1, Duties, DutyFound DEF StageInv
      <4> QED
        BY <4>2 DEF Due
    <3>2. CASE ~ Waits(n, {"Start"})
      BY <2>1, <3>2 DEF Silent, Stopped, Due
    <3> QED
      BY <3>1, <3>2
  <2>3. Due(n, "SendIncident") /= {} /\ m_currentMobility[n].degree = "CM" =>
           m_socketIncident[n] /= Null
    BY DEF FormsOnce, MemberKnowsItsHead
  <2> QED
    BY <2>2, <2>3
<1> QED
  BY <1>1, SilenceInvariant, FormsOnceHolds, MemberKnows, PTL

-----------------------------------------------------------------------------
(***************************************************************************)
(* How old the neighbours are, whoever hears whom.  A settled vehicle      *)
(* dates itself at its Send and purges its lists at its                    *)
(* UpdateNeighborList.  When it purges, it has dated itself within the     *)
(* last interval; so what it keeps is outdated by the limit and an         *)
(* interval at most, and by another one when it purges again.              *)
(***************************************************************************)

\* what a vehicle that has just joined sends comes before its first purge,
\* which is half a second away or more
ShortWindow == Window <= 500

FirstUpdate(t) == 1000 * (t \div 1000) + 1500

OwnTime(n) == m_currentMobility[n].ts

\* one of those who wait has waited by then
FormsBy(n, t) == \E w \in Waitings : t <= ThirdEnd(n) + w

FormsInTime(n) ==
    \A e \in pending[n] :
        /\ m_status[n] = "CLUSTER_HEAD_ELECTION" /\ e.type = "Send" =>
              e.due <= ThirdEnd(n)
        /\ \/ e.type \in {"FormCluster", "UpdateNeighbors"}
           \/ m_status[n] = "CLUSTER_FORMATION" /\ e.type = "Send"
           => FormsBy(n, e.due)

Forming(n) ==
    \A e, f \in pending[n] :
        e.type = "UpdateNeighbors" /\ f.type = "UpdateNeighborList" =>
            OwnTime(n) = e.due /\ f.due = FirstUpdate(e.due)

\* A vehicle that purges at time t dates itself before that, or has dated
\* itself so late that its next Send is not yet due.
DatesItself(n, t) ==
    \E f \in Sends(n) : f.due <= OwnTime(n) + Interval \/ f.due < t

\* At t it purges for the first time, or what it has kept is recent until then.
RecentUntil(n, t) ==
    \/ \E w \in Waitings : t <= ThirdEnd(n) + w + 1500
    \/ /\ t <= now + Interval
       /\ \A k \in Keys(m_2rStableList[n]) :
             t - m_2rStableList[n][k].ts <= 1200 + 2 * Interval

Purging(n) ==
    Settled(n) /\ m_socket[n] =>
        \A e \in pending[n] : e.type = "UpdateNeighborList" =>
            DatesItself(n, e.due) /\ RecentUntil(n, e.due)

Rounds(n) ==
    /\ m_status[n] /= "CLUSTER_INITIALIZATION" => WindowEnd(n) < now
    /\ FormsInTime(n) /\ Forming(n) /\ Purging(n)

PacketsTimely ==
    \A p \in air, n \in Node :
        /\ p.msg.kind = "ClusterInfo" =>
              p.msg.info.ts = now \/ now <= WindowEnd(n)
        /\ p.msg.kind = "InitiateCluster" => now <= ThirdEnd(n)
        /\ p.msg.kind = "FormCluster" => FormsBy(n, now)

RoundsInv == TdmaInv /\ LagInv /\ PacketsTimely /\ \A n \in Node : Rounds(n)

\* the data of a vehicle and its neighbours that the rounds speak of
LEMMA RoundTypes ==
  ASSUME TypeOK, NEW n \in Node
  PROVE  /\ OwnTime(n) \in Nat /\ now \in Nat /\ Interval \in Nat \ {0}
         /\ \A k \in Keys(m_2rStableList[n]) : m_2rStableList[n][k].ts \in Nat
         /\ \A e \in pending[n] : e.due \in Nat
<1>1. OwnTime(n) \in Nat
  BY DEF TypeOK, OwnTime, NeighborInfo
<1>2. ASSUME NEW k \in Keys(m_2rStableList[n]) PROVE m_2rStableList[n][k].ts \in Nat
  <2>1. m_2rStableList[n][k] \in NeighborInfo
    BY DEF TypeOK, Keys, NeighborList
  <2> QED
    BY <2>1 DEF NeighborInfo
<1>3. \A e \in pending[n] : e.due \in Nat
  BY DEF TypeOK, Event
<1> QED
  BY <1>1, <1>2, <1>3, TimeAssumption DEF TypeOK

LEMMA WaitingsType == \A w \in Waitings : w \in Nat
<1> SUFFICES ASSUME NEW w \in Waitings PROVE w \in Nat
  OBVIOUS
<1>1. CASE w \in WaitingTimes
  BY <1>1, WaitingTimesAssumption
<1>2. CASE \E n \in Node : w = 1000 * n
  BY <1>2, NodeAssumption
<1> QED
  BY <1>1, <1>2 DEF Waitings

LEMMA WaitingsFound ==
  ASSUME TypeOK, NEW n \in Node,
         NEW w \in SuitabilityCheck(m_currentMobility[n], m_rStableList[n])
  PROVE  w \in Waitings
<1>1. m_currentMobility[n].imsi \in Node
  BY DEF TypeOK, NeighborInfo
<1> QED
  BY <1>1 DEF SuitabilityCheck, Waitings

LEMMA FirstUpdateTime ==
  ASSUME NEW t \in Nat
  PROVE  FirstUpdate(t) \in Nat /\ t + 500 < FirstUpdate(t)
         /\ FirstUpdate(t) <= t + 1500
<1>1. t = 1000 * (t \div 1000) + (t % 1000) /\ t % 1000 \in 0..999
      /\ t \div 1000 \in Nat
  OBVIOUS
<1> QED
  BY <1>1 DEF FirstUpdate

\* A cluster that forms now is purged for the first time in 1.5 s at most.
LEMMA FirstIsRecent ==
  ASSUME TypeOK, NEW n \in Node, FormsBy(n, now)
  PROVE  \E w \in Waitings : FirstUpdate(now) <= ThirdEnd(n) + w + 1500
<1>1. PICK w \in Waitings : now <= ThirdEnd(n) + w
  BY DEF FormsBy
<1>2. w \in Nat /\ ThirdEnd(n) \in Nat /\ now \in Nat
  BY WaitingsType, Times DEF TypeOK
<1>3. FirstUpdate(now) \in Nat /\ FirstUpdate(now) <= now + 1500
  BY <1>2, FirstUpdateTime
<1> QED
  BY <1>1, <1>2, <1>3

\* Time passes, and events come and go that the rounds do not know.
LEMMA RoutineKeepsRounds ==
  ASSUME NEW n \in Node, Rounds(n), now \in Nat, now' \in Nat, Interval \in Nat,
         WindowEnd(n) \in Nat, \A e \in pending[n] : e.due \in Nat,
         now <= now', m_status'[n] = m_status[n],
         m_socket'[n] => m_socket[n], OwnTime(n)' = OwnTime(n),
         m_2rStableList'[n] = m_2rStableList[n],
         \A e \in pending'[n] : \/ e \in pending[n]
                                \/ e.type \in {"InitiateCluster", "SendIncident"},
         Settled(n) /\ m_socket'[n] => Sends(n) \subseteq pending'[n]
  PROVE  Rounds(n)'
<1>1. FormsInTime(n)' /\ Forming(n)'
  BY DEF Rounds, FormsInTime, FormsBy, ThirdEnd, WindowEnd, Forming
<1>2. Purging(n)'
  <2> SUFFICES ASSUME Settled(n)', m_socket'[n], NEW e \in pending'[n],
                      e.type = "UpdateNeighborList"
               PROVE  DatesItself(n, e.due)' /\ RecentUntil(n, e.due)'
    BY DEF Purging
  <2>1. e \in pending[n] /\ Settled(n) /\ m_socket[n]
    BY DEF Settled
  <2>2. DatesItself(n, e.due) /\ RecentUntil(n, e.due)
    BY <2>1 DEF Rounds, Purging
  <2>3. DatesItself(n, e.due)'
    BY <2>1, <2>2 DEF DatesItself, Sends
  <2>4. RecentUntil(n, e.due)'
    <3>1. e.due <= now + Interval => e.due <= now' + Interval
      BY <2>1
    <3> QED
      BY <2>2, <3>1 DEF RecentUntil, ThirdEnd, WindowEnd, Keys
  <2> QED
    BY <2>3, <2>4
<1>3. m_status'[n] /= "CLUSTER_INITIALIZATION" => WindowEnd(n)' < now'
  BY DEF Rounds, WindowEnd
<1> QED
  BY <1>1, <1>2, <1>3 DEF Rounds

LEMMA IdleKeepsRounds ==
  ASSUME TypeOK, NEW n \in Node, Rounds(n), now' = now,
         m_status'[n] = m_status[n], m_socket'[n] => m_socket[n],
         OwnTime(n)' = OwnTime(n), m_2rStableList'[n] = m_2rStableList[n],
         \A e \in pending'[n] : \/ e \in pending[n]
                                \/ e.type \in {"InitiateCluster", "SendIncident"},
         Settled(n) /\ m_socket'[n] => Sends(n) \subseteq pending'[n]
  PROVE  Rounds(n)'
  BY RoundTypes, Times, RoutineKeepsRounds

LEMMA ApplicationKeepsRounds ==
  ASSUME TypeOK, NEW n \in Node, StageInv(n), Rounds(n), Application(n)
  PROVE  Rounds(n)'
<1>1. CASE StopApplication(n)
  <2>1. PICK e \in Due(n, "Stop") : Simulate(n, {e} \cup Cancelled(n), <<>>)
    BY <1>1 DEF StopApplication
  <2>2. pending'[n] \subseteq pending[n]
    BY <2>1, NothingScheduled
  <2>3. /\ UNCHANGED <<now, m_status, m_2rStableList>>
        /\ OwnTime(n)' = OwnTime(n) /\ ~ m_socket'[n]
    BY <1>1 DEF StopApplication, lists, OwnTime, TypeOK
  <2> QED
    BY <2>2, <2>3, IdleKeepsRounds
<1>2. CASE StartApplication(n)
  <2>1. PICK e \in Due(n, "Start") :
          Simulate(n, {e}, <<After(TimeWindow[n], "Send")>>)
    BY <1>2 DEF StartApplication
  <2>2. m_status'[n] = "CLUSTER_INITIALIZATION"
    BY <1>2 DEF StartApplication, TypeOK
  <2>3. \A f \in pending[n] \ {e} : f.type = "Stop"
    BY <2>1, Duties, DutyFound DEF StageInv, Due
  <2> DEFINE new == Entry(n, 0, TimeWindow[n], "Send")
  <2>4. pending'[n] = (pending[n] \ {e}) \cup {new}
    BY <2>1, OneScheduled
  <2>5. new.type = "Send"
    BY DEF Entry
  <2> HIDE DEF new
  <2> QED
    BY <2>2, <2>3, <2>4, <2>5 DEF Rounds, FormsInTime, Forming, Purging, Settled
<1> QED
  BY <1>1, <1>2 DEF Application

\* A waiting time that begins in the third window ends in time.
LEMMA ElectionKeepsRounds ==
  ASSUME TypeOK, NEW n \in Node, NEW done, StartElection(n, done),
         \A f \in pending[n] \ done : f.type = "Stop",
         WindowEnd(n) < now, now <= ThirdEnd(n), now' = now,
         m_status'[n] = "CLUSTER_HEAD_ELECTION"
  PROVE  Rounds(n)'
<1>1. PICK w \in Nat, d \in Nat :
        /\ w \in SuitabilityCheck(m_currentMobility[n], m_rStableList[n])
        /\ Simulate(n, done, <<After(w, "FormCluster"), After(d, "SendIncident")>>)
  BY ElectionScheduled
<1>2. w \in Waitings
  BY <1>1, WaitingsFound
<1> DEFINE first == Entry(n, 0, w, "FormCluster")
           second == Entry(n, 1, d, "SendIncident")
<1>3. pending'[n] = (pending[n] \ done) \cup {first, second}
  BY <1>1, TwoScheduled
<1>4. first.type = "FormCluster" /\ first.due = now + w
      /\ second.type = "SendIncident"
  BY DEF Entry
<1> HIDE DEF first, second
<1>5. first.due <= ThirdEnd(n) + w
  BY <1>1, <1>4, Times DEF TypeOK
<1>6. WindowEnd(n)' = WindowEnd(n) /\ ThirdEnd(n)' = ThirdEnd(n)
  BY DEF ThirdEnd, WindowEnd
<1>7. FormsInTime(n)'
  BY <1>2, <1>3, <1>4, <1>5, <1>6 DEF FormsInTime, FormsBy
<1>8. Forming(n)' /\ Purging(n)'
  BY <1>3, <1>4 DEF Forming, Purging, Settled
<1> QED
  BY <1>6, <1>7, <1>8 DEF Rounds

\* A vehicle that forms a cluster dates itself.
LEMMA SendFormClusterKeepsRounds ==
  ASSUME TypeOK, NEW n \in Node, StageInv(n), Rounds(n), SendFormCluster(n)
  PROVE  Rounds(n)'
<1>1. PICK e \in SendDue(n, "CLUSTER_FORMATION") :
        /\ Simulate(n, {e}, <<After(0, "UpdateNeighbors"),
                              After(ListUpdateDelay, "UpdateNeighborList")>>)
        /\ m_currentMobility' =
              [m_currentMobility EXCEPT ![n] = AsHead(n, AcquireMobilityInfo(n))]
  BY DEF SendFormCluster
<1>2. m_status'[n] = "CLUSTER_FORMATION" /\ now' = now
      /\ m_status[n] = "CLUSTER_FORMATION"
  BY DEF SendFormCluster, SendDue
<1>3. e \in pending[n] /\ e.type = "Send" /\ e.due = now
  BY <1>1, DueNow DEF SendDue, Due, StageInv
<1>4. \A f \in pending[n] \ {e} : f.type \in {"Stop", "SendIncident"}
  BY <1>2, <1>3, Duties, DutyFound DEF StageInv, NotYet, Waits
<1>5. FormsBy(n, now) /\ now \in Nat
  BY <1>2, <1>3 DEF Rounds, FormsInTime, TypeOK
<1> DEFINE first == Entry(n, 0, 0, "UpdateNeighbors")
           second == Entry(n, 1, ListUpdateDelay, "UpdateNeighborList")
<1>6. pending'[n] = (pending[n] \ {e}) \cup {first, second}
  BY <1>1, TwoScheduled
<1>7. first.type = "UpdateNeighbors" /\ first.due = now
      /\ second.type = "UpdateNeighborList" /\ second.due = FirstUpdate(now)
  BY <1>5 DEF Entry, ListUpdateDelay, FirstUpdate
<1> HIDE DEF first, second
<1>8. OwnTime(n)' = now
  BY <1>1 DEF OwnTime, AsHead, AcquireMobilityInfo, TypeOK, NeighborInfo
<1>9. FormsBy(n, now)'
  BY <1>2, <1>5 DEF FormsBy, ThirdEnd, WindowEnd
<1>10. FormsInTime(n)'
  BY <1>2, <1>4, <1>6, <1>7, <1>9 DEF FormsInTime
<1>11. Forming(n)'
  BY <1>4, <1>6, <1>7, <1>8 DEF Forming
<1>12. Purging(n)' /\ WindowEnd(n)' < now'
  BY <1>2 DEF Rounds, Purging, Settled, WindowEnd
<1> QED
  BY <1>10, <1>11, <1>12 DEF Rounds

\* The Send that follows is due an interval after the vehicle dated itself.
LEMMA SendUpdateKeepsRounds ==
  ASSUME TypeOK, NEW n \in Node, StageInv(n), Rounds(n), SendUpdate(n)
  PROVE  Rounds(n)'
<1>1. PICK e \in SendDue(n, "CLUSTER_UPDATE") :
        /\ Simulate(n, {e}, <<After(Interval, "Send")>>)
        /\ m_currentMobility' =
              [m_currentMobility EXCEPT ![n] = AcquireMobilityInfo(n)]
  BY DEF SendUpdate
<1>2. m_status'[n] = "CLUSTER_UPDATE" /\ now' = now /\ m_socket' = m_socket
      /\ m_2rStableList' = m_2rStableList /\ m_status[n] = "CLUSTER_UPDATE"
  BY DEF SendUpdate, SendDue, lists
<1>3. \A f \in pending[n] : f.type \notin {"FormCluster", "UpdateNeighbors"}
  BY <1>2, Duties DEF StageInv, OneDuty
<1> DEFINE new == Entry(n, 0, Interval, "Send")
<1>4. pending'[n] = (pending[n] \ {e}) \cup {new}
  BY <1>1, OneScheduled
<1>5. new.type = "Send" /\ new.due = now + Interval
  BY DEF Entry
<1> HIDE DEF new
<1>6. OwnTime(n)' = now
  BY <1>1 DEF OwnTime, AcquireMobilityInfo, TypeOK, NeighborInfo
<1>7. FormsInTime(n)' /\ Forming(n)' /\ WindowEnd(n)' < now'
  BY <1>2, <1>3, <1>4, <1>5 DEF FormsInTime, Forming, Rounds, WindowEnd
<1>8. \A t : DatesItself(n, t)'
  <2>1. new.due <= now + Interval
    BY <1>5, RoundTypes
  <2> QED
    BY <1>4, <1>5, <1>6, <2>1 DEF DatesItself, Sends
<1>9. \A t : RecentUntil(n, t) => RecentUntil(n, t)'
  BY <1>2 DEF RecentUntil, ThirdEnd, WindowEnd, Keys
<1>10. Purging(n)'
  BY <1>2, <1>4, <1>5, <1>8, <1>9 DEF Rounds, Purging, Settled
<1> QED
  BY <1>7, <1>10 DEF Rounds

LEMMA SendKeepsRounds ==
  ASSUME TypeOK, NEW n \in Node, StageInv(n), Rounds(n), Send(n)
  PROVE  Rounds(n)'
<1>1. CASE SendClusterInfo(n)
  <2>1. PICK e \in SendDue(n, "CLUSTER_INITIALIZATION") :
          Simulate(n, {e}, <<After(Slot * MaxUes, "InitiateCluster")>>)
    BY <1>1 DEF SendClusterInfo
  <2>2. UNCHANGED <<now, m_socket, m_status, m_2rStableList>>
        /\ OwnTime(n)' = OwnTime(n) /\ ~ Settled(n)
    BY <1>1 DEF SendClusterInfo, lists, OwnTime, SendDue, Settled
  <2>3. pending'[n] =
          (pending[n] \ {e}) \cup {Entry(n, 0, Slot * MaxUes, "InitiateCluster")}
    BY <2>1, OneScheduled
  <2>4. Entry(n, 0, Slot * MaxUes, "InitiateCluster").type = "InitiateCluster"
    BY DEF Entry
  <2> QED
    BY <2>2, <2>3, <2>4, IdleKeepsRounds
<1>2. CASE SendInitiateCluster(n)
  <2>1. PICK e \in SendDue(n, "CLUSTER_HEAD_ELECTION") : StartElection(n, {e})
    BY <1>2 DEF SendInitiateCluster
  <2>2. m_status[n] = "CLUSTER_HEAD_ELECTION" /\ e \in pending[n]
        /\ e.type = "Send" /\ e.due = now
    BY <2>1, DueNow DEF SendDue, Due, StageInv
  <2>3. \A f \in pending[n] \ {e} : f.type \in {"Stop", "SendIncident"}
    BY <2>2, Duties, DutyFound DEF StageInv
  <2>4. \A f \in pending[n] \ {e} : f.type = "Stop"
    BY <2>2, <2>3 DEF StageInv, NotYet, Waits
  <2>5. WindowEnd(n) < now /\ now <= ThirdEnd(n)
    BY <2>2 DEF Rounds, FormsInTime
  <2>6. UNCHANGED <<now, m_status>>
    BY <1>2 DEF SendInitiateCluster
  <2> QED
    BY <2>1, <2>2, <2>4, <2>5, <2>6, ElectionKeepsRounds
<1> QED
  BY <1>1, <1>2, SendFormClusterKeepsRounds, SendUpdateKeepsRounds DEF Send

LEMMA InitiateClusterKeepsRounds ==
  ASSUME TypeOK, NEW n \in Node, StageInv(n), Rounds(n), InitiateCluster(n)
  PROVE  Rounds(n)'
<1>1. PICK e \in Due(n, "InitiateCluster") :
        \/ /\ m_status' = [m_status EXCEPT ![n] = "CLUSTER_HEAD_ELECTION"]
           /\ Simulate(n, {e}, <<After(Slot * MaxUes, "Send")>>)
        \/ Simulate(n, {e}, <<>>) /\ UNCHANGED m_status
  BY DEF InitiateCluster
<1>2. UNCHANGED <<now, m_socket, m_2rStableList>> /\ OwnTime(n)' = OwnTime(n)
  BY DEF InitiateCluster, lists, OwnTime
<1>3. e \in pending[n] /\ e.type = "InitiateCluster" /\ e.due = now
      /\ m_status[n] = "CLUSTER_INITIALIZATION"
  BY DueNow, DutyFound DEF Due, StageInv
<1>4. CASE Simulate(n, {e}, <<>>) /\ UNCHANGED m_status
  <2>1. pending'[n] \subseteq pending[n]
    BY <1>4, NothingScheduled
  <2> QED
    BY <1>2, <1>3, <1>4, <2>1, IdleKeepsRounds DEF Settled
<1>5. CASE /\ m_status' = [m_status EXCEPT ![n] = "CLUSTER_HEAD_ELECTION"]
           /\ Simulate(n, {e}, <<After(Slot * MaxUes, "Send")>>)
  <2>1. \A f \in pending[n] \ {e} : f.type = "Stop"
    BY <1>3, Duties, DutyFound DEF StageInv
  <2>2. m_status'[n] = "CLUSTER_HEAD_ELECTION"
    BY <1>5 DEF TypeOK
  <2> DEFINE new == Entry(n, 0, Window, "Send")
  <2>3. pending'[n] = (pending[n] \ {e}) \cup {new}
    BY <1>5, OneScheduled DEF Window
  <2>4. new.type = "Send" /\ new.due = now + Window
    BY DEF Entry
  <2> HIDE DEF new
  <2>5. WindowEnd(n) < now /\ now <= WindowEnd(n) + Window
    BY <1>3 DEF StageInv, InSlot
  <2>6. new.due <= ThirdEnd(n)
    BY <2>4, <2>5, Times DEF TypeOK
  <2>7. WindowEnd(n)' = WindowEnd(n) /\ ThirdEnd(n)' = ThirdEnd(n)
    BY DEF ThirdEnd, WindowEnd
  <2>8. FormsInTime(n)'
    BY <2>1, <2>2, <2>3, <2>4, <2>6, <2>7 DEF FormsInTime
  <2> QED
    BY <1>2, <2>1, <2>2, <2>3, <2>4, <2>5, <2>7, <2>8
    DEF Rounds, Forming, Purging, Settled
<1> QED
  BY <1>1, <1>4, <1>5

LEMMA FormClusterKeepsRounds ==
  ASSUME TypeOK, NEW n \in Node, StageInv(n), Rounds(n), FormCluster(n)
  PROVE  Rounds(n)'
<1>1. PICK e \in Due(n, "FormCluster") : Simulate(n, {e}, <<After(0, "Send")>>)
  BY DEF FormCluster
<1>2. m_status'[n] = "CLUSTER_FORMATION" /\ now' = now
  BY DEF FormCluster, TypeOK
<1>3. e \in pending[n] /\ e.type = "FormCluster" /\ e.due = now
      /\ m_status[n] = "CLUSTER_HEAD_ELECTION"
  BY DueNow, DutyFound DEF Due, StageInv
<1>4. \A f \in pending[n] \ {e} : f.type \in {"Stop", "SendIncident"}
  BY <1>3, Duties, DutyFound DEF StageInv
<1> DEFINE new == Entry(n, 0, 0, "Send")
<1>5. pending'[n] = (pending[n] \ {e}) \cup {new}
  BY <1>1, OneScheduled
<1>6. new.type = "Send" /\ new.due = now
  BY DEF Entry, TypeOK
<1> HIDE DEF new
<1>7. FormsBy(n, now)'
  BY <1>2, <1>3 DEF Rounds, FormsInTime, FormsBy, ThirdEnd, WindowEnd
<1>8. FormsInTime(n)'
  BY <1>2, <1>4, <1>5, <1>6, <1>7 DEF FormsInTime
<1>9. WindowEnd(n)' < now'
  BY <1>2, <1>3 DEF Rounds, WindowEnd
<1> QED
  BY <1>2, <1>4, <1>5, <1>6, <1>8, <1>9 DEF Rounds, Forming, Purging, Settled

\* A new head has dated itself and purges for the first time.
LEMMA UpdateNeighborsKeepsRounds ==
  ASSUME TypeOK, NEW n \in Node, StageInv(n), Rounds(n), UpdateNeighbors(n)
  PROVE  Rounds(n)'
<1>1. PICK e \in Due(n, "UpdateNeighbors") :
        Simulate(n, {e}, <<After(Interval, "Send")>>)
  BY DEF UpdateNeighbors
<1>2. m_status'[n] = "CLUSTER_UPDATE" /\ now' = now /\ OwnTime(n)' = OwnTime(n)
  BY DEF UpdateNeighbors, TypeOK, OwnTime
<1>3. e \in pending[n] /\ e.type = "UpdateNeighbors" /\ e.due = now
      /\ m_status[n] = "CLUSTER_FORMATION"
  BY DueNow, DutyFound DEF Due, StageInv
<1>4. \A f \in pending[n] \ {e} :
        f.type \in {"Stop", "SendIncident", "UpdateNeighborList"}
  BY <1>3, Duties, DutyFound DEF StageInv
<1> DEFINE new == Entry(n, 0, Interval, "Send")
<1>5. pending'[n] = (pending[n] \ {e}) \cup {new}
  BY <1>1, OneScheduled
<1>6. new.type = "Send" /\ new.due = now + Interval
  BY DEF Entry
<1> HIDE DEF new
<1>7. FormsInTime(n)' /\ Forming(n)'
  BY <1>2, <1>4, <1>5, <1>6 DEF FormsInTime, Forming
<1>8. WindowEnd(n)' < now'
  BY <1>2, <1>3 DEF Rounds, WindowEnd
<1>9. ASSUME NEW f \in pending'[n], f.type = "UpdateNeighborList"
      PROVE  DatesItself(n, f.due)' /\ RecentUntil(n, f.due)'
  <2>1. f \in pending[n]
    BY <1>5, <1>6, <1>9
  <2>2. OwnTime(n) = now /\ f.due = FirstUpdate(now)
    BY <1>3, <1>9, <2>1 DEF Rounds, Forming
  <2>3. new.due <= OwnTime(n) + Interval
    BY <1>6, <2>2, RoundTypes
  <2>4. DatesItself(n, f.due)'
    BY <1>2, <1>5, <1>6, <2>3 DEF DatesItself, Sends
  <2>5. FormsBy(n, now)
    BY <1>3 DEF Rounds, FormsInTime
  <2>6. PICK w \in Waitings : f.due <= ThirdEnd(n) + w + 1500
    BY <2>2, <2>5, FirstIsRecent
  <2>7. RecentUntil(n, f.due)'
    BY <2>6 DEF RecentUntil, ThirdEnd, WindowEnd
  <2> QED
    BY <2>4, <2>7
<1> QED
  BY <1>2, <1>7, <1>8, <1>9 DEF Rounds, Purging

\* What a purge keeps is recent until the next one.
LEMMA UpdateNeighborListKeepsRounds ==
  ASSUME TypeOK, NEW n \in Node, Identity(n), Timed(n), StageInv(n), Rounds(n),
         UpdateNeighborList(n)
  PROVE  Rounds(n)'
<1>1. PICK e \in Due(n, "UpdateNeighborList") :
        Simulate(n, {e}, <<After(Interval, "UpdateNeighborList")>>)
  BY DEF UpdateNeighborList
<1>2. UNCHANGED <<now, m_socket, m_status>>
  BY DEF UpdateNeighborList
<1>3. OwnTime(n)' = OwnTime(n)
  BY DEF UpdateNeighborList, OwnTime, MobilityAfterUpdate, TypeOK, NeighborInfo
<1>4. e \in pending[n] /\ e.type = "UpdateNeighborList" /\ e.due = now
  BY DueNow DEF Due, StageInv
<1>5. \A f \in pending[n] \ {e} : f.type /= "UpdateNeighborList"
  BY <1>4 DEF StageInv, OneChain
<1>6. PICK new : /\ new = Entry(n, 0, Interval, "UpdateNeighborList")
                 /\ pending'[n] = (pending[n] \ {e}) \cup {new}
  BY <1>1, OneScheduled
<1>7. new.type = "UpdateNeighborList" /\ new.due = now + Interval
  BY <1>6 DEF Entry
<1>8. FormsInTime(n)' /\ WindowEnd(n)' = WindowEnd(n)
  BY <1>2, <1>6, <1>7 DEF Rounds, FormsInTime, FormsBy, ThirdEnd, WindowEnd
<1>9. \A f \in pending[n] : f.type /= "UpdateNeighbors"
  <2> SUFFICES ASSUME NEW f \in pending[n], f.type = "UpdateNeighbors" PROVE FALSE
    OBVIOUS
  <2>1. now = FirstUpdate(f.due) /\ now <= f.due /\ f.due \in Nat
    BY <1>4, RoundTypes DEF Rounds, Forming, StageInv, InSlot
  <2> QED
    BY <2>1, FirstUpdateTime
<1>10. Forming(n)'
  BY <1>6, <1>7, <1>9 DEF Forming
<1>11. Purging(n)'
  <2> SUFFICES ASSUME Settled(n), m_socket[n]
               PROVE  DatesItself(n, new.due)' /\ RecentUntil(n, new.due)'
    BY <1>2, <1>5, <1>6 DEF Purging, Settled
  <2>1. PICK f \in Sends(n) : f.due <= OwnTime(n) + Interval \/ f.due < now
    BY <1>4 DEF Rounds, Purging, DatesItself
  <2>2. f \in pending[n] /\ now <= f.due /\ f.due \in Nat /\ f.type = "Send"
    BY RoundTypes DEF Sends, StageInv, InSlot
  <2>3. f.due <= OwnTime(n) + Interval /\ now <= OwnTime(n) + Interval
    BY <2>1, <2>2, RoundTypes
  <2>4. DatesItself(n, new.due)'
    BY <1>3, <1>4, <1>6, <2>2, <2>3 DEF DatesItself, Sends
  <2>5. ASSUME NEW k \in Keys(m_2rStableList'[n])
        PROVE  new.due - m_2rStableList'[n][k].ts <= 1200 + 2 * Interval
    <3> DEFINE stale == Stale(m_currentMobility[n], m_2rStableList[n])
    <3>1. m_2rStableList' =
            [m_2rStableList EXCEPT ![n] = Erase(m_2rStableList[n], stale)]
      BY DEF UpdateNeighborList
    <3> HIDE DEF stale
    <3>2. m_2rStableList'[n] = Erase(m_2rStableList[n], stale)
      BY <3>1 DEF TypeOK
    <3>3. /\ k \in Keys(m_2rStableList[n]) /\ k \notin stale
          /\ m_2rStableList'[n][k] = m_2rStableList[n][k]
      BY <2>5, <3>2 DEF Keys, Erase, TypeOK, NeighborList
    <3>4. ~ (OwnTime(n) - m_2rStableList[n][k].ts > 1200)
      BY <3>3 DEF stale, Stale, OwnTime
    <3> QED
      BY <1>7, <2>3, <3>3, <3>4, RoundTypes
  <2>6. new.due <= now + Interval
    BY <1>7, RoundTypes
  <2> QED
    BY <1>2, <2>4, <2>5, <2>6 DEF RecentUntil
<1> QED
  BY <1>2, <1>8, <1>10, <1>11 DEF Rounds

LEMMA TimerKeepsRounds ==
  ASSUME TypeOK, NEW n \in Node, Identity(n), Timed(n), StageInv(n), Rounds(n),
         Timer(n)
  PROVE  Rounds(n)'
<1>1. CASE SendIncident(n)
  <2>1. PICK e \in Due(n, "SendIncident") :
          Simulate(n, {e}, <<After(IncidentWindow, "SendIncident")>>)
    BY <1>1 DEF SendIncident
  <2>2. pending'[n] =
          (pending[n] \ {e}) \cup {Entry(n, 0, IncidentWindow, "SendIncident")}
    BY <2>1, OneScheduled
  <2>3. Entry(n, 0, IncidentWindow, "SendIncident").type = "SendIncident"
    BY DEF Entry
  <2>4. UNCHANGED <<now, m_socket, m_status, m_2rStableList>>
        /\ OwnTime(n)' = OwnTime(n)
    BY <1>1 DEF SendIncident, lists, OwnTime
  <2>5. Sends(n) \subseteq pending'[n]
    BY <2>2 DEF Sends, Due
  <2> QED
    BY <2>2, <2>3, <2>4, <2>5, IdleKeepsRounds
<1> QED
  BY <1>1, InitiateClusterKeepsRounds, FormClusterKeepsRounds,
     UpdateNeighborsKeepsRounds, UpdateNeighborListKeepsRounds DEF Timer

\* What a settled vehicle hears of is dated now.
LEMMA HandleClusterInfoKeepsRounds ==
  ASSUME TypeOK, NEW n \in Node, Identity(n), StageInv(n), Rounds(n),
         PacketsTimely, HandleClusterInfo(n)
  PROVE  Rounds(n)'
<1>1. UNCHANGED <<now, pending, m_socket, m_status>>
  BY DEF HandleClusterInfo, events
<1>2. OwnTime(n)' = OwnTime(n)
  <2> DEFINE own == m_currentMobility[n]
  <2>1. PICK other, from : React(n, other, from)
    BY DEF HandleClusterInfo
  <2>2. \/ m_currentMobility'[n] = own
        \/ m_currentMobility'[n] = AsHead(n, own)
        \/ \E id : m_currentMobility'[n] = AsMember(own, id)
    BY <2>1 DEF React, TypeOK
  <2>3. AsHead(n, own).ts = own.ts /\ \A id : AsMember(own, id).ts = own.ts
    BY DEF AsMember, AsHead, TypeOK, NeighborInfo
  <2> QED
    BY <2>2, <2>3 DEF OwnTime
<1>3. FormsInTime(n)' /\ Forming(n)'
      /\ (m_status'[n] /= "CLUSTER_INITIALIZATION" => WindowEnd(n)' < now')
  BY <1>1, <1>2
  DEF Rounds, FormsInTime, FormsBy, ThirdEnd, WindowEnd, Forming
<1>4. Purging(n)'
  <2> SUFFICES ASSUME Settled(n), m_socket[n], NEW e \in pending[n],
                      e.type = "UpdateNeighborList"
               PROVE  DatesItself(n, e.due)' /\ RecentUntil(n, e.due)'
    BY <1>1 DEF Purging, Settled
  <2>1. DatesItself(n, e.due) /\ RecentUntil(n, e.due)
    BY DEF Rounds, Purging
  <2>2. DatesItself(n, e.due)'
    BY <1>1, <1>2, <2>1 DEF DatesItself, Sends
  <2>3. PICK p \in Inbox(n, "ClusterInfo") :
          m_2rStableList' = [m_2rStableList EXCEPT ![n] = Insert(@, p.msg.info)]
    BY DEF HandleClusterInfo
  <2>4. m_2rStableList'[n] = Insert(m_2rStableList[n], p.msg.info)
    BY <2>3 DEF TypeOK
  <2>5. p.msg.info \in NeighborInfo /\ p.msg.info.ts = now
    <3>1. p \in air /\ p.msg.kind = "ClusterInfo"
      BY DEF Inbox
    <3>2. p.msg.info.ts = now \/ now <= WindowEnd(n)
      BY <3>1 DEF PacketsTimely
    <3>3. WindowEnd(n) < now /\ WindowEnd(n) \in Nat /\ now \in Nat
      BY Times DEF Rounds, Settled, TypeOK
    <3> QED
      BY <3>1, <3>2, <3>3, PacketType
  <2>6. CASE \E w \in Waitings : e.due <= ThirdEnd(n) + w + 1500
    BY <2>2, <2>6 DEF RecentUntil, ThirdEnd, WindowEnd
  <2>7. CASE /\ e.due <= now + Interval
             /\ \A k \in Keys(m_2rStableList[n]) :
                   e.due - m_2rStableList[n][k].ts <= 1200 + 2 * Interval
    <3>1. ASSUME NEW k \in Keys(m_2rStableList'[n])
          PROVE  e.due - m_2rStableList'[n][k].ts <= 1200 + 2 * Interval
      <4>1. m_2rStableList[n] \in NeighborList /\ k \in Node
        BY <3>1 DEF TypeOK, Keys
      <4>2. CASE k = p.msg.info.imsi
        <5>1. m_2rStableList'[n][k].ts = now
          BY <2>4, <2>5, <4>1, <4>2, EntriesAfter
        <5> QED
          BY <2>7, <5>1, RoundTypes
      <4>3. CASE k /= p.msg.info.imsi
        <5>1. m_2rStableList'[n][k] = m_2rStableList[n][k]
          BY <2>4, <2>5, <4>1, <4>3, EntriesAfter
        <5>2. k \in Keys(m_2rStableList[n])
          BY <3>1, <5>1 DEF Keys
        <5> QED
          BY <2>7, <5>1, <5>2
      <4> QED
        BY <4>2, <4>3
    <3> QED
      BY <1>1, <2>2, <2>7, <3>1 DEF RecentUntil
  <2> QED
    BY <2>1, <2>6, <2>7 DEF RecentUntil
<1> QED
  BY <1>1, <1>3, <1>4 DEF Rounds

LEMMA HandleInitiateClusterKeepsRounds ==
  ASSUME TypeOK, NEW n \in Node, VehicleInv(n), StageInv(n), Rounds(n),
         RequestsInTime, PacketsTimely, HandleInitiateCluster(n)
  PROVE  Rounds(n)'
<1>1. UNCHANGED <<now, m_socket, m_2rStableList>>
  BY DEF HandleInitiateCluster, lists
<1>2. CASE /\ AcceptsRequest(n)
           /\ m_status' = [m_status EXCEPT ![n] = "CLUSTER_HEAD_ELECTION"]
           /\ StartElection(n, {})
  <2>1. m_status[n] = "CLUSTER_INITIALIZATION"
        /\ m_status'[n] = "CLUSTER_HEAD_ELECTION"
    BY <1>2 DEF AcceptsRequest, TypeOK
  <2>2. m_socket[n] /\ WindowEnd(n) + Window < now /\ now <= ThirdEnd(n)
    BY DEF HandleInitiateCluster, Inbox, RequestsInTime, PacketsTimely
  <2>3. \A f \in pending[n] \ {} : f.type = "Stop"
    BY <2>1, <2>2, OnlyStopLeft
  <2>4. WindowEnd(n) < now
    BY <2>2, Times DEF TypeOK
  <2> QED
    BY <1>1, <1>2, <2>1, <2>2, <2>3, <2>4, ElectionKeepsRounds
<1>3. CASE UNCHANGED <<m_status, events>>
  <2>1. OwnTime(n)' = OwnTime(n)
    BY DEF HandleInitiateCluster, OwnTime, TypeOK, NeighborInfo
  <2> QED
    BY <1>1, <1>3, <2>1, IdleKeepsRounds DEF events, Sends
<1> QED
  BY <1>2, <1>3 DEF HandleInitiateCluster

\* A new member sends in its slot, before it purges for the first time.
LEMMA HandleFormClusterKeepsRounds ==
  ASSUME ShortWindow, TdmaSchedule, TypeOK, NEW n \in Node, StageInv(n),
         Rounds(n), PacketsTimely, HandleFormCluster(n)
  PROVE  Rounds(n)'
<1>1. UNCHANGED <<now, m_socket, m_2rStableList>>
  BY DEF HandleFormCluster, lists
<1>2. PICK head :
        \/ /\ Joins(n, head)
           /\ m_status' = [m_status EXCEPT ![n] = "CLUSTER_UPDATE"]
           /\ Simulate(n, CancelledByJoin(n),
                       <<After(TimeWindow[n], "Send"),
                         After(ListUpdateDelay, "UpdateNeighborList")>>)
        \/ UNCHANGED <<m_status, m_currentMobility, events>>
  BY DEF HandleFormCluster
<1>3. CASE UNCHANGED <<m_status, m_currentMobility, events>>
  BY <1>1, <1>3, IdleKeepsRounds DEF events, Sends, OwnTime
<1>4. CASE /\ Joins(n, head)
           /\ m_status' = [m_status EXCEPT ![n] = "CLUSTER_UPDATE"]
           /\ Simulate(n, CancelledByJoin(n),
                       <<After(TimeWindow[n], "Send"),
                         After(ListUpdateDelay, "UpdateNeighborList")>>)
  <2>1. m_status[n] = "CLUSTER_HEAD_ELECTION" /\ m_status'[n] = "CLUSTER_UPDATE"
    BY <1>4 DEF Joins, TypeOK
  <2>2. \A f \in pending[n] \ CancelledByJoin(n) :
          f.type \in {"Send", "Stop", "SendIncident"}
    BY <2>1, Duties
    DEF StageInv, OneDuty, TimersTracked, CancelledByJoin, Tracked
  <2>3. PICK first, second :
          /\ first = Entry(n, 0, TimeWindow[n], "Send")
          /\ second = Entry(n, 1, ListUpdateDelay, "UpdateNeighborList")
          /\ pending'[n] = (pending[n] \ CancelledByJoin(n)) \cup {first, second}
    BY <1>4, TwoScheduled
  <2>4. now \in Nat
    BY DEF TypeOK
  <2>5. /\ first.type = "Send" /\ first.due = now + TimeWindow[n]
        /\ second.type = "UpdateNeighborList" /\ second.due = FirstUpdate(now)
    BY <2>3, <2>4 DEF Entry, ListUpdateDelay, FirstUpdate
  <2>6. FormsBy(n, now) /\ WindowEnd(n) < now
    BY <2>1 DEF HandleFormCluster, Inbox, PacketsTimely, Rounds
  <2>7. FormsInTime(n)' /\ Forming(n)' /\ WindowEnd(n)' < now'
    BY <1>1, <2>1, <2>2, <2>3, <2>5, <2>6 DEF FormsInTime, Forming, WindowEnd
  <2>8. first.due < second.due
    <3>1. TimeWindow[n] \in 1..Window /\ Window \in Nat
      BY Times DEF TdmaSchedule
    <3> QED
      BY <2>4, <2>5, <3>1, FirstUpdateTime DEF ShortWindow
  <2>9. DatesItself(n, second.due)'
    BY <2>3, <2>5, <2>8 DEF DatesItself, Sends
  <2>10. PICK w \in Waitings : second.due <= ThirdEnd(n) + w + 1500
    BY <2>5, <2>6, FirstIsRecent
  <2>11. RecentUntil(n, second.due)'
    BY <2>10 DEF RecentUntil, ThirdEnd, WindowEnd
  <2>12. Purging(n)'
    BY <2>2, <2>3, <2>5, <2>9, <2>11 DEF Purging
  <2> QED
    BY <2>7, <2>12 DEF Rounds
<1> QED
  BY <1>2, <1>3, <1>4

\* What leaves tells the time it leaves at: the first ClusterInfo does not,
\* but that leaves in the first window.
LEMMA StepKeepsTimely ==
  ASSUME TypeOK, TdmaSchedule, NEW n \in Node, StageInv(n), Rounds(n),
         PacketsTimely,
         Application(n) \/ Send(n) \/ Timer(n) \/ HandleRead(n)
  PROVE  PacketsTimely'
<1>1. /\ now' = now
      /\ \A m \in Node : WindowEnd(m) = WindowEnd(n) /\ ThirdEnd(m) = ThirdEnd(n)
  BY ClockStops DEF TdmaSchedule, ThirdEnd, WindowEnd
<1>2. \A msg : \A p \in Copies(n, msg) : p.msg = msg
  BY DEF Copies
<1>3. ASSUME \A p \in air' \ air :
                /\ p.msg.kind = "ClusterInfo" =>
                      p.msg.info.ts = now \/ now <= WindowEnd(n)
                /\ p.msg.kind = "InitiateCluster" => now <= ThirdEnd(n)
                /\ p.msg.kind = "FormCluster" => FormsBy(n, now)
      PROVE  PacketsTimely'
  <2> SUFFICES ASSUME NEW p \in air', NEW m \in Node
               PROVE  /\ p.msg.kind = "ClusterInfo" =>
                            p.msg.info.ts = now \/ now <= WindowEnd(m)
                      /\ p.msg.kind = "InitiateCluster" => now <= ThirdEnd(m)
                      /\ p.msg.kind = "FormCluster" => FormsBy(m, now)
    BY <1>1 DEF PacketsTimely, FormsBy, ThirdEnd, WindowEnd
  <2>1. CASE p \in air
    BY <2>1 DEF PacketsTimely
  <2>2. CASE p \notin air
    BY <1>1, <1>3, <2>2 DEF FormsBy
  <2> QED
    BY <2>1, <2>2
<1>4. CASE SendClusterInfo(n)
  <2>1. PICK e \in SendDue(n, "CLUSTER_INITIALIZATION") : TRUE
    BY <1>4 DEF SendClusterInfo
  <2>2. now <= WindowEnd(n)
    BY <2>1, DueNow DEF SendDue, Due, StageInv, InSlot
  <2>3. PICK msg : msg.kind = "ClusterInfo" /\ Transmit(n, msg)
    BY <1>4 DEF SendClusterInfo, ClusterInfoHeader
  <2> QED
    BY <1>2, <1>3, <2>2, <2>3 DEF Transmit
<1>5. CASE SendUpdate(n)
  <2>1. PICK msg : msg.kind = "ClusterInfo" /\ msg.info = AcquireMobilityInfo(n)
                   /\ Transmit(n, msg)
    BY <1>5 DEF SendUpdate, ClusterInfoHeader
  <2>2. AcquireMobilityInfo(n).ts = now
    BY DEF AcquireMobilityInfo, TypeOK, NeighborInfo
  <2> QED
    BY <1>2, <1>3, <2>1, <2>2 DEF Transmit
<1>6. CASE SendFormCluster(n)
  <2>1. PICK e \in SendDue(n, "CLUSTER_FORMATION") : TRUE
    BY <1>6 DEF SendFormCluster
  <2>2. FormsBy(n, now)
    BY <2>1, DueNow DEF SendDue, Due, StageInv, Rounds, FormsInTime
  <2>3. PICK msg : msg.kind = "FormCluster" /\ Transmit(n, msg)
    BY <1>6 DEF SendFormCluster, FormClusterHeader
  <2> QED
    BY <1>2, <1>3, <2>2, <2>3 DEF Transmit
<1>7. CASE SendInitiateCluster(n)
  <2>1. PICK e \in SendDue(n, "CLUSTER_HEAD_ELECTION") : TRUE
    BY <1>7 DEF SendInitiateCluster
  <2>2. now <= ThirdEnd(n)
    BY <2>1, DueNow DEF SendDue, Due, StageInv, Rounds, FormsInTime
  <2>3. PICK msg : msg.kind = "InitiateCluster" /\ Transmit(n, msg)
    BY <1>7 DEF SendInitiateCluster, InitiateClusterHeader
  <2> QED
    BY <1>2, <1>3, <2>2, <2>3 DEF Transmit
<1>8. CASE SendIncident(n)
  <2>1. PICK msg : msg.kind = "IncidentEvent" /\ Report(n, msg)
    BY <1>8 DEF SendIncident, IncidentEventHeader
  <2> QED
    BY <1>2, <1>3, <2>1 DEF Report, Transmit
<1>9. CASE HandleIncidentEvent(n)
  <2>1. PICK p \in Inbox(n, "IncidentEvent") :
          air' \subseteq air \cup Copies(n, p.msg)
    BY <1>9 DEF HandleIncidentEvent
  <2>2. p.msg.kind = "IncidentEvent"
    BY DEF Inbox
  <2> QED
    BY <1>2, <1>3, <2>1, <2>2
<1>10. CASE air' \subseteq air
  BY <1>3, <1>10
<1> QED
  BY <1>4, <1>5, <1>6, <1>7, <1>8, <1>9, <1>10
  DEF Send, Application, StartApplication, StopApplication, Timer,
      InitiateCluster, FormCluster, UpdateNeighbors, UpdateNeighborList,
      HandleRead, HandleClusterInfo, HandleInitiateCluster, HandleFormCluster,
      Receive, network

LEMMA RoundsInit == ASSUME TdmaSchedule PROVE Init => RoundsInv
<1> SUFFICES ASSUME Init PROVE RoundsInv
  OBVIOUS
<1>1. TdmaInv /\ LagInv /\ PacketsTimely
  BY TdmaInit, LagInit DEF Init, PacketsTimely
<1>2. ASSUME NEW n \in Node PROVE Rounds(n)
  <2>1. /\ pending[n] = {[uid |-> 1, type |-> "Start", due |-> StartTime[n]],
                         [uid |-> 2, type |-> "Stop", due |-> StopTime[n]]}
        /\ m_status[n] = "CLUSTER_INITIALIZATION"
    BY DEF Init
  <2> QED
    BY <2>1 DEF Rounds, FormsInTime, Forming, Purging, Settled
<1> QED
  BY <1>1, <1>2 DEF RoundsInv

LEMMA RoundsNext ==
  ASSUME TdmaSchedule, ShortWindow
  PROVE  RoundsInv /\ [Next]_vars => RoundsInv'
<1> SUFFICES ASSUME RoundsInv, [Next]_vars PROVE RoundsInv'
  OBVIOUS
<1>1. TdmaInv' /\ LagInv'
  BY TdmaNext, LagNext DEF RoundsInv
<1>2. /\ TypeOK /\ RequestsInTime /\ PacketsTimely
      /\ \A n \in Node : /\ VehicleInv(n) /\ Identity(n) /\ Timed(n)
                         /\ StageInv(n) /\ Rounds(n)
  BY DEF RoundsInv, TdmaInv, TimedInv, MembershipInv, VehicleInv
<1>3. now' \in Nat
  BY <1>1 DEF TdmaInv, TimedInv, MembershipInv, TypeOK
<1>4. CASE \E n \in Node : Application(n) \/ Send(n) \/ Timer(n) \/ HandleRead(n)
  <2>1. PICK n \in Node : Application(n) \/ Send(n) \/ Timer(n) \/ HandleRead(n)
    BY <1>4
  <2>2. now' = now /\ PacketsTimely'
    BY <1>2, <2>1, ClockStops, StepKeepsTimely
  <2>3. ASSUME HandleRead(n) PROVE Rounds(n)'
    <3>1. CASE HandleIncidentEvent(n)
      <4>1. UNCHANGED <<now, pending, m_socket, m_status, m_2rStableList>>
            /\ OwnTime(n)' = OwnTime(n)
        BY <3>1 DEF HandleIncidentEvent, events, lists, OwnTime
      <4> QED
        BY <1>2, <4>1, IdleKeepsRounds DEF Sends
    <3> QED
      BY <1>2, <2>3, <3>1, HandleClusterInfoKeepsRounds,
         HandleInitiateClusterKeepsRounds, HandleFormClusterKeepsRounds
      DEF HandleRead
  <2>4. Rounds(n)'
    BY <1>2, <2>1, <2>3, ApplicationKeepsRounds, SendKeepsRounds,
       TimerKeepsRounds
  <2>5. ASSUME NEW m \in Node \ {n} PROVE Rounds(m)'
    <3>1. Untouched(m)
      BY <1>2, <2>1, OthersUntouched
    <3>2. OwnTime(m)' = OwnTime(m)
      BY <3>1 DEF Untouched, OwnTime
    <3> QED
      BY <1>2, <2>2, <3>1, <3>2, IdleKeepsRounds DEF Untouched, Sends
  <2> QED
    BY <1>1, <2>2, <2>4, <2>5 DEF RoundsInv
<1>5. CASE NoListener \/ Lose \/ Tick \/ UNCHANGED vars
  <2>1. UNCHANGED <<pending, m_socket, m_status, m_currentMobility, m_2rStableList>>
        /\ ((air = {} /\ air' = {}) \/ (now' = now /\ air' \subseteq air))
    BY <1>5 DEF NoListener, Receive, Lose, Tick, vars, network, events, lists
  <2>2. now \in Nat /\ now <= now'
    <3>1. CASE Tick
      <4>1. PICK t \in Scheduled : now < t /\ now' = t
        BY <3>1 DEF Tick
      <4> QED
        BY <1>2, <1>3, <4>1 DEF TypeOK
    <3>2. CASE UNCHANGED now
      BY <1>2, <3>2 DEF TypeOK
    <3> QED
      BY <1>5, <3>1, <3>2 DEF NoListener, Lose, vars
  <2>3. ASSUME NEW n \in Node PROVE Rounds(n)'
    <3>1. OwnTime(n)' = OwnTime(n)
      BY <2>1 DEF OwnTime
    <3>2. Interval \in Nat /\ WindowEnd(n) \in Nat
          /\ \A e \in pending[n] : e.due \in Nat
      BY <1>2, RoundTypes, Times
    <3>3. Sends(n) \subseteq pending'[n]
      BY <2>1 DEF Sends
    <3> QED
      BY <1>2, <1>3, <2>1, <2>2, <3>1, <3>2, <3>3, RoutineKeepsRounds
  <2>4. PacketsTimely'
    BY <1>2, <2>1 DEF PacketsTimely, FormsBy, ThirdEnd, WindowEnd
  <2> QED
    BY <1>1, <2>3, <2>4 DEF RoundsInv
<1> QED
  BY <1>4, <1>5 DEF Next

\* Once it has purged its list a vehicle keeps no entry beyond the limit of
\* 1.2 s and two intervals, though UpdateNeighborList compares with the time
\* of the last Send: there is a Send in every interval.
THEOREM NeighborsRecentHolds ==
  ASSUME TdmaSchedule, ShortWindow PROVE Spec => []NeighborsRecent
<1>1. RoundsInv => NeighborsRecent
  <2> SUFFICES ASSUME RoundsInv, NEW n \in Node, m_socket[n], Settled(n),
                      FormationsOver(n, now - 1500),
                      NEW k \in Keys(m_2rStableList[n])
               PROVE  OwnTime(n) - m_2rStableList[n][k].ts <= 1200 + 2 * Interval
    BY DEF NeighborsRecent, OwnTime
  <2>1. TypeOK /\ Timed(n) /\ StageInv(n) /\ Rounds(n) /\ Dated(n)
    BY DEF RoundsInv, TdmaInv, TimedInv, MembershipInv, LagInv
  <2>2. PICK e \in pending[n] : e.type = "UpdateNeighborList"
    BY <2>1 DEF Timed, Formed, Waits
  <2>3. now <= e.due /\ RecentUntil(n, e.due) /\ OwnTime(n) <= now
    BY <2>1, <2>2 DEF StageInv, InSlot, Rounds, Purging, Dated, OwnTime
  <2>4. ASSUME NEW w \in Waitings PROVE ~ (e.due <= ThirdEnd(n) + w + 1500)
    <3>1. StartTime[n] + 3 * Slot * MaxUes + w < now - 1500
      BY DEF FormationsOver
    <3>2. ThirdEnd(n) = StartTime[n] + 3 * Slot * MaxUes
      <4>1. Slot \in Nat /\ MaxUes \in Nat /\ StartTime[n] \in Nat
        BY TdmaAssumption, TimeAssumption
      <4>2. 3 * Slot * MaxUes = Slot * MaxUes + Slot * MaxUes + Slot * MaxUes
        BY <4>1
      <4> QED
        BY <4>1, <4>2 DEF ThirdEnd, WindowEnd, Window
    <3>3. w \in Nat /\ ThirdEnd(n) \in Nat /\ now \in Nat /\ e.due \in Nat
      BY <2>1, <2>2, RoundTypes, Times, WaitingsType
    <3> QED
      BY <2>3, <3>1, <3>2, <3>3
  <2>5. e.due - m_2rStableList[n][k].ts <= 1200 + 2 * Interval
    BY <2>3, <2>4 DEF RecentUntil
  <2> QED
    BY <2>1, <2>2, <2>3, <2>5, RoundTypes
<1> QED
  BY <1>1, RoundsInit, RoundsNext, PTL DEF Spec

=============================================================================
