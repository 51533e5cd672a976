--------------------- MODULE V2vControlClient_elections ---------------------
(***************************************************************************)
(* Proofs of how an election comes out: what the lists it reads hold, that *)
(* the slowest vehicle asks for one, that everybody who hears of it takes  *)
(* part, and that a head ends it for everybody.                            *)
(***************************************************************************)
EXTENDS V2vControlClient_silence, WellFoundedInduction

-----------------------------------------------------------------------------
\* An entry is that of its key.
Keyed(n) == \A k \in Keys(m_2rStableList[n]) : m_2rStableList[n][k].imsi = k

LEMMA StepKeepsKeyed ==
  ASSUME TypeOK, NEW n \in Node, Keyed(n),
         Application(n) \/ Send(n) \/ Timer(n) \/ HandleRead(n)
  PROVE  Keyed(n)'
<1> SUFFICES ASSUME NEW k \in Node, m_2rStableList'[n][k] /= Null
             PROVE  m_2rStableList'[n][k].imsi = k
  BY DEF Keyed, Keys
<1>0. m_2rStableList[n] \in NeighborList /\ EmptyList[k] = Null
  BY DEF TypeOK, EmptyList
<1>1. m_2rStableList[n][k] /= Null => m_2rStableList[n][k].imsi = k
  BY DEF Keyed, Keys
<1>2. ASSUME NEW keys, m_2rStableList'[n] = Erase(m_2rStableList[n], keys)
      PROVE  m_2rStableList'[n][k] = m_2rStableList[n][k]
  BY <1>2 DEF Erase
<1>3. ASSUME NEW p \in Inbox(n, "ClusterInfo"),
             m_2rStableList'[n] = Insert(m_2rStableList[n], p.msg.info)
      PROVE  \/ m_2rStableList'[n][k] = m_2rStableList[n][k]
             \/ m_2rStableList'[n][k] = p.msg.info /\ k = p.msg.info.imsi
  BY <1>0, <1>3, PacketType, EntriesAfter
<1> QED
  BY <1>0, <1>1, <1>2, <1>3, ListsAfter

LEMMA KeyedInit == Init => \A n \in Node : Keyed(n)
<1> SUFFICES ASSUME Init, NEW n \in Node PROVE Keyed(n)
  OBVIOUS
<1>1. m_2rStableList[n] = EmptyList
  BY DEF Init
<1> QED
  BY <1>1 DEF Keyed, Keys, EmptyList

-----------------------------------------------------------------------------
(***************************************************************************)
(* The timeline of an election.                                            *)
(***************************************************************************)

\* what the example has, and little enough lost
Highway == /\ TdmaSchedule /\ LateStop /\ InRange /\ AllStable /\ FewLosses
           /\ LongWaits

\* when the waiting time of somebody's request may be over
IsDeadline(t) == \E n \in Node, w \in WaitingTimes : t = Deadline(n, w)

FirstSlot(n) == StartTime[n] + TimeWindow[n]

Timeline(n) ==
    \A e \in pending[n] :
        /\ m_status[n] = "CLUSTER_INITIALIZATION" /\ e.type = "Send" =>
              e.due = FirstSlot(n)
        /\ e.type = "InitiateCluster" => e.due = FirstSlot(n) + Window
        /\ m_status[n] = "CLUSTER_HEAD_ELECTION" /\ e.type = "Send" =>
              e.due = FirstSlot(n) + 2 * Window
        /\ e.type = "FormCluster" => IsDeadline(e.due)
        /\ /\ m_status[n] = "CLUSTER_FORMATION"
           /\ e.type = "Send" \/ e.type = "UpdateNeighbors"
           => IsDeadline(e.due)

\* The packets of an election name the cluster of their sender.
Signed ==
    \A p \in air :
        /\ p.msg.kind = "InitiateCluster" =>
              p.msg.clusterId = p.from /\ now = FirstSlot(p.from) + 2 * Window
        /\ p.msg.kind = "FormCluster" =>
              p.msg.info.clusterId = p.from /\ IsDeadline(now)

\* A vehicle that stopped was in no election and forms no cluster.
Rested(n) ==
    Stopped(n) => /\ m_status[n] /= "CLUSTER_HEAD_ELECTION"
                  /\ m_status[n] /= "CLUSTER_FORMATION"

Begins(n) == Waits(n, Duty("CLUSTER_INITIALIZATION"))

\* An initialization without events left is beyond the first window.
Over(n) ==
    \/ m_status[n] /= "CLUSTER_INITIALIZATION"
    \/ Begins(n)
    \/ WindowEnd(n) < now

ElectionInv ==
    /\ SilenceInv
    /\ Signed
    /\ \A n \in Node : Timeline(n) /\ Rested(n) /\ Over(n)

LEMMA SlotTimes ==
  ASSUME TdmaSchedule, NEW n \in Node
  PROVE  /\ FirstSlot(n) \in Nat /\ FirstSlot(n) <= WindowEnd(n)
         /\ StartTime[n] < FirstSlot(n)
         /\ \A w \in WaitingTimes :
               Deadline(n, w) = FirstSlot(n) + Window + Window + w
<1>1. /\ StartTime[n] \in Nat /\ TimeWindow[n] \in Nat
      /\ 1 <= TimeWindow[n] /\ TimeWindow[n] <= Window
  BY TimeAssumption, Times DEF TdmaSchedule
<1>2. 2 * Slot * MaxUes = Window + Window
  BY TdmaAssumption DEF Window
<1>3. Window \in Nat /\ WaitingTimes \subseteq Nat
  BY Times, WaitingTimesAssumption
<1> QED
  BY <1>1, <1>2, <1>3, Times DEF FirstSlot, Deadline

\* A deadline comes after all requests and before all stops.
LEMMA DeadlineTimes ==
  ASSUME TdmaSchedule, LateStop, NEW t, IsDeadline(t), NEW m \in Node
  PROVE  t \in Nat /\ t < StopTime[m]
<1>1. PICK n \in Node, w \in WaitingTimes : t = Deadline(n, w)
  BY DEF IsDeadline
<1>2. w \in Nat
  BY WaitingTimesAssumption
<1>3. WindowEnd(n) + 2 * Window + w = WindowEnd(m) + 2 * Window + w
  BY DEF TdmaSchedule, WindowEnd
<1>4. t = FirstSlot(n) + Window + Window + w
  BY <1>1, SlotTimes
<1>5. WindowEnd(m) + 2 * Window + w < StopTime[m]
  BY DEF LateStop
<1> QED
  BY <1>2, <1>3, <1>4, <1>5, SlotTimes, Times

\* events that the timeline says nothing about
LEMMA TimelineKept ==
  ASSUME NEW n \in Node, Timeline(n), m_status'[n] = m_status[n],
         \A e \in pending'[n] :
            \/ e \in pending[n]
            \/ e.type \in {"UpdateNeighborList", "SendIncident"}
  PROVE  Timeline(n)'
  BY DEF Timeline, IsDeadline, Deadline, FirstSlot

\* A settled vehicle waits for nothing on the timeline.
LEMMA TimelineDone ==
  ASSUME NEW n \in Node, StageInv(n)', m_status'[n] = "CLUSTER_UPDATE"
  PROVE  Timeline(n)'
<1>1. \A e \in pending'[n] :
        e.type \in {"UpdateNeighborList", "Stop", "SendIncident", "Send"}
  BY Duties DEF StageInv, OneDuty
<1> QED
  BY <1>1 DEF Timeline

LEMMA ElectionKeepsTimeline ==
  ASSUME TypeOK, NEW n \in Node, NEW done, NEW k \in Node, TdmaSchedule,
         StartElection(n, done), Keys(m_rStableList[n]) /= {},
         \A f \in pending[n] \ done : f.type = "Stop",
         now = FirstSlot(k) + 2 * Window, now' = now
  PROVE  Timeline(n)'
<1>1. PICK w \in Nat, d \in Nat :
        /\ w \in SuitabilityCheck(m_currentMobility[n], m_rStableList[n])
        /\ Simulate(n, done, <<After(w, "FormCluster"), After(d, "SendIncident")>>)
  BY ElectionScheduled
<1>2. w \in WaitingTimes
  BY <1>1 DEF SuitabilityCheck
<1> DEFINE first == Entry(n, 0, w, "FormCluster")
           second == Entry(n, 1, d, "SendIncident")
<1>3. pending'[n] = (pending[n] \ done) \cup {first, second}
  BY <1>1, TwoScheduled
<1>4. first.type = "FormCluster" /\ first.due = now + w
      /\ second.type = "SendIncident"
  BY DEF Entry
<1>5. first.due = Deadline(k, w)
  BY <1>1, <1>2, <1>4, SlotTimes, Times
<1>6. IsDeadline(first.due)
  BY <1>2, <1>5 DEF IsDeadline
<1> HIDE DEF first, second
<1> QED
  BY <1>3, <1>4, <1>6 DEF Timeline, IsDeadline, Deadline, FirstSlot

LEMMA ApplicationKeepsTimeline ==
  ASSUME TypeOK, NEW n \in Node, StageInv(n), Timeline(n), Application(n)
  PROVE  Timeline(n)'
<1>1. CASE StartApplication(n)
  <2>1. PICK e \in Due(n, "Start") :
          Simulate(n, {e}, <<After(TimeWindow[n], "Send")>>)
    BY <1>1 DEF StartApplication
  <2>2. m_status'[n] = "CLUSTER_INITIALIZATION"
    BY <1>1 DEF StartApplication, TypeOK
  <2>3. e.due = now /\ e.due = StartTime[n]
    BY <2>1, DueNow DEF StageInv, InSlot, Due
  <2>4. \A f \in pending[n] \ {e} : f.type = "Stop"
    BY <2>1, Duties, DutyFound DEF StageInv, Due
  <2> DEFINE new == Entry(n, 0, TimeWindow[n], "Send")
  <2>5. pending'[n] = (pending[n] \ {e}) \cup {new}
    BY <2>1, OneScheduled
  <2>6. new.type = "Send" /\ new.due = FirstSlot(n)
    BY <2>3 DEF Entry, FirstSlot
  <2> HIDE DEF new
  <2> QED
    BY <2>2, <2>4, <2>5, <2>6 DEF Timeline, FirstSlot
<1>2. CASE StopApplication(n)
  <2>1. PICK e \in Due(n, "Stop") : Simulate(n, {e} \cup Cancelled(n), <<>>)
    BY <1>2 DEF StopApplication
  <2>2. pending'[n] \subseteq pending[n] /\ UNCHANGED m_status
    BY <1>2, <2>1, NothingScheduled DEF StopApplication
  <2> QED
    BY <2>2, TimelineKept
<1> QED
  BY <1>1, <1>2 DEF Application

LEMMA SendKeepsTimeline ==
  ASSUME TypeOK, TdmaSchedule, KnowsSomebody, NEW n \in Node, StageInv(n),
         StageInv(n)', Timeline(n), Send(n)
  PROVE  Timeline(n)'
<1>0. now' = now
  BY ClockStops
<1>1. CASE SendClusterInfo(n)
  <2>1. PICK e \in SendDue(n, "CLUSTER_INITIALIZATION") :
          Simulate(n, {e}, <<After(Slot * MaxUes, "InitiateCluster")>>)
    BY <1>1 DEF SendClusterInfo
  <2>2. m_status[n] = "CLUSTER_INITIALIZATION" /\ UNCHANGED m_status
        /\ e \in pending[n] /\ e.type = "Send" /\ e.due = now
    BY <1>1, <2>1, DueNow DEF SendClusterInfo, SendDue, Due, StageInv
  <2>3. now = FirstSlot(n)
    BY <2>2 DEF Timeline
  <2>4. \A f \in pending[n] \ {e} : f.type = "Stop"
    BY <2>2, Duties, DutyFound DEF StageInv
  <2> DEFINE new == Entry(n, 0, Window, "InitiateCluster")
  <2>5. pending'[n] = (pending[n] \ {e}) \cup {new}
    BY <2>1, OneScheduled DEF Window
  <2>6. new.type = "InitiateCluster" /\ new.due = FirstSlot(n) + Window
    BY <2>3 DEF Entry
  <2> HIDE DEF new
  <2> QED
    BY <2>2, <2>4, <2>5, <2>6 DEF Timeline, FirstSlot
<1>2. CASE SendInitiateCluster(n)
  <2>1. PICK e \in SendDue(n, "CLUSTER_HEAD_ELECTION") : StartElection(n, {e})
    BY <1>2 DEF SendInitiateCluster
  <2>2. m_status[n] = "CLUSTER_HEAD_ELECTION" /\ e \in pending[n]
        /\ e.type = "Send" /\ e.due = now
    BY <2>1, DueNow DEF SendDue, Due, StageInv
  <2>3. \A f \in pending[n] \ {e} : f.type \in {"Stop", "SendIncident"}
    BY <2>2, Duties, DutyFound DEF StageInv
  <2>4. \A f \in pending[n] \ {e} : f.type = "Stop"
    BY <2>2, <2>3 DEF StageInv, NotYet, Waits
  <2>5. WindowEnd(n) + Window < now /\ now = FirstSlot(n) + 2 * Window
    BY <2>2 DEF StageInv, InSlot, Timeline
  <2>6. Keys(m_rStableList[n]) /= {}
    BY <2>2, <2>5 DEF KnowsSomebody
  <2> QED
    BY <1>0, <2>1, <2>4, <2>5, <2>6, ElectionKeepsTimeline
<1>3. CASE SendFormCluster(n)
  <2>1. PICK e \in SendDue(n, "CLUSTER_FORMATION") :
          Simulate(n, {e}, <<After(0, "UpdateNeighbors"),
                             After(ListUpdateDelay, "UpdateNeighborList")>>)
    BY <1>3 DEF SendFormCluster
  <2>2. m_status[n] = "CLUSTER_FORMATION" /\ UNCHANGED m_status
        /\ e \in pending[n] /\ e.type = "Send" /\ e.due = now
    BY <1>3, <2>1, DueNow DEF SendFormCluster, SendDue, Due, StageInv
  <2>3. IsDeadline(now)
    BY <2>2 DEF Timeline
  <2> DEFINE first == Entry(n, 0, 0, "UpdateNeighbors")
             second == Entry(n, 1, ListUpdateDelay, "UpdateNeighborList")
  <2>4. pending'[n] = (pending[n] \ {e}) \cup {first, second}
    BY <2>1, TwoScheduled
  <2>5. first.type = "UpdateNeighbors" /\ first.due = now
        /\ second.type = "UpdateNeighborList"
    BY DEF Entry, TypeOK
  <2> HIDE DEF first, second
  <2> QED
    BY <2>2, <2>3, <2>4, <2>5 DEF Timeline, IsDeadline, Deadline, FirstSlot
<1>4. CASE SendUpdate(n)
  <2>1. m_status'[n] = "CLUSTER_UPDATE"
    BY <1>4 DEF SendUpdate, SendDue
  <2> QED
    BY <2>1, TimelineDone
<1> QED
  BY <1>1, <1>2, <1>3, <1>4 DEF Send

LEMMA TimerKeepsTimeline ==
  ASSUME TypeOK, NEW n \in Node, StageInv(n), StageInv(n)', Timeline(n), Timer(n)
  PROVE  Timeline(n)'
<1>1. CASE InitiateCluster(n)
  <2>1. PICK e \in Due(n, "InitiateCluster") :
          \/ /\ m_status' = [m_status EXCEPT ![n] = "CLUSTER_HEAD_ELECTION"]
             /\ Simulate(n, {e}, <<After(Slot * MaxUes, "Send")>>)
          \/ Simulate(n, {e}, <<>>) /\ UNCHANGED m_status
    BY <1>1 DEF InitiateCluster
  <2>2. CASE Simulate(n, {e}, <<>>) /\ UNCHANGED m_status
    <3>1. pending'[n] \subseteq pending[n]
      BY <2>2, NothingScheduled
    <3> QED
      BY <2>2, <3>1, TimelineKept
  <2>3. CASE /\ m_status' = [m_status EXCEPT ![n] = "CLUSTER_HEAD_ELECTION"]
             /\ Simulate(n, {e}, <<After(Slot * MaxUes, "Send")>>)
    <3>1. e \in pending[n] /\ e.type = "InitiateCluster" /\ e.due = now
      BY <2>1, DueNow DEF Due, StageInv
    <3>2. now = FirstSlot(n) + Window
      BY <3>1 DEF Timeline
    <3>3. \A f \in pending[n] \ {e} : f.type = "Stop"
      BY <3>1, Duties, DutyFound DEF StageInv
    <3> DEFINE new == Entry(n, 0, Window, "Send")
    <3>4. pending'[n] = (pending[n] \ {e}) \cup {new}
      BY <2>3, OneScheduled DEF Window
    <3>5. new.type = "Send" /\ new.due = now + Window
      BY DEF Entry
    <3>6. new.due = FirstSlot(n) + 2 * Window
      BY <3>2, <3>5, Times, TimeAssumption DEF FirstSlot
    <3>7. m_status'[n] = "CLUSTER_HEAD_ELECTION"
      BY <2>3 DEF TypeOK
    <3> HIDE DEF new
    <3> QED
      BY <3>3, <3>4, <3>5, <3>6, <3>7 DEF Timeline, FirstSlot
  <2> QED
    BY <2>1, <2>2, <2>3
<1>2. CASE FormCluster(n)
  <2>1. PICK e \in Due(n, "FormCluster") : Simulate(n, {e}, <<After(0, "Send")>>)
    BY <1>2 DEF FormCluster
  <2>2. m_status'[n] = "CLUSTER_FORMATION"
    BY <1>2 DEF FormCluster, TypeOK
  <2>3. e \in pending[n] /\ e.type = "FormCluster" /\ e.due = now
    BY <2>1, DueNow DEF Due, StageInv
  <2>4. IsDeadline(now) /\ m_status[n] = "CLUSTER_HEAD_ELECTION"
    BY <2>3, DutyFound DEF Timeline, StageInv
  <2>5. \A f \in pending[n] \ {e} : f.type \in {"Stop", "SendIncident"}
    BY <2>3, <2>4, Duties, DutyFound DEF StageInv
  <2> DEFINE new == Entry(n, 0, 0, "Send")
  <2>6. pending'[n] = (pending[n] \ {e}) \cup {new}
    BY <2>1, OneScheduled
  <2>7. new.type = "Send" /\ new.due = now
    BY DEF Entry, TypeOK
  <2> HIDE DEF new
  <2> QED
    BY <2>2, <2>4, <2>5, <2>6, <2>7 DEF Timeline, IsDeadline, Deadline, FirstSlot
<1>3. CASE UpdateNeighbors(n)
  <2>1. m_status'[n] = "CLUSTER_UPDATE"
    BY <1>3 DEF UpdateNeighbors, TypeOK
  <2> QED
    BY <2>1, TimelineDone
<1>4. ASSUME NEW e, NEW d, NEW t \in {"UpdateNeighborList", "SendIncident"},
             Simulate(n, {e}, <<After(d, t)>>), UNCHANGED m_status
      PROVE  Timeline(n)'
  <2>1. pending'[n] = (pending[n] \ {e}) \cup {Entry(n, 0, d, t)}
    BY <1>4, OneScheduled
  <2>2. Entry(n, 0, d, t).type = t
    BY DEF Entry
  <2> QED
    BY <1>4, <2>1, <2>2, TimelineKept
<1>5. CASE UpdateNeighborList(n)
  <2>1. PICK e \in Due(n, "UpdateNeighborList") :
          Simulate(n, {e}, <<After(Interval, "UpdateNeighborList")>>)
    BY <1>5 DEF UpdateNeighborList
  <2> QED
    BY <1>4, <1>5, <2>1 DEF UpdateNeighborList
<1>6. CASE SendIncident(n)
  <2>1. PICK e \in Due(n, "SendIncident") :
          Simulate(n, {e}, <<After(IncidentWindow, "SendIncident")>>)
    BY <1>6 DEF SendIncident
  <2> QED
    BY <1>4, <1>6, <2>1 DEF SendIncident
<1> QED
  BY <1>1, <1>2, <1>3, <1>5, <1>6 DEF Timer

LEMMA HandleReadKeepsTimeline ==
  ASSUME TypeOK, TdmaSchedule, KnowsSomebody, NEW n \in Node, VehicleInv(n),
         RequestsInTime, Signed, StageInv(n), StageInv(n)', Timeline(n),
         HandleRead(n)
  PROVE  Timeline(n)'
<1>1. CASE HandleClusterInfo(n) \/ HandleIncidentEvent(n)
  <2>1. UNCHANGED <<pending, m_status>>
    BY <1>1 DEF HandleClusterInfo, HandleIncidentEvent, events
  <2> QED
    BY <2>1, TimelineKept
<1>2. CASE HandleInitiateCluster(n)
  <2>1. now' = now
    BY <1>2 DEF HandleInitiateCluster
  <2>2. CASE UNCHANGED <<m_status, events>>
    BY <2>2, TimelineKept DEF events
  <2>3. CASE AcceptsRequest(n) /\ StartElection(n, {})
    <3>1. m_status[n] = "CLUSTER_INITIALIZATION"
      BY <2>3 DEF AcceptsRequest
    <3>2. PICK p \in Inbox(n, "InitiateCluster") : TRUE
      BY <1>2 DEF HandleInitiateCluster
    <3>3. /\ m_socket[n] /\ WindowEnd(n) + Window < now
          /\ now = FirstSlot(p.from) + 2 * Window /\ p.from \in Node
      BY <3>2 DEF Inbox, RequestsInTime, Signed, TypeOK, Packet
    <3>4. Keys(m_rStableList[n]) /= {}
      BY <3>1, <3>3 DEF KnowsSomebody
    <3>5. \A f \in pending[n] \ {} : f.type = "Stop"
      BY <3>1, <3>3, OnlyStopLeft
    <3> QED
      BY <2>1, <2>3, <3>3, <3>4, <3>5, ElectionKeepsTimeline
  <2> QED
    BY <1>2, <2>2, <2>3 DEF HandleInitiateCluster
<1>3. CASE HandleFormCluster(n)
  <2>1. \/ m_status' = [m_status EXCEPT ![n] = "CLUSTER_UPDATE"]
        \/ UNCHANGED <<m_status, events>>
    BY <1>3 DEF HandleFormCluster
  <2>2. CASE UNCHANGED <<m_status, events>>
    BY <2>2, TimelineKept DEF events
  <2>3. CASE m_status' = [m_status EXCEPT ![n] = "CLUSTER_UPDATE"]
    BY <2>3, TimelineDone DEF TypeOK
  <2> QED
    BY <2>1, <2>2, <2>3
<1> QED
  BY <1>1, <1>2, <1>3 DEF HandleRead

LEMMA StepKeepsSigned ==
  ASSUME TypeOK, NEW n \in Node, StageInv(n), Timeline(n), Signed,
         Application(n) \/ Send(n) \/ Timer(n) \/ HandleRead(n)
  PROVE  Signed'
<1> USE DEF IsDeadline, Deadline, FirstSlot
<1>1. now' = now
  BY ClockStops
<1>2. \A msg : \A p \in Copies(n, msg) : p.msg = msg /\ p.from = n
  BY DEF Copies
<1>3. CASE \A p \in air' \ air : p.msg.kind \in {"ClusterInfo", "IncidentEvent"}
  BY <1>1, <1>3 DEF Signed
<1>4. CASE SendInitiateCluster(n)
  <2>0. PICK e \in SendDue(n, "CLUSTER_HEAD_ELECTION") : TRUE
    BY <1>4 DEF SendInitiateCluster
  <2>1. PICK msg : /\ msg.kind = "InitiateCluster" /\ msg.clusterId = n
                   /\ Transmit(n, msg)
    BY <1>4 DEF SendInitiateCluster, InitiateClusterHeader
  <2>2. now = FirstSlot(n) + 2 * Window
    BY <2>0, DueNow DEF SendDue, Due, StageInv, Timeline
  <2> QED
    BY <1>1, <1>2, <2>1, <2>2 DEF Signed, Transmit
<1>5. CASE SendFormCluster(n)
  <2>0. PICK e \in SendDue(n, "CLUSTER_FORMATION") : TRUE
    BY <1>5 DEF SendFormCluster
  <2>1. PICK msg : /\ msg.kind = "FormCluster" /\ msg.info.clusterId = n
                   /\ Transmit(n, msg)
    <3>1. m_currentMobility[n] \in NeighborInfo
      BY DEF TypeOK
    <3>2. AcquireMobilityInfo(n) \in NeighborInfo
      BY <3>1, MobilityType, NodeAssumption
    <3>3. AsHead(n, AcquireMobilityInfo(n)).clusterId = n
      BY <3>2 DEF AsHead, NeighborInfo
    <3> QED
      BY <1>5, <3>3 DEF SendFormCluster, FormClusterHeader
  <2>2. IsDeadline(now)
    BY <2>0, DueNow DEF SendDue, Due, StageInv, Timeline
  <2> QED
    BY <1>1, <1>2, <2>1, <2>2 DEF Signed, Transmit
<1>6. CASE SendClusterInfo(n) \/ SendUpdate(n)
  <2>1. PICK msg : msg.kind = "ClusterInfo" /\ Transmit(n, msg)
    BY <1>6 DEF SendClusterInfo, SendUpdate, ClusterInfoHeader
  <2> QED
    BY <1>2, <1>3, <2>1 DEF Transmit
<1>7. CASE SendIncident(n)
  <2>1. PICK msg : msg.kind = "IncidentEvent" /\ Report(n, msg)
    BY <1>7 DEF SendIncident, IncidentEventHeader
  <2> QED
    BY <1>2, <1>3, <2>1 DEF Report, Transmit
<1>8. CASE HandleIncidentEvent(n)
  <2>1. PICK p \in Inbox(n, "IncidentEvent") :
          air' \subseteq air \cup Copies(n, p.msg)
    BY <1>8 DEF HandleIncidentEvent
  <2>2. p.msg.kind = "IncidentEvent"
    BY DEF Inbox
  <2> QED
    BY <1>2, <1>3, <2>1, <2>2
<1>9. CASE air' \subseteq air
  BY <1>3, <1>9
<1> QED
  BY <1>4, <1>5, <1>6, <1>7, <1>8, <1>9
  DEF Send, Application, StartApplication, StopApplication, Timer,
      InitiateCluster, FormCluster, UpdateNeighbors, UpdateNeighborList,
      HandleRead, HandleClusterInfo, HandleInitiateCluster, HandleFormCluster,
      Receive, network

\* What a vehicle waits for is over before it stops.
LEMMA OverBeforeStop ==
  ASSUME TypeOK, LateStop, NEW n \in Node, StageInv(n), Lifetime(n), Ordered(n),
         NEW e \in pending[n], e.type \in Duty(m_status[n]), ~ Settled(n)
  PROVE  ~ StopApplication(n)
<1> SUFFICES ASSUME NEW f \in Due(n, "Stop") PROVE FALSE
  BY DEF StopApplication
<1>1. StopTime[n] <= now /\ now <= e.due
  BY DEF Due, Lifetime, StageInv, InSlot
<1>2. PICK w \in WaitingTimes : WindowEnd(n) + 2 * Window + w < StopTime[n]
  BY WaitingTimesAssumption DEF LateStop
<1>3. /\ w \in Nat /\ now \in Nat /\ e.due \in Nat
      /\ m_status[n] \in NodeStatus
  BY WaitingTimesAssumption DEF TypeOK, Event
<1>4. \/ e.type \in {"Start", "Send", "InitiateCluster"}
         /\ m_status[n] = "CLUSTER_INITIALIZATION"
      \/ e.type \in {"Send", "FormCluster"}
         /\ m_status[n] = "CLUSTER_HEAD_ELECTION"
      \/ e.type \in {"Send", "UpdateNeighbors"}
         /\ m_status[n] = "CLUSTER_FORMATION"
  BY <1>3, Duties DEF NodeStatus, Settled
<1>5. \/ e.due = StartTime[n] \/ e.due <= WindowEnd(n)
      \/ e.due <= WindowEnd(n) + Window \/ e.due <= ThirdEnd(n)
      \/ e.due < StopTime[n]
  BY <1>4 DEF StageInv, InSlot, Ordered, Later
<1> QED
  BY <1>1, <1>2, <1>3, <1>5, Times

LEMMA StepKeepsRested ==
  ASSUME TypeOK, LateStop, NEW n \in Node, VehicleInv(n), StageInv(n), Timed(n),
         Lifetime(n), Ordered(n), Silent(n), Rested(n),
         Application(n) \/ Send(n) \/ Timer(n) \/ HandleRead(n)
  PROVE  Rested(n)'
<1> SUFFICES ASSUME ~ m_socket'[n],
                    m_status'[n] \in {"CLUSTER_HEAD_ELECTION", "CLUSTER_FORMATION"}
             PROVE  Stopped(n)' => FALSE
  BY DEF Rested, Stopped
<1>1. ~ StartApplication(n)
  BY DEF StartApplication, TypeOK
<1>2. StopApplication(n) => UNCHANGED m_status
  BY DEF StopApplication
<1>3. CASE Stopped(n)
  <2>1. UpdateNeighborList(n)
    BY <1>3, StoppedStep
  <2> QED
    BY <1>3, <2>1 DEF UpdateNeighborList, Rested
<1>4. CASE Waits(n, {"Start"})
  <2>1. StopApplication(n)
    BY <1>1, <1>4, StartFirst DEF Application
  <2>2. m_status[n] = "CLUSTER_INITIALIZATION"
    BY <1>4, DutyFound DEF StageInv, Waits
  <2> QED
    BY <1>2, <2>1, <2>2
<1>5. CASE m_socket[n]
  <2>1. Send(n) \/ Timer(n) \/ HandleRead(n) => UNCHANGED m_socket
    BY DEF Send, SendClusterInfo, SendInitiateCluster, SendFormCluster,
        SendUpdate, Timer, InitiateCluster, FormCluster, UpdateNeighbors,
        UpdateNeighborList, SendIncident, HandleRead, HandleClusterInfo,
        HandleInitiateCluster, HandleFormCluster, HandleIncidentEvent
  <2>2. StopApplication(n)
    BY <1>1, <1>5, <2>1 DEF Application
  <2>3. m_status[n] \in {"CLUSTER_HEAD_ELECTION", "CLUSTER_FORMATION"}
    BY <1>2, <2>2
  <2>4. PICK e \in pending[n] : e.type \in Duty(m_status[n])
    BY <1>5, <2>3, Duties DEF Timed, Waits
  <2> QED
    BY <2>2, <2>3, <2>4, OverBeforeStop DEF Settled
<1> QED
  BY <1>3, <1>4, <1>5 DEF Stopped

\* Nobody returns to the initialization, and its duties follow each other
\* until the decision of InitiateCluster.
LEMMA BeginningGoesOn ==
  ASSUME TypeOK, LateStop, NEW n \in Node, StageInv(n), Lifetime(n), Ordered(n),
         Begins(n), m_status'[n] = "CLUSTER_INITIALIZATION",
         Application(n) \/ Send(n) \/ Timer(n) \/ HandleRead(n)
  PROVE  Begins(n)' \/ InitiateCluster(n)
<1>1. m_status[n] = "CLUSTER_INITIALIZATION"
  BY StepForward DEF Forward
<1>2. PICK e \in pending[n] : e.type \in Duty("CLUSTER_INITIALIZATION")
  BY DEF Begins, Waits
<1>3. \A f \in pending[n] : f.type \in {"Start", "Send", "InitiateCluster", "Stop"}
  BY <1>1, Duties DEF StageInv, OneDuty
<1>4. ~ StopApplication(n)
  BY <1>1, <1>2, OverBeforeStop DEF Settled
<1>5. CASE StartApplication(n)
  <2>1. PICK s \in Due(n, "Start") :
          Simulate(n, {s}, <<After(TimeWindow[n], "Send")>>)
    BY <1>5 DEF StartApplication
  <2> QED
    BY <2>1, QueueAfterOne, Duties DEF Begins, Waits
<1>6. CASE Send(n)
  <2>1. SendClusterInfo(n)
    BY <1>1, <1>6
    DEF Send, SendInitiateCluster, SendFormCluster, SendUpdate, SendDue
  <2>2. PICK s \in SendDue(n, "CLUSTER_INITIALIZATION") :
          Simulate(n, {s}, <<After(Slot * MaxUes, "InitiateCluster")>>)
    BY <2>1 DEF SendClusterInfo
  <2> QED
    BY <2>2, QueueAfterOne, Duties DEF Begins, Waits
<1>7. Timer(n) => InitiateCluster(n)
  BY <1>3 DEF Timer, FormCluster, UpdateNeighbors, UpdateNeighborList,
              SendIncident, Due
<1>8. CASE HandleRead(n)
  <2>1. UNCHANGED pending
    <3>1. HandleClusterInfo(n) \/ HandleIncidentEvent(n) => UNCHANGED pending
      BY DEF HandleClusterInfo, HandleIncidentEvent, events
    <3>2. ~ (m_status' = [m_status EXCEPT ![n] = "CLUSTER_HEAD_ELECTION"])
      BY DEF TypeOK
    <3>3. HandleInitiateCluster(n) => UNCHANGED pending
      BY <3>2 DEF HandleInitiateCluster, events
    <3>4. HandleFormCluster(n) => UNCHANGED pending
      BY <1>1 DEF HandleFormCluster, Joins, events
    <3> QED
      BY <1>8, <3>1, <3>3, <3>4 DEF HandleRead
  <2> QED
    BY <1>2, <2>1 DEF Begins, Waits
<1> QED
  BY <1>4, <1>5, <1>6, <1>7, <1>8 DEF Application

LEMMA StepKeepsOver ==
  ASSUME TypeOK, LateStop, NEW n \in Node, StageInv(n), Lifetime(n), Ordered(n),
         Over(n), Application(n) \/ Send(n) \/ Timer(n) \/ HandleRead(n)
  PROVE  Over(n)'
<1> SUFFICES ASSUME m_status'[n] = "CLUSTER_INITIALIZATION", ~ Begins(n)'
             PROVE  WindowEnd(n) < now
  <2>1. now' = now /\ WindowEnd(n)' = WindowEnd(n)
    BY ClockStops DEF WindowEnd
  <2> QED
    BY <2>1 DEF Over
<1>1. m_status[n] = "CLUSTER_INITIALIZATION"
  BY StepForward DEF Forward
<1>2. CASE Begins(n)
  <2>1. PICK e \in Due(n, "InitiateCluster") : TRUE
    BY <1>2, BeginningGoesOn DEF InitiateCluster
  <2>2. e.due = now /\ WindowEnd(n) < e.due
    BY <2>1, DueNow DEF Due, StageInv, InSlot
  <2> QED
    BY <2>2
<1> QED
  BY <1>1, <1>2 DEF Over

LEMMA ElectionInit == ASSUME TdmaSchedule PROVE Init => ElectionInv
<1> SUFFICES ASSUME Init PROVE ElectionInv
  OBVIOUS
<1>1. SilenceInv /\ Signed
  BY SilenceInit DEF Init, Signed
<1>2. ASSUME NEW n \in Node PROVE Timeline(n) /\ Rested(n) /\ Over(n)
  <2>1. /\ pending[n] = {[uid |-> 1, type |-> "Start", due |-> StartTime[n]],
                         [uid |-> 2, type |-> "Stop", due |-> StopTime[n]]}
        /\ m_status[n] = "CLUSTER_INITIALIZATION"
    BY DEF Init
  <2>2. Begins(n)
    BY <2>1, Duties DEF Begins, Waits
  <2> QED
    BY <2>1, <2>2 DEF Timeline, Rested, Over
<1> QED
  BY <1>1, <1>2 DEF ElectionInv

\* the steps that are not those of a vehicle
LEMMA Elsewhere ==
  ASSUME TypeOK, NoListener \/ Lose \/ Tick \/ UNCHANGED vars
  PROVE  /\ UNCHANGED <<pending, m_socket, m_status, m_currentMobility,
                        m_2rStableList, m_rStableList>>
         /\ now <= now' /\ air' \subseteq air
         /\ air' = {} \/ now' = now
         /\ Lose \/ losses' = losses
<1>1. /\ UNCHANGED <<pending, m_socket, m_status, m_currentMobility,
                     m_2rStableList, m_rStableList>>
      /\ air' \subseteq air
      /\ air' = {} \/ now' = now
      /\ Lose \/ losses' = losses
  BY DEF NoListener, Receive, Lose, Tick, vars, network, events, lists
<1>2. now <= now'
  <2>1. CASE Tick
    <3>1. PICK t \in Scheduled : now < t /\ now' = t
      BY <2>1 DEF Tick
    <3>2. t \in Nat
      BY DEF Scheduled, TypeOK, Event
    <3> QED
      BY <3>1, <3>2 DEF TypeOK
  <2>2. CASE UNCHANGED now
    BY <2>2 DEF TypeOK
  <2> QED
    BY <2>1, <2>2 DEF NoListener, Lose, vars
<1> QED
  BY <1>1, <1>2

LEMMA ElectionNext == ASSUME Highway PROVE ElectionInv /\ [Next]_vars => ElectionInv'
<1> SUFFICES ASSUME ElectionInv, [Next]_vars PROVE ElectionInv'
  OBVIOUS
<1>1. SilenceInv /\ SilenceInv' /\ KnowsSomebody
  BY SilenceNext, HearingKnows DEF ElectionInv, Highway, SilenceInv
<1>2. /\ TypeOK /\ RequestsInTime /\ Signed /\ TypeOK'
      /\ \A n \in Node :
            /\ VehicleInv(n) /\ Timed(n) /\ StageInv(n) /\ Lifetime(n)
            /\ Ordered(n) /\ Silent(n) /\ Timeline(n) /\ Rested(n) /\ Over(n)
            /\ StageInv(n)'
  BY <1>1 DEF ElectionInv, SilenceInv, HearingInv, LifeInv, TdmaInv, TimedInv,
              MembershipInv
<1>3. CASE \E n \in Node : Application(n) \/ Send(n) \/ Timer(n) \/ HandleRead(n)
  <2>1. PICK n \in Node : Application(n) \/ Send(n) \/ Timer(n) \/ HandleRead(n)
    BY <1>3
  <2>2. Timeline(n)'
    BY <1>1, <1>2, <2>1, ApplicationKeepsTimeline, SendKeepsTimeline,
       TimerKeepsTimeline, HandleReadKeepsTimeline DEF Highway
  <2>3. Rested(n)' /\ Over(n)' /\ Signed' /\ now' = now
    BY <1>2, <2>1, StepKeepsRested, StepKeepsOver, StepKeepsSigned, ClockStops
    DEF Highway
  <2>4. ASSUME NEW m \in Node \ {n} PROVE Timeline(m)' /\ Rested(m)' /\ Over(m)'
    <3>1. Untouched(m)
      BY <1>2, <2>1, OthersUntouched
    <3>2. Timeline(m)'
      BY <1>2, <3>1 DEF Untouched, Timeline, IsDeadline, Deadline, FirstSlot
    <3>3. Rested(m)' /\ Over(m)'
      BY <1>2, <2>3, <3>1
      DEF Untouched, Rested, Stopped, Over, Begins, Waits, WindowEnd
    <3> QED
      BY <3>2, <3>3
  <2> QED
    BY <1>1, <2>2, <2>3, <2>4 DEF ElectionInv
<1>4. CASE NoListener \/ Lose \/ Tick \/ UNCHANGED vars
  <2>1. /\ UNCHANGED <<pending, m_socket, m_status>>
        /\ now <= now' /\ air' \subseteq air
        /\ air' = {} \/ now' = now
    BY <1>2, <1>4, Elsewhere
  <2>2. Signed'
    BY <1>2, <2>1 DEF Signed, FirstSlot, IsDeadline, Deadline
  <2>3. ASSUME NEW n \in Node PROVE Timeline(n)' /\ Rested(n)' /\ Over(n)'
    <3>1. Timeline(n)'
      BY <1>2, <2>1 DEF Timeline, IsDeadline, Deadline, FirstSlot
    <3>2. Rested(n)'
      BY <1>2, <2>1 DEF Rested, Stopped, Waits
    <3>3. WindowEnd(n) < now => WindowEnd(n)' < now'
      BY <1>2, <2>1, Times DEF TypeOK, WindowEnd
    <3>4. Over(n)'
      BY <1>2, <2>1, <3>3 DEF Over, Begins, Waits
    <3> QED
      BY <3>1, <3>2, <3>4
  <2> QED
    BY <1>1, <2>2, <2>3 DEF ElectionInv
<1> QED
  BY <1>3, <1>4 DEF Next

\* whoever takes part in an election or forms a cluster has something to do
LEMMA Working ==
  ASSUME ElectionInv, NEW n \in Node, TakesPart(n)
  PROVE  \E e \in pending[n] : e.type \in Duty(m_status[n])
<1>1. /\ TypeOK /\ VehicleInv(n) /\ Timed(n) /\ StageInv(n) /\ Rested(n)
      /\ m_status[n] \in {"CLUSTER_HEAD_ELECTION", "CLUSTER_FORMATION"}
  BY DEF ElectionInv, SilenceInv, HearingInv, LifeInv, TdmaInv, TimedInv,
         MembershipInv, TakesPart
<1>2. ~ Waits(n, {"Start"})
  BY <1>1, DutyFound DEF StageInv, Waits
<1>3. m_socket[n]
  BY <1>1, <1>2 DEF Rested, Stopped
<1> QED
  BY <1>1, <1>3, Duties DEF Timed, Waits

-----------------------------------------------------------------------------
(***************************************************************************)
(* A head ends the elections of all: everybody who waits for the end of an *)
(* election hears its FormCluster in the millisecond in which it is sent,  *)
(* and knows it.  No election begins after that.                           *)
(***************************************************************************)
Founded == \E n \in Node : Formed(n)

\* an election that a head is about to end
Ending(m) ==
    m_status[m] = "CLUSTER_HEAD_ELECTION" =>
        \E p \in air : p.to = m /\ p.msg.kind = "FormCluster"

FoundedInv ==
    /\ ElectionInv
    /\ (\E p \in air : p.msg.kind = "FormCluster") => Founded
    /\ Founded => \A n \in Node : /\ ThirdEnd(n) < now
                                  /\ losses = 0 => Ending(n)

\* After the first window a vehicle that is not missing is known.
LEMMA KnownInTime ==
  ASSUME TdmaSchedule, LateStop, HearingInv, NEW n \in Node, NEW m \in Node \ {n},
         NotMissing(m, n), WindowEnd(n) + Window < now
  PROVE  m \in Keys(m_rStableList[n]) /\ m \in Keys(m_2rStableList[n])
<1>1. TypeOK /\ StageInv(m) /\ VehicleInv(n)
  BY DEF HearingInv, LifeInv, TdmaInv, TimedInv, MembershipInv
<1>2. StartTime[m] = StartTime[n]
  BY DEF TdmaSchedule
<1>3. ~ (now <= WindowEnd(m))
  BY <1>1, <1>2, Times DEF TypeOK
<1>4. ~ NotSent(m) /\ ~ OnItsWay(m, n)
  BY <1>1, <1>3, FirstSend DEF OnItsWay
<1> QED
  BY <1>1, <1>4 DEF NotMissing, VehicleInv, Nested

\* Without losses a vehicle in an election knows all others.
LEMMA AllKnown ==
  ASSUME TdmaSchedule, LateStop, HearingInv, losses = 0, NEW n \in Node,
         BeforeCluster(n), WindowEnd(n) + Window < now, NEW m \in Node \ {n}
  PROVE  m \in Keys(m_rStableList[n]) /\ m \in Keys(m_2rStableList[n])
<1>1. Cardinality(Missing(n)) <= 0
  BY DEF HearingInv, Hears
<1>2. Missing(n) = {}
  <2>1. Cardinality(Missing(n)) = 0
    BY <1>1, MissingFinite
  <2> QED
    BY <2>1, MissingFinite, FS_EmptySet
<1>3. NotMissing(m, n)
  BY <1>2 DEF Missing
<1> QED
  BY <1>3, KnownInTime

\* the two ways to a place
LEMMA NewlyFormed ==
  ASSUME TypeOK, NEW n \in Node, ~ Formed(n), Formed(n)',
         Application(n) \/ Send(n) \/ Timer(n) \/ HandleRead(n)
  PROVE  SendFormCluster(n) \/ HandleFormCluster(n)
<1> USE DEF Formed, Settled, Waits, Upkeep
<1>1. ASSUME m_status'[n] /= "CLUSTER_UPDATE",
             \A e \in pending'[n] : \/ e \in pending[n]
                                    \/ e.type \notin Upkeep
      PROVE  FALSE
  BY <1>1
<1>2. \A t \in Upkeep : Due(n, t) = {}
  BY DEF Due
<1>3. ~ UpdateNeighbors(n) /\ ~ UpdateNeighborList(n)
  BY <1>2 DEF UpdateNeighbors, UpdateNeighborList
<1>4. ~ SendUpdate(n)
  BY DEF SendUpdate, SendDue
<1>5. \A d : /\ Entry(n, 0, d, "Send").type = "Send"
             /\ Entry(n, 0, d, "InitiateCluster").type = "InitiateCluster"
             /\ Entry(n, 0, d, "FormCluster").type = "FormCluster"
             /\ Entry(n, 0, d, "SendIncident").type = "SendIncident"
             /\ Entry(n, 1, d, "SendIncident").type = "SendIncident"
  BY DEF Entry
<1>6. ASSUME NEW done, NEW d, NEW t \in {"Send", "InitiateCluster", "SendIncident"},
             Simulate(n, done, <<After(d, t)>>)
      PROVE  \A e \in pending'[n] : e \in pending[n] \/ e.type \notin Upkeep
  BY <1>5, <1>6, OneScheduled
<1>7. ASSUME NEW done, Simulate(n, done, <<>>)
      PROVE  \A e \in pending'[n] : e \in pending[n] \/ e.type \notin Upkeep
  BY <1>7, NothingScheduled
<1>8. ASSUME NEW done, StartElection(n, done)
      PROVE  \A e \in pending'[n] : e \in pending[n] \/ e.type \notin Upkeep
  <2>1. PICK w, d :
          Simulate(n, done, <<After(w, "FormCluster"), After(d, "SendIncident")>>)
    BY <1>8 DEF StartElection
  <2>2. pending'[n] = (pending[n] \ done)
          \cup {Entry(n, 0, w, "FormCluster"), Entry(n, 1, d, "SendIncident")}
    BY <2>1, TwoScheduled
  <2> QED
    BY <1>5, <2>2
<1>9. CASE Application(n)
  <2>1. CASE StartApplication(n)
    <3>1. m_status'[n] = "CLUSTER_INITIALIZATION"
      BY <2>1 DEF StartApplication, TypeOK
    <3>2. PICK e : Simulate(n, {e}, <<After(TimeWindow[n], "Send")>>)
      BY <2>1 DEF StartApplication
    <3> QED
      BY <1>1, <1>6, <3>1, <3>2
  <2>2. CASE StopApplication(n)
    <3>1. UNCHANGED m_status
      BY <2>2 DEF StopApplication
    <3>2. PICK e : Simulate(n, {e} \cup Cancelled(n), <<>>)
      BY <2>2 DEF StopApplication
    <3> QED
      BY <1>1, <1>7, <3>1, <3>2
  <2> QED
    BY <1>9, <2>1, <2>2 DEF Application
<1>10. CASE SendClusterInfo(n)
  <2>1. PICK e : Simulate(n, {e}, <<After(Slot * MaxUes, "InitiateCluster")>>)
    BY <1>10 DEF SendClusterInfo
  <2> QED
    BY <1>1, <1>6, <1>10, <2>1 DEF SendClusterInfo
<1>11. CASE SendInitiateCluster(n)
  <2>1. PICK e : StartElection(n, {e})
    BY <1>11 DEF SendInitiateCluster
  <2> QED
    BY <1>1, <1>8, <1>11, <2>1 DEF SendInitiateCluster
<1>12. CASE InitiateCluster(n)
  <2>1. PICK e :
          \/ /\ m_status' = [m_status EXCEPT ![n] = "CLUSTER_HEAD_ELECTION"]
             /\ Simulate(n, {e}, <<After(Slot * MaxUes, "Send")>>)
          \/ Simulate(n, {e}, <<>>) /\ UNCHANGED m_status
    BY <1>12 DEF InitiateCluster
  <2>2. m_status'[n] /= "CLUSTER_UPDATE"
    BY <2>1 DEF TypeOK
  <2> QED
    BY <1>1, <1>6, <1>7, <2>1, <2>2
<1>13. CASE FormCluster(n)
  <2>1. PICK e : Simulate(n, {e}, <<After(0, "Send")>>)
    BY <1>13 DEF FormCluster
  <2>2. m_status'[n] = "CLUSTER_FORMATION"
    BY <1>13 DEF FormCluster, TypeOK
  <2> QED
    BY <1>1, <1>6, <2>1, <2>2
<1>14. CASE SendIncident(n)
  <2>1. PICK e : Simulate(n, {e}, <<After(IncidentWindow, "SendIncident")>>)
    BY <1>14 DEF SendIncident
  <2> QED
    BY <1>1, <1>6, <1>14, <2>1 DEF SendIncident
<1>15. CASE HandleClusterInfo(n) \/ HandleIncidentEvent(n)
  BY <1>1, <1>15 DEF HandleClusterInfo, HandleIncidentEvent, events
<1>16. CASE HandleInitiateCluster(n)
  <2>1. \/ /\ m_status' = [m_status EXCEPT ![n] = "CLUSTER_HEAD_ELECTION"]
           /\ StartElection(n, {})
        \/ UNCHANGED <<m_status, events>>
    BY <1>16 DEF HandleInitiateCluster
  <2>2. m_status'[n] /= "CLUSTER_UPDATE"
    BY <2>1 DEF TypeOK
  <2> QED
    BY <1>1, <1>8, <2>1, <2>2 DEF events
<1> QED
  BY <1>3, <1>4, <1>9, <1>10, <1>11, <1>12, <1>13, <1>14, <1>15, <1>16
  DEF Send, Timer, HandleRead

\* the two ways into an election, both closed when a cluster has formed
LEMMA ElectedInTime ==
  ASSUME Highway, ElectionInv, NEW n \in Node,
         Application(n) \/ Send(n) \/ Timer(n) \/ HandleRead(n),
         m_status'[n] = "CLUSTER_HEAD_ELECTION",
         m_status[n] /= "CLUSTER_HEAD_ELECTION"
  PROVE  now <= ThirdEnd(n)
<1>1. TypeOK /\ StageInv(n) /\ PacketsOrdered
  BY DEF ElectionInv, SilenceInv, HearingInv, LifeInv, TdmaInv, TimedInv,
         MembershipInv
<1>2. InitiateCluster(n) \/ HandleInitiateCluster(n)
  <2>1. ~ (m_status' = [m_status EXCEPT ![n] = "CLUSTER_INITIALIZATION"])
        /\ ~ (m_status' = [m_status EXCEPT ![n] = "CLUSTER_FORMATION"])
        /\ ~ (m_status' = [m_status EXCEPT ![n] = "CLUSTER_UPDATE"])
        /\ ~ (UNCHANGED m_status)
    BY <1>1 DEF TypeOK
  <2> QED
    BY <2>1
    DEF Application, StartApplication, StopApplication, Send, SendClusterInfo,
        SendInitiateCluster, SendFormCluster, SendUpdate, Timer, FormCluster,
        UpdateNeighbors, UpdateNeighborList, SendIncident, HandleRead,
        HandleClusterInfo, HandleFormCluster, HandleIncidentEvent
<1>3. CASE InitiateCluster(n)
  <2>1. PICK e \in Due(n, "InitiateCluster") : TRUE
    BY <1>3 DEF InitiateCluster
  <2>2. e.due = now /\ e.due <= WindowEnd(n) + Window
    BY <1>1, <2>1, DueNow DEF Due, StageInv, InSlot
  <2> QED
    BY <1>1, <2>2, Times DEF TypeOK
<1>4. CASE HandleInitiateCluster(n)
  BY <1>1, <1>4 DEF HandleInitiateCluster, Inbox, PacketsOrdered
<1> QED
  BY <1>2, <1>3, <1>4

\* What a head sends reaches everybody, and who hears it joins.
LEMMA StepKeepsEnding ==
  ASSUME Highway, FoundedInv, losses = 0, NEW n \in Node,
         Application(n) \/ Send(n) \/ Timer(n) \/ HandleRead(n),
         Founded', NEW m \in Node
  PROVE  Ending(m)'
<1>1. /\ TypeOK /\ AirInv /\ HearingInv /\ Signed /\ PacketsOrdered
      /\ StageInv(n) /\ VehicleInv(n) /\ StageInv(m) /\ ElectionInv
  BY DEF FoundedInv, ElectionInv, SilenceInv, HearingInv, LifeInv, TdmaInv,
         TimedInv, MembershipInv
<1>2. SUFFICES ASSUME m_status'[m] = "CLUSTER_HEAD_ELECTION"
               PROVE  \E p \in air' : p.to = m /\ p.msg.kind = "FormCluster"
  BY DEF Ending
<1>3. CASE Founded
  <2>1. ThirdEnd(m) < now /\ Ending(m)
    BY <1>3 DEF FoundedInv
  <2>2. ~ (now <= ThirdEnd(m))
    BY <1>1, <2>1, Times DEF TypeOK
  <2>3. m_status[m] = "CLUSTER_HEAD_ELECTION"
    <3>1. CASE m = n
      BY <1>1, <1>2, <2>2, <3>1, ElectedInTime
    <3>2. CASE m /= n
      BY <1>1, <1>2, <3>2, OthersUntouched DEF Untouched
    <3> QED
      BY <3>1, <3>2
  <2>4. PICK p \in air : p.to = m /\ p.msg.kind = "FormCluster"
    BY <2>1, <2>3 DEF Ending
  <2>5. p \in air'
    <3> SUFFICES ASSUME p \notin air' PROVE FALSE
      OBVIOUS
    <3>1. m = n
      BY <2>4, OnlyOwnPackets
    <3>2. HandleFormCluster(n) /\ p \in Inbox(n, "FormCluster")
      <4>1. ~ Application(n) /\ ~ Send(n) /\ ~ Timer(n)
        BY DEF Application, StartApplication, StopApplication, Send,
            SendClusterInfo, SendInitiateCluster, SendFormCluster, SendUpdate,
            Timer, InitiateCluster, FormCluster, UpdateNeighbors,
            UpdateNeighborList, SendIncident, Report, Transmit, network
      <4>2. ~ HandleClusterInfo(n) /\ ~ HandleInitiateCluster(n)
            /\ ~ HandleIncidentEvent(n)
        BY <2>4 DEF HandleClusterInfo, HandleInitiateCluster,
                    HandleIncidentEvent, Inbox, Receive
      <4>3. HandleFormCluster(n)
        BY <4>1, <4>2 DEF HandleRead
      <4> QED
        BY <2>4, <4>3 DEF HandleFormCluster, Receive, Inbox
    <3>3. PICK q \in Inbox(n, "FormCluster") :
            /\ air' = air \ {q}
            /\ \/ m_status' = [m_status EXCEPT ![n] = "CLUSTER_UPDATE"]
               \/ ~ Joins(n, q.msg.info.clusterId)
      BY <3>2 DEF HandleFormCluster, Receive
    <3>4. q = p
      BY <3>3
    <3>5. p.msg.info.clusterId = p.from /\ p.from \in Node \ {n}
      BY <1>1, <2>4, <3>1 DEF Signed, AirInv, TypeOK, Packet
    <3>6. WindowEnd(n) + Window < now
      BY <1>1, <2>1, <3>1, Times DEF TypeOK
    <3>7. p.from \in Keys(m_2rStableList[n])
      BY <1>1, <2>3, <3>1, <3>5, <3>6, AllKnown DEF Highway, BeforeCluster
    <3>8. m_status' = [m_status EXCEPT ![n] = "CLUSTER_UPDATE"]
      BY <2>3, <3>1, <3>3, <3>4, <3>5, <3>7 DEF Joins
    <3> QED
      BY <1>1, <1>2, <3>1, <3>8 DEF TypeOK
  <2> QED
    BY <2>4, <2>5
<1>4. CASE ~ Founded
  <2>1. ~ Formed(n) /\ Formed(n)'
    <3>1. ASSUME NEW k \in Node \ {n} PROVE ~ Formed(k)'
      BY <1>1, <1>4, <3>1, OthersUntouched
      DEF Founded, Untouched, Formed, Settled, Waits
    <3> QED
      BY <1>4, <3>1 DEF Founded
  <2>2. ~ HandleFormCluster(n)
    BY <1>4 DEF HandleFormCluster, Inbox, FoundedInv
  <2>3. SendFormCluster(n)
    BY <1>1, <2>1, <2>2, NewlyFormed
  <2>4. m /= n
    BY <1>2, <2>3 DEF SendFormCluster, SendDue
  <2>5. PICK msg : msg.kind = "FormCluster" /\ Transmit(n, msg)
    BY <2>3 DEF SendFormCluster, FormClusterHeader
  <2>6. [from |-> n, to |-> m, msg |-> msg] \in air'
    BY <2>4, <2>5 DEF Transmit, Copies, Highway, InRange
  <2> QED
    BY <2>5, <2>6
<1> QED
  BY <1>3, <1>4

LEMMA StepKeepsFounded ==
  ASSUME Highway, FoundedInv, NEW n \in Node,
         Application(n) \/ Send(n) \/ Timer(n) \/ HandleRead(n)
  PROVE  /\ (\E p \in air' : p.msg.kind = "FormCluster") => Founded'
         /\ Founded' => \A m \in Node : ThirdEnd(m) < now
<1>1. /\ TypeOK /\ PacketsOrdered /\ ElectionInv
      /\ \A k \in Node : StageInv(k) /\ VehicleInv(k) /\ EventIds(k) /\ Timed(k)
      /\ Ordered(n)
  BY DEF FoundedInv, ElectionInv, SilenceInv, HearingInv, LifeInv, TdmaInv,
         TimedInv, MembershipInv
<1>2. Founded => Founded'
  <2> SUFFICES ASSUME NEW k \in Node, Formed(k) PROVE Formed(k)'
    BY DEF Founded
  <2>1. CASE k = n
    BY <1>1, <2>1, FormedForGood
  <2>2. CASE k /= n
    BY <1>1, <2>2, OthersUntouched DEF Untouched, Formed, Settled, Waits
  <2> QED
    BY <2>1, <2>2
<1>3. SendFormCluster(n) =>
        /\ Founded'
        /\ \A m \in Node : ThirdEnd(m) < now
  <2> SUFFICES ASSUME SendFormCluster(n)
               PROVE  Formed(n)' /\ \A m \in Node : ThirdEnd(m) < now
    BY DEF Founded
  <2>1. PICK e \in SendDue(n, "CLUSTER_FORMATION") :
          Simulate(n, {e}, <<After(0, "UpdateNeighbors"),
                             After(ListUpdateDelay, "UpdateNeighborList")>>)
    BY DEF SendFormCluster
  <2>2. Formed(n)'
    BY <1>1, <2>1, QueueAfterTwo DEF Formed, Waits, Upkeep
  <2>3. ThirdEnd(n) < now
    BY <1>1, <2>1, DueNow DEF SendDue, Due, StageInv, Ordered, Later
  <2> QED
    BY <2>2, <2>3 DEF Highway, TdmaSchedule, ThirdEnd, WindowEnd
<1>4. ASSUME ~ SendFormCluster(n), NEW p \in air', p.msg.kind = "FormCluster"
      PROVE  Founded'
  <2>1. p \in air
    <3> SUFFICES ASSUME p \notin air PROVE FALSE
      OBVIOUS
    <3>1. \A msg : \A q \in Copies(n, msg) : q.msg = msg
      BY DEF Copies
    <3>2. ~ Application(n)
      BY DEF Application, StartApplication, StopApplication, network
    <3>3. ~ Send(n)
      <4>1. ASSUME NEW msg, msg.kind /= "FormCluster", Transmit(n, msg)
            PROVE  FALSE
        BY <1>4, <3>1, <4>1 DEF Transmit
      <4>2. /\ \A i, info : ClusterInfoHeader(i, info).kind = "ClusterInfo"
            /\ \A i, id : InitiateClusterHeader(i, id).kind = "InitiateCluster"
        BY DEF ClusterInfoHeader, InitiateClusterHeader
      <4> QED
        BY <1>4, <4>1, <4>2
        DEF Send, SendClusterInfo, SendInitiateCluster, SendUpdate
    <3>4. ~ Timer(n)
      <4>1. ASSUME NEW msg, msg.kind = "IncidentEvent", Report(n, msg)
            PROVE  FALSE
        BY <1>4, <3>1, <4>1 DEF Report, Transmit
      <4>2. ~ SendIncident(n)
        BY <4>1 DEF SendIncident, IncidentEventHeader
      <4> QED
        BY <4>2 DEF Timer, InitiateCluster, FormCluster, UpdateNeighbors,
                    UpdateNeighborList, network
    <3>5. ~ HandleRead(n)
      BY <1>4, <3>1
      DEF HandleRead, HandleClusterInfo, HandleInitiateCluster,
          HandleFormCluster, HandleIncidentEvent, Receive, Inbox
    <3> QED
      BY <3>2, <3>3, <3>4, <3>5
  <2> QED
    BY <1>2, <1>4, <2>1 DEF FoundedInv
<1>5. ASSUME ~ SendFormCluster(n), Founded', NEW m \in Node
      PROVE  ThirdEnd(m) < now
  <2>1. CASE Founded
    BY <2>1 DEF FoundedInv
  <2>2. CASE ~ Founded
    <3>1. ~ Formed(n) /\ Formed(n)'
      <4>1. ASSUME NEW k \in Node \ {n} PROVE ~ Formed(k)'
        BY <1>1, <2>2, <4>1, OthersUntouched
        DEF Founded, Untouched, Formed, Settled, Waits
      <4> QED
        BY <1>5, <2>2, <4>1 DEF Founded
    <3>2. HandleFormCluster(n)
      BY <1>1, <1>5, <3>1, NewlyFormed
    <3> QED
      BY <1>1, <3>2 DEF HandleFormCluster, Inbox, PacketsOrdered
  <2> QED
    BY <2>1, <2>2
<1> QED
  BY <1>3, <1>4, <1>5

LEMMA FoundedInit == ASSUME TdmaSchedule PROVE Init => FoundedInv
<1> SUFFICES ASSUME Init PROVE FoundedInv
  OBVIOUS
<1>1. ElectionInv /\ air = {}
  BY ElectionInit DEF Init
<1>2. ~ Founded
  BY DEF Founded, Formed, Settled, Waits, Upkeep, Init
<1> QED
  BY <1>1, <1>2 DEF FoundedInv

\* A packet for a vehicle in an election finds it listening.
LEMMA ListensInElection ==
  ASSUME ElectionInv, NEW n \in Node, m_status[n] = "CLUSTER_HEAD_ELECTION"
  PROVE  m_socket[n]
<1>1. TypeOK /\ StageInv(n) /\ Rested(n)
  BY DEF ElectionInv, SilenceInv, HearingInv, LifeInv, TdmaInv, TimedInv,
         MembershipInv
<1>2. ~ Waits(n, {"Start"})
  BY <1>1, DutyFound DEF StageInv, Waits
<1> QED
  BY <1>1, <1>2 DEF Rested, Stopped

LEMMA FoundedNext == ASSUME Highway PROVE FoundedInv /\ [Next]_vars => FoundedInv'
<1> SUFFICES ASSUME FoundedInv, [Next]_vars PROVE FoundedInv'
  OBVIOUS
<1>1. ElectionInv /\ ElectionInv'
  BY ElectionNext DEF FoundedInv
<1>2. TypeOK /\ TypeOK'
  BY <1>1 DEF ElectionInv, SilenceInv, HearingInv, LifeInv, TdmaInv, TimedInv,
              MembershipInv
<1>3. \A n \in Node : ThirdEnd(n)' = ThirdEnd(n)
  BY DEF ThirdEnd, WindowEnd
<1>4. CASE \E n \in Node : Application(n) \/ Send(n) \/ Timer(n) \/ HandleRead(n)
  <2>1. PICK n \in Node : Application(n) \/ Send(n) \/ Timer(n) \/ HandleRead(n)
    BY <1>4
  <2>2. now' = now /\ losses' = losses
    BY <2>1, ClockStops, NothingLost
  <2>3. /\ (\E p \in air' : p.msg.kind = "FormCluster") => Founded'
        /\ Founded' => \A m \in Node : ThirdEnd(m) < now
    BY <2>1, StepKeepsFounded
  <2>4. ASSUME Founded', losses = 0, NEW m \in Node PROVE Ending(m)'
    BY <2>1, <2>4, StepKeepsEnding
  <2> QED
    BY <1>1, <1>3, <2>2, <2>3, <2>4 DEF FoundedInv
<1>5. CASE NoListener \/ Lose \/ Tick \/ UNCHANGED vars
  <2>1. /\ UNCHANGED <<pending, m_socket, m_status>>
        /\ now <= now' /\ air' \subseteq air /\ (Lose \/ losses' = losses)
    BY <1>2, <1>5, Elsewhere
  <2>2. Founded' => Founded
    BY <2>1 DEF Founded, Formed, Settled, Waits
  <2>3. (\E p \in air' : p.msg.kind = "FormCluster") => Founded'
    BY <2>1 DEF FoundedInv, Founded, Formed, Settled, Waits
  <2>4. ASSUME Founded, NEW n \in Node PROVE ThirdEnd(n) < now'
    BY <1>2, <2>1, <2>4, Times DEF FoundedInv, TypeOK
  <2>5. ASSUME Founded, losses' = 0, NEW m \in Node PROVE Ending(m)'
    <3>1. ~ Lose
      BY <1>2, <2>5 DEF Lose, TypeOK
    <3>2. losses = 0 /\ Ending(m)
      BY <2>1, <2>5, <3>1 DEF FoundedInv
    <3>3. SUFFICES ASSUME NEW p \in air, p.to = m, p.msg.kind = "FormCluster",
                          m_status[m] = "CLUSTER_HEAD_ELECTION"
                   PROVE  p \in air'
      BY <2>1, <3>2 DEF Ending
    <3>4. m_socket[m]
      BY <1>1, <3>3, ListensInElection
    <3> QED
      BY <1>5, <3>1, <3>3, <3>4 DEF NoListener, Receive, Tick, vars, network
  <2> QED
    BY <1>1, <1>3, <2>2, <2>3, <2>4, <2>5 DEF FoundedInv
<1> QED
  BY <1>4, <1>5 DEF Next

\* No two elections go on beside a head: once a vehicle leads a cluster, and
\* nothing was lost, nobody in its reach still waits to lead another one.
THEOREM NoElectionBesideHeadHolds ==
  ASSUME Highway PROVE Spec => []NoElectionBesideHead
<1>1. FoundedInv => NoElectionBesideHead
  <2> SUFFICES ASSUME FoundedInv, NEW n \in Node, NEW m \in Reach[n],
                      losses = 0, air = {}, Settled(n)
               PROVE  m_status[m] /= "CLUSTER_HEAD_ELECTION"
    BY DEF NoElectionBesideHead
  <2>1. m \in Node /\ Founded
    BY ChannelAssumption DEF Founded, Formed
  <2> QED
    BY <2>1 DEF FoundedInv, Ending
<1>2. FoundedInv /\ [Next]_vars => FoundedInv'
  BY FoundedNext
<1> QED
  BY <1>1, <1>2, FoundedInit, PTL DEF Spec, Highway

-----------------------------------------------------------------------------
(***************************************************************************)
(* The election of the slowest vehicle reaches everybody.  The slowest one *)
(* asks for an election whatever the others do; who is left out of it has  *)
(* lost a packet, and nobody is left out for a packet of somebody else.    *)
(***************************************************************************)
Slowest(s) ==
    \A own, other \in NeighborInfo :
        own.imsi = s /\ other.imsi /= s => ~ Slower(other, own)

SomebodySlowest == \E s \in Node : Slowest(s)

LEMMA LeastExists ==
  ASSUME NEW S \in SUBSET Nat, S /= {}
  PROVE  \E x \in S : \A y \in S : x <= y
<1> DEFINE less == {ss \in Nat \X Nat : ss[1] < ss[2]}
<1>1. OpToRel(<, Nat) = less
  BY DEF OpToRel
<1>2. IsWellFoundedOn(less, Nat)
  BY <1>1, NatLessThanWellFounded
<1> HIDE DEF less
<1>3. PICK x \in S : \A y \in S : ~ (<<y, x>> \in less)
  BY <1>2, WFMin
<1>4. \A y \in S : <<y, x>> \in less <=> y < x
  BY DEF less
<1>5. \A y \in S : ~ (y < x)
  BY <1>3, <1>4
<1>6. \A y \in S : y \in Nat
  OBVIOUS
<1> QED
  BY <1>5, <1>6

\* Vehicles that keep their speeds have a slowest one among them: this is what
\* the example's vehicles do within a walk.
SteadySpeeds ==
    \A n \in Node, t \in Nat : VelX(n, 0) \in Int /\ VelX(n, t) = VelX(n, 0)

LEMMA SteadySpeedsSuffice ==
  ASSUME SteadySpeeds, Node /= {} PROVE SomebodySlowest
<1> DEFINE Speed(n) == Abs(VelX(n, 0))
           Speeds == {Speed(n) : n \in Node}
<1>1. \A n \in Node : Speed(n) \in Nat /\ n \in Nat
  BY NodeAssumption DEF SteadySpeeds, Abs
<1>2. \A info \in NeighborInfo : info.imsi \in Node /\ Abs(V(info)) = Speed(info.imsi)
  BY DEF SteadySpeeds, NeighborInfo, V
<1> HIDE DEF Speed
<1>3. Speeds \in SUBSET Nat /\ Speeds /= {}
  BY <1>1
<1>4. PICK v \in Speeds : \A w \in Speeds : v <= w
  BY <1>3, LeastExists
<1> DEFINE Least == {n \in Node : Speed(n) = v}
<1>5. Least \in SUBSET Nat /\ Least /= {}
  BY <1>1
<1>6. PICK s \in Least : \A n \in Least : s <= n
  BY <1>5, LeastExists
<1>7. ASSUME NEW own \in NeighborInfo, NEW other \in NeighborInfo,
             own.imsi = s, other.imsi /= s
      PROVE  ~ Slower(other, own)
  <2>1. s \in Node /\ other.imsi \in Node
    BY <1>2, <1>6
  <2>2. Speed(s) \in Nat /\ Speed(other.imsi) \in Nat /\ s \in Nat /\ other.imsi \in Nat
    BY <1>1, <2>1
  <2>3. /\ Speed(s) <= Speed(other.imsi)
        /\ Speed(other.imsi) = Speed(s) => s <= other.imsi
    BY <1>4, <1>6, <2>1
  <2>4. Slower(other, own) <=>
          \/ Speed(other.imsi) < Speed(s)
          \/ Speed(other.imsi) = Speed(s) /\ other.imsi < s
    BY <1>2, <1>7 DEF Slower
  <2> QED
    BY <2>2, <2>3, <2>4
<1>8. Slowest(s)
  BY <1>7 DEF Slowest
<1> QED
  BY <1>6, <1>8 DEF SomebodySlowest

\* Its request is sent, or it takes part in the election of another vehicle.
Requested(n) ==
    /\ m_status[n] /= "CLUSTER_INITIALIZATION"
    /\ ~ (m_status[n] = "CLUSTER_HEAD_ELECTION" /\ Waits(n, {"Send"}))

Called(s, m) ==
    \E p \in air : p.from = s /\ p.to = m /\ p.msg.kind = "InitiateCluster"

\* m will take part in the election of s, if it hears it
Hopeful(s, m) == NotMissing(s, m) /\ (Requested(s) => Called(s, m))

LeftOut(s) ==
    {m \in Node \ {s} :
        m_status[m] = "CLUSTER_INITIALIZATION" /\ ~ Hopeful(s, m)}

SlowestInv(s) ==
    /\ ElectionInv
    /\ Keyed(s)
    /\ m_status[s] = "CLUSTER_INITIALIZATION" => Begins(s)
    /\ Cardinality(LeftOut(s)) <= losses

\* InitiateCluster decides for the slowest vehicle, whatever its list holds
\* and whatever was in the uninitialised maxDistance.
LEMMA SlowestStands ==
  ASSUME TypeOK, NEW s \in Node, Slowest(s), Keyed(s), VehicleInv(s),
         InitiateCluster(s)
  PROVE  m_status'[s] = "CLUSTER_HEAD_ELECTION"
<1>1. m_currentMobility[s] \in NeighborInfo /\ m_currentMobility[s].imsi = s
      /\ m_2rStableList[s] \in NeighborList
  BY DEF TypeOK, VehicleInv, Identity
<1>2. ASSUME NEW k \in Keys(m_2rStableList[s])
      PROVE  ~ Slower(m_2rStableList[s][k], m_currentMobility[s])
  <2>1. m_2rStableList[s][k] \in NeighborInfo
        /\ m_2rStableList[s][k].imsi = k /\ k /= s
    BY <1>1, <1>2 DEF Keyed, Keys, NeighborList, VehicleInv, Nested
  <2> QED
    BY <1>1, <2>1 DEF Slowest
<1>3. \A g : IsSlowestNode(m_currentMobility[s], m_2rStableList[s], g)
  BY <1>2 DEF IsSlowestNode, Nearby
<1> QED
  BY <1>3 DEF InitiateCluster, TypeOK

LEMMA SlowestBegins ==
  ASSUME Highway, NEW s \in Node, Slowest(s), SlowestInv(s),
         Application(s) \/ Send(s) \/ Timer(s) \/ HandleRead(s),
         m_status'[s] = "CLUSTER_INITIALIZATION"
  PROVE  Begins(s)'
<1>1. TypeOK /\ StageInv(s) /\ VehicleInv(s) /\ Lifetime(s) /\ Ordered(s)
      /\ Keyed(s)
  BY DEF SlowestInv, ElectionInv, SilenceInv, HearingInv, LifeInv, TdmaInv,
         TimedInv, MembershipInv
<1>2. m_status[s] = "CLUSTER_INITIALIZATION"
  BY <1>1, StepForward DEF Forward
<1>3. Begins(s)' \/ InitiateCluster(s)
  BY <1>1, <1>2, BeginningGoesOn DEF SlowestInv, Highway
<1> QED
  BY <1>1, <1>3, SlowestStands

\* The slowest vehicle asks everybody, before it takes part in an election.
LEMMA SlowestCalls ==
  ASSUME Highway, NEW s \in Node, SlowestInv(s), ~ Requested(s), Requested(s)',
         Application(s) \/ Send(s) \/ Timer(s) \/ HandleRead(s),
         NEW m \in Node \ {s}
  PROVE  Called(s, m)'
<1>1. /\ TypeOK /\ StageInv(s) /\ VehicleInv(s) /\ Lifetime(s) /\ Ordered(s)
      /\ RequestsInTime /\ PacketsOrdered /\ TypeOK'
      /\ m_status[s] = "CLUSTER_INITIALIZATION" => Begins(s)
  BY NextType
  DEF SlowestInv, ElectionInv, SilenceInv, HearingInv, LifeInv, TdmaInv,
      TimedInv, MembershipInv, Next
<1>2. SUFFICES SendInitiateCluster(s)
  <2>1. PICK msg : msg.kind = "InitiateCluster" /\ Transmit(s, msg)
    BY <1>2 DEF SendInitiateCluster, InitiateClusterHeader
  <2>2. [from |-> s, to |-> m, msg |-> msg] \in air'
    BY <2>1 DEF Transmit, Copies, Highway, InRange
  <2> QED
    BY <2>1, <2>2 DEF Called
<1>3. CASE m_status[s] = "CLUSTER_INITIALIZATION"
  <2>1. m_status'[s] = "CLUSTER_HEAD_ELECTION" /\ ~ Waits(s, {"Send"})'
    BY <1>1, <1>3, StepForward DEF Requested, Forward
  <2>2. PICK e \in pending[s] : e.type \in {"Start", "Send", "InitiateCluster"}
    BY <1>1, <1>3, Duties DEF Begins, Waits
  <2>3. now <= e.due /\ e.due <= WindowEnd(s) + Window
    <3>1. /\ now <= e.due
          /\ \/ e.due = StartTime[s] \/ e.due <= WindowEnd(s)
             \/ e.due <= WindowEnd(s) + Window
      BY <1>1, <1>3, <2>2 DEF StageInv, InSlot
    <3>2. e.due \in Nat
      BY <1>1 DEF TypeOK, Event
    <3> QED
      BY <3>1, <3>2, Times
  <2>4. ~ HandleInitiateCluster(s)
    <3> SUFFICES ASSUME NEW p \in air, p.msg.kind = "InitiateCluster" PROVE FALSE
      BY DEF HandleInitiateCluster, Inbox
    <3>1. WindowEnd(s) + Window < now
      BY <1>1 DEF RequestsInTime
    <3> QED
      BY <1>1, <2>3, <3>1, Times DEF TypeOK, Event
  <2>5. ~ InitiateCluster(s)
    <3> SUFFICES ASSUME InitiateCluster(s) PROVE Waits(s, {"Send"})'
      BY <2>1
    <3>1. PICK d \in Due(s, "InitiateCluster") :
            Simulate(s, {d}, <<After(Slot * MaxUes, "Send")>>)
      BY <1>1, <1>3, <2>1 DEF InitiateCluster
    <3> QED
      BY <1>1, <3>1, QueueAfterOne DEF Waits
  <2>6. ~ (m_status' = [m_status EXCEPT ![s] = "CLUSTER_INITIALIZATION"])
        /\ ~ (m_status' = [m_status EXCEPT ![s] = "CLUSTER_FORMATION"])
        /\ ~ (m_status' = [m_status EXCEPT ![s] = "CLUSTER_UPDATE"])
        /\ ~ (UNCHANGED m_status)
    BY <1>1, <1>3, <2>1 DEF TypeOK
  <2> QED
    BY <2>4, <2>5, <2>6
    DEF Application, StartApplication, StopApplication, Send, SendClusterInfo,
        SendInitiateCluster, SendFormCluster, SendUpdate, Timer, FormCluster,
        UpdateNeighbors, UpdateNeighborList, SendIncident, HandleRead,
        HandleClusterInfo, HandleFormCluster, HandleIncidentEvent
<1>4. CASE m_status[s] = "CLUSTER_HEAD_ELECTION" /\ Waits(s, {"Send"})
  <2>1. PICK e \in pending[s] : e.type = "Send"
    BY <1>4 DEF Waits
  <2>2. \A f \in pending[s] : f.type \in {"Send", "Stop", "SendIncident"}
    BY <1>1, <1>4, <2>1, Duties, DutyFound DEF StageInv
  <2>3. ~ Waits(s, {"SendIncident"})
    BY <1>1, <1>4 DEF StageInv, NotYet
  <2>4. ~ StopApplication(s)
    BY <1>1, <1>4, <2>1, Duties, OverBeforeStop DEF Settled, Highway
  <2>5. ~ StartApplication(s) /\ ~ Timer(s)
    BY <2>2, <2>3
    DEF StartApplication, Timer, InitiateCluster, FormCluster, UpdateNeighbors,
        UpdateNeighborList, SendIncident, Due, Waits
  <2>6. Send(s) => SendInitiateCluster(s)
    BY <1>4
    DEF Send, SendClusterInfo, SendFormCluster, SendUpdate, SendDue
  <2>7. ~ HandleFormCluster(s)
    <3> SUFFICES ASSUME NEW p \in air, p.msg.kind = "FormCluster" PROVE FALSE
      BY DEF HandleFormCluster, Inbox
    <3>1. ThirdEnd(s) < now /\ now <= e.due /\ e.due <= ThirdEnd(s)
      BY <1>1, <1>4, <2>1 DEF PacketsOrdered, StageInv, InSlot, Ordered
    <3> QED
      BY <1>1, <3>1, Times DEF TypeOK, Event
  <2>8. ASSUME HandleRead(s) PROVE FALSE
    <3>1. UNCHANGED <<m_status, pending>>
      BY <1>4, <2>7, <2>8
      DEF HandleRead, HandleClusterInfo, HandleInitiateCluster, AcceptsRequest,
          HandleIncidentEvent, events
    <3> QED
      BY <1>4, <3>1 DEF Requested, Waits
  <2> QED
    BY <2>4, <2>5, <2>6, <2>8 DEF Application
<1> QED
  BY <1>3, <1>4 DEF Requested

LEMMA StepKeepsHope ==
  ASSUME Highway, NEW s \in Node, SlowestInv(s), NEW n \in Node,
         Application(n) \/ Send(n) \/ Timer(n) \/ HandleRead(n),
         NEW m \in Node \ {s}, m_status'[m] = "CLUSTER_INITIALIZATION",
         Hopeful(s, m)
  PROVE  Hopeful(s, m)'
<1>1. /\ TypeOK /\ LifeInv /\ HearingInv /\ RequestsInTime /\ Signed
      /\ \A k \in Node : StageInv(k) /\ VehicleInv(k)
  BY DEF SlowestInv, ElectionInv, SilenceInv, HearingInv, LifeInv, TdmaInv,
      TimedInv, MembershipInv
<1>2. NotMissing(s, m)'
  BY <1>1, StepKeepsNotMissing DEF Hopeful, Highway, BeforeCluster
<1>3. ASSUME Requested(s), Requested(s)' PROVE Called(s, m)'
  <2>1. PICK p \in air :
          p.from = s /\ p.to = m /\ p.msg.kind = "InitiateCluster"
    BY <1>3 DEF Hopeful, Called
  <2>2. p \in air'
    <3> SUFFICES ASSUME p \notin air' PROVE FALSE
      OBVIOUS
    <3>1. m = n
      BY <2>1, OnlyOwnPackets
    <3>2. HandleInitiateCluster(n)
      <4>1. ~ Application(n) /\ ~ Send(n) /\ ~ Timer(n)
        BY DEF Application, StartApplication, StopApplication, Send,
            SendClusterInfo, SendInitiateCluster, SendFormCluster, SendUpdate,
            Timer, InitiateCluster, FormCluster, UpdateNeighbors,
            UpdateNeighborList, SendIncident, Report, Transmit, network
      <4>2. ~ HandleClusterInfo(n) /\ ~ HandleFormCluster(n)
            /\ ~ HandleIncidentEvent(n)
        BY <2>1 DEF HandleClusterInfo, HandleFormCluster, HandleIncidentEvent,
                    Inbox, Receive
      <4> QED
        BY <4>1, <4>2 DEF HandleRead
    <3>3. PICK q \in Inbox(n, "InitiateCluster") :
            /\ air' = air \ {q}
            /\ AcceptsRequest(n) /\ q.msg.clusterId \in Keys(m_2rStableList[n]) =>
                 m_status' = [m_status EXCEPT ![n] = "CLUSTER_HEAD_ELECTION"]
      BY <3>2 DEF HandleInitiateCluster, Receive
    <3>4. q = p
      BY <3>3
    <3>5. p.msg.clusterId = s /\ WindowEnd(m) + Window < now
      BY <1>1, <2>1 DEF Signed, RequestsInTime
    <3>6. s \in Keys(m_2rStableList[m])
      BY <1>1, <3>5, KnownInTime DEF Hopeful, Highway
    <3>7. m_status[m] = "CLUSTER_INITIALIZATION"
      BY <1>1, <3>1, StepForward DEF Forward
    <3> QED
      BY <1>1, <3>1, <3>3, <3>4, <3>5, <3>6, <3>7 DEF AcceptsRequest, TypeOK
  <2> QED
    BY <2>1, <2>2 DEF Called
<1>4. ASSUME ~ Requested(s), Requested(s)' PROVE Called(s, m)'
  <2>1. CASE n = s
    BY <1>4, <2>1, SlowestCalls
  <2>2. CASE n /= s
    BY <1>1, <1>4, <2>2, OthersUntouched DEF Untouched, Requested, Waits
  <2> QED
    BY <2>1, <2>2
<1> QED
  BY <1>2, <1>3, <1>4 DEF Hopeful

LEMMA LeftOutFinite ==
  ASSUME NEW s \in Node
  PROVE  /\ IsFiniteSet(LeftOut(s)) /\ Cardinality(LeftOut(s)) \in Nat
         /\ IsFiniteSet(LeftOut(s)') /\ Cardinality(LeftOut(s)') \in Nat
<1>1. LeftOut(s) \subseteq Node /\ LeftOut(s)' \subseteq Node
  BY DEF LeftOut
<1> QED
  BY <1>1, NodeAssumption, FS_Subset, FS_CardinalityType

\* A step after which no others are left out than before keeps the count.
LEMMA NobodyElseLeftOut ==
  ASSUME TypeOK, TypeOK', NEW s \in Node, Cardinality(LeftOut(s)) <= losses,
         losses <= losses',
         \A m \in Node \ {s} : m_status'[m] = "CLUSTER_INITIALIZATION" =>
            /\ m_status[m] = "CLUSTER_INITIALIZATION"
            /\ Hopeful(s, m) => Hopeful(s, m)'
  PROVE  Cardinality(LeftOut(s)') <= losses'
<1>1. LeftOut(s)' \subseteq LeftOut(s)
  BY DEF LeftOut
<1>2. Cardinality(LeftOut(s)') <= Cardinality(LeftOut(s))
  BY <1>1, LeftOutFinite, FS_Subset
<1> QED
  BY <1>2, LeftOutFinite DEF TypeOK

\* A packet is lost for one vehicle.
LEMMA LoseLeavesOutOne ==
  ASSUME TypeOK, NEW s \in Node, Cardinality(LeftOut(s)) <= losses, Lose
  PROVE  Cardinality(LeftOut(s)') <= losses'
<1>1. PICK p \in air : air' = air \ {p} /\ losses' = losses + 1
  BY DEF Lose
<1>2. UNCHANGED <<now, pending, m_status, m_rStableList>>
  BY DEF Lose, events, lists
<1>3. LeftOut(s)' \subseteq LeftOut(s) \cup {p.to}
  <2> SUFFICES ASSUME NEW m \in Node \ {s}, Hopeful(s, m), m /= p.to
               PROVE  Hopeful(s, m)'
    BY <1>2 DEF LeftOut
  <2>1. \A q \in air : q.to = m => q \in air'
    BY <1>1
  <2>2. NotMissing(s, m)'
    BY <1>2, <2>1 DEF Hopeful, NotMissing, NotSent, Waits, Keys, OnItsWay
  <2>3. Requested(s)' => Called(s, m)'
    BY <1>2, <2>1 DEF Hopeful, Requested, Waits, Called
  <2> QED
    BY <2>2, <2>3 DEF Hopeful
<1>4. Cardinality(LeftOut(s)') <= Cardinality(LeftOut(s)) + 1
  <2>1. /\ IsFiniteSet(LeftOut(s) \cup {p.to})
        /\ \/ Cardinality(LeftOut(s) \cup {p.to}) = Cardinality(LeftOut(s))
           \/ Cardinality(LeftOut(s) \cup {p.to}) = Cardinality(LeftOut(s)) + 1
    BY LeftOutFinite, FS_AddElement
  <2>2. Cardinality(LeftOut(s)') <= Cardinality(LeftOut(s) \cup {p.to})
    BY <1>3, <2>1, FS_Subset
  <2> QED
    BY <2>1, <2>2, LeftOutFinite
<1> QED
  BY <1>1, <1>4, LeftOutFinite DEF TypeOK

\* A request finds everybody listening who has not taken part yet.
LEMMA RequestFindsListener ==
  ASSUME Highway, ElectionInv, NEW s \in Node, NEW m \in Node, Called(s, m),
         m_status[m] = "CLUSTER_INITIALIZATION"
  PROVE  m_socket[m]
<1>1. TypeOK /\ StageInv(m) /\ Lifetime(m) /\ RequestsInTime /\ PacketsOrdered
  BY DEF ElectionInv, SilenceInv, HearingInv, LifeInv, TdmaInv, TimedInv,
         MembershipInv
<1>2. WindowEnd(m) + Window < now /\ now <= ThirdEnd(m)
  BY <1>1 DEF Called, RequestsInTime, PacketsOrdered
<1>3. ~ Waits(m, {"Start"})
  <2> SUFFICES ASSUME NEW e \in pending[m], e.type = "Start" PROVE FALSE
    BY DEF Waits
  <2>1. now <= StartTime[m]
    BY <1>1 DEF StageInv, InSlot
  <2> QED
    BY <1>1, <1>2, <2>1, Times DEF TypeOK
<1>4. PICK w \in WaitingTimes : WindowEnd(m) + 2 * Window + w < StopTime[m]
  BY WaitingTimesAssumption DEF Highway, LateStop
<1>5. w \in Nat
  BY WaitingTimesAssumption
<1>6. ~ (StopTime[m] <= now)
  BY <1>1, <1>2, <1>4, <1>5, Times DEF TypeOK
<1> QED
  BY <1>1, <1>3, <1>6 DEF Lifetime, Stopped

LEMMA SlowestInit ==
  ASSUME TdmaSchedule, NEW s \in Node PROVE Init => SlowestInv(s)
<1> SUFFICES ASSUME Init PROVE SlowestInv(s)
  OBVIOUS
<1>1. ElectionInv /\ Keyed(s)
  BY ElectionInit, KeyedInit
<1>2. \A n \in Node :
        /\ [uid |-> 1, type |-> "Start", due |-> StartTime[n]] \in pending[n]
        /\ m_status[n] = "CLUSTER_INITIALIZATION"
  BY DEF Init
<1>3. Begins(s) /\ NotSent(s) /\ ~ Requested(s)
  <2>1. [uid |-> 1, type |-> "Start", due |-> StartTime[s]].type = "Start"
    OBVIOUS
  <2>2. \A types : "Start" \in types => Waits(s, types)
    BY <1>2, <2>1 DEF Waits
  <2> QED
    BY <1>2, <2>2, Duties DEF Begins, NotSent, Requested
<1>4. LeftOut(s) = {}
  BY <1>3 DEF LeftOut, Hopeful, NotMissing
<1>5. Cardinality(LeftOut(s)) <= losses
  BY <1>4, FS_EmptySet DEF Init
<1> QED
  BY <1>1, <1>3, <1>5 DEF SlowestInv

LEMMA SlowestNext ==
  ASSUME Highway, NEW s \in Node, Slowest(s)
  PROVE  SlowestInv(s) /\ [Next]_vars => SlowestInv(s)'
<1> SUFFICES ASSUME SlowestInv(s), [Next]_vars PROVE SlowestInv(s)'
  OBVIOUS
<1>1. ElectionInv /\ ElectionInv'
  BY ElectionNext DEF SlowestInv
<1>2. /\ TypeOK /\ TypeOK'
      /\ \A n \in Node : VehicleInv(n) /\ StageInv(n) /\ Lifetime(n)
  BY <1>1 DEF ElectionInv, SilenceInv, HearingInv, LifeInv, TdmaInv, TimedInv,
              MembershipInv
<1>3. CASE \E n \in Node : Application(n) \/ Send(n) \/ Timer(n) \/ HandleRead(n)
  <2>1. PICK n \in Node : Application(n) \/ Send(n) \/ Timer(n) \/ HandleRead(n)
    BY <1>3
  <2>2. Keyed(s)'
    BY <1>2, <2>1, StepKeepsKeyed, OthersUntouched
    DEF SlowestInv, Untouched, Keyed, Keys
  <2>3. m_status'[s] = "CLUSTER_INITIALIZATION" => Begins(s)'
    <3>1. CASE n = s
      BY <2>1, <3>1, SlowestBegins
    <3>2. CASE n /= s
      BY <1>2, <2>1, <3>2, OthersUntouched
      DEF Untouched, SlowestInv, Begins, Waits
    <3> QED
      BY <3>1, <3>2
  <2>4. \A m \in Node \ {s} : m_status'[m] = "CLUSTER_INITIALIZATION" =>
          /\ m_status[m] = "CLUSTER_INITIALIZATION"
          /\ Hopeful(s, m) => Hopeful(s, m)'
    <3> SUFFICES ASSUME NEW m \in Node \ {s},
                        m_status'[m] = "CLUSTER_INITIALIZATION"
                 PROVE  /\ m_status[m] = "CLUSTER_INITIALIZATION"
                        /\ Hopeful(s, m) => Hopeful(s, m)'
      OBVIOUS
    <3>1. Hopeful(s, m) => Hopeful(s, m)'
      BY <2>1, StepKeepsHope
    <3>2. m_status[m] = "CLUSTER_INITIALIZATION"
      <4>1. CASE m = n
        BY <1>2, <2>1, <4>1, StepForward DEF Forward
      <4>2. CASE m /= n
        BY <1>2, <2>1, <4>2, OthersUntouched DEF Untouched
      <4> QED
        BY <4>1, <4>2
    <3> QED
      BY <3>1, <3>2
  <2>5. losses <= losses'
    BY <1>2, <2>1, NothingLost DEF TypeOK
  <2>6. Cardinality(LeftOut(s)') <= losses'
    BY <1>2, <2>4, <2>5, NobodyElseLeftOut DEF SlowestInv
  <2> QED
    BY <1>1, <2>2, <2>3, <2>6 DEF SlowestInv
<1>4. CASE NoListener \/ Lose \/ Tick \/ UNCHANGED vars
  <2>1. /\ UNCHANGED <<pending, m_status, m_2rStableList, m_rStableList>>
        /\ Lose \/ losses' = losses
    BY <1>2, <1>4, Elsewhere
  <2>2. Keyed(s)' /\ (m_status'[s] = "CLUSTER_INITIALIZATION" => Begins(s)')
    BY <2>1 DEF SlowestInv, Keyed, Keys, Begins, Waits
  <2>3. CASE Lose
    BY <1>1, <1>2, <2>2, <2>3, LoseLeavesOutOne DEF SlowestInv
  <2>4. CASE NoListener \/ Tick \/ UNCHANGED vars
    <3>1. ASSUME NEW m \in Node \ {s}, Hopeful(s, m),
                 m_status[m] = "CLUSTER_INITIALIZATION"
          PROVE  Hopeful(s, m)'
      <4>1. CASE NoListener
        <5>1. OnItsWay(s, m) \/ Called(s, m) => m_socket[m]
          BY <1>1, <1>2, <3>1, FirstFindsListener, RequestFindsListener
          DEF Highway
        <5>2. PICK p \in air : ~ m_socket[p.to] /\ air' = air \ {p}
          BY <4>1 DEF NoListener, Receive
        <5>3. now' = now
          BY <4>1 DEF NoListener
        <5>4. OnItsWay(s, m) => OnItsWay(s, m)'
          BY <5>1, <5>2, <5>3 DEF OnItsWay
        <5>5. Called(s, m) => Called(s, m)'
          BY <5>1, <5>2 DEF Called
        <5> QED
          BY <2>1, <3>1, <5>4, <5>5
          DEF Hopeful, NotMissing, NotSent, Waits, Keys, Requested
      <4>2. CASE Tick
        <5>1. air = {} /\ air' = air
          BY <4>2 DEF Tick, network
        <5> QED
          BY <2>1, <3>1, <5>1
          DEF Hopeful, NotMissing, NotSent, Waits, Keys, OnItsWay, Requested,
              Called
      <4>3. CASE UNCHANGED vars
        BY <2>1, <3>1, <4>3
        DEF vars, network, Hopeful, NotMissing, NotSent, Waits, Keys, OnItsWay,
            Requested, Called
      <4> QED
        BY <2>4, <4>1, <4>2, <4>3
    <3>2. losses' = losses
      BY <2>4 DEF NoListener, Receive, Tick, vars, network
    <3>3. losses <= losses'
      BY <1>2, <3>2 DEF TypeOK
    <3>4. \A m \in Node \ {s} : m_status'[m] = "CLUSTER_INITIALIZATION" =>
            /\ m_status[m] = "CLUSTER_INITIALIZATION"
            /\ Hopeful(s, m) => Hopeful(s, m)'
      BY <2>1, <3>1
    <3>5. Cardinality(LeftOut(s)') <= losses'
      BY <1>2, <3>3, <3>4, NobodyElseLeftOut DEF SlowestInv
    <3> QED
      BY <1>1, <2>2, <3>5 DEF SlowestInv
  <2> QED
    BY <1>4, <2>3, <2>4
<1> QED
  BY <1>3, <1>4 DEF Next

\* what has to be done in an election is done when the last deadline is over
LEMMA DoneByDeadline ==
  ASSUME Highway, ElectionInv, NEW n \in Node, NEW e \in pending[n],
         e.type \in Duty(m_status[n]), ~ Settled(n)
  PROVE  \E k \in Node, w \in WaitingTimes : e.due <= Deadline(k, w)
<1>1. TypeOK /\ StageInv(n) /\ Timeline(n) /\ m_status[n] \in NodeStatus
  BY DEF ElectionInv, SilenceInv, HearingInv, LifeInv, TdmaInv, TimedInv,
         MembershipInv, TypeOK
<1>2. e.due \in Nat
  BY <1>1 DEF TypeOK, Event
<1>3. \/ IsDeadline(e.due)
      \/ e.due = StartTime[n] \/ e.due = FirstSlot(n)
      \/ e.due = FirstSlot(n) + Window \/ e.due = FirstSlot(n) + 2 * Window
  <2>1. \/ e.type \in {"Start", "Send", "InitiateCluster"}
           /\ m_status[n] = "CLUSTER_INITIALIZATION"
        \/ e.type \in {"Send", "FormCluster"}
           /\ m_status[n] = "CLUSTER_HEAD_ELECTION"
        \/ e.type \in {"Send", "UpdateNeighbors"}
           /\ m_status[n] = "CLUSTER_FORMATION"
    BY <1>1, Duties DEF NodeStatus, Settled
  <2> QED
    BY <1>1, <2>1 DEF StageInv, InSlot, Timeline
<1>4. CASE IsDeadline(e.due)
  BY <1>2, <1>4 DEF IsDeadline
<1>5. CASE ~ IsDeadline(e.due)
  <2>1. PICK w \in WaitingTimes : w \in Nat
    BY WaitingTimesAssumption
  <2>2. Deadline(n, w) = FirstSlot(n) + Window + Window + w
        /\ StartTime[n] < FirstSlot(n) /\ FirstSlot(n) \in Nat
    BY SlotTimes DEF Highway
  <2>3. e.due <= Deadline(n, w)
    BY <1>2, <1>3, <1>5, <2>1, <2>2, Times
  <2> QED
    BY <2>3
<1> QED
  BY <1>4, <1>5

\* Whatever is lost, at most as many vehicles remain outside all elections as
\* packets were lost: everybody else hears the request of the slowest vehicle
\* and knows it, so no loss costs a second vehicle its cluster.
THEOREM LossStrandsOneHolds ==
  ASSUME Highway, SomebodySlowest PROVE Spec => []LossStrandsOne
<1>1. PICK s \in Node : Slowest(s)
  BY DEF SomebodySlowest
<1>2. SlowestInv(s) => LossStrandsOne
  <2> SUFFICES ASSUME SlowestInv(s), air = {},
                      \A n \in Node :
                        /\ ~ Waits(n, {"InitiateCluster"})
                        /\ m_status[n] = "CLUSTER_HEAD_ELECTION" =>
                              ~ Waits(n, {"Send"})
               PROVE  Cardinality(Stranded) <= losses
    BY DEF LossStrandsOne
  <2>1. /\ TypeOK /\ HearingInv
        /\ \A n \in Node : Over(n) /\ StageInv(n)
    BY DEF SlowestInv, ElectionInv, SilenceInv, HearingInv, LifeInv, TdmaInv,
           TimedInv, MembershipInv
  <2>2. CASE Requested(s)
    <3>1. ASSUME NEW n \in Stranded PROVE n \in LeftOut(s)
      <4>1. n \in Node \ {s} /\ m_status[n] = "CLUSTER_INITIALIZATION"
        BY <2>2 DEF Stranded, Requested
      <4>2. ~ Hopeful(s, n)
        BY <2>2 DEF Hopeful, Called
      <4> QED
        BY <4>1, <4>2 DEF LeftOut
    <3>2. Cardinality(Stranded) <= Cardinality(LeftOut(s))
      BY <3>1, LeftOutFinite, FS_Subset
    <3>3. Stranded \subseteq Node
      BY DEF Stranded
    <3>4. Cardinality(Stranded) \in Nat
      BY <3>3, NodeAssumption, FS_Subset, FS_CardinalityType
    <3> QED
      BY <2>1, <3>2, <3>4, LeftOutFinite DEF SlowestInv, TypeOK
  <2>3. CASE ~ Requested(s)
    <3>1. m_status[s] = "CLUSTER_INITIALIZATION" /\ Begins(s)
      BY <2>3 DEF Requested, SlowestInv
    <3>2. PICK e \in pending[s] : e.type \in {"Start", "Send", "InitiateCluster"}
      BY <3>1, Duties DEF Begins, Waits
    <3>3. e.type \in {"Start", "Send"}
      BY <3>2 DEF Waits
    <3>4. NotSent(s)
      BY <3>1, <3>2, <3>3 DEF NotSent, Waits
    <3>5. now <= WindowEnd(s)
      BY <2>1, <3>4, FirstSend DEF Highway
    <3>6. ASSUME NEW n \in Stranded PROVE FALSE
      <4>1. n \in Node /\ m_status[n] = "CLUSTER_INITIALIZATION"
            /\ ~ Waits(n, EventType \ {"Stop"})
        BY DEF Stranded
      <4>2. ~ Begins(n)
        BY <4>1, Duties DEF Begins, Waits, EventType
      <4>3. WindowEnd(n) < now
        BY <2>1, <4>1, <4>2 DEF Over
      <4>4. WindowEnd(n) = WindowEnd(s)
        BY <4>1 DEF WindowEnd, Highway, TdmaSchedule
      <4> QED
        BY <2>1, <3>5, <4>3, <4>4, Times DEF TypeOK
    <3>7. Stranded = {}
      BY <3>6
    <3> QED
      BY <2>1, <3>7, FS_EmptySet DEF TypeOK
  <2> QED
    BY <2>2, <2>3
<1>3. Init => SlowestInv(s)
  BY SlowestInit DEF Highway
<1>4. SlowestInv(s) /\ [Next]_vars => SlowestInv(s)'
  BY <1>1, SlowestNext
<1> QED
  BY <1>2, <1>3, <1>4, PTL DEF Spec

\* Without losses everybody is settled when the last deadline is over, in the
\* cluster of the first head: nobody is left out of the election, and nobody
\* is still in it.
THEOREM ClusteredInTimeHolds ==
  ASSUME Highway, SomebodySlowest PROVE Spec => []ClusteredInTime
<1>1. PICK s \in Node : Slowest(s)
  BY DEF SomebodySlowest
<1>2. SlowestInv(s) => ClusteredInTime
  <2> SUFFICES ASSUME SlowestInv(s), losses = 0, air = {},
                      \A n \in Node, w \in WaitingTimes, t \in Scheduled :
                         Deadline(n, w) < t,
                      NEW n \in Node
               PROVE  Settled(n)
    BY DEF ClusteredInTime
  <2>1. TypeOK /\ ElectionInv
    BY DEF SlowestInv, ElectionInv, SilenceInv, HearingInv, LifeInv, TdmaInv,
           TimedInv, MembershipInv
  <2>2. ASSUME NEW k \in Node, NEW e \in pending[k], e.type \in Duty(m_status[k]),
               ~ Settled(k)
        PROVE  FALSE
    <3>1. PICK i \in Node, w \in WaitingTimes : e.due <= Deadline(i, w)
      BY <2>1, <2>2, DoneByDeadline
    <3>2. e.due \in Scheduled
      BY DEF Scheduled
    <3>3. Deadline(i, w) < e.due
      BY <3>2
    <3>4. e.due \in Nat /\ w \in Nat
      BY <2>1, WaitingTimesAssumption DEF TypeOK, Event
    <3>5. Deadline(i, w) \in Nat
      BY <3>4, SlotTimes, Times DEF Highway
    <3> QED
      BY <3>1, <3>3, <3>4, <3>5
  <2>3. \A k \in Node : ~ TakesPart(k)
    BY <2>1, <2>2, Working DEF TakesPart, Settled
  <2>4. Requested(s)
    <3>1. m_status[s] /= "CLUSTER_INITIALIZATION"
      BY <2>2 DEF SlowestInv, Begins, Waits, Settled
    <3> QED
      BY <2>3, <3>1 DEF Requested, TakesPart
  <2>5. LeftOut(s) = {}
    <3>1. Cardinality(LeftOut(s)) = 0
      BY LeftOutFinite DEF SlowestInv
    <3> QED
      BY <3>1, LeftOutFinite, FS_EmptySet
  <2>6. m_status[n] /= "CLUSTER_INITIALIZATION"
    BY <2>4, <2>5 DEF LeftOut, Hopeful, Called, Requested
  <2>7. m_status[n] \in NodeStatus
    BY <2>1 DEF TypeOK
  <2> QED
    BY <2>3, <2>6, <2>7 DEF TakesPart, NodeStatus, Settled
<1>3. Init => SlowestInv(s)
  BY SlowestInit DEF Highway
<1>4. SlowestInv(s) /\ [Next]_vars => SlowestInv(s)'
  BY <1>1, SlowestNext
<1> QED
  BY <1>2, <1>3, <1>4, PTL DEF Spec

=============================================================================
