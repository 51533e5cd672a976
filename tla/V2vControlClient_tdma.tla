------------------------ MODULE V2vControlClient_tdma ------------------------
(***************************************************************************)
(* Proofs of what the TDMA schedule of the example buys: when all vehicles *)
(* start together and each first sends in a slot of one common window,     *)
(* every vehicle goes through the formation of clusters once, with one     *)
(* timer at a time, and what it fails to cancel is a single event.         *)
(* (V2vControlClient_timers needs no schedule.)                            *)
(***************************************************************************)
EXTENDS V2vControlClient_timers, FiniteSetTheorems

Window == Slot * MaxUes

\* when the last slot of the window in which vehicle n starts is over
WindowEnd(n) == StartTime[n] + Window

\* tdmaStart = (u + 1) * minimumTdmaSlot (examples/v2v-clustering-example.cc)
TdmaSchedule ==
    \A n \in Node : /\ TimeWindow[n] \in 1..Window
                    /\ \A m \in Node : StartTime[m] = StartTime[n]

-----------------------------------------------------------------------------
(***************************************************************************)
(* The inductive invariant.  In each status a vehicle has one duty at a    *)
(* time: the event that takes it further.  That is so because the windows  *)
(* do not overlap: an initialization is over, and every InitiateCluster    *)
(* event ran, before the first InitiateCluster packet is in the air.       *)
(***************************************************************************)
Duty(status) ==
    CASE status = "CLUSTER_INITIALIZATION" -> {"Start", "Send", "InitiateCluster"}
      [] status = "CLUSTER_HEAD_ELECTION"  -> {"Send", "FormCluster"}
      [] status = "CLUSTER_FORMATION"      -> {"Send", "UpdateNeighbors"}
      [] status = "CLUSTER_UPDATE"         -> {"UpdateNeighborList"}

\* the events that may be pending beside the duty
Routine(status) ==
    CASE status = "CLUSTER_INITIALIZATION" -> {"Stop"}
      [] status = "CLUSTER_HEAD_ELECTION"  -> {"Stop", "SendIncident"}
      [] status = "CLUSTER_FORMATION" ->
            {"Stop", "SendIncident", "UpdateNeighborList"}
      [] status = "CLUSTER_UPDATE" -> {"Stop", "SendIncident", "Send"}

OneDuty(n) ==
    /\ \A e \in pending[n] :
          e.type \in Duty(m_status[n]) \cup Routine(m_status[n])
    /\ \A e, f \in pending[n] :
          e.type \in Duty(m_status[n]) /\ f.type \in Duty(m_status[n]) => e = f

OneChain(n) ==
    \A e, f \in pending[n] :
        e.type = "UpdateNeighborList" /\ f.type = "UpdateNeighborList" => e = f

\* what the next Send of the vehicle schedules is not scheduled yet
NotYet(n) ==
    /\ m_status[n] = "CLUSTER_HEAD_ELECTION" /\ Waits(n, {"Send"}) =>
          ~ Waits(n, {"SendIncident"})
    /\ m_status[n] = "CLUSTER_FORMATION" /\ Waits(n, {"Send"}) =>
          ~ Waits(n, {"UpdateNeighborList"})

TimersTracked(n) ==
    \A e \in pending[n] :
        /\ e.type = "FormCluster" => e.uid = m_chElectionEvent[n]
        /\ e.type = "SendIncident" => e.uid = m_sendIncidentEvent[n]

InSlot(n) ==
    \A e \in pending[n] :
        /\ now <= e.due
        /\ e.type = "Start" => e.due = StartTime[n]
        /\ m_status[n] = "CLUSTER_INITIALIZATION" /\ e.type = "Send" =>
              StartTime[n] < e.due /\ e.due <= WindowEnd(n)
        /\ e.type = "InitiateCluster" =>
              WindowEnd(n) < e.due /\ e.due <= WindowEnd(n) + Window
        /\ m_status[n] = "CLUSTER_HEAD_ELECTION" /\ e.type = "Send" =>
              WindowEnd(n) + Window < e.due

MembersLed(n) ==
    m_clusterList[n] /= {} => Settled(n) /\ m_currentMobility[n].degree = "CH"

StageInv(n) == /\ OneDuty(n) /\ OneChain(n) /\ NotYet(n) /\ TimersTracked(n)
               /\ InSlot(n) /\ MembersLed(n)

RequestsInTime ==
    \A p \in air, n \in Node :
        p.msg.kind = "InitiateCluster" => WindowEnd(n) + Window < now

TdmaInv == TimedInv /\ RequestsInTime /\ \A n \in Node : StageInv(n)

-----------------------------------------------------------------------------
LEMMA Duties ==
  /\ Duty("CLUSTER_INITIALIZATION") = {"Start", "Send", "InitiateCluster"}
  /\ Duty("CLUSTER_HEAD_ELECTION") = {"Send", "FormCluster"}
  /\ Duty("CLUSTER_FORMATION") = {"Send", "UpdateNeighbors"}
  /\ Duty("CLUSTER_UPDATE") = {"UpdateNeighborList"}
  /\ Routine("CLUSTER_INITIALIZATION") = {"Stop"}
  /\ Routine("CLUSTER_HEAD_ELECTION") = {"Stop", "SendIncident"}
  /\ Routine("CLUSTER_FORMATION") =
        {"Stop", "SendIncident", "UpdateNeighborList"}
  /\ Routine("CLUSTER_UPDATE") = {"Stop", "SendIncident", "Send"}
  BY DEF Duty, Routine

\* which status an event that is due finds, and what else is pending then
LEMMA DutyFound ==
  ASSUME TypeOK, NEW n \in Node, OneDuty(n), NEW e \in pending[n]
  PROVE  /\ e.type \in {"Start", "InitiateCluster"} =>
              m_status[n] = "CLUSTER_INITIALIZATION"
         /\ e.type = "FormCluster" => m_status[n] = "CLUSTER_HEAD_ELECTION"
         /\ e.type = "UpdateNeighbors" => m_status[n] = "CLUSTER_FORMATION"
         /\ e.type = "UpdateNeighborList" =>
              m_status[n] \in {"CLUSTER_FORMATION", "CLUSTER_UPDATE"}
         /\ e.type \in Duty(m_status[n]) =>
              \A f \in pending[n] \ {e} : f.type \in Routine(m_status[n])
<1>1. m_status[n] \in NodeStatus
  BY DEF TypeOK
<1>2. e.type \in Duty(m_status[n]) \cup Routine(m_status[n])
  BY DEF OneDuty
<1>3. e.type \in Duty(m_status[n]) =>
        \A f \in pending[n] \ {e} : f.type \in Routine(m_status[n])
  BY DEF OneDuty
<1> QED
  BY <1>1, <1>2, <1>3, Duties DEF NodeStatus

\* Nothing is overdue: the clock stops at every event.
LEMMA DueNow ==
  ASSUME TypeOK, NEW n \in Node, InSlot(n), NEW e \in pending[n], e.due <= now
  PROVE  e.due = now
<1>1. e.due \in Nat /\ now \in Nat /\ now <= e.due
  BY DEF TypeOK, Event, InSlot
<1> QED
  BY <1>1

\* The first Send leaves slot and window to the InitiateCluster event.
LEMMA StartKeepsStage ==
  ASSUME TypeOK, NEW n \in Node, TdmaSchedule, StageInv(n), StartApplication(n)
  PROVE  StageInv(n)'
<1>1. PICK e \in Due(n, "Start") :
        Simulate(n, {e}, <<After(TimeWindow[n], "Send")>>)
  BY DEF StartApplication
<1>2. /\ m_status'[n] = "CLUSTER_INITIALIZATION" /\ m_clusterList'[n] = {}
      /\ UNCHANGED now
  BY DEF StartApplication, TypeOK
<1>3. e \in pending[n] /\ e.type = "Start" /\ e.due <= now
  BY DEF Due
<1>4. \A f \in pending[n] \ {e} : f.type = "Stop"
  BY <1>3, Duties, DutyFound DEF StageInv
<1> DEFINE new == Entry(n, 0, TimeWindow[n], "Send")
<1>5. pending'[n] = (pending[n] \ {e}) \cup {new}
  BY <1>1, OneScheduled
<1>6. new.type = "Send" /\ new.due = now + TimeWindow[n]
  BY DEF Entry
<1>7. now <= new.due /\ StartTime[n] < new.due /\ new.due <= WindowEnd(n)
  BY <1>3, <1>6, TimeAssumption, TdmaAssumption
  DEF StageInv, InSlot, TypeOK, Event, TdmaSchedule, Window, WindowEnd
<1> HIDE DEF new
<1>8. OneDuty(n)' /\ OneChain(n)' /\ NotYet(n)' /\ TimersTracked(n)'
  BY <1>2, <1>4, <1>5, <1>6, Duties
  DEF OneDuty, OneChain, NotYet, TimersTracked, Waits
<1>9. InSlot(n)'
  BY <1>2, <1>4, <1>5, <1>6, <1>7 DEF StageInv, InSlot
<1> QED
  BY <1>2, <1>8, <1>9 DEF StageInv, MembersLed

\* A step that only takes events from the queue keeps the stage.
LEMMA ShrinkKeepsStage ==
  ASSUME NEW n \in Node, StageInv(n), pending'[n] \subseteq pending[n],
         UNCHANGED <<now, m_chElectionEvent, m_sendIncidentEvent>>,
         m_status'[n] = m_status[n], MembersLed(n)'
  PROVE  StageInv(n)'
  BY DEF StageInv, OneDuty, OneChain, NotYet, TimersTracked, InSlot, Waits

LEMMA StopKeepsStage ==
  ASSUME TypeOK, NEW n \in Node, StageInv(n), StopApplication(n)
  PROVE  StageInv(n)'
<1>1. PICK e \in Due(n, "Stop") : Simulate(n, {e} \cup Cancelled(n), <<>>)
  BY DEF StopApplication
<1>2. pending'[n] \subseteq pending[n]
  BY <1>1, NothingScheduled
<1>3. UNCHANGED <<now, m_status, m_currentMobility, m_clusterList,
                  m_chElectionEvent, m_sendIncidentEvent>>
  BY DEF StopApplication, lists, timers
<1> QED
  BY <1>2, <1>3, ShrinkKeepsStage DEF StageInv, MembersLed, Settled

\* the four kinds of Send
LEMMA SendClusterInfoKeepsStage ==
  ASSUME TypeOK, NEW n \in Node, TdmaSchedule, StageInv(n), SendClusterInfo(n)
  PROVE  StageInv(n)'
<1>1. PICK e \in SendDue(n, "CLUSTER_INITIALIZATION") :
        Simulate(n, {e}, <<After(Slot * MaxUes, "InitiateCluster")>>)
  BY DEF SendClusterInfo
<1>2. m_status[n] = "CLUSTER_INITIALIZATION"
      /\ UNCHANGED <<now, m_status, m_currentMobility, m_clusterList>>
  BY DEF SendClusterInfo, SendDue, lists
<1>3. e \in pending[n] /\ e.type = "Send" /\ e.due <= now
  BY DEF SendDue, Due
<1>4. \A f \in pending[n] \ {e} : f.type = "Stop"
  BY <1>2, <1>3, Duties, DutyFound DEF StageInv
<1> DEFINE new == Entry(n, 0, Window, "InitiateCluster")
<1>5. pending'[n] = (pending[n] \ {e}) \cup {new}
  BY <1>1, OneScheduled DEF Window
<1>6. new.type = "InitiateCluster" /\ new.due = now + Window
  BY DEF Entry
<1>7. WindowEnd(n) < new.due /\ new.due <= WindowEnd(n) + Window /\ now <= new.due
  <2>1. StartTime[n] < now /\ now <= WindowEnd(n)
    BY <1>2, <1>3, DueNow DEF StageInv, InSlot
  <2> QED
    BY <1>6, <2>1, TimeAssumption, TdmaAssumption DEF TypeOK, Window, WindowEnd
<1> HIDE DEF new
<1>8. OneDuty(n)' /\ OneChain(n)' /\ NotYet(n)' /\ TimersTracked(n)'
  BY <1>2, <1>4, <1>5, <1>6, Duties
  DEF OneDuty, OneChain, NotYet, TimersTracked, Waits
<1>9. InSlot(n)'
  BY <1>2, <1>4, <1>5, <1>6, <1>7 DEF StageInv, InSlot
<1> QED
  BY <1>2, <1>8, <1>9 DEF StageInv, MembersLed, Settled

\* An election: its two events are the ones the event ids name.
LEMMA ElectionKeepsStage ==
  ASSUME TypeOK, NEW n \in Node, StageInv(n), NEW done, StartElection(n, done),
         \A f \in pending[n] \ done : f.type = "Stop",
         m_status'[n] = "CLUSTER_HEAD_ELECTION",
         UNCHANGED <<now, m_clusterList>>, m_clusterList[n] = {}
  PROVE  StageInv(n)'
<1>1. PICK w \in Nat, d \in Nat :
        /\ Simulate(n, done, <<After(w, "FormCluster"), After(d, "SendIncident")>>)
        /\ m_chElectionEvent'[n] = nextUid[n]
        /\ m_sendIncidentEvent'[n] = nextUid[n] + 1
  BY ElectionScheduled
<1> DEFINE first == Entry(n, 0, w, "FormCluster")
           second == Entry(n, 1, d, "SendIncident")
<1>2. pending'[n] = (pending[n] \ done) \cup {first, second}
  BY <1>1, TwoScheduled
<1>3. /\ first.type = "FormCluster" /\ first.uid = nextUid[n] + 0
      /\ first.due = now + w
      /\ second.type = "SendIncident" /\ second.uid = nextUid[n] + 1
      /\ second.due = now + d
  BY DEF Entry
<1>4. nextUid[n] + 0 = nextUid[n] /\ now <= now + w /\ now <= now + d
  BY <1>1 DEF TypeOK
<1> HIDE DEF first, second
<1>5. OneDuty(n)' /\ OneChain(n)' /\ NotYet(n)' /\ TimersTracked(n)'
  BY <1>1, <1>2, <1>3, <1>4, Duties
  DEF OneDuty, OneChain, NotYet, TimersTracked, Waits
<1>6. InSlot(n)'
  BY <1>2, <1>3, <1>4 DEF StageInv, InSlot
<1> QED
  BY <1>5, <1>6 DEF StageInv, MembersLed

LEMMA SendInitiateClusterKeepsStage ==
  ASSUME TypeOK, NEW n \in Node, StageInv(n), SendInitiateCluster(n)
  PROVE  StageInv(n)'
<1>1. PICK e \in SendDue(n, "CLUSTER_HEAD_ELECTION") : StartElection(n, {e})
  BY DEF SendInitiateCluster
<1>2. m_status[n] = "CLUSTER_HEAD_ELECTION"
      /\ UNCHANGED <<now, m_status, m_clusterList>>
  BY DEF SendInitiateCluster, SendDue, lists
<1>3. e \in pending[n] /\ e.type = "Send"
  BY DEF SendDue, Due
<1>4. \A f \in pending[n] \ {e} : f.type \in {"Stop", "SendIncident"}
  BY <1>2, <1>3, Duties, DutyFound DEF StageInv
<1>5. \A f \in pending[n] \ {e} : f.type = "Stop"
  BY <1>2, <1>3, <1>4 DEF StageInv, NotYet, Waits
<1>6. m_clusterList[n] = {}
  BY <1>2 DEF StageInv, MembersLed, Settled
<1> QED
  BY <1>1, <1>2, <1>5, <1>6, ElectionKeepsStage

LEMMA SendFormClusterKeepsStage ==
  ASSUME TypeOK, NEW n \in Node, StageInv(n), SendFormCluster(n)
  PROVE  StageInv(n)'
<1>1. PICK e \in SendDue(n, "CLUSTER_FORMATION") :
        Simulate(n, {e}, <<After(0, "UpdateNeighbors"),
                           After(ListUpdateDelay, "UpdateNeighborList")>>)
  BY DEF SendFormCluster
<1>2. m_status[n] = "CLUSTER_FORMATION"
      /\ UNCHANGED <<now, m_status, m_clusterList, m_chElectionEvent,
                     m_sendIncidentEvent>>
  BY DEF SendFormCluster, SendDue, lists, timers
<1>3. e \in pending[n] /\ e.type = "Send"
  BY DEF SendDue, Due
<1>4. \A f \in pending[n] \ {e} : f.type \in {"Stop", "SendIncident"}
  BY <1>2, <1>3, Duties, DutyFound DEF StageInv, NotYet, Waits
<1> DEFINE first == Entry(n, 0, 0, "UpdateNeighbors")
           second == Entry(n, 1, ListUpdateDelay, "UpdateNeighborList")
<1>5. pending'[n] = (pending[n] \ {e}) \cup {first, second}
  BY <1>1, TwoScheduled
<1>6. /\ first.type = "UpdateNeighbors" /\ first.due = now + 0
      /\ second.type = "UpdateNeighborList" /\ second.due = now + ListUpdateDelay
  BY DEF Entry
<1>7. now <= now + 0 /\ now <= now + ListUpdateDelay
  BY ListUpdateDelayType DEF TypeOK
<1> HIDE DEF first, second
<1>8. OneDuty(n)' /\ OneChain(n)' /\ NotYet(n)' /\ TimersTracked(n)'
  BY <1>2, <1>4, <1>5, <1>6, Duties
  DEF StageInv, OneDuty, OneChain, NotYet, TimersTracked, Waits
<1>9. InSlot(n)'
  BY <1>2, <1>4, <1>5, <1>6, <1>7 DEF StageInv, InSlot
<1>10. m_clusterList'[n] = {}
  BY <1>2 DEF StageInv, MembersLed, Settled
<1> QED
  BY <1>8, <1>9, <1>10 DEF StageInv, MembersLed

LEMMA SendUpdateKeepsStage ==
  ASSUME TypeOK, NEW n \in Node, StageInv(n), SendUpdate(n)
  PROVE  StageInv(n)'
<1>1. PICK e \in SendDue(n, "CLUSTER_UPDATE") :
        Simulate(n, {e}, <<After(Interval, "Send")>>)
  BY DEF SendUpdate
<1>2. m_status[n] = "CLUSTER_UPDATE"
      /\ UNCHANGED <<now, m_status, m_clusterList, m_chElectionEvent,
                     m_sendIncidentEvent>>
      /\ m_currentMobility'[n].degree = m_currentMobility[n].degree
  BY DEF SendUpdate, SendDue, lists, AcquireMobilityInfo, TypeOK, NeighborInfo
<1> DEFINE new == Entry(n, 0, Interval, "Send")
<1>3. pending'[n] = (pending[n] \ {e}) \cup {new}
  BY <1>1, OneScheduled
<1>4. new.type = "Send" /\ new.due = now + Interval /\ now <= now + Interval
  BY TimeAssumption DEF Entry, TypeOK
<1> HIDE DEF new
<1>5. OneDuty(n)' /\ OneChain(n)' /\ NotYet(n)' /\ TimersTracked(n)'
  BY <1>2, <1>3, <1>4, Duties
  DEF StageInv, OneDuty, OneChain, NotYet, TimersTracked, Waits
<1>6. InSlot(n)'
  BY <1>2, <1>3, <1>4 DEF StageInv, InSlot
<1> QED
  BY <1>2, <1>5, <1>6 DEF StageInv, MembersLed, Settled

\* the other timers
LEMMA InitiateClusterKeepsStage ==
  ASSUME TypeOK, NEW n \in Node, StageInv(n), InitiateCluster(n)
  PROVE  StageInv(n)'
<1>1. PICK e \in Due(n, "InitiateCluster") :
        \/ /\ m_status' = [m_status EXCEPT ![n] = "CLUSTER_HEAD_ELECTION"]
           /\ Simulate(n, {e}, <<After(Slot * MaxUes, "Send")>>)
        \/ Simulate(n, {e}, <<>>) /\ UNCHANGED m_status
  BY DEF InitiateCluster
<1>2. UNCHANGED <<now, m_clusterList, m_currentMobility, m_chElectionEvent,
                  m_sendIncidentEvent>>
  BY DEF InitiateCluster, lists
<1>3. e \in pending[n] /\ e.type = "InitiateCluster" /\ e.due <= now
  BY DEF Due
<1>4. CASE Simulate(n, {e}, <<>>) /\ UNCHANGED m_status
  <2>1. pending'[n] \subseteq pending[n]
    BY <1>4, NothingScheduled
  <2> QED
    BY <1>2, <1>4, <2>1, ShrinkKeepsStage DEF StageInv, MembersLed, Settled
<1>5. CASE /\ m_status' = [m_status EXCEPT ![n] = "CLUSTER_HEAD_ELECTION"]
           /\ Simulate(n, {e}, <<After(Slot * MaxUes, "Send")>>)
  <2>1. \A f \in pending[n] \ {e} : f.type = "Stop"
    BY <1>3, Duties, DutyFound DEF StageInv
  <2>2. m_status[n] = "CLUSTER_INITIALIZATION"
    BY <1>3, DutyFound DEF StageInv
  <2>3. m_status'[n] = "CLUSTER_HEAD_ELECTION"
    BY <1>5 DEF TypeOK
  <2> DEFINE new == Entry(n, 0, Window, "Send")
  <2>4. pending'[n] = (pending[n] \ {e}) \cup {new}
    BY <1>5, OneScheduled DEF Window
  <2>5. new.type = "Send" /\ new.due = now + Window
    BY DEF Entry
  <2>6. WindowEnd(n) + Window < new.due /\ now <= new.due
    <3>1. WindowEnd(n) < now
      BY <1>3, DueNow DEF StageInv, InSlot
    <3> QED
      BY <2>5, <3>1, TimeAssumption, TdmaAssumption DEF TypeOK, Window, WindowEnd
  <2> HIDE DEF new
  <2>7. OneDuty(n)' /\ OneChain(n)' /\ NotYet(n)' /\ TimersTracked(n)'
    BY <2>1, <2>3, <2>4, <2>5, Duties
    DEF OneDuty, OneChain, NotYet, TimersTracked, Waits
  <2>8. InSlot(n)'
    BY <1>2, <2>1, <2>3, <2>4, <2>5, <2>6 DEF StageInv, InSlot
  <2>9. m_clusterList'[n] = {}
    BY <1>2, <2>2 DEF StageInv, MembersLed, Settled
  <2> QED
    BY <2>7, <2>8, <2>9 DEF StageInv, MembersLed
<1> QED
  BY <1>1, <1>4, <1>5

LEMMA FormClusterKeepsStage ==
  ASSUME TypeOK, NEW n \in Node, StageInv(n), FormCluster(n)
  PROVE  StageInv(n)'
<1>1. PICK e \in Due(n, "FormCluster") : Simulate(n, {e}, <<After(0, "Send")>>)
  BY DEF FormCluster
<1>2. m_status'[n] = "CLUSTER_FORMATION"
      /\ UNCHANGED <<now, m_clusterList, m_chElectionEvent, m_sendIncidentEvent>>
  BY DEF FormCluster, TypeOK, lists
<1>3. e \in pending[n] /\ e.type = "FormCluster"
  BY DEF Due
<1>4. m_status[n] = "CLUSTER_HEAD_ELECTION"
  BY <1>3, DutyFound DEF StageInv
<1>5. \A f \in pending[n] \ {e} : f.type \in {"Stop", "SendIncident"}
  BY <1>3, <1>4, Duties, DutyFound DEF StageInv
<1> DEFINE new == Entry(n, 0, 0, "Send")
<1>6. pending'[n] = (pending[n] \ {e}) \cup {new}
  BY <1>1, OneScheduled
<1>7. new.type = "Send" /\ new.due = now + 0 /\ now <= now + 0
  BY DEF Entry, TypeOK
<1> HIDE DEF new
<1>8. OneDuty(n)' /\ OneChain(n)' /\ NotYet(n)' /\ TimersTracked(n)'
  BY <1>2, <1>5, <1>6, <1>7, Duties
  DEF StageInv, OneDuty, OneChain, NotYet, TimersTracked, Waits
<1>9. InSlot(n)'
  BY <1>2, <1>5, <1>6, <1>7 DEF StageInv, InSlot
<1>10. m_clusterList'[n] = {}
  BY <1>2, <1>4 DEF StageInv, MembersLed, Settled
<1> QED
  BY <1>8, <1>9, <1>10 DEF StageInv, MembersLed

LEMMA UpdateNeighborsKeepsStage ==
  ASSUME TypeOK, NEW n \in Node, StageInv(n), UpdateNeighbors(n)
  PROVE  StageInv(n)'
<1>1. PICK e \in Due(n, "UpdateNeighbors") :
        Simulate(n, {e}, <<After(Interval, "Send")>>)
  BY DEF UpdateNeighbors
<1>2. m_status'[n] = "CLUSTER_UPDATE"
      /\ UNCHANGED <<now, m_clusterList, m_chElectionEvent, m_sendIncidentEvent>>
  BY DEF UpdateNeighbors, TypeOK, lists
<1>3. e \in pending[n] /\ e.type = "UpdateNeighbors"
  BY DEF Due
<1>4. m_status[n] = "CLUSTER_FORMATION"
  BY <1>3, DutyFound DEF StageInv
<1>5. \A f \in pending[n] \ {e} :
        f.type \in {"Stop", "SendIncident", "UpdateNeighborList"}
  BY <1>3, <1>4, Duties, DutyFound DEF StageInv
<1> DEFINE new == Entry(n, 0, Interval, "Send")
<1>6. pending'[n] = (pending[n] \ {e}) \cup {new}
  BY <1>1, OneScheduled
<1>7. new.type = "Send" /\ new.due = now + Interval /\ now <= now + Interval
  BY TimeAssumption DEF Entry, TypeOK
<1> HIDE DEF new
<1>8. OneDuty(n)' /\ OneChain(n)' /\ NotYet(n)' /\ TimersTracked(n)'
  BY <1>2, <1>5, <1>6, <1>7, Duties
  DEF StageInv, OneDuty, OneChain, NotYet, TimersTracked, Waits
<1>9. InSlot(n)'
  BY <1>2, <1>5, <1>6, <1>7 DEF StageInv, InSlot
<1>10. m_clusterList'[n] = {}
  BY <1>2, <1>4 DEF StageInv, MembersLed, Settled
<1> QED
  BY <1>8, <1>9, <1>10 DEF StageInv, MembersLed

\* A settled head stays one: it cannot lose itself among its neighbours.
LEMMA UpdateNeighborListKeepsStage ==
  ASSUME TypeOK, NEW n \in Node, VehicleInv(n), StageInv(n),
         UpdateNeighborList(n)
  PROVE  StageInv(n)'
<1>1. PICK e \in Due(n, "UpdateNeighborList") :
        Simulate(n, {e}, <<After(Interval, "UpdateNeighborList")>>)
  BY DEF UpdateNeighborList
<1>2. UNCHANGED <<now, m_status, m_chElectionEvent, m_sendIncidentEvent>>
  BY DEF UpdateNeighborList, timers
<1>3. e \in pending[n] /\ e.type = "UpdateNeighborList"
  BY DEF Due
<1>4. m_status[n] \in {"CLUSTER_FORMATION", "CLUSTER_UPDATE"}
  BY <1>3, DutyFound DEF StageInv
<1>5. \A f \in pending[n] \ {e} : f.type /= "UpdateNeighborList"
  BY <1>3 DEF StageInv, OneChain
<1> DEFINE new == Entry(n, 0, Interval, "UpdateNeighborList")
<1>6. pending'[n] = (pending[n] \ {e}) \cup {new}
  BY <1>1, OneScheduled
<1>7. new.type = "UpdateNeighborList" /\ new.due = now + Interval
      /\ now <= now + Interval
  BY TimeAssumption DEF Entry, TypeOK
<1> HIDE DEF new
<1>8. OneDuty(n)' /\ OneChain(n)' /\ NotYet(n)' /\ TimersTracked(n)'
  BY <1>2, <1>3, <1>4, <1>5, <1>6, <1>7, Duties
  DEF StageInv, OneDuty, OneChain, NotYet, TimersTracked, Waits
<1>9. InSlot(n)'
  BY <1>2, <1>6, <1>7 DEF StageInv, InSlot
<1>10. MembersLed(n)'
  <2> DEFINE own == m_currentMobility[n]
             stale == Stale(own, m_2rStableList[n])
  <2>1. m_clusterList'[n] \subseteq m_clusterList[n]
    BY DEF UpdateNeighborList, ClusterAfter, TypeOK
  <2>2. m_currentMobility'[n] = MobilityAfterUpdate(own, stale, m_rStableList[n])
    BY DEF UpdateNeighborList, TypeOK
  <2>3. m_clusterList[n] /= {} => own.clusterId = n /\ n \notin stale
    BY DEF StageInv, MembersLed, VehicleInv, Placed, Formed, Sound, Nested, Stale
  <2>4. own \in NeighborInfo
    BY DEF TypeOK
  <2>5. m_clusterList[n] /= {} => m_currentMobility'[n].degree = "CH"
    BY <2>2, <2>3, <2>4
    DEF StageInv, MembersLed, MobilityAfterUpdate, LostHead, NeighborInfo
  <2> QED
    BY <1>2, <2>1, <2>5 DEF StageInv, MembersLed, Settled
<1> QED
  BY <1>8, <1>9, <1>10 DEF StageInv

LEMMA SendIncidentKeepsStage ==
  ASSUME TypeOK, NEW n \in Node, EventIds(n), StageInv(n), SendIncident(n)
  PROVE  StageInv(n)'
<1>1. PICK e \in Due(n, "SendIncident") :
        Simulate(n, {e}, <<After(IncidentWindow, "SendIncident")>>)
  BY DEF SendIncident
<1>2. /\ UNCHANGED <<now, m_status, m_currentMobility, m_clusterList,
                     m_chElectionEvent>>
      /\ m_sendIncidentEvent'[n] = nextUid[n]
  BY DEF SendIncident, TypeOK, lists
<1>3. e \in pending[n] /\ e.type = "SendIncident"
  BY DEF Due
<1>4. \A f \in pending[n] \ {e} : f.type /= "SendIncident"
  BY <1>3 DEF StageInv, TimersTracked, EventIds
<1> DEFINE new == Entry(n, 0, IncidentWindow, "SendIncident")
<1>5. pending'[n] = (pending[n] \ {e}) \cup {new}
  BY <1>1, OneScheduled
<1>6. /\ new.type = "SendIncident" /\ new.uid = nextUid[n] + 0
      /\ new.due = now + IncidentWindow
      /\ nextUid[n] + 0 = nextUid[n] /\ now <= now + IncidentWindow
  BY TimeAssumption DEF Entry, TypeOK
<1> HIDE DEF new
<1>7. m_status[n] \in NodeStatus
      /\ "SendIncident" \in Duty(m_status[n]) \cup Routine(m_status[n])
  BY <1>3 DEF StageInv, OneDuty, TypeOK
<1>8. OneDuty(n)' /\ OneChain(n)' /\ NotYet(n)' /\ TimersTracked(n)'
  BY <1>2, <1>3, <1>4, <1>5, <1>6, <1>7, Duties
  DEF StageInv, OneDuty, OneChain, NotYet, TimersTracked, Waits, NodeStatus
<1>9. InSlot(n)'
  BY <1>2, <1>5, <1>6 DEF StageInv, InSlot
<1> QED
  BY <1>2, <1>8, <1>9 DEF StageInv, MembersLed, Settled

\* HandleRead
LEMMA HandleClusterInfoKeepsStage ==
  ASSUME TypeOK, NEW n \in Node, StageInv(n), HandleClusterInfo(n)
  PROVE  StageInv(n)'
<1>1. UNCHANGED <<now, pending, m_status, m_chElectionEvent, m_sendIncidentEvent>>
  BY DEF HandleClusterInfo, events, timers
<1>2. PICK other, from : React(n, other, from)
  BY DEF HandleClusterInfo
<1> DEFINE potential == MergeCheck(m_currentMobility[n], StableAfter(n, other))
<1>3. \/ /\ Attaches(n, other, potential)
         /\ UNCHANGED m_clusterList
      \/ /\ Leads(n, other, potential)
         /\ m_currentMobility' = [m_currentMobility EXCEPT ![n] = AsHead(n, @)]
         /\ UNCHANGED m_clusterList
      \/ /\ Admits(n, other)
         /\ m_clusterList' = [m_clusterList EXCEPT ![n] = @ \cup {other.imsi}]
         /\ UNCHANGED m_currentMobility
      \/ UNCHANGED <<m_currentMobility, m_clusterList>>
  BY <1>2 DEF React
<1>4. MembersLed(n)'
  <2>1. CASE Attaches(n, other, potential) /\ UNCHANGED m_clusterList
    BY <2>1 DEF StageInv, MembersLed, Attaches, MayMerge
  <2>2. CASE /\ Leads(n, other, potential)
             /\ m_currentMobility' = [m_currentMobility EXCEPT ![n] = AsHead(n, @)]
             /\ UNCHANGED m_clusterList
    BY <2>2 DEF StageInv, MembersLed, Leads
  <2>3. CASE /\ Admits(n, other)
             /\ m_clusterList' = [m_clusterList EXCEPT ![n] = @ \cup {other.imsi}]
             /\ UNCHANGED m_currentMobility
    BY <1>1, <2>3 DEF MembersLed, Admits, Settled
  <2>4. CASE UNCHANGED <<m_currentMobility, m_clusterList>>
    BY <1>1, <2>4 DEF StageInv, MembersLed, Settled
  <2> QED
    BY <1>3, <2>1, <2>2, <2>3, <2>4
<1> QED
  BY <1>1, <1>4, ShrinkKeepsStage

\* A request finds no Send and no InitiateCluster event in the queue: they
\* are over.
LEMMA OnlyStopLeft ==
  ASSUME TypeOK, NEW n \in Node, VehicleInv(n), StageInv(n), m_socket[n],
         m_status[n] = "CLUSTER_INITIALIZATION", WindowEnd(n) + Window < now
  PROVE  \A f \in pending[n] : f.type = "Stop"
<1>1. \A f \in pending[n] : f.type \in {"Start", "Send", "InitiateCluster", "Stop"}
  BY Duties DEF StageInv, OneDuty
<1>2. \A f \in pending[n] : f.type /= "Start"
  BY DEF VehicleInv, StartsOnce
<1>3. \A f \in pending[n] : f.type \notin {"Send", "InitiateCluster"}
  <2> SUFFICES ASSUME NEW f \in pending[n], f.type \in {"Send", "InitiateCluster"}
               PROVE  FALSE
    OBVIOUS
  <2>1. now <= f.due /\ (f.due <= WindowEnd(n) \/ f.due <= WindowEnd(n) + Window)
    BY DEF StageInv, InSlot
  <2>2. now \in Nat /\ f.due \in Nat /\ WindowEnd(n) \in Nat /\ Window \in Nat
    BY TimeAssumption, TdmaAssumption DEF TypeOK, Event, WindowEnd, Window
  <2> QED
    BY <2>1, <2>2
<1> QED
  BY <1>1, <1>2, <1>3

\* An accepted request starts the one election of its vehicle.
LEMMA HandleInitiateClusterKeepsStage ==
  ASSUME TypeOK, NEW n \in Node, VehicleInv(n), RequestsInTime, StageInv(n),
         HandleInitiateCluster(n)
  PROVE  StageInv(n)'
<1>1. UNCHANGED <<now, m_clusterList>>
  BY DEF HandleInitiateCluster, lists
<1>2. CASE /\ AcceptsRequest(n)
           /\ m_status' = [m_status EXCEPT ![n] = "CLUSTER_HEAD_ELECTION"]
           /\ StartElection(n, {})
  <2>1. m_status[n] = "CLUSTER_INITIALIZATION"
        /\ m_status'[n] = "CLUSTER_HEAD_ELECTION"
    BY <1>2 DEF AcceptsRequest, TypeOK
  <2>2. m_socket[n] /\ WindowEnd(n) + Window < now
    BY DEF HandleInitiateCluster, Inbox, RequestsInTime
  <2>3. \A f \in pending[n] \ {} : f.type = "Stop"
    BY <2>1, <2>2, OnlyStopLeft
  <2>4. m_clusterList[n] = {}
    BY <2>1 DEF StageInv, MembersLed, Settled
  <2> QED
    BY <1>1, <1>2, <2>1, <2>3, <2>4, ElectionKeepsStage
<1>3. CASE UNCHANGED <<m_status, events, m_chElectionEvent, m_sendIncidentEvent>>
  <2>1. m_clusterList[n] = {} \/ UNCHANGED m_currentMobility
    BY DEF HandleInitiateCluster, AcceptsRequest, StageInv, MembersLed, Settled
  <2>2. MembersLed(n)'
    BY <1>1, <1>3, <2>1 DEF StageInv, MembersLed, Settled
  <2> QED
    BY <1>1, <1>3, <2>2, ShrinkKeepsStage DEF events
<1> QED
  BY <1>2, <1>3 DEF HandleInitiateCluster

\* A join cancels the election timer, whichever it is; a Send of the
\* vehicle's own request may stay.
LEMMA HandleFormClusterKeepsStage ==
  ASSUME TypeOK, NEW n \in Node, StageInv(n), HandleFormCluster(n)
  PROVE  StageInv(n)'
<1>1. UNCHANGED <<now, m_clusterList, m_chElectionEvent, m_sendIncidentEvent>>
  BY DEF HandleFormCluster, lists
<1>2. PICK head :
        \/ /\ Joins(n, head)
           /\ m_status' = [m_status EXCEPT ![n] = "CLUSTER_UPDATE"]
           /\ Simulate(n, CancelledByJoin(n),
                       <<After(TimeWindow[n], "Send"),
                         After(ListUpdateDelay, "UpdateNeighborList")>>)
        \/ UNCHANGED <<m_status, m_currentMobility, events>>
  BY DEF HandleFormCluster
<1>3. CASE UNCHANGED <<m_status, m_currentMobility, events>>
  BY <1>1, <1>3, ShrinkKeepsStage DEF StageInv, MembersLed, Settled, events
<1>4. CASE /\ Joins(n, head)
           /\ m_status' = [m_status EXCEPT ![n] = "CLUSTER_UPDATE"]
           /\ Simulate(n, CancelledByJoin(n),
                       <<After(TimeWindow[n], "Send"),
                         After(ListUpdateDelay, "UpdateNeighborList")>>)
  <2>1. m_status[n] = "CLUSTER_HEAD_ELECTION" /\ m_status'[n] = "CLUSTER_UPDATE"
    BY <1>4 DEF Joins, TypeOK
  <2>2. \A f \in pending[n] :
          f.type \in {"Send", "FormCluster", "Stop", "SendIncident"}
    BY <2>1, Duties DEF StageInv, OneDuty
  <2>3. \A f \in pending[n] \ CancelledByJoin(n) :
          f.type \in {"Send", "Stop", "SendIncident"}
    BY <2>2 DEF StageInv, TimersTracked, CancelledByJoin, Tracked
  <2> DEFINE first == Entry(n, 0, TimeWindow[n], "Send")
             second == Entry(n, 1, ListUpdateDelay, "UpdateNeighborList")
  <2>4. pending'[n] = (pending[n] \ CancelledByJoin(n)) \cup {first, second}
    BY <1>4, TwoScheduled
  <2>5. /\ first.type = "Send" /\ first.due = now + TimeWindow[n]
        /\ second.type = "UpdateNeighborList"
        /\ second.due = now + ListUpdateDelay
    BY DEF Entry
  <2>6. now <= now + TimeWindow[n] /\ now <= now + ListUpdateDelay
    BY TimeAssumption, ListUpdateDelayType DEF TypeOK
  <2> HIDE DEF first, second
  <2>7. OneDuty(n)' /\ OneChain(n)' /\ NotYet(n)' /\ TimersTracked(n)'
    BY <1>1, <2>1, <2>3, <2>4, <2>5, Duties
    DEF StageInv, OneDuty, OneChain, NotYet, TimersTracked, Waits
  <2>8. InSlot(n)'
    BY <1>1, <2>1, <2>3, <2>4, <2>5, <2>6 DEF StageInv, InSlot
  <2>9. m_clusterList'[n] = {}
    BY <1>1, <2>1 DEF StageInv, MembersLed, Settled
  <2> QED
    BY <2>7, <2>8, <2>9 DEF StageInv, MembersLed
<1> QED
  BY <1>2, <1>3, <1>4

LEMMA HandleIncidentEventKeepsStage ==
  ASSUME TypeOK, NEW n \in Node, StageInv(n), HandleIncidentEvent(n)
  PROVE  StageInv(n)'
<1>1. UNCHANGED <<now, pending, m_status, m_currentMobility, m_clusterList,
                  m_chElectionEvent, m_sendIncidentEvent>>
  BY DEF HandleIncidentEvent, events, lists, timers
<1> QED
  BY <1>1, ShrinkKeepsStage DEF StageInv, MembersLed, Settled

-----------------------------------------------------------------------------
LEMMA StepKeepsStage ==
  ASSUME TdmaSchedule, TdmaInv, NEW n \in Node,
         Application(n) \/ Send(n) \/ Timer(n) \/ HandleRead(n)
  PROVE  StageInv(n)'
<1>1. TypeOK /\ VehicleInv(n) /\ EventIds(n) /\ RequestsInTime /\ StageInv(n)
  BY DEF TdmaInv, TimedInv, MembershipInv
<1>2. CASE Application(n)
  BY <1>1, <1>2, StartKeepsStage, StopKeepsStage DEF Application
<1>3. CASE Send(n)
  BY <1>1, <1>3, SendClusterInfoKeepsStage, SendInitiateClusterKeepsStage,
     SendFormClusterKeepsStage, SendUpdateKeepsStage DEF Send
<1>4. CASE Timer(n)
  BY <1>1, <1>4, InitiateClusterKeepsStage, FormClusterKeepsStage,
     UpdateNeighborsKeepsStage, UpdateNeighborListKeepsStage,
     SendIncidentKeepsStage DEF Timer
<1>5. CASE HandleRead(n)
  BY <1>1, <1>5, HandleClusterInfoKeepsStage, HandleInitiateClusterKeepsStage,
     HandleFormClusterKeepsStage, HandleIncidentEventKeepsStage DEF HandleRead
<1> QED
  BY <1>2, <1>3, <1>4, <1>5

LEMMA OthersKeepStage ==
  ASSUME NEW m \in Node, Untouched(m), Idle(m), now' = now, StageInv(m)
  PROVE  StageInv(m)'
  BY DEF Untouched, Idle, StageInv, OneDuty, OneChain, NotYet, TimersTracked,
         InSlot, MembersLed, Settled, Waits

\* An InitiateCluster packet leaves in the third window.
LEMMA StepKeepsRequests ==
  ASSUME TdmaSchedule, TdmaInv, NEW n \in Node,
         Application(n) \/ Send(n) \/ Timer(n) \/ HandleRead(n)
  PROVE  RequestsInTime'
<1>1. TypeOK /\ RequestsInTime /\ StageInv(n) /\ now' = now
  BY ClockStops DEF TdmaInv, TimedInv, MembershipInv
<1>2. \A msg : \A p \in Copies(n, msg) : p.msg = msg
  BY DEF Copies
<1>3. CASE SendInitiateCluster(n)
  <2>1. PICK e \in SendDue(n, "CLUSTER_HEAD_ELECTION") : TRUE
    BY <1>3 DEF SendInitiateCluster
  <2>2. WindowEnd(n) + Window < now
    BY <1>1, <2>1, DueNow DEF SendDue, Due, StageInv, InSlot
  <2>3. \A m \in Node : WindowEnd(m) = WindowEnd(n)
    BY DEF TdmaSchedule, WindowEnd
  <2> QED
    BY <1>1, <2>2, <2>3 DEF RequestsInTime
<1>4. CASE \A p \in air' \ air : p.msg.kind /= "InitiateCluster"
  BY <1>1, <1>4 DEF RequestsInTime
<1>5. CASE Application(n)
  BY <1>1, <1>5 DEF Application, StartApplication, StopApplication, network,
                    RequestsInTime
<1>6. CASE SendClusterInfo(n) \/ SendFormCluster(n) \/ SendUpdate(n)
  <2>1. PICK msg : msg.kind /= "InitiateCluster" /\ Transmit(n, msg)
    BY <1>6 DEF SendClusterInfo, SendFormCluster, SendUpdate, ClusterInfoHeader,
       FormClusterHeader
  <2> QED
    BY <1>2, <1>4, <2>1 DEF Transmit
<1>7. CASE Timer(n)
  <2>1. CASE SendIncident(n)
    <3>1. PICK msg : msg.kind = "IncidentEvent" /\ Report(n, msg)
      BY <2>1 DEF SendIncident, IncidentEventHeader
    <3> QED
      BY <1>2, <1>4, <3>1 DEF Report, Transmit
  <2>2. CASE UNCHANGED network
    BY <1>4, <2>2 DEF network
  <2> QED
    BY <1>7, <2>1, <2>2
    DEF Timer, InitiateCluster, FormCluster, UpdateNeighbors, UpdateNeighborList
<1>8. CASE HandleRead(n)
  <2>1. CASE HandleIncidentEvent(n)
    <3>1. PICK p \in Inbox(n, "IncidentEvent") :
            air' \subseteq air \cup Copies(n, p.msg)
      BY <2>1 DEF HandleIncidentEvent
    <3>2. p.msg.kind = "IncidentEvent"
      BY DEF Inbox
    <3> QED
      BY <1>2, <1>4, <3>1, <3>2
  <2>2. CASE air' \subseteq air
    BY <1>4, <2>2
  <2> QED
    BY <1>8, <2>1, <2>2
    DEF HandleRead, HandleClusterInfo, HandleInitiateCluster,
        HandleFormCluster, Receive
<1> QED
  BY <1>3, <1>5, <1>6, <1>7, <1>8 DEF Send

LEMMA TdmaInit == ASSUME TdmaSchedule PROVE Init => TdmaInv
<1> SUFFICES ASSUME Init PROVE TdmaInv
  OBVIOUS
<1>1. RequestsInTime
  BY DEF Init, RequestsInTime
<1>2. ASSUME NEW n \in Node PROVE StageInv(n)
  <2>1. /\ pending[n] = {[uid |-> 1, type |-> "Start", due |-> StartTime[n]],
                         [uid |-> 2, type |-> "Stop", due |-> StopTime[n]]}
        /\ m_status[n] = "CLUSTER_INITIALIZATION" /\ m_clusterList[n] = {}
        /\ now = 0
    BY DEF Init
  <2>2. OneDuty(n) /\ OneChain(n) /\ NotYet(n) /\ TimersTracked(n)
    BY <2>1, Duties DEF OneDuty, OneChain, NotYet, TimersTracked
  <2>3. InSlot(n)
    BY <2>1, TimeAssumption DEF InSlot
  <2> QED
    BY <2>1, <2>2, <2>3 DEF StageInv, MembersLed
<1> QED
  BY <1>1, <1>2, TimedInit DEF TdmaInv

LEMMA TdmaNext == ASSUME TdmaSchedule PROVE TdmaInv /\ [Next]_vars => TdmaInv'
<1> SUFFICES ASSUME TdmaInv, [Next]_vars PROVE TdmaInv'
  OBVIOUS
<1>1. TimedInv'
  BY TimedNext DEF TdmaInv
<1>2. TypeOK
  BY DEF TdmaInv, TimedInv, MembershipInv
<1>3. CASE \E n \in Node : Application(n) \/ Send(n) \/ Timer(n) \/ HandleRead(n)
  <2>1. PICK n \in Node : Application(n) \/ Send(n) \/ Timer(n) \/ HandleRead(n)
    BY <1>3
  <2>2. StageInv(n)' /\ RequestsInTime'
    BY <2>1, StepKeepsStage, StepKeepsRequests
  <2>3. ASSUME NEW m \in Node \ {n} PROVE StageInv(m)'
    BY <1>2, <2>1, OthersUntouched, OthersIdle, ClockStops, OthersKeepStage
    DEF TdmaInv
  <2> QED
    BY <1>1, <2>2, <2>3 DEF TdmaInv
<1>4. CASE NoListener \/ Lose \/ UNCHANGED vars
  <2>1. air' \subseteq air /\ UNCHANGED now
    BY <1>4 DEF NoListener, Receive, Lose, vars, network
  <2>2. UNCHANGED <<pending, nextUid, m_socket, m_status, m_currentMobility,
                    m_2rStableList, m_rStableList, m_clusterList,
                    m_socketIncident, m_sendEvent, m_chElectionEvent,
                    m_sendIncidentEvent>>
    BY <1>4 DEF NoListener, Lose, vars, events, lists, timers, incident
  <2>3. \A n \in Node : StageInv(n)'
    BY <2>1, <2>2, OthersKeepStage DEF TdmaInv, Untouched, Idle
  <2>4. RequestsInTime'
    BY <2>1 DEF TdmaInv, RequestsInTime
  <2> QED
    BY <1>1, <2>3, <2>4 DEF TdmaInv
<1>5. CASE Tick
  <2>1. UNCHANGED <<pending, m_status, m_currentMobility, m_clusterList,
                    m_chElectionEvent, m_sendIncidentEvent>>
        /\ air' = {}
    BY <1>5 DEF Tick, network, events, lists, timers
  <2>2. \A n \in Node : \A e \in pending[n] : now' <= e.due
    BY <1>5 DEF Tick, Scheduled
  <2>3. ASSUME NEW n \in Node PROVE StageInv(n)'
    <3>1. OneDuty(n)' /\ OneChain(n)' /\ NotYet(n)' /\ TimersTracked(n)'
          /\ MembersLed(n)'
      BY <2>1 DEF TdmaInv, StageInv, OneDuty, OneChain, NotYet, TimersTracked,
                  MembersLed, Settled, Waits
    <3>2. InSlot(n)'
      BY <2>1, <2>2 DEF TdmaInv, StageInv, InSlot
    <3> QED
      BY <3>1, <3>2 DEF StageInv
  <2> QED
    BY <1>1, <2>1, <2>3 DEF TdmaInv, RequestsInTime
<1> QED
  BY <1>3, <1>4, <1>5 DEF Next

\* With the TDMA schedule every vehicle has one duty at a time, in its slot.
THEOREM TdmaInvariant == ASSUME TdmaSchedule PROVE Spec => []TdmaInv
<1> QED
  BY TdmaInit, TdmaNext, PTL DEF Spec

\* Every election timer is the one a FormCluster would cancel, so none is
\* left to make a head of a vehicle that has become a member.
THEOREM ElectionTimerTrackedHolds ==
  ASSUME TdmaSchedule PROVE Spec => []ElectionTimerTracked
<1>1. TdmaInv => ElectionTimerTracked
  <2> SUFFICES ASSUME TdmaInv, NEW n \in Node, NEW e \in pending[n],
                      e.type = "FormCluster"
               PROVE  /\ e.uid = m_chElectionEvent[n]
                      /\ m_status[n] = "CLUSTER_HEAD_ELECTION"
    BY DEF ElectionTimerTracked
  <2> QED
    BY DutyFound DEF TdmaInv, TimedInv, MembershipInv, StageInv, TimersTracked
<1> QED
  BY <1>1, TdmaInvariant, PTL

\* Each vehicle has one chain of list updates, though both ways out of an
\* election start one and none is ever cancelled.
THEOREM OneUpdateChainHolds == ASSUME TdmaSchedule PROVE Spec => []OneUpdateChain
<1>1. TdmaInv => OneUpdateChain
  <2> SUFFICES ASSUME TdmaInv, NEW n \in Node
               PROVE  Cardinality({e \in pending[n] :
                                      e.type = "UpdateNeighborList"}) <= 1
    BY DEF OneUpdateChain
  <2> DEFINE chain == {e \in pending[n] : e.type = "UpdateNeighborList"}
  <2>1. \A e, f \in chain : e = f
    BY DEF TdmaInv, StageInv, OneChain
  <2>2. chain = {} \/ \E e : chain = {e}
    BY <2>1
  <2>3. Cardinality(chain) = 0 \/ Cardinality(chain) = 1
    BY <2>2, FS_EmptySet, FS_Singleton
  <2> QED
    BY <2>3
<1> QED
  BY <1>1, TdmaInvariant, PTL

\* A vehicle has members only while it is a settled head: no later election,
\* merge or update of its lists takes it away from them.
THEOREM MembersOnlyAtHeadHolds ==
  ASSUME TdmaSchedule PROVE Spec => []MembersOnlyAtHead
<1>1. TdmaInv => MembersOnlyAtHead
  BY DEF TdmaInv, StageInv, MembersLed, MembersOnlyAtHead
<1> QED
  BY <1>1, TdmaInvariant, PTL

\* the moves of StatusOrder
Forward == {<<"CLUSTER_INITIALIZATION", "CLUSTER_HEAD_ELECTION">>,
            <<"CLUSTER_HEAD_ELECTION", "CLUSTER_FORMATION">>,
            <<"CLUSTER_HEAD_ELECTION", "CLUSTER_UPDATE">>,
            <<"CLUSTER_FORMATION", "CLUSTER_UPDATE">>}

LEMMA StepForward ==
  ASSUME TypeOK, NEW n \in Node, StageInv(n), m_status'[n] /= m_status[n],
         Application(n) \/ Send(n) \/ Timer(n) \/ HandleRead(n)
  PROVE  <<m_status[n], m_status'[n]>> \in Forward
<1>1. CASE Application(n)
  <2>1. PICK e \in Due(n, "Start") :
          m_status' = [m_status EXCEPT ![n] = "CLUSTER_INITIALIZATION"]
    BY <1>1 DEF Application, StartApplication, StopApplication
  <2>2. m_status[n] = "CLUSTER_INITIALIZATION"
    BY DutyFound DEF Due, StageInv
  <2> QED
    BY <2>1, <2>2 DEF TypeOK
<1>2. CASE Send(n)
  BY <1>2
  DEF Send, SendClusterInfo, SendInitiateCluster, SendFormCluster, SendUpdate
<1>3. CASE InitiateCluster(n)
  <2>1. PICK e \in Due(n, "InitiateCluster") :
          m_status' = [m_status EXCEPT ![n] = "CLUSTER_HEAD_ELECTION"]
    BY <1>3 DEF InitiateCluster
  <2>2. m_status[n] = "CLUSTER_INITIALIZATION"
    BY DutyFound DEF Due, StageInv
  <2> QED
    BY <2>1, <2>2 DEF TypeOK, Forward
<1>4. CASE FormCluster(n)
  <2>1. PICK e \in Due(n, "FormCluster") :
          m_status' = [m_status EXCEPT ![n] = "CLUSTER_FORMATION"]
    BY <1>4 DEF FormCluster
  <2>2. m_status[n] = "CLUSTER_HEAD_ELECTION"
    BY DutyFound DEF Due, StageInv
  <2> QED
    BY <2>1, <2>2 DEF TypeOK, Forward
<1>5. CASE UpdateNeighbors(n)
  <2>1. PICK e \in Due(n, "UpdateNeighbors") :
          m_status' = [m_status EXCEPT ![n] = "CLUSTER_UPDATE"]
    BY <1>5 DEF UpdateNeighbors
  <2>2. m_status[n] = "CLUSTER_FORMATION"
    BY DutyFound DEF Due, StageInv
  <2> QED
    BY <2>1, <2>2 DEF TypeOK, Forward
<1>6. CASE UpdateNeighborList(n) \/ SendIncident(n)
  BY <1>6 DEF UpdateNeighborList, SendIncident
<1>7. CASE HandleRead(n)
  <2>1. \/ /\ m_status[n] = "CLUSTER_INITIALIZATION"
           /\ m_status' = [m_status EXCEPT ![n] = "CLUSTER_HEAD_ELECTION"]
        \/ /\ m_status[n] = "CLUSTER_HEAD_ELECTION"
           /\ m_status' = [m_status EXCEPT ![n] = "CLUSTER_UPDATE"]
    BY <1>7 DEF HandleRead, HandleClusterInfo, HandleInitiateCluster,
       AcceptsRequest, HandleFormCluster, Joins, HandleIncidentEvent
  <2> QED
    BY <2>1 DEF TypeOK, Forward
<1> QED
  BY <1>1, <1>2, <1>3, <1>4, <1>5, <1>6, <1>7 DEF Timer

\* The status of a vehicle only moves forward: it never returns to its
\* initialization, no member and no head stands for election again, and none
\* becomes settled without an election.
THEOREM StatusOrderHolds == ASSUME TdmaSchedule PROVE Spec => StatusOrder
<1>1. TdmaInv /\ [Next]_vars =>
        [\A n \in Node : m_status'[n] /= m_status[n] =>
            <<m_status[n], m_status'[n]>> \in
               {<<"CLUSTER_INITIALIZATION", "CLUSTER_HEAD_ELECTION">>,
                <<"CLUSTER_HEAD_ELECTION", "CLUSTER_FORMATION">>,
                <<"CLUSTER_HEAD_ELECTION", "CLUSTER_UPDATE">>,
                <<"CLUSTER_FORMATION", "CLUSTER_UPDATE">>}]_m_status
  <2> SUFFICES ASSUME TdmaInv, [Next]_vars, NEW m \in Node,
                      m_status'[m] /= m_status[m]
               PROVE  <<m_status[m], m_status'[m]>> \in Forward
    BY DEF Forward
  <2>1. CASE \E n \in Node : Application(n) \/ Send(n) \/ Timer(n) \/ HandleRead(n)
    <3>1. PICK n \in Node : Application(n) \/ Send(n) \/ Timer(n) \/ HandleRead(n)
      BY <2>1
    <3>2. TypeOK /\ StageInv(n)
      BY DEF TdmaInv, TimedInv, MembershipInv
    <3>3. m = n
      BY <3>1, <3>2, OthersUntouched DEF Untouched
    <3> QED
      BY <3>1, <3>2, <3>3, StepForward
  <2>2. CASE NoListener \/ Lose \/ Tick \/ UNCHANGED vars
    BY <2>2 DEF NoListener, Lose, Tick, vars
  <2> QED
    BY <2>1, <2>2 DEF Next
<1> QED
  BY <1>1, TdmaInvariant, PTL DEF Spec, StatusOrder

-----------------------------------------------------------------------------
(***************************************************************************)
(* Formation, once.  A vehicle sends at most one ClusterInfo, one          *)
(* InitiateCluster and one FormCluster before it is settled, and its first *)
(* incident finds it settled: the delay of the incident is drawn from the  *)
(* second after the waiting time, if the incident window reaches so far.   *)
(***************************************************************************)

\* no waiting time reaches beyond the incident window
WindowOutlastsWaiting ==
    \A n \in Node : \A w \in WaitingTimes \cup {1000 * n} :
        1000 * (w \div 1000 + 1) <= IncidentWindow

\* while an incident is pending, the duty comes first
IncidentAfterDuty(n) ==
    \A e \in pending[n] : e.type = "SendIncident" /\ ~ Settled(n) =>
        \E f \in pending[n] : f.type \in Duty(m_status[n]) /\ f.due < e.due

Formations(n) == stats[n]["m_formationCounter"]

Counted(n) ==
    /\ Formations(n) <= 3
    /\ m_status[n] = "CLUSTER_INITIALIZATION" =>
          /\ Formations(n) <= 1
          /\ Waits(n, {"Start", "Send"}) => Formations(n) = 0
    /\ m_status[n] = "CLUSTER_HEAD_ELECTION" =>
          /\ Formations(n) <= 2
          /\ Waits(n, {"Send"}) => Formations(n) <= 1
    /\ m_status[n] = "CLUSTER_FORMATION" /\ Waits(n, {"Send"}) =>
          Formations(n) <= 2

FormationInv ==
    TdmaInv /\ \A n \in Node : IncidentAfterDuty(n) /\ Counted(n)

LEMMA IncidentAfterWaiting ==
  ASSUME TypeOK, WindowOutlastsWaiting, NEW n \in Node, Identity(n),
         NEW w \in SuitabilityCheck(m_currentMobility[n], m_rStableList[n]),
         NEW d \in IncidentDelays(w)
  PROVE  w < d
<1>1. w \in WaitingTimes \cup {1000 * n} /\ w \in Nat
  BY WaitType DEF TypeOK, SuitabilityCheck, Identity
<1> DEFINE first == 1000 * (w \div 1000 + 1)
<1>2. first <= IncidentWindow
  BY <1>1 DEF WindowOutlastsWaiting
<1>3. first \in Nat /\ w < first
  BY <1>1
<1>4. \/ d = first
      \/ d \in IncidentSamples /\ (first <= d \/ (IncidentWindow < d /\ d <= first))
  BY DEF IncidentDelays
<1>5. IncidentWindow \in Nat /\ \A s \in IncidentSamples : s \in Nat
  BY TimeAssumption
<1> HIDE DEF first
<1> QED
  BY <1>1, <1>2, <1>3, <1>4, <1>5

LEMMA CountFormations ==
  ASSUME TypeOK, NEW n \in Node, NEW counters, Count(n, counters)
  PROVE  /\ "m_formationCounter" \in counters =>
              Formations(n)' = Formations(n) + 1
         /\ "m_formationCounter" \notin counters =>
              Formations(n)' = Formations(n)
         /\ \A m \in Node \ {n} : Formations(m)' = Formations(m)
<1>1. "m_formationCounter" \in Counter
  BY DEF Counter
<1> QED
  BY <1>1 DEF TypeOK, Count, Formations

\* An election that starts: the incident comes after the waiting time.
LEMMA ElectionKeepsFormation ==
  ASSUME TypeOK, WindowOutlastsWaiting, NEW n \in Node, Identity(n), StageInv(n)',
         NEW done, StartElection(n, done), now' = now,
         m_status'[n] = "CLUSTER_HEAD_ELECTION", Formations(n)' \in 0..2,
         \A f \in pending[n] \ done : f.type /= "SendIncident"
  PROVE  IncidentAfterDuty(n)' /\ Counted(n)'
<1>1. PICK w \in Nat, d \in Nat :
        /\ w \in SuitabilityCheck(m_currentMobility[n], m_rStableList[n])
        /\ d \in IncidentDelays(w)
        /\ Simulate(n, done, <<After(w, "FormCluster"), After(d, "SendIncident")>>)
  BY ElectionScheduled
<1>2. w < d
  BY <1>1, IncidentAfterWaiting
<1> DEFINE first == Entry(n, 0, w, "FormCluster")
           second == Entry(n, 1, d, "SendIncident")
<1>3. pending'[n] = (pending[n] \ done) \cup {first, second}
  BY <1>1, TwoScheduled
<1>4. /\ first.type = "FormCluster" /\ first.due = now + w
      /\ second.type = "SendIncident" /\ second.due = now + d
  BY DEF Entry
<1>5. first.due < second.due
  BY <1>2, <1>4 DEF TypeOK
<1> HIDE DEF first, second
<1>6. first \in pending'[n] /\ first.type \in Duty(m_status'[n])
  BY <1>3, <1>4, Duties
<1>7. IncidentAfterDuty(n)'
  BY <1>3, <1>4, <1>5, <1>6 DEF IncidentAfterDuty
<1>8. ~ Waits(n, {"Send"})'
  <2>1. \A f \in pending'[n] : f.type \in Duty(m_status'[n]) => f = first
    BY <1>6 DEF StageInv, OneDuty
  <2> QED
    BY <1>4, <2>1, Duties DEF Waits
<1>9. Formations(n)' <= 2 /\ Formations(n)' <= 3
  OBVIOUS
<1> QED
  BY <1>7, <1>8, <1>9 DEF Counted

LEMMA ApplicationKeepsFormation ==
  ASSUME TypeOK, NEW n \in Node, VehicleInv(n), StageInv(n), StageInv(n)',
         IncidentAfterDuty(n), Counted(n), Application(n)
  PROVE  IncidentAfterDuty(n)' /\ Counted(n)'
<1>1. CASE StartApplication(n)
  <2>1. PICK e \in Due(n, "Start") : m_status'[n] = "CLUSTER_INITIALIZATION"
    BY <1>1 DEF StartApplication, TypeOK
  <2>2. m_status[n] = "CLUSTER_INITIALIZATION" /\ Waits(n, {"Start"})
    BY DutyFound DEF Due, StageInv, Waits
  <2>3. Formations(n)' = Formations(n) /\ Formations(n) = 0
    BY <1>1, <2>2 DEF StartApplication, Formations, Counted, Waits
  <2>4. \A f \in pending'[n] : f.type /= "SendIncident"
    BY <2>1, Duties DEF StageInv, OneDuty
  <2> QED
    BY <2>1, <2>3, <2>4 DEF IncidentAfterDuty, Counted
<1>2. CASE StopApplication(n)
  <2>1. PICK e \in Due(n, "Stop") : Simulate(n, {e} \cup Cancelled(n), <<>>)
    BY <1>2 DEF StopApplication
  <2>2. pending'[n] = pending[n] \ ({e} \cup Cancelled(n))
    BY <2>1, NothingScheduled
  <2>3. UNCHANGED m_status /\ Formations(n)' = Formations(n)
    <3>1. Count(n, {"m_incidentCounter"}) \/ UNCHANGED stats
      BY <1>2 DEF StopApplication
    <3> QED
      BY <1>2, <3>1, CountFormations DEF StopApplication, Formations
  <2>4. \A f \in pending'[n] : f.type /= "SendIncident"
    BY <2>2 DEF StageInv, TimersTracked, Cancelled, Tracked
  <2> QED
    BY <2>2, <2>3, <2>4 DEF IncidentAfterDuty, Counted, Waits
<1> QED
  BY <1>1, <1>2 DEF Application

LEMMA SendKeepsFormation ==
  ASSUME TypeOK, WindowOutlastsWaiting, NEW n \in Node, Identity(n), StageInv(n),
         StageInv(n)', IncidentAfterDuty(n), Counted(n), Send(n)
  PROVE  IncidentAfterDuty(n)' /\ Counted(n)'
<1>1. Formations(n) \in Nat
  BY DEF TypeOK, Formations, Counter
<1>2. CASE SendClusterInfo(n)
  <2>1. PICK e \in SendDue(n, "CLUSTER_INITIALIZATION") :
          Simulate(n, {e}, <<After(Slot * MaxUes, "InitiateCluster")>>)
    BY <1>2 DEF SendClusterInfo
  <2>2. /\ m_status[n] = "CLUSTER_INITIALIZATION" /\ UNCHANGED m_status
        /\ Count(n, {"m_sentCounter", "m_formationCounter"})
        /\ e \in pending[n] /\ e.type = "Send"
    BY <1>2 DEF SendClusterInfo, SendDue, Due
  <2>3. Formations(n)' = 1
    BY <1>1, <2>2, CountFormations DEF Counted, Waits
  <2>4. \A f \in pending'[n] : f.type \in {"Stop", "InitiateCluster"}
    BY <2>1, <2>2, SimulateOne, DutyFound, Duties DEF StageInv
  <2> QED
    BY <2>2, <2>3, <2>4 DEF IncidentAfterDuty, Counted, Waits
<1>3. CASE SendInitiateCluster(n)
  <2>1. PICK e \in SendDue(n, "CLUSTER_HEAD_ELECTION") : StartElection(n, {e})
    BY <1>3 DEF SendInitiateCluster
  <2>2. /\ m_status[n] = "CLUSTER_HEAD_ELECTION" /\ UNCHANGED <<now, m_status>>
        /\ Count(n, {"m_sentCounter", "m_formationCounter"})
        /\ e \in pending[n] /\ e.type = "Send"
    BY <1>3 DEF SendInitiateCluster, SendDue, Due
  <2>3. Formations(n)' \in 0..2
    BY <1>1, <2>2, CountFormations DEF Counted, Waits
  <2>4. \A f \in pending[n] \ {e} : f.type /= "SendIncident"
    BY <2>2 DEF StageInv, NotYet, Waits
  <2> QED
    BY <2>1, <2>2, <2>3, <2>4, ElectionKeepsFormation
<1>4. CASE SendFormCluster(n)
  <2>1. PICK e \in SendDue(n, "CLUSTER_FORMATION") :
          Simulate(n, {e}, <<After(0, "UpdateNeighbors"),
                             After(ListUpdateDelay, "UpdateNeighborList")>>)
    BY <1>4 DEF SendFormCluster
  <2>2. /\ m_status[n] = "CLUSTER_FORMATION" /\ UNCHANGED m_status
        /\ Count(n, {"m_sentCounter", "m_formationCounter"})
        /\ e \in pending[n] /\ e.type = "Send" /\ e.due <= now
    BY <1>4 DEF SendFormCluster, SendDue, Due
  <2>3. Formations(n)' <= 3
    BY <1>1, <2>2, CountFormations DEF Counted, Waits
  <2> DEFINE first == Entry(n, 0, 0, "UpdateNeighbors")
             second == Entry(n, 1, ListUpdateDelay, "UpdateNeighborList")
  <2>4. pending'[n] = (pending[n] \ {e}) \cup {first, second}
    BY <2>1, TwoScheduled
  <2>5. /\ first.type = "UpdateNeighbors" /\ first.due = now
        /\ second.type = "UpdateNeighborList"
    BY DEF Entry, TypeOK
  <2> HIDE DEF first, second
  <2>6. \A f \in pending[n] : f.type \in Duty(m_status[n]) => f = e
    BY <2>2, Duties DEF StageInv, OneDuty
  <2>7. \A f \in pending[n] : f.type = "SendIncident" => first.due < f.due
    <3>1. e.due = now
      BY <2>2, DueNow DEF StageInv
    <3> QED
      BY <2>2, <2>5, <2>6, <3>1 DEF IncidentAfterDuty, Settled
  <2>8. IncidentAfterDuty(n)'
    BY <2>2, <2>4, <2>5, <2>7, Duties DEF IncidentAfterDuty
  <2>9. ~ Waits(n, {"Send"})'
    BY <2>2, <2>4, <2>5, <2>6, Duties DEF Waits
  <2> QED
    BY <2>2, <2>3, <2>8, <2>9 DEF Counted
<1>5. CASE SendUpdate(n)
  <2>1. m_status'[n] = "CLUSTER_UPDATE" /\ Formations(n)' = Formations(n)
    BY <1>5, CountFormations DEF SendUpdate, SendDue
  <2> QED
    BY <2>1 DEF IncidentAfterDuty, Counted, Settled
<1> QED
  BY <1>2, <1>3, <1>4, <1>5 DEF Send

LEMMA TimerKeepsFormation ==
  ASSUME TypeOK, NEW n \in Node, StageInv(n), StageInv(n)',
         IncidentAfterDuty(n), Counted(n), Timer(n)
  PROVE  IncidentAfterDuty(n)' /\ Counted(n)'
<1>1. Formations(n) \in Nat
  BY DEF TypeOK, Formations, Counter
<1>2. CASE InitiateCluster(n)
  <2>1. PICK e \in Due(n, "InitiateCluster") :
          \/ /\ m_status' = [m_status EXCEPT ![n] = "CLUSTER_HEAD_ELECTION"]
             /\ Simulate(n, {e}, <<After(Slot * MaxUes, "Send")>>)
          \/ Simulate(n, {e}, <<>>) /\ UNCHANGED m_status
    BY <1>2 DEF InitiateCluster
  <2>2. /\ m_status[n] = "CLUSTER_INITIALIZATION"
        /\ \A f \in pending[n] \ {e} : f.type = "Stop"
    BY DutyFound, Duties DEF Due, StageInv
  <2>3. Formations(n)' = Formations(n) /\ Formations(n) <= 1
    BY <1>2, <2>2 DEF InitiateCluster, Formations, Counted
  <2>4. CASE /\ m_status' = [m_status EXCEPT ![n] = "CLUSTER_HEAD_ELECTION"]
             /\ Simulate(n, {e}, <<After(Slot * MaxUes, "Send")>>)
    <3>1. m_status'[n] = "CLUSTER_HEAD_ELECTION"
      BY <2>4 DEF TypeOK
    <3>2. \A f \in pending'[n] : f.type \in {"Stop", "Send"}
      BY <2>2, <2>4, SimulateOne
    <3> QED
      BY <1>1, <2>3, <3>1, <3>2 DEF IncidentAfterDuty, Counted
  <2>5. CASE Simulate(n, {e}, <<>>) /\ UNCHANGED m_status
    <3>1. \A f \in pending'[n] : f.type = "Stop"
      BY <2>2, <2>5, SimulateNothing
    <3> QED
      BY <1>1, <2>2, <2>3, <2>5, <3>1 DEF IncidentAfterDuty, Counted, Waits
  <2> QED
    BY <2>1, <2>4, <2>5
<1>3. CASE FormCluster(n)
  <2>1. PICK e \in Due(n, "FormCluster") : Simulate(n, {e}, <<After(0, "Send")>>)
    BY <1>3 DEF FormCluster
  <2>2. /\ e \in pending[n] /\ e.type = "FormCluster" /\ e.due <= now
        /\ m_status'[n] = "CLUSTER_FORMATION"
        /\ Formations(n)' = Formations(n)
    BY <1>3 DEF FormCluster, Due, TypeOK, Formations
  <2>3. m_status[n] = "CLUSTER_HEAD_ELECTION" /\ e.due = now
    BY <2>2, DutyFound, DueNow DEF StageInv
  <2> DEFINE new == Entry(n, 0, 0, "Send")
  <2>4. pending'[n] = (pending[n] \ {e}) \cup {new}
    BY <2>1, OneScheduled
  <2>5. new.type = "Send" /\ new.due = now
    BY DEF Entry, TypeOK
  <2> HIDE DEF new
  <2>6. \A f \in pending[n] : f.type \in Duty(m_status[n]) => f = e
    BY <2>2, <2>3, Duties DEF StageInv, OneDuty
  <2>7. \A f \in pending[n] : f.type = "SendIncident" => new.due < f.due
    BY <2>3, <2>5, <2>6 DEF IncidentAfterDuty, Settled
  <2>8. IncidentAfterDuty(n)'
    BY <2>2, <2>4, <2>5, <2>7, Duties DEF IncidentAfterDuty
  <2> QED
    BY <1>1, <2>2, <2>3, <2>8 DEF Counted
<1>4. CASE UpdateNeighbors(n)
  <2>1. m_status'[n] = "CLUSTER_UPDATE" /\ Formations(n)' = Formations(n)
    BY <1>4 DEF UpdateNeighbors, TypeOK, Formations
  <2> QED
    BY <2>1 DEF IncidentAfterDuty, Counted, Settled
<1>5. CASE UpdateNeighborList(n)
  <2>1. PICK e \in Due(n, "UpdateNeighborList") :
          Simulate(n, {e}, <<After(Interval, "UpdateNeighborList")>>)
    BY <1>5 DEF UpdateNeighborList
  <2>2. m_status[n] \in {"CLUSTER_FORMATION", "CLUSTER_UPDATE"}
        /\ e.type = "UpdateNeighborList"
    BY DutyFound DEF StageInv, Due
  <2>3. UNCHANGED m_status /\ Formations(n)' = Formations(n)
    <3>1. Count(n, {"m_changesCounter"}) \/ UNCHANGED stats
      BY <1>5 DEF UpdateNeighborList
    <3> QED
      BY <1>5, <3>1, CountFormations DEF UpdateNeighborList, Formations
  <2>4. \A f \in pending'[n] : f \in pending[n] \/ f.type = "UpdateNeighborList"
    BY <2>1, SimulateOne
  <2>5. pending[n] \ {e} \subseteq pending'[n]
    BY <2>1, QueueAfterOne
  <2>6. IncidentAfterDuty(n)'
    <3>1. \A f \in pending[n] : ~ Settled(n) /\ f.type \in Duty(m_status[n]) => f /= e
      BY <2>2, Duties DEF Settled
    <3> QED
      BY <2>3, <2>4, <2>5, <3>1 DEF IncidentAfterDuty, Settled
  <2>7. Waits(n, {"Send"})' => Waits(n, {"Send"})
    BY <2>4 DEF Waits
  <2> QED
    BY <2>2, <2>3, <2>6, <2>7 DEF Counted
<1>6. CASE SendIncident(n)
  <2>1. PICK e \in pending[n] : e.type = "SendIncident" /\ e.due <= now
    BY <1>6 DEF SendIncident, Due
  <2>2. Settled(n)
    <3> SUFFICES ASSUME ~ Settled(n) PROVE FALSE
      OBVIOUS
    <3>1. PICK f \in pending[n] : f.due < e.due
      BY <2>1 DEF IncidentAfterDuty
    <3>2. now <= f.due
      BY DEF StageInv, InSlot
    <3>3. now \in Nat /\ e.due \in Nat /\ f.due \in Nat
      BY DEF TypeOK, Event
    <3> QED
      BY <2>1, <3>1, <3>2, <3>3
  <2>3. UNCHANGED m_status /\ Formations(n)' = Formations(n)
    <3>1. Count(n, {"m_incidentCounter"}) \/ UNCHANGED stats
      BY <1>6 DEF SendIncident, Report
    <3> QED
      BY <1>6, <3>1, CountFormations DEF SendIncident, Formations
  <2> QED
    BY <2>2, <2>3 DEF IncidentAfterDuty, Counted, Settled
<1> QED
  BY <1>2, <1>3, <1>4, <1>5, <1>6 DEF Timer

LEMMA HandleReadKeepsFormation ==
  ASSUME TypeOK, WindowOutlastsWaiting, NEW n \in Node, Identity(n), StageInv(n),
         StageInv(n)', IncidentAfterDuty(n), Counted(n), HandleRead(n)
  PROVE  IncidentAfterDuty(n)' /\ Counted(n)'
<1>1. Formations(n) \in Nat
  BY DEF TypeOK, Formations, Counter
<1>2. ASSUME UNCHANGED <<pending, m_status>>, Formations(n)' = Formations(n)
      PROVE  IncidentAfterDuty(n)' /\ Counted(n)'
  BY <1>2 DEF IncidentAfterDuty, Counted, Settled, Waits
<1>3. CASE HandleClusterInfo(n)
  <2>1. Count(n, {"m_changesCounter"}) \/ UNCHANGED stats
    BY <1>3 DEF HandleClusterInfo, React
  <2> QED
    BY <1>2, <1>3, <2>1, CountFormations DEF HandleClusterInfo, events, Formations
<1>4. CASE HandleInitiateCluster(n)
  <2>1. Formations(n)' = Formations(n) /\ UNCHANGED now
    BY <1>4 DEF HandleInitiateCluster, Formations
  <2>2. CASE /\ AcceptsRequest(n)
             /\ m_status' = [m_status EXCEPT ![n] = "CLUSTER_HEAD_ELECTION"]
             /\ StartElection(n, {})
    <3>1. m_status[n] = "CLUSTER_INITIALIZATION"
          /\ m_status'[n] = "CLUSTER_HEAD_ELECTION"
      BY <2>2 DEF AcceptsRequest, TypeOK
    <3>2. \A f \in pending[n] \ {} : f.type /= "SendIncident"
      BY <3>1, Duties DEF StageInv, OneDuty
    <3>3. Formations(n)' \in 0..2
      BY <1>1, <2>1, <3>1 DEF Counted
    <3> QED
      BY <2>1, <2>2, <3>1, <3>2, <3>3, ElectionKeepsFormation
  <2>3. CASE UNCHANGED <<m_status, events>>
    BY <1>2, <2>1, <2>3 DEF events
  <2> QED
    BY <1>4, <2>2, <2>3 DEF HandleInitiateCluster
<1>5. CASE HandleFormCluster(n)
  <2>1. Formations(n)' = Formations(n)
    BY <1>5 DEF HandleFormCluster, Formations
  <2>2. CASE m_status' = [m_status EXCEPT ![n] = "CLUSTER_UPDATE"]
    <3>1. m_status'[n] = "CLUSTER_UPDATE"
      BY <2>2 DEF TypeOK
    <3> QED
      BY <2>1, <3>1 DEF IncidentAfterDuty, Counted, Settled
  <2>3. CASE UNCHANGED <<m_status, events>>
    BY <1>2, <2>1, <2>3 DEF events
  <2> QED
    BY <1>5, <2>2, <2>3 DEF HandleFormCluster
<1>6. CASE HandleIncidentEvent(n)
  <2>1. Count(n, {"echoes"}) \/ UNCHANGED stats
    BY <1>6 DEF HandleIncidentEvent
  <2> QED
    BY <1>2, <1>6, <2>1, CountFormations DEF HandleIncidentEvent, events, Formations
<1> QED
  BY <1>3, <1>4, <1>5, <1>6 DEF HandleRead

LEMMA OthersFormations ==
  ASSUME TypeOK, NEW n \in Node, NEW m \in Node \ {n},
         Application(n) \/ Send(n) \/ Timer(n) \/ HandleRead(n)
  PROVE  Formations(m)' = Formations(m)
<1>1. (\E counters : Count(n, counters)) \/ UNCHANGED stats
  <2>1. CASE Application(n) \/ Send(n)
    BY <2>1 DEF Application, StartApplication, StopApplication, Send,
       SendClusterInfo, SendInitiateCluster, SendFormCluster, SendUpdate
  <2>2. CASE Timer(n)
    BY <2>2 DEF Timer, InitiateCluster, FormCluster, UpdateNeighbors,
       UpdateNeighborList, SendIncident, Report
  <2>3. CASE HandleRead(n)
    BY <2>3 DEF HandleRead, HandleClusterInfo, React, HandleInitiateCluster,
       HandleFormCluster, HandleIncidentEvent
  <2> QED
    BY <2>1, <2>2, <2>3
<1> QED
  BY <1>1, CountFormations DEF Formations

LEMMA FormationNext ==
  ASSUME TdmaSchedule, WindowOutlastsWaiting
  PROVE  FormationInv /\ [Next]_vars => FormationInv'
<1> SUFFICES ASSUME FormationInv, [Next]_vars PROVE FormationInv'
  OBVIOUS
<1>1. TdmaInv /\ TdmaInv'
  BY TdmaNext DEF FormationInv
<1>2. TypeOK /\ \A n \in Node : VehicleInv(n) /\ StageInv(n) /\ StageInv(n)'
  BY <1>1 DEF TdmaInv, TimedInv, MembershipInv
<1>3. CASE \E n \in Node : Application(n) \/ Send(n) \/ Timer(n) \/ HandleRead(n)
  <2>1. PICK n \in Node : Application(n) \/ Send(n) \/ Timer(n) \/ HandleRead(n)
    BY <1>3
  <2>2. IncidentAfterDuty(n)' /\ Counted(n)'
    BY <1>2, <2>1, ApplicationKeepsFormation, SendKeepsFormation,
       TimerKeepsFormation, HandleReadKeepsFormation DEF FormationInv, VehicleInv
  <2>3. ASSUME NEW m \in Node \ {n} PROVE IncidentAfterDuty(m)' /\ Counted(m)'
    <3>1. Untouched(m) /\ Formations(m)' = Formations(m)
      BY <1>2, <2>1, OthersUntouched, OthersFormations
    <3> QED
      BY <3>1 DEF FormationInv, Untouched, IncidentAfterDuty, Counted, Settled, Waits
  <2> QED
    BY <1>1, <2>2, <2>3 DEF FormationInv
<1>4. CASE NoListener \/ Lose \/ Tick \/ UNCHANGED vars
  <2>1. UNCHANGED <<pending, m_status, stats>>
    BY <1>4 DEF NoListener, Lose, Tick, vars, events
  <2>2. \A n \in Node : IncidentAfterDuty(n)' /\ Counted(n)'
    BY <2>1 DEF FormationInv, IncidentAfterDuty, Counted, Settled, Waits, Formations
  <2> QED
    BY <1>1, <2>2 DEF FormationInv
<1> QED
  BY <1>3, <1>4 DEF Next

\* A vehicle goes through the formation once, and reports its first incident
\* when it has a place in a cluster: the socket SendIncident uses unchecked
\* is there.
THEOREM FormsOnceHolds ==
  ASSUME TdmaSchedule, WindowOutlastsWaiting PROVE Spec => []FormsOnce
<1>1. Init => FormationInv
  <2> SUFFICES ASSUME Init PROVE FormationInv
    OBVIOUS
  <2>1. \A n \in Node : Formations(n) = 0 /\ m_status[n] = "CLUSTER_INITIALIZATION"
    BY DEF Init, Formations, Counter
  <2>2. \A n \in Node : IncidentAfterDuty(n)
    BY DEF Init, IncidentAfterDuty
  <2> QED
    BY <2>1, <2>2, TdmaInit DEF FormationInv, Counted
<1>2. FormationInv => FormsOnce
  <2> SUFFICES ASSUME FormationInv, NEW n \in Node
               PROVE  /\ Formations(n) <= 3
                      /\ Due(n, "SendIncident") /= {} => Settled(n)
    BY DEF FormsOnce, Formations
  <2>1. ASSUME NEW e \in Due(n, "SendIncident"), ~ Settled(n) PROVE FALSE
    <3>1. e \in pending[n] /\ e.type = "SendIncident" /\ e.due <= now
      BY DEF Due
    <3>2. PICK f \in pending[n] : f.due < e.due
      BY <2>1, <3>1 DEF FormationInv, IncidentAfterDuty
    <3>3. now <= f.due
      BY DEF FormationInv, TdmaInv, StageInv, InSlot
    <3>4. TypeOK
      BY DEF FormationInv, TdmaInv, TimedInv, MembershipInv
    <3>5. now \in Nat /\ e.due \in Nat /\ f.due \in Nat
      BY <3>1, <3>4 DEF TypeOK, Event
    <3> QED
      BY <3>1, <3>2, <3>3, <3>5
  <2> QED
    BY <2>1 DEF FormationInv, Counted
<1> QED
  BY <1>1, <1>2, FormationNext, PTL DEF Spec

-----------------------------------------------------------------------------
(***************************************************************************)
(* The events a vehicle forgets.  m_sendEvent is overwritten by a join, and *)
(* neither the election timer nor InitiateCluster is cancelled by a stop.  *)
(* At most one Send is forgotten at a time, and at a stop at most one      *)
(* event besides the update of the lists is neither cancelled nor over.    *)
(***************************************************************************)
Alike(S) == \A e, f \in S : e = f

Forgotten(n) == {e \in Sends(n) : e.uid /= m_sendEvent[n]}

\* A vehicle that has waited, with an election timer of its own, has no
\* second Send.
ChainsInv(n) ==
    /\ m_chElectionEvent[n] /= 0 =>
          /\ m_status[n] /= "CLUSTER_INITIALIZATION"
          /\ m_status[n] = "CLUSTER_HEAD_ELECTION" => Sends(n) = {}
          /\ m_status[n] = "CLUSTER_UPDATE" => Alike(Sends(n))
    /\ m_status[n] = "CLUSTER_UPDATE" => Alike(Forgotten(n))

\* No second stop comes to cancel what is left.
LeftAfterStop(n) ==
    /\ \A e, f \in pending[n] : e.type = "Stop" /\ f.type = "Stop" => e = f
    /\ Stopped(n) =>
          /\ \A e \in pending[n] : e.type \notin {"Stop", "SendIncident"}
          /\ Alike({e \in pending[n] : e.type /= "UpdateNeighborList"})

ChainInv == TdmaInv /\ \A n \in Node : ChainsInv(n) /\ LeftAfterStop(n)

LEMMA FewerSends ==
  ASSUME NEW n \in Node, ChainsInv(n), Sends(n)' \subseteq Sends(n),
         m_status'[n] = m_status[n], m_sendEvent'[n] = m_sendEvent[n],
         m_chElectionEvent'[n] = m_chElectionEvent[n]
  PROVE  ChainsInv(n)'
  BY DEF ChainsInv, Forgotten, Alike

\* the first Send, and the one after the waiting time
LEMMA SendKeepsChains ==
  ASSUME TypeOK, NEW n \in Node, EventIds(n), StageInv(n), ChainsInv(n), Send(n)
  PROVE  ChainsInv(n)'
<1>1. CASE SendClusterInfo(n)
  <2>1. m_status'[n] = "CLUSTER_INITIALIZATION"
        /\ m_chElectionEvent'[n] = m_chElectionEvent[n]
        /\ m_status[n] = "CLUSTER_INITIALIZATION"
    BY <1>1 DEF SendClusterInfo, SendDue, timers
  <2> QED
    BY <2>1 DEF ChainsInv
<1>2. CASE SendInitiateCluster(n)
  <2>1. PICK e \in SendDue(n, "CLUSTER_HEAD_ELECTION") : StartElection(n, {e})
    BY <1>2 DEF SendInitiateCluster
  <2>2. m_status[n] = "CLUSTER_HEAD_ELECTION" /\ m_status'[n] = m_status[n]
    BY <1>2 DEF SendInitiateCluster, SendDue
  <2>3. PICK w \in Nat, d \in Nat :
          Simulate(n, {e}, <<After(w, "FormCluster"), After(d, "SendIncident")>>)
    BY <2>1, ElectionScheduled
  <2>4. pending'[n] = (pending[n] \ {e}) \cup
          {Entry(n, 0, w, "FormCluster"), Entry(n, 1, d, "SendIncident")}
    BY <2>3, TwoScheduled
  <2>5. e \in pending[n] /\ e.type = "Send"
    BY DEF SendDue, Due
  <2>6. \A f \in pending[n] \ {e} : f.type \in {"Stop", "SendIncident"}
    BY <2>2, <2>5, Duties, DutyFound DEF StageInv
  <2>7. Sends(n)' = {}
    BY <2>4, <2>6 DEF Sends, Entry
  <2> QED
    BY <2>2, <2>7 DEF ChainsInv, Alike
<1>3. CASE SendFormCluster(n)
  <2>1. m_status'[n] = "CLUSTER_FORMATION"
    BY <1>3 DEF SendFormCluster, SendDue
  <2> QED
    BY <2>1 DEF ChainsInv
<1>4. CASE SendUpdate(n)
  <2>1. PICK e \in SendDue(n, "CLUSTER_UPDATE") :
          Simulate(n, {e}, <<After(Interval, "Send")>>)
    BY <1>4 DEF SendUpdate
  <2>2. /\ m_status[n] = "CLUSTER_UPDATE" /\ m_status'[n] = m_status[n]
        /\ m_chElectionEvent'[n] = m_chElectionEvent[n]
        /\ m_sendEvent'[n] = nextUid[n]
    BY <1>4 DEF SendUpdate, SendDue, TypeOK
  <2> DEFINE new == Entry(n, 0, Interval, "Send")
  <2>3. pending'[n] = (pending[n] \ {e}) \cup {new}
    BY <2>1, OneScheduled
  <2>4. new.uid = nextUid[n]
    BY DEF Entry, TypeOK
  <2>5. e \in Sends(n)
    BY DEF SendDue, Due, Sends
  <2> HIDE DEF new
  <2>6. Sends(n)' \subseteq (Sends(n) \ {e}) \cup {new}
    BY <2>3 DEF Sends
  <2>7. Alike(Sends(n) \ {e})
    <3> SUFFICES ASSUME NEW f \in Sends(n) \ {e}, NEW g \in Sends(n) \ {e}
                 PROVE  f = g
      BY DEF Alike
    <3>1. CASE e.uid = m_sendEvent[n]
      BY <2>2, <2>5, <3>1 DEF EventIds, ChainsInv, Forgotten, Alike, Sends
    <3>2. CASE e.uid /= m_sendEvent[n]
      <4>1. f.uid = m_sendEvent[n] /\ g.uid = m_sendEvent[n]
        BY <2>2, <2>5, <3>2 DEF ChainsInv, Forgotten, Alike
      <4> QED
        BY <4>1 DEF EventIds, Sends
    <3> QED
      BY <3>1, <3>2
  <2>8. Alike(Forgotten(n))'
    BY <2>2, <2>4, <2>6, <2>7 DEF Forgotten, Alike
  <2>9. m_chElectionEvent[n] /= 0 => Alike(Sends(n))'
    BY <2>2, <2>5, <2>6 DEF ChainsInv, Alike
  <2> QED
    BY <2>2, <2>8, <2>9 DEF ChainsInv
<1> QED
  BY <1>1, <1>2, <1>3, <1>4 DEF Send

LEMMA TimerKeepsChains ==
  ASSUME TypeOK, NEW n \in Node, StageInv(n), ChainsInv(n), Timer(n)
  PROVE  ChainsInv(n)'
<1>1. CASE InitiateCluster(n)
  <2>1. PICK e \in Due(n, "InitiateCluster") :
          m_status'[n] \in {"CLUSTER_HEAD_ELECTION", m_status[n]}
    BY <1>1 DEF InitiateCluster, TypeOK
  <2>2. m_status[n] = "CLUSTER_INITIALIZATION"
    BY DutyFound DEF Due, StageInv
  <2>3. m_chElectionEvent'[n] = m_chElectionEvent[n]
    BY <1>1 DEF InitiateCluster
  <2> QED
    BY <2>1, <2>2, <2>3 DEF ChainsInv
<1>2. CASE FormCluster(n)
  <2>1. m_status'[n] = "CLUSTER_FORMATION"
    BY <1>2 DEF FormCluster, TypeOK
  <2> QED
    BY <2>1 DEF ChainsInv
<1>3. CASE UpdateNeighbors(n)
  <2>1. PICK e \in Due(n, "UpdateNeighbors") :
          Simulate(n, {e}, <<After(Interval, "Send")>>)
    BY <1>3 DEF UpdateNeighbors
  <2>2. m_status'[n] = "CLUSTER_UPDATE"
    BY <1>3 DEF UpdateNeighbors, TypeOK
  <2> DEFINE new == Entry(n, 0, Interval, "Send")
  <2>3. pending'[n] = (pending[n] \ {e}) \cup {new}
    BY <2>1, OneScheduled
  <2>4. e \in pending[n] /\ e.type = "UpdateNeighbors"
    BY DEF Due
  <2>5. \A f \in pending[n] \ {e} : f.type /= "Send"
    BY <2>4, Duties, DutyFound DEF StageInv
  <2> HIDE DEF new
  <2>6. Sends(n)' \subseteq {new}
    BY <2>3, <2>5 DEF Sends
  <2> QED
    BY <2>2, <2>6 DEF ChainsInv, Forgotten, Alike
<1>4. CASE UpdateNeighborList(n) \/ SendIncident(n)
  <2>1. PICK e, d, t :
          t \in {"UpdateNeighborList", "SendIncident"}
          /\ Simulate(n, {e}, <<After(d, t)>>)
    BY <1>4 DEF UpdateNeighborList, SendIncident
  <2>2. pending'[n] = (pending[n] \ {e}) \cup {Entry(n, 0, d, t)}
    BY <2>1, OneScheduled
  <2>3. Sends(n)' \subseteq Sends(n)
    BY <2>1, <2>2 DEF Sends, Entry
  <2>4. UNCHANGED <<m_status, m_sendEvent, m_chElectionEvent>>
    BY <1>4 DEF UpdateNeighborList, SendIncident, timers
  <2> QED
    BY <2>3, <2>4, FewerSends
<1> QED
  BY <1>1, <1>2, <1>3, <1>4 DEF Timer

LEMMA HandleReadKeepsChains ==
  ASSUME TypeOK, NEW n \in Node, VehicleInv(n), RequestsInTime, StageInv(n),
         ChainsInv(n), HandleRead(n)
  PROVE  ChainsInv(n)'
<1>1. CASE UNCHANGED <<pending, m_status, m_sendEvent, m_chElectionEvent>>
  BY <1>1, FewerSends DEF Sends
<1>2. CASE HandleClusterInfo(n) \/ HandleIncidentEvent(n)
  BY <1>1, <1>2 DEF HandleClusterInfo, HandleIncidentEvent, events, timers
<1>3. CASE HandleInitiateCluster(n)
  <2>1. CASE /\ AcceptsRequest(n)
             /\ m_status' = [m_status EXCEPT ![n] = "CLUSTER_HEAD_ELECTION"]
             /\ StartElection(n, {})
    <3>1. m_status[n] = "CLUSTER_INITIALIZATION"
          /\ m_status'[n] = "CLUSTER_HEAD_ELECTION"
      BY <2>1 DEF AcceptsRequest, TypeOK
    <3>2. m_socket[n] /\ WindowEnd(n) + Window < now
      BY <1>3 DEF HandleInitiateCluster, Inbox, RequestsInTime
    <3>3. \A f \in pending[n] : f.type = "Stop"
      BY <3>1, <3>2, OnlyStopLeft
    <3>4. PICK w \in Nat, d \in Nat :
            Simulate(n, {}, <<After(w, "FormCluster"), After(d, "SendIncident")>>)
      BY <2>1, ElectionScheduled
    <3>5. pending'[n] = (pending[n] \ {}) \cup
            {Entry(n, 0, w, "FormCluster"), Entry(n, 1, d, "SendIncident")}
      BY <3>4, TwoScheduled
    <3>6. Sends(n)' = {}
      BY <3>3, <3>5 DEF Sends, Entry
    <3> QED
      BY <3>1, <3>6 DEF ChainsInv
  <2>2. CASE UNCHANGED <<m_status, events, m_chElectionEvent>>
    BY <1>1, <1>3, <2>2 DEF HandleInitiateCluster, events
  <2> QED
    BY <1>3, <2>1, <2>2 DEF HandleInitiateCluster
<1>4. CASE HandleFormCluster(n)
  <2>1. PICK head :
          \/ /\ Joins(n, head)
             /\ m_status' = [m_status EXCEPT ![n] = "CLUSTER_UPDATE"]
             /\ Simulate(n, CancelledByJoin(n),
                         <<After(TimeWindow[n], "Send"),
                           After(ListUpdateDelay, "UpdateNeighborList")>>)
             /\ m_sendEvent' = [m_sendEvent EXCEPT ![n] = nextUid[n]]
          \/ UNCHANGED <<m_status, events, m_sendEvent>>
    BY <1>4 DEF HandleFormCluster
  <2>2. m_chElectionEvent' = m_chElectionEvent
    BY <1>4 DEF HandleFormCluster
  <2>3. CASE UNCHANGED <<m_status, events, m_sendEvent>>
    BY <1>1, <2>2, <2>3 DEF events
  <2>4. CASE /\ Joins(n, head)
             /\ m_status' = [m_status EXCEPT ![n] = "CLUSTER_UPDATE"]
             /\ Simulate(n, CancelledByJoin(n),
                         <<After(TimeWindow[n], "Send"),
                           After(ListUpdateDelay, "UpdateNeighborList")>>)
             /\ m_sendEvent' = [m_sendEvent EXCEPT ![n] = nextUid[n]]
    <3>1. /\ m_status[n] = "CLUSTER_HEAD_ELECTION"
          /\ m_status'[n] = "CLUSTER_UPDATE"
          /\ m_sendEvent'[n] = nextUid[n]
      BY <2>4 DEF Joins, TypeOK
    <3> DEFINE first == Entry(n, 0, TimeWindow[n], "Send")
               second == Entry(n, 1, ListUpdateDelay, "UpdateNeighborList")
    <3>2. pending'[n] = (pending[n] \ CancelledByJoin(n)) \cup {first, second}
      BY <2>4, TwoScheduled
    <3>3. first.uid = nextUid[n] /\ second.type = "UpdateNeighborList"
      BY DEF Entry, TypeOK
    <3> HIDE DEF first, second
    <3>4. Sends(n)' \subseteq Sends(n) \cup {first}
      BY <3>2, <3>3 DEF Sends
    <3>5. Alike(Sends(n))
      BY <3>1, Duties DEF StageInv, OneDuty, Sends, Alike
    <3>6. Alike(Forgotten(n))'
      BY <3>1, <3>3, <3>4, <3>5 DEF Forgotten, Alike
    <3>7. m_chElectionEvent[n] /= 0 => Alike(Sends(n))'
      BY <3>1, <3>4 DEF ChainsInv, Alike
    <3> QED
      BY <2>2, <3>1, <3>6, <3>7 DEF ChainsInv
  <2> QED
    BY <2>1, <2>3, <2>4
<1> QED
  BY <1>2, <1>3, <1>4 DEF HandleRead

LEMMA ApplicationKeepsChains ==
  ASSUME TypeOK, NEW n \in Node, StageInv(n), ChainsInv(n), Application(n)
  PROVE  ChainsInv(n)'
<1>1. CASE StartApplication(n)
  <2>1. PICK e \in Due(n, "Start") :
          m_status'[n] = "CLUSTER_INITIALIZATION"
          /\ m_chElectionEvent'[n] = m_chElectionEvent[n]
    BY <1>1 DEF StartApplication, TypeOK
  <2>2. m_status[n] = "CLUSTER_INITIALIZATION"
    BY DutyFound DEF Due, StageInv
  <2> QED
    BY <2>1, <2>2 DEF ChainsInv
<1>2. CASE StopApplication(n)
  <2>1. PICK e \in Due(n, "Stop") : Simulate(n, {e} \cup Cancelled(n), <<>>)
    BY <1>2 DEF StopApplication
  <2>2. pending'[n] \subseteq pending[n]
    BY <2>1, NothingScheduled
  <2>3. UNCHANGED <<m_status, m_sendEvent, m_chElectionEvent>>
    BY <1>2 DEF StopApplication, timers
  <2> QED
    BY <2>2, <2>3, FewerSends DEF Sends
<1> QED
  BY <1>1, <1>2 DEF Application

\* A stop finds at most one event that it does not cancel, besides the
\* update of the lists.
LEMMA StopLeaves ==
  ASSUME TypeOK, NEW n \in Node, StageInv(n), ChainsInv(n), LeftAfterStop(n),
         m_socket[n], VehicleInv(n), StopApplication(n)
  PROVE  LeftAfterStop(n)'
<1>1. PICK e \in Due(n, "Stop") : Simulate(n, {e} \cup Cancelled(n), <<>>)
  BY DEF StopApplication
<1>2. pending'[n] = pending[n] \ ({e} \cup Cancelled(n))
  BY <1>1, NothingScheduled
<1>3. \A f \in pending'[n] : f \in pending[n] /\ f.type \notin {"Stop", "Start"}
  BY <1>2 DEF Due, LeftAfterStop, VehicleInv, StartsOnce
<1>4. \A f \in pending'[n] : f.type /= "SendIncident"
  BY <1>2 DEF StageInv, TimersTracked, Cancelled, Tracked
<1>5. \A f \in pending'[n] : f.type = "Send" => f \in Forgotten(n)
  BY <1>2 DEF Cancelled, Tracked, Forgotten, Sends
<1>6. m_status[n] \in NodeStatus
  BY DEF TypeOK
<1>7. CASE m_status[n] = "CLUSTER_UPDATE"
  <2>1. \A f \in pending'[n] : f.type \in {"UpdateNeighborList", "Send"}
    BY <1>3, <1>4, <1>7, Duties DEF StageInv, OneDuty
  <2> QED
    BY <1>3, <1>4, <1>5, <1>7, <2>1 DEF LeftAfterStop, Alike, ChainsInv
<1>8. CASE m_status[n] /= "CLUSTER_UPDATE"
  <2>1. \A f \in pending'[n] :
          f.type = "UpdateNeighborList" \/ f.type \in Duty(m_status[n])
    BY <1>3, <1>4, <1>6, <1>8, Duties DEF StageInv, OneDuty, NodeStatus
  <2> QED
    BY <1>3, <1>4, <2>1 DEF LeftAfterStop, Alike, StageInv, OneDuty
<1> QED
  BY <1>7, <1>8

\* After the stop one event takes the place of another, until there is a
\* Send, which has no socket.
LEMMA TimerKeepsLeft ==
  ASSUME TypeOK, NEW n \in Node, LeftAfterStop(n), Stopped(n), Timer(n)
  PROVE  LeftAfterStop(n)'
<1>1. \A e \in pending[n] : e.type \notin {"Start", "Stop", "SendIncident"}
  BY DEF LeftAfterStop, Stopped, Waits
<1> DEFINE Gives(e, d, t) ==
             /\ e \in pending[n] /\ Simulate(n, {e}, <<After(d, t)>>)
             /\ t \notin {"Start", "Stop", "SendIncident"}
             /\ e.type = "UpdateNeighborList" => t = "UpdateNeighborList"
           Ends(e) == e \in pending[n] /\ Simulate(n, {e}, <<>>)
<1>2. (\E e : Ends(e)) \/ (\E e, d, t : Gives(e, d, t))
  <2>1. CASE InitiateCluster(n)
    <3>1. PICK e \in Due(n, "InitiateCluster") :
            \/ Simulate(n, {e}, <<>>)
            \/ Simulate(n, {e}, <<After(Slot * MaxUes, "Send")>>)
      BY <2>1 DEF InitiateCluster
    <3>2. Ends(e) \/ Gives(e, Slot * MaxUes, "Send")
      BY <3>1 DEF Due
    <3> QED
      BY <3>2
  <2>2. CASE FormCluster(n) \/ UpdateNeighbors(n)
    <3>1. PICK e, d :
            /\ e \in Due(n, "FormCluster") \cup Due(n, "UpdateNeighbors")
            /\ Simulate(n, {e}, <<After(d, "Send")>>)
      BY <2>2 DEF FormCluster, UpdateNeighbors
    <3>2. Gives(e, d, "Send")
      BY <3>1 DEF Due
    <3> QED
      BY <3>2
  <2>3. CASE UpdateNeighborList(n)
    <3>1. PICK e \in Due(n, "UpdateNeighborList") :
            Simulate(n, {e}, <<After(Interval, "UpdateNeighborList")>>)
      BY <2>3 DEF UpdateNeighborList
    <3>2. Gives(e, Interval, "UpdateNeighborList")
      BY <3>1 DEF Due
    <3> QED
      BY <3>2
  <2>4. CASE SendIncident(n)
    BY <1>1, <2>4 DEF SendIncident, Due
  <2> QED
    BY <2>1, <2>2, <2>3, <2>4 DEF Timer
<1>3. CASE \E e : Ends(e)
  <2>1. pending'[n] \subseteq pending[n]
    BY <1>3, NothingScheduled
  <2> QED
    BY <1>1, <2>1 DEF LeftAfterStop, Stopped, Alike
<1>4. CASE \E e, d, t : Gives(e, d, t)
  <2>1. PICK e, d, t : Gives(e, d, t)
    BY <1>4
  <2> DEFINE new == Entry(n, 0, d, t)
  <2>2. pending'[n] = (pending[n] \ {e}) \cup {new}
    BY <2>1, OneScheduled
  <2>3. new.type = t
    BY DEF Entry
  <2> HIDE DEF new
  <2>4. Alike({f \in pending'[n] : f.type /= "UpdateNeighborList"})
    BY <2>1, <2>2, <2>3 DEF LeftAfterStop, Stopped, Alike
  <2> QED
    BY <1>1, <2>1, <2>2, <2>3, <2>4 DEF LeftAfterStop, Alike
<1> QED
  BY <1>2, <1>3, <1>4

\* Only a start opens the sockets, only a stop closes them.
LEMMA SocketAfter ==
  ASSUME TypeOK, NEW n \in Node,
         StartApplication(n) \/ Send(n) \/ Timer(n) \/ HandleRead(n)
  PROVE  m_socket'[n] = (m_socket[n] \/ StartApplication(n))
<1>1. CASE StartApplication(n)
  BY <1>1 DEF StartApplication, TypeOK
<1>2. CASE Send(n) \/ Timer(n) \/ HandleRead(n)
  <2>1. m_socket' = m_socket
    BY <1>2 DEF Send, Timer, HandleRead, SendClusterInfo, SendInitiateCluster,
       SendFormCluster, SendUpdate, InitiateCluster, FormCluster,
       UpdateNeighbors, UpdateNeighborList, SendIncident, HandleClusterInfo,
       HandleInitiateCluster, HandleFormCluster, HandleIncidentEvent
  <2>2. CASE StartApplication(n)
    BY <1>1, <2>2
  <2> QED
    BY <2>1, <2>2 DEF TypeOK
<1> QED
  BY <1>1, <1>2

LEMMA StepKeepsLeft ==
  ASSUME TdmaInv, NEW n \in Node, ChainsInv(n), LeftAfterStop(n),
         Application(n) \/ Send(n) \/ Timer(n) \/ HandleRead(n)
  PROVE  LeftAfterStop(n)'
<1>1. TypeOK /\ VehicleInv(n) /\ EventIds(n) /\ StageInv(n)
  BY DEF TdmaInv, TimedInv, MembershipInv
<1>2. \A e \in pending'[n] : e.type \in {"Start", "Stop"} => e \in pending[n]
  BY <1>1, SchedulesNoStart
<1>3. \A e, f \in pending'[n] : e.type = "Stop" /\ f.type = "Stop" => e = f
  BY <1>2 DEF LeftAfterStop
<1>4. CASE m_socket[n]
  <2>1. CASE StopApplication(n)
    BY <1>1, <1>4, <2>1, StopLeaves
  <2>2. CASE ~ StopApplication(n)
    <3>1. m_socket'[n]
      BY <1>1, <1>4, <2>2, SocketAfter DEF Application
    <3> QED
      BY <1>3, <3>1 DEF LeftAfterStop, Stopped
  <2> QED
    BY <2>1, <2>2
<1>5. CASE ~ m_socket[n] /\ Waits(n, {"Start"})
  <2>1. PICK s \in pending[n] : s.type = "Start"
    BY <1>5 DEF Waits
  <2>2. m_status[n] = "CLUSTER_INITIALIZATION"
    BY <1>1, <2>1, DutyFound DEF StageInv
  <2>3. \A f \in pending[n] : f.type \in {"Start", "Stop"}
    BY <1>1, <2>1, <2>2, Duties, DutyFound DEF StageInv
  <2>4. CASE StartApplication(n)
    <3>1. m_socket'[n]
      BY <1>1, <2>4, SocketAfter
    <3> QED
      BY <1>3, <3>1 DEF LeftAfterStop, Stopped
  <2>5. CASE StopApplication(n)
    <3>1. PICK e \in Due(n, "Stop") : Simulate(n, {e} \cup Cancelled(n), <<>>)
      BY <2>5 DEF StopApplication
    <3>2. pending'[n] = pending[n] \ ({e} \cup Cancelled(n))
      BY <1>1, <3>1, NothingScheduled
    <3>3. s \in pending'[n]
      BY <1>1, <2>1, <3>2, CancelledTypes DEF Due
    <3> QED
      BY <1>3, <2>1, <3>3 DEF LeftAfterStop, Stopped, Waits
  <2>6. ~ Send(n) /\ ~ HandleRead(n)
    BY <1>5 DEF Send, SendClusterInfo, SendInitiateCluster, SendFormCluster,
       SendUpdate, SendDue, HandleRead, HandleClusterInfo,
       HandleInitiateCluster, HandleFormCluster, HandleIncidentEvent, Inbox
  <2>7. ~ Timer(n)
    BY <2>3 DEF Timer, InitiateCluster, FormCluster, UpdateNeighbors,
       UpdateNeighborList, SendIncident, Due
  <2> QED
    BY <2>4, <2>5, <2>6, <2>7 DEF Application
<1>6. CASE Stopped(n)
  <2>1. ~ Send(n) /\ ~ HandleRead(n)
    BY <1>6 DEF Stopped, Send, SendClusterInfo, SendInitiateCluster,
       SendFormCluster, SendUpdate, SendDue, HandleRead, HandleClusterInfo,
       HandleInitiateCluster, HandleFormCluster, HandleIncidentEvent, Inbox
  <2>2. ~ Application(n)
    BY <1>6 DEF LeftAfterStop, Stopped, Waits, Application, StartApplication,
       StopApplication, Due
  <2> QED
    BY <1>1, <1>6, <2>1, <2>2, TimerKeepsLeft
<1> QED
  BY <1>4, <1>5, <1>6 DEF Stopped

LEMMA StepKeepsChains ==
  ASSUME TdmaInv, NEW n \in Node, ChainsInv(n),
         Application(n) \/ Send(n) \/ Timer(n) \/ HandleRead(n)
  PROVE  ChainsInv(n)'
<1>1. TypeOK /\ VehicleInv(n) /\ EventIds(n) /\ StageInv(n) /\ RequestsInTime
  BY DEF TdmaInv, TimedInv, MembershipInv
<1> QED
  BY <1>1, ApplicationKeepsChains, SendKeepsChains, TimerKeepsChains,
     HandleReadKeepsChains

LEMMA OthersKeepChains ==
  ASSUME NEW m \in Node, Untouched(m), Idle(m), ChainsInv(m), LeftAfterStop(m)
  PROVE  ChainsInv(m)' /\ LeftAfterStop(m)'
  BY DEF Untouched, Idle, ChainsInv, LeftAfterStop, Stopped, Waits, Forgotten,
         Sends, Alike

LEMMA ChainInit == ASSUME TdmaSchedule PROVE Init => ChainInv
<1> SUFFICES ASSUME Init, NEW n \in Node PROVE ChainsInv(n) /\ LeftAfterStop(n)
  BY TdmaInit DEF ChainInv
<1>1. /\ pending[n] = {[uid |-> 1, type |-> "Start", due |-> StartTime[n]],
                       [uid |-> 2, type |-> "Stop", due |-> StopTime[n]]}
      /\ m_chElectionEvent[n] = 0 /\ m_status[n] = "CLUSTER_INITIALIZATION"
  BY DEF Init
<1>2. Waits(n, {"Start"})
  BY <1>1 DEF Waits
<1> QED
  BY <1>1, <1>2 DEF ChainsInv, LeftAfterStop, Stopped

LEMMA ChainNext == ASSUME TdmaSchedule PROVE ChainInv /\ [Next]_vars => ChainInv'
<1> SUFFICES ASSUME ChainInv, [Next]_vars
             PROVE  \A n \in Node : ChainsInv(n)' /\ LeftAfterStop(n)'
  BY TdmaNext DEF ChainInv
<1>1. TypeOK
  BY DEF ChainInv, TdmaInv, TimedInv, MembershipInv
<1>2. CASE \E n \in Node : Application(n) \/ Send(n) \/ Timer(n) \/ HandleRead(n)
  <2>1. PICK n \in Node : Application(n) \/ Send(n) \/ Timer(n) \/ HandleRead(n)
    BY <1>2
  <2>2. ChainsInv(n)' /\ LeftAfterStop(n)'
    BY <2>1, StepKeepsChains, StepKeepsLeft DEF ChainInv
  <2>3. ASSUME NEW m \in Node \ {n} PROVE ChainsInv(m)' /\ LeftAfterStop(m)'
    BY <1>1, <2>1, OthersUntouched, OthersIdle, OthersKeepChains DEF ChainInv
  <2> QED
    BY <2>2, <2>3
<1>3. CASE NoListener \/ Lose \/ Tick \/ UNCHANGED vars
  <2>1. UNCHANGED <<pending, nextUid, m_socket, m_status, m_currentMobility,
                    m_2rStableList, m_rStableList, m_clusterList,
                    m_socketIncident, m_sendEvent, m_chElectionEvent,
                    m_sendIncidentEvent>>
    BY <1>3 DEF NoListener, Lose, Tick, vars, events, lists, timers, incident
  <2> QED
    BY <2>1, OthersKeepChains DEF ChainInv, Untouched, Idle
<1> QED
  BY <1>2, <1>3 DEF Next

LEMMA AlikeCount ==
  ASSUME NEW S, Alike(S) PROVE IsFiniteSet(S) /\ Cardinality(S) <= 1
<1>1. S = {} \/ \E e : S = {e}
  BY DEF Alike
<1>2. IsFiniteSet(S) /\ (Cardinality(S) = 0 \/ Cardinality(S) = 1)
  BY <1>1, FS_EmptySet, FS_Singleton
<1> QED
  BY <1>2

\* Whatever overtakes whatever, a vehicle never sends in more than two
\* chains, and a vehicle that has waited itself only in one.
THEOREM SendChainsHolds == ASSUME TdmaSchedule PROVE Spec => []SendChains
<1>1. ChainInv => SendChains
  <2> SUFFICES ASSUME ChainInv, NEW n \in Node
               PROVE  Cardinality(Sends(n)) <=
                        IF Settled(n) /\ m_chElectionEvent[n] = 0 THEN 2 ELSE 1
    BY DEF SendChains
  <2>1. TypeOK /\ EventIds(n) /\ StageInv(n) /\ ChainsInv(n)
    BY DEF ChainInv, TdmaInv, TimedInv, MembershipInv
  <2>2. CASE Settled(n) /\ m_chElectionEvent[n] = 0
    <3> DEFINE own == Sends(n) \ Forgotten(n)
    <3>1. Alike(own) /\ Alike(Forgotten(n))
      BY <2>1, <2>2 DEF ChainsInv, Settled, Alike, Forgotten, Sends, EventIds
    <3>2. own = {} \/ \E e : own = {e}
      BY <3>1 DEF Alike
    <3>3. Sends(n) = Forgotten(n) \cup own
      BY DEF Forgotten
    <3>4. /\ IsFiniteSet(Forgotten(n)) /\ Cardinality(Forgotten(n)) \in Nat
          /\ Cardinality(Forgotten(n)) <= 1
      BY <3>1, AlikeCount, FS_CardinalityType
    <3> HIDE DEF own
    <3>5. CASE own = {}
      BY <2>2, <3>3, <3>4, <3>5
    <3>6. CASE \E e : own = {e}
      <4>1. PICK e : Sends(n) = Forgotten(n) \cup {e}
        BY <3>3, <3>6
      <4> DEFINE old == Forgotten(n)
      <4>2. \/ Cardinality(old \cup {e}) = Cardinality(old)
            \/ Cardinality(old \cup {e}) = Cardinality(old) + 1
        BY <3>4, FS_AddElement
      <4>3. Cardinality(Sends(n)) <= 2
        BY <3>4, <4>1, <4>2
      <4> QED
        BY <2>2, <4>3
    <3> QED
      BY <3>2, <3>5, <3>6
  <2>3. CASE ~ (Settled(n) /\ m_chElectionEvent[n] = 0)
    <3>1. m_status[n] \in NodeStatus
      BY <2>1 DEF TypeOK
    <3>2. CASE Settled(n)
      BY <2>1, <2>3, <3>2, AlikeCount DEF ChainsInv, Settled
    <3>3. CASE ~ Settled(n)
      <4>1. \A e \in Sends(n) : e \in pending[n] /\ e.type \in Duty(m_status[n])
        BY <3>1, <3>3, Duties DEF Settled, NodeStatus, Sends
      <4>2. Alike(Sends(n))
        BY <2>1, <4>1 DEF StageInv, OneDuty, Alike
      <4> QED
        BY <2>3, <4>2, AlikeCount
    <3> QED
      BY <3>2, <3>3
  <2> QED
    BY <2>2, <2>3
<1> QED
  BY <1>1, ChainInit, ChainNext, PTL DEF Spec

\* Whenever a vehicle stops, at most one event is left that the stop should
\* have cancelled, and it is no incident.
THEOREM StopLeavesOneHolds == ASSUME TdmaSchedule PROVE Spec => []StopLeavesOne
<1>1. ChainInv => StopLeavesOne
  <2> SUFFICES ASSUME ChainInv, NEW n \in Node, Stopped(n)
               PROVE  /\ Cardinality({e \in pending[n] :
                              e.type /= "UpdateNeighborList"}) <= 1
                      /\ ~ Waits(n, {"SendIncident"})
    BY DEF StopLeavesOne
  <2>1. LeftAfterStop(n)
    BY DEF ChainInv
  <2> QED
    BY <2>1, AlikeCount DEF LeftAfterStop, Waits
<1> QED
  BY <1>1, ChainInit, ChainNext, PTL DEF Spec

=============================================================================
