----------------------- MODULE V2vControlClient_timers -----------------------
(***************************************************************************)
(* Proofs that no vehicle is left without the timer it depends on: the     *)
(* event ids tell the events apart, so what a handler cancels is what it   *)
(* meant to cancel, and everything a vehicle waits for has been scheduled. *)
(***************************************************************************)
EXTENDS V2vControlClient_proofs

-----------------------------------------------------------------------------
(***************************************************************************)
(* What Schedule adds to a queue, one event after the other.               *)
(***************************************************************************)
Entry(n, i, d, t) == [uid |-> nextUid[n] + i, type |-> t, due |-> now + d]

LEMMA NothingScheduled ==
  ASSUME TypeOK, NEW n \in Node, NEW done, Simulate(n, done, <<>>)
  PROVE  pending'[n] = pending[n] \ done /\ nextUid'[n] = nextUid[n]
<1>1. 1..Len(<<>>) = {} /\ Len(<<>>) = 0
  OBVIOUS
<1> QED
  BY <1>1 DEF TypeOK, Simulate

LEMMA OneScheduled ==
  ASSUME TypeOK, NEW n \in Node, NEW done, NEW d, NEW t,
         Simulate(n, done, <<After(d, t)>>)
  PROVE  /\ pending'[n] = (pending[n] \ done) \cup {Entry(n, 0, d, t)}
         /\ nextUid'[n] = nextUid[n] + 1
<1> DEFINE plan == <<After(d, t)>>
<1>1. Len(plan) = 1 /\ plan[1].type = t /\ plan[1].delay = d
  BY DEF After
<1>2. Simulate(n, done, plan)
  OBVIOUS
<1> HIDE DEF plan
<1>3. /\ pending'[n] = (pending[n] \ done) \cup
            {[uid |-> nextUid[n] + i - 1, type |-> plan[i].type,
              due |-> now + plan[i].delay] : i \in 1..Len(plan)}
      /\ nextUid'[n] = nextUid[n] + Len(plan)
  BY <1>2 DEF TypeOK, Simulate
<1>4. {[uid |-> nextUid[n] + i - 1, type |-> plan[i].type,
        due |-> now + plan[i].delay] : i \in 1..Len(plan)}
        = {Entry(n, 0, d, t)}
  BY <1>1 DEF TypeOK, Entry
<1> QED
  BY <1>1, <1>3, <1>4

LEMMA TwoScheduled ==
  ASSUME TypeOK, NEW n \in Node, NEW done, NEW d, NEW t, NEW c, NEW u,
         Simulate(n, done, <<After(d, t), After(c, u)>>)
  PROVE  /\ pending'[n] =
              (pending[n] \ done) \cup {Entry(n, 0, d, t), Entry(n, 1, c, u)}
         /\ nextUid'[n] = nextUid[n] + 2
<1> DEFINE plan == <<After(d, t), After(c, u)>>
<1>1. /\ Len(plan) = 2
      /\ plan[1].type = t /\ plan[1].delay = d
      /\ plan[2].type = u /\ plan[2].delay = c
  BY DEF After
<1>2. Simulate(n, done, plan)
  OBVIOUS
<1> HIDE DEF plan
<1>3. /\ pending'[n] = (pending[n] \ done) \cup
            {[uid |-> nextUid[n] + i - 1, type |-> plan[i].type,
              due |-> now + plan[i].delay] : i \in 1..Len(plan)}
      /\ nextUid'[n] = nextUid[n] + Len(plan)
  BY <1>2 DEF TypeOK, Simulate
<1>4. {[uid |-> nextUid[n] + i - 1, type |-> plan[i].type,
        due |-> now + plan[i].delay] : i \in 1..Len(plan)}
        = {Entry(n, 0, d, t), Entry(n, 1, c, u)}
  <2>1. 1..Len(plan) = {1, 2}
    BY <1>1
  <2>2. nextUid[n] + 1 - 1 = nextUid[n] + 0 /\ nextUid[n] + 2 - 1 = nextUid[n] + 1
    BY DEF TypeOK
  <2> QED
    BY <1>1, <2>1, <2>2 DEF Entry
<1> QED
  BY <1>1, <1>3, <1>4

-----------------------------------------------------------------------------
(***************************************************************************)
(* Event ids.                                                              *)
(***************************************************************************)
Refers(n, id, type) ==
    id < nextUid[n] /\ \A e \in pending[n] : e.uid = id => e.type = type

\* an EventId refers to an event of its own kind, or to one that is over
EventIds(n) ==
    /\ \A e \in pending[n] : e.uid < nextUid[n]
    /\ \A e, f \in pending[n] : e.uid = f.uid => e = f
    /\ Refers(n, m_sendEvent[n], "Send")
    /\ Refers(n, m_chElectionEvent[n], "FormCluster")
    /\ Refers(n, m_sendIncidentEvent[n], "SendIncident")

LEMMA IdsKeptByNothing ==
  ASSUME TypeOK, NEW n \in Node, EventIds(n),
         pending'[n] \subseteq pending[n], nextUid'[n] = nextUid[n],
         m_sendEvent'[n] = m_sendEvent[n],
         m_chElectionEvent'[n] = m_chElectionEvent[n],
         m_sendIncidentEvent'[n] = m_sendIncidentEvent[n]
  PROVE  EventIds(n)'
  BY DEF EventIds, Refers

\* a handler that schedules one event, and keeps its id or not
LEMMA IdsKeptByOne ==
  ASSUME TypeOK, NEW n \in Node, EventIds(n), NEW done, NEW d, NEW t,
         Simulate(n, done, <<After(d, t)>>),
         \/ m_sendEvent'[n] = m_sendEvent[n]
         \/ m_sendEvent'[n] = nextUid[n] /\ t = "Send",
         m_chElectionEvent'[n] = m_chElectionEvent[n],
         \/ m_sendIncidentEvent'[n] = m_sendIncidentEvent[n]
         \/ m_sendIncidentEvent'[n] = nextUid[n] /\ t = "SendIncident"
  PROVE  EventIds(n)'
<1>1. nextUid[n] \in Nat /\ m_sendEvent[n] \in Nat /\ m_chElectionEvent[n] \in Nat
      /\ m_sendIncidentEvent[n] \in Nat /\ \A e \in pending[n] : e.uid \in Nat
  BY DEF TypeOK, Event
<1> DEFINE new == Entry(n, 0, d, t)
<1>2. new.uid = nextUid[n] /\ new.type = t
  BY <1>1 DEF Entry
<1>3. /\ pending'[n] \subseteq pending[n] \cup {new}
      /\ nextUid'[n] = nextUid[n] + 1
  BY OneScheduled
<1> HIDE DEF new
<1>4. \A e \in pending[n] : e.uid < nextUid[n]
  BY DEF EventIds
<1>5. \A e \in pending'[n] : e.uid < nextUid'[n]
  BY <1>1, <1>2, <1>3, <1>4
<1>6. \A e, f \in pending'[n] : e.uid = f.uid => e = f
  BY <1>1, <1>2, <1>3, <1>4 DEF EventIds
<1>7. /\ Refers(n, m_sendEvent[n], "Send")'
      /\ Refers(n, m_chElectionEvent[n], "FormCluster")'
      /\ Refers(n, m_sendIncidentEvent[n], "SendIncident")'
  BY <1>1, <1>2, <1>3, <1>4 DEF EventIds, Refers
<1> QED
  BY <1>5, <1>6, <1>7 DEF EventIds

\* a handler that schedules two events
LEMMA IdsKeptByTwo ==
  ASSUME TypeOK, NEW n \in Node, EventIds(n),
         NEW done, NEW d, NEW t, NEW c, NEW u,
         Simulate(n, done, <<After(d, t), After(c, u)>>),
         \/ m_sendEvent'[n] = m_sendEvent[n]
         \/ m_sendEvent'[n] = nextUid[n] /\ t = "Send",
         \/ m_chElectionEvent'[n] = m_chElectionEvent[n]
         \/ m_chElectionEvent'[n] = nextUid[n] /\ t = "FormCluster",
         \/ m_sendIncidentEvent'[n] = m_sendIncidentEvent[n]
         \/ m_sendIncidentEvent'[n] = nextUid[n] + 1 /\ u = "SendIncident"
  PROVE  EventIds(n)'
<1>1. nextUid[n] \in Nat /\ m_sendEvent[n] \in Nat /\ m_chElectionEvent[n] \in Nat
      /\ m_sendIncidentEvent[n] \in Nat /\ \A e \in pending[n] : e.uid \in Nat
  BY DEF TypeOK, Event
<1> DEFINE first == Entry(n, 0, d, t)
           second == Entry(n, 1, c, u)
<1>2. /\ first.uid = nextUid[n] /\ first.type = t
      /\ second.uid = nextUid[n] + 1 /\ second.type = u
  BY <1>1 DEF Entry
<1>3. /\ pending'[n] \subseteq pending[n] \cup {first, second}
      /\ nextUid'[n] = nextUid[n] + 2
  BY TwoScheduled
<1> HIDE DEF first, second
<1>4. \A e \in pending[n] : e.uid < nextUid[n]
  BY DEF EventIds
<1>5. \A e \in pending'[n] : e.uid < nextUid'[n]
  BY <1>1, <1>2, <1>3, <1>4
<1>6. \A e, f \in pending'[n] : e.uid = f.uid => e = f
  BY <1>1, <1>2, <1>3, <1>4 DEF EventIds
<1>7. /\ Refers(n, m_sendEvent[n], "Send")'
      /\ Refers(n, m_chElectionEvent[n], "FormCluster")'
      /\ Refers(n, m_sendIncidentEvent[n], "SendIncident")'
  BY <1>1, <1>2, <1>3, <1>4 DEF EventIds, Refers
<1> QED
  BY <1>5, <1>6, <1>7 DEF EventIds

\* an election: the event it adds last is the incident
LEMMA ElectionScheduled ==
  ASSUME TypeOK, NEW n \in Node, NEW done, StartElection(n, done)
  PROVE  \E w \in Nat, d \in Nat :
            /\ w \in SuitabilityCheck(m_currentMobility[n], m_rStableList[n])
            /\ d \in IncidentDelays(w)
            /\ Simulate(n, done, <<After(w, "FormCluster"), After(d, "SendIncident")>>)
            /\ m_chElectionEvent'[n] = nextUid[n]
            /\ m_sendIncidentEvent'[n] = nextUid[n] + 1
<1>1. PICK w \in SuitabilityCheck(m_currentMobility[n], m_rStableList[n]) :
        \E d \in IncidentDelays(w) :
          Simulate(n, done, <<After(w, "FormCluster"), After(d, "SendIncident")>>)
  BY DEF StartElection
<1>2. PICK d \in IncidentDelays(w) :
        Simulate(n, done, <<After(w, "FormCluster"), After(d, "SendIncident")>>)
  BY <1>1
<1>3. w \in Nat /\ d \in Nat
  BY WaitType DEF TypeOK
<1>4. /\ m_chElectionEvent'[n] = nextUid[n]
      /\ m_sendIncidentEvent'[n] = nextUid[n] + 1
  BY DEF StartElection, TypeOK
<1> QED
  BY <1>2, <1>3, <1>4

LEMMA ElectionKeepsIds ==
  ASSUME TypeOK, NEW n \in Node, EventIds(n), NEW done, StartElection(n, done),
         m_sendEvent'[n] = m_sendEvent[n]
  PROVE  EventIds(n)'
  BY ElectionScheduled, IdsKeptByTwo

LEMMA StepKeepsIds ==
  ASSUME TypeOK, NEW n \in Node, EventIds(n),
         Application(n) \/ Send(n) \/ Timer(n) \/ HandleRead(n)
  PROVE  EventIds(n)'
<1>1. CASE StartApplication(n)
  <2>1. PICK e \in Due(n, "Start") :
          Simulate(n, {e}, <<After(TimeWindow[n], "Send")>>)
    BY <1>1 DEF StartApplication
  <2>2. /\ m_sendEvent'[n] = nextUid[n]
        /\ UNCHANGED <<m_chElectionEvent, m_sendIncidentEvent>>
    BY <1>1 DEF StartApplication, TypeOK
  <2> QED
    BY <2>1, <2>2, IdsKeptByOne
<1>2. CASE StopApplication(n)
  <2>1. PICK e \in Due(n, "Stop") : Simulate(n, {e} \cup Cancelled(n), <<>>)
    BY <1>2 DEF StopApplication
  <2>2. pending'[n] \subseteq pending[n] /\ nextUid'[n] = nextUid[n]
    BY <2>1, NothingScheduled
  <2> QED
    BY <1>2, <2>2, IdsKeptByNothing DEF StopApplication, timers
<1>3. CASE SendClusterInfo(n)
  <2>1. PICK e \in SendDue(n, "CLUSTER_INITIALIZATION") :
          Simulate(n, {e}, <<After(Slot * MaxUes, "InitiateCluster")>>)
    BY <1>3 DEF SendClusterInfo
  <2> QED
    BY <1>3, <2>1, IdsKeptByOne DEF SendClusterInfo, timers
<1>4. CASE SendInitiateCluster(n)
  BY <1>4, ElectionKeepsIds DEF SendInitiateCluster
<1>5. CASE SendFormCluster(n)
  <2>1. PICK e \in SendDue(n, "CLUSTER_FORMATION") :
          Simulate(n, {e}, <<After(0, "UpdateNeighbors"),
                             After(ListUpdateDelay, "UpdateNeighborList")>>)
    BY <1>5 DEF SendFormCluster
  <2> QED
    BY <1>5, <2>1, IdsKeptByTwo DEF SendFormCluster, timers
<1>6. CASE SendUpdate(n)
  <2>1. PICK e \in SendDue(n, "CLUSTER_UPDATE") :
          Simulate(n, {e}, <<After(Interval, "Send")>>)
    BY <1>6 DEF SendUpdate
  <2>2. /\ m_sendEvent'[n] = nextUid[n]
        /\ UNCHANGED <<m_chElectionEvent, m_sendIncidentEvent>>
    BY <1>6 DEF SendUpdate, TypeOK
  <2> QED
    BY <2>1, <2>2, IdsKeptByOne
<1>7. CASE InitiateCluster(n)
  <2>1. PICK e \in Due(n, "InitiateCluster") :
          \/ /\ Simulate(n, {e}, <<After(Slot * MaxUes, "Send")>>)
             /\ m_sendEvent' = [m_sendEvent EXCEPT ![n] = nextUid[n]]
          \/ Simulate(n, {e}, <<>>) /\ UNCHANGED m_sendEvent
    BY <1>7 DEF InitiateCluster
  <2>2. UNCHANGED <<m_chElectionEvent, m_sendIncidentEvent>>
    BY <1>7 DEF InitiateCluster
  <2>3. CASE /\ Simulate(n, {e}, <<After(Slot * MaxUes, "Send")>>)
             /\ m_sendEvent' = [m_sendEvent EXCEPT ![n] = nextUid[n]]
    <3>1. m_sendEvent'[n] = nextUid[n]
      BY <2>3 DEF TypeOK
    <3> QED
      BY <2>2, <2>3, <3>1, IdsKeptByOne
  <2>4. CASE Simulate(n, {e}, <<>>) /\ UNCHANGED m_sendEvent
    BY <2>2, <2>4, NothingScheduled, IdsKeptByNothing
  <2> QED
    BY <2>1, <2>3, <2>4
<1>8. CASE FormCluster(n)
  <2>1. PICK e \in Due(n, "FormCluster") : Simulate(n, {e}, <<After(0, "Send")>>)
    BY <1>8 DEF FormCluster
  <2>2. /\ m_sendEvent'[n] = nextUid[n]
        /\ UNCHANGED <<m_chElectionEvent, m_sendIncidentEvent>>
    BY <1>8 DEF FormCluster, TypeOK
  <2> QED
    BY <2>1, <2>2, IdsKeptByOne
<1>9. CASE UpdateNeighbors(n)
  <2>1. PICK e \in Due(n, "UpdateNeighbors") :
          Simulate(n, {e}, <<After(Interval, "Send")>>)
    BY <1>9 DEF UpdateNeighbors
  <2>2. /\ m_sendEvent'[n] = nextUid[n]
        /\ UNCHANGED <<m_chElectionEvent, m_sendIncidentEvent>>
    BY <1>9 DEF UpdateNeighbors, TypeOK
  <2> QED
    BY <2>1, <2>2, IdsKeptByOne
<1>10. CASE UpdateNeighborList(n)
  <2>1. PICK e \in Due(n, "UpdateNeighborList") :
          Simulate(n, {e}, <<After(Interval, "UpdateNeighborList")>>)
    BY <1>10 DEF UpdateNeighborList
  <2> QED
    BY <1>10, <2>1, IdsKeptByOne DEF UpdateNeighborList, timers
<1>11. CASE SendIncident(n)
  <2>1. PICK e \in Due(n, "SendIncident") :
          Simulate(n, {e}, <<After(IncidentWindow, "SendIncident")>>)
    BY <1>11 DEF SendIncident
  <2>2. /\ m_sendIncidentEvent'[n] = nextUid[n]
        /\ UNCHANGED <<m_sendEvent, m_chElectionEvent>>
    BY <1>11 DEF SendIncident, TypeOK
  <2> QED
    BY <2>1, <2>2, IdsKeptByOne
<1>12. CASE HandleClusterInfo(n) \/ HandleIncidentEvent(n)
  BY <1>12, IdsKeptByNothing
  DEF HandleClusterInfo, HandleIncidentEvent, events, timers
<1>13. CASE HandleInitiateCluster(n)
  <2>1. UNCHANGED m_sendEvent
    BY <1>13 DEF HandleInitiateCluster
  <2>2. CASE StartElection(n, {})
    BY <2>1, <2>2, ElectionKeepsIds
  <2>3. CASE UNCHANGED <<events, m_chElectionEvent, m_sendIncidentEvent>>
    BY <2>1, <2>3, IdsKeptByNothing DEF events
  <2> QED
    BY <1>13, <2>2, <2>3 DEF HandleInitiateCluster
<1>14. CASE HandleFormCluster(n)
  <2>1. UNCHANGED <<m_chElectionEvent, m_sendIncidentEvent>>
    BY <1>14 DEF HandleFormCluster
  <2>2. CASE /\ Simulate(n, CancelledByJoin(n),
                         <<After(TimeWindow[n], "Send"),
                           After(ListUpdateDelay, "UpdateNeighborList")>>)
             /\ m_sendEvent' = [m_sendEvent EXCEPT ![n] = nextUid[n]]
    <3>1. m_sendEvent'[n] = nextUid[n]
      BY <2>2 DEF TypeOK
    <3> QED
      BY <2>1, <2>2, <3>1, IdsKeptByTwo
  <2>3. CASE UNCHANGED <<events, m_sendEvent>>
    BY <2>1, <2>3, IdsKeptByNothing DEF events
  <2> QED
    BY <1>14, <2>2, <2>3 DEF HandleFormCluster
<1> QED
  BY <1>1, <1>2, <1>3, <1>4, <1>5, <1>6, <1>7, <1>8, <1>9, <1>10, <1>11, <1>12,
     <1>13, <1>14 DEF Application, Send, Timer, HandleRead

-----------------------------------------------------------------------------
(***************************************************************************)
(* Nobody is left without a timer.  What NeverWithoutTimer says of settled *)
(* vehicles is not inductive: one that an election takes back becomes      *)
(* settled again without a new UpdateNeighborList.  The old one goes on,   *)
(* for a vehicle that has formed keeps its chain for good.                 *)
(***************************************************************************)
Timed(n) ==
    /\ Formed(n) => Waits(n, {"UpdateNeighborList"})
    /\ m_socket[n] =>
        /\ m_status[n] = "CLUSTER_HEAD_ELECTION" =>
              Waits(n, {"FormCluster", "Send"})
        /\ m_status[n] = "CLUSTER_FORMATION" =>
              Waits(n, {"Send", "UpdateNeighbors"})
        /\ Settled(n) => Waits(n, {"Send"})

TimedInv ==
    /\ MembershipInv
    /\ \A n \in Node : EventIds(n) /\ Timed(n)

\* Neither a stop nor a join cancels anything but what it means to.
LEMMA CancelledTypes ==
  ASSUME NEW n \in Node, EventIds(n)
  PROVE  /\ \A e \in Cancelled(n) : e.type \in {"Send", "SendIncident"}
         /\ \A e \in CancelledByJoin(n) : e.type = "FormCluster"
  BY DEF EventIds, Refers, Cancelled, CancelledByJoin, Tracked

\* The queue loses what ran or was cancelled, and gains what was scheduled.
LEMMA QueueAfterNothing ==
  ASSUME TypeOK, NEW n \in Node, NEW done, Simulate(n, done, <<>>)
  PROVE  pending[n] \ done \subseteq pending'[n]
  BY NothingScheduled

LEMMA QueueAfterOne ==
  ASSUME TypeOK, NEW n \in Node, NEW done, NEW d, NEW t,
         Simulate(n, done, <<After(d, t)>>)
  PROVE  /\ pending[n] \ done \subseteq pending'[n]
         /\ \E f \in pending'[n] : f.type = t
<1>1. pending'[n] = (pending[n] \ done) \cup {Entry(n, 0, d, t)}
  BY OneScheduled
<1>2. Entry(n, 0, d, t).type = t
  BY DEF Entry
<1> QED
  BY <1>1, <1>2

LEMMA QueueAfterTwo ==
  ASSUME TypeOK, NEW n \in Node, NEW done, NEW d, NEW t, NEW c, NEW u,
         Simulate(n, done, <<After(d, t), After(c, u)>>)
  PROVE  /\ pending[n] \ done \subseteq pending'[n]
         /\ \E f \in pending'[n] : f.type = t
         /\ \E f \in pending'[n] : f.type = u
<1>1. pending'[n] =
         (pending[n] \ done) \cup {Entry(n, 0, d, t), Entry(n, 1, c, u)}
  BY TwoScheduled
<1>2. Entry(n, 0, d, t).type = t /\ Entry(n, 1, c, u).type = u
  BY DEF Entry
<1> QED
  BY <1>1, <1>2

LEMMA ApplicationKeepsTimed ==
  ASSUME TypeOK, NEW n \in Node, VehicleInv(n), EventIds(n), Timed(n),
         Application(n)
  PROVE  Timed(n)'
<1>1. CASE StartApplication(n)
  <2>1. PICK e \in Due(n, "Start") :
          Simulate(n, {e}, <<After(TimeWindow[n], "Send")>>)
    BY <1>1 DEF StartApplication
  <2>2. m_status'[n] = "CLUSTER_INITIALIZATION"
    BY <1>1 DEF StartApplication, TypeOK
  <2>3. \A f \in pending'[n] : f \in pending[n] \ {e} \/ f.type = "Send"
    BY <2>1, SimulateOne
  <2>4. ~ Formed(n)
    BY DEF Due, VehicleInv, StartsOnce
  <2>5. ~ Formed(n)'
    BY <2>2, <2>3, <2>4 DEF Formed, Waits, Settled, Upkeep
  <2> QED
    BY <2>2, <2>5 DEF Timed, Settled
<1>2. CASE StopApplication(n)
  <2>1. PICK e \in Due(n, "Stop") : Simulate(n, {e} \cup Cancelled(n), <<>>)
    BY <1>2 DEF StopApplication
  <2>2. \A f \in {e} \cup Cancelled(n) : f.type \in {"Stop", "Send", "SendIncident"}
    BY CancelledTypes DEF Due
  <2>3. \A f \in pending[n] :
          f.type \notin {"Stop", "Send", "SendIncident"} => f \in pending'[n]
    BY <2>1, <2>2, QueueAfterNothing
  <2>4. pending'[n] \subseteq pending[n]
    BY <2>1, SimulateNothing
  <2>5. UNCHANGED m_status /\ m_socket'[n] = FALSE
    BY <1>2 DEF StopApplication, TypeOK
  <2>6. Formed(n)' => Formed(n)
    BY <2>4, <2>5 DEF Formed, Waits, Settled
  <2>7. Waits(n, {"UpdateNeighborList"}) => Waits(n, {"UpdateNeighborList"})'
    BY <2>3 DEF Waits
  <2> QED
    BY <2>5, <2>6, <2>7 DEF Timed
<1> QED
  BY <1>1, <1>2 DEF Application

LEMMA SendKeepsTimed ==
  ASSUME TypeOK, NEW n \in Node, VehicleInv(n), EventIds(n), Timed(n), Send(n)
  PROVE  Timed(n)'
<1>1. CASE SendClusterInfo(n)
  <2>1. PICK e \in SendDue(n, "CLUSTER_INITIALIZATION") :
          Simulate(n, {e}, <<After(Slot * MaxUes, "InitiateCluster")>>)
    BY <1>1 DEF SendClusterInfo
  <2>2. UNCHANGED m_status /\ m_status[n] = "CLUSTER_INITIALIZATION"
    BY <1>1 DEF SendClusterInfo, SendDue
  <2>3. ~ Formed(n)
    BY <2>2 DEF VehicleInv, Placed
  <2>4. \A f \in pending'[n] : f \in pending[n] \/ f.type = "InitiateCluster"
    BY <2>1, SimulateOne
  <2>5. ~ Formed(n)'
    BY <2>2, <2>3, <2>4 DEF Formed, Waits, Settled, Upkeep
  <2> QED
    BY <2>2, <2>5 DEF Timed, Settled
<1>2. CASE SendInitiateCluster(n)
  <2>1. PICK e \in SendDue(n, "CLUSTER_HEAD_ELECTION") : StartElection(n, {e})
    BY <1>2 DEF SendInitiateCluster
  <2>2. e.type = "Send" /\ UNCHANGED m_status
        /\ m_status[n] = "CLUSTER_HEAD_ELECTION"
    BY <1>2 DEF SendInitiateCluster, SendDue, Due
  <2>3. PICK w, d :
          Simulate(n, {e}, <<After(w, "FormCluster"), After(d, "SendIncident")>>)
    BY <2>1 DEF StartElection
  <2>4. /\ \A f \in pending[n] : f.type \notin {"Send"} => f \in pending'[n]
        /\ Waits(n, {"FormCluster", "Send"})'
    <3>1. \A f \in {e} : f.type \in {"Send"}
      BY <2>2
    <3> QED
      BY <2>3, <3>1, QueueAfterTwo DEF Waits
  <2>5. \A f \in pending'[n] :
          f \in pending[n] \/ f.type = "FormCluster" \/ f.type = "SendIncident"
    BY <2>3, SimulateTwo
  <2>6. Formed(n)' => Waits(n, {"UpdateNeighborList"})'
    BY <2>2, <2>4, <2>5 DEF Timed, Formed, Waits, Settled, Upkeep
  <2> QED
    BY <2>2, <2>4, <2>6 DEF Timed, Settled
<1>3. CASE SendFormCluster(n)
  <2>1. PICK e \in SendDue(n, "CLUSTER_FORMATION") :
          Simulate(n, {e}, <<After(0, "UpdateNeighbors"),
                             After(ListUpdateDelay, "UpdateNeighborList")>>)
    BY <1>3 DEF SendFormCluster
  <2>2. UNCHANGED m_status /\ m_status[n] = "CLUSTER_FORMATION"
    BY <1>3 DEF SendFormCluster, SendDue
  <2>3. \A f \in {e} : f.type \in {"Send"}
    BY DEF SendDue, Due
  <2>4. Waits(n, {"Send", "UpdateNeighbors"})' /\ Waits(n, {"UpdateNeighborList"})'
    BY <2>1, <2>3, QueueAfterTwo DEF Waits
  <2> QED
    BY <2>2, <2>4 DEF Timed, Settled
<1>4. CASE SendUpdate(n)
  <2>1. PICK e \in SendDue(n, "CLUSTER_UPDATE") :
          Simulate(n, {e}, <<After(Interval, "Send")>>)
    BY <1>4 DEF SendUpdate
  <2>2. UNCHANGED m_status /\ Settled(n)
    BY <1>4 DEF SendUpdate, SendDue, Settled
  <2>3. \A f \in {e} : f.type \in {"Send"}
    BY DEF SendDue, Due
  <2>4. /\ \A f \in pending[n] : f.type \notin {"Send"} => f \in pending'[n]
        /\ Waits(n, {"Send"})'
    BY <2>1, <2>3, QueueAfterOne DEF Waits
  <2>5. Waits(n, {"UpdateNeighborList"})'
    BY <2>2, <2>4 DEF Timed, Formed, Waits
  <2> QED
    BY <2>2, <2>4, <2>5 DEF Timed, Settled
<1> QED
  BY <1>1, <1>2, <1>3, <1>4 DEF Send

LEMMA TimerKeepsTimed ==
  ASSUME TypeOK, NEW n \in Node, VehicleInv(n), EventIds(n), Timed(n), Timer(n)
  PROVE  Timed(n)'
<1>1. CASE InitiateCluster(n)
  <2>1. PICK e \in Due(n, "InitiateCluster") :
          \/ /\ Simulate(n, {e}, <<After(Slot * MaxUes, "Send")>>)
             /\ m_status' = [m_status EXCEPT ![n] = "CLUSTER_HEAD_ELECTION"]
          \/ Simulate(n, {e}, <<>>) /\ UNCHANGED m_status
    BY <1>1 DEF InitiateCluster
  <2>2. UNCHANGED m_socket /\ \A f \in {e} : f.type \in {"InitiateCluster"}
    BY <1>1 DEF InitiateCluster, Due
  <2>3. CASE /\ Simulate(n, {e}, <<After(Slot * MaxUes, "Send")>>)
             /\ m_status' = [m_status EXCEPT ![n] = "CLUSTER_HEAD_ELECTION"]
    <3>1. /\ \A f \in pending[n] : f.type \notin {"InitiateCluster"} => f \in pending'[n]
          /\ Waits(n, {"FormCluster", "Send"})'
      BY <2>2, <2>3, QueueAfterOne DEF Waits
    <3>2. \A f \in pending'[n] : f \in pending[n] \/ f.type = "Send"
      BY <2>3, SimulateOne
    <3>3. m_status'[n] = "CLUSTER_HEAD_ELECTION"
      BY <2>3 DEF TypeOK
    <3>4. Formed(n)' => Waits(n, {"UpdateNeighborList"})'
      BY <3>1, <3>2, <3>3 DEF Timed, Formed, Waits, Settled, Upkeep
    <3> QED
      BY <3>1, <3>3, <3>4 DEF Timed, Settled
  <2>4. CASE Simulate(n, {e}, <<>>) /\ UNCHANGED m_status
    <3>1. \A f \in pending[n] : f.type \notin {"InitiateCluster"} => f \in pending'[n]
      BY <2>2, <2>4, QueueAfterNothing
    <3>2. pending'[n] \subseteq pending[n]
      BY <2>4, SimulateNothing
    <3> QED
      BY <2>2, <2>4, <3>1, <3>2 DEF Timed, Formed, Waits, Settled
  <2> QED
    BY <2>1, <2>3, <2>4
<1>2. CASE FormCluster(n)
  <2>1. PICK e \in Due(n, "FormCluster") : Simulate(n, {e}, <<After(0, "Send")>>)
    BY <1>2 DEF FormCluster
  <2>2. m_status'[n] = "CLUSTER_FORMATION"
    BY <1>2 DEF FormCluster, TypeOK
  <2>3. \A f \in {e} : f.type \in {"FormCluster"}
    BY DEF Due
  <2>4. /\ \A f \in pending[n] : f.type \notin {"FormCluster"} => f \in pending'[n]
        /\ Waits(n, {"Send", "UpdateNeighbors"})'
    BY <2>1, <2>3, QueueAfterOne DEF Waits
  <2>5. \A f \in pending'[n] : f \in pending[n] \/ f.type = "Send"
    BY <2>1, SimulateOne
  <2>6. Formed(n)' => Waits(n, {"UpdateNeighborList"})'
    BY <2>2, <2>4, <2>5 DEF Timed, Formed, Waits, Settled, Upkeep
  <2> QED
    BY <2>2, <2>4, <2>6 DEF Timed, Settled
<1>3. CASE UpdateNeighbors(n)
  <2>1. PICK e \in Due(n, "UpdateNeighbors") :
          Simulate(n, {e}, <<After(Interval, "Send")>>)
    BY <1>3 DEF UpdateNeighbors
  <2>2. m_status'[n] = "CLUSTER_UPDATE"
    BY <1>3 DEF UpdateNeighbors, TypeOK
  <2>3. \A f \in {e} : f.type \in {"UpdateNeighbors"}
    BY DEF Due
  <2>4. /\ \A f \in pending[n] : f.type \notin {"UpdateNeighbors"} => f \in pending'[n]
        /\ Waits(n, {"Send"})'
    BY <2>1, <2>3, QueueAfterOne DEF Waits
  <2>5. Formed(n)
    BY DEF Due, Formed, Waits, Upkeep
  <2>6. Waits(n, {"UpdateNeighborList"})'
    BY <2>4, <2>5 DEF Timed, Waits
  <2> QED
    BY <2>2, <2>4, <2>6 DEF Timed, Settled
<1>4. CASE UpdateNeighborList(n)
  <2>1. PICK e \in Due(n, "UpdateNeighborList") :
          Simulate(n, {e}, <<After(Interval, "UpdateNeighborList")>>)
    BY <1>4 DEF UpdateNeighborList
  <2>2. UNCHANGED <<m_socket, m_status>>
    BY <1>4 DEF UpdateNeighborList
  <2>3. \A f \in {e} : f.type \in {"UpdateNeighborList"}
    BY DEF Due
  <2>4. /\ \A f \in pending[n] :
              f.type \notin {"UpdateNeighborList"} => f \in pending'[n]
        /\ Waits(n, {"UpdateNeighborList"})'
    BY <2>1, <2>3, QueueAfterOne DEF Waits
  <2> QED
    BY <2>2, <2>4 DEF Timed, Waits, Settled
<1>5. CASE SendIncident(n)
  <2>1. PICK e \in Due(n, "SendIncident") :
          Simulate(n, {e}, <<After(IncidentWindow, "SendIncident")>>)
    BY <1>5 DEF SendIncident
  <2>2. UNCHANGED <<m_socket, m_status>>
    BY <1>5 DEF SendIncident
  <2>3. \A f \in {e} : f.type \in {"SendIncident"}
    BY DEF Due
  <2>4. \A f \in pending[n] : f.type \notin {"SendIncident"} => f \in pending'[n]
    BY <2>1, <2>3, QueueAfterOne DEF Waits
  <2>5. \A f \in pending'[n] : f \in pending[n] \/ f.type = "SendIncident"
    BY <2>1, SimulateOne
  <2> QED
    BY <2>2, <2>4, <2>5 DEF Timed, Formed, Waits, Settled, Upkeep
<1> QED
  BY <1>1, <1>2, <1>3, <1>4, <1>5 DEF Timer

LEMMA HandleReadKeepsTimed ==
  ASSUME TypeOK, NEW n \in Node, VehicleInv(n), EventIds(n), Timed(n),
         HandleRead(n)
  PROVE  Timed(n)'
<1>1. CASE HandleClusterInfo(n) \/ HandleIncidentEvent(n)
  BY <1>1
  DEF HandleClusterInfo, HandleIncidentEvent, events, Timed, Formed, Waits, Settled
<1>2. CASE HandleInitiateCluster(n)
  <2>1. UNCHANGED m_socket
    BY <1>2 DEF HandleInitiateCluster
  <2>2. CASE /\ AcceptsRequest(n)
             /\ m_status' = [m_status EXCEPT ![n] = "CLUSTER_HEAD_ELECTION"]
             /\ StartElection(n, {})
    <3>1. PICK w, d :
            Simulate(n, {}, <<After(w, "FormCluster"), After(d, "SendIncident")>>)
      BY <2>2 DEF StartElection
    <3>2. Waits(n, {"FormCluster", "Send"})'
      BY <3>1, QueueAfterTwo DEF Waits
    <3>3. \A f \in pending'[n] :
            f \in pending[n] \/ f.type = "FormCluster" \/ f.type = "SendIncident"
      BY <3>1, SimulateTwo
    <3>4. m_status'[n] = "CLUSTER_HEAD_ELECTION"
      BY <2>2 DEF TypeOK
    <3>5. ~ Formed(n)
      BY <2>2 DEF AcceptsRequest, VehicleInv, Placed
    <3>6. ~ Formed(n)'
      BY <3>3, <3>4, <3>5 DEF Formed, Waits, Settled, Upkeep
    <3> QED
      BY <3>2, <3>4, <3>6 DEF Timed, Settled
  <2>3. CASE UNCHANGED <<m_status, events>>
    BY <2>1, <2>3 DEF events, Timed, Formed, Waits, Settled
  <2> QED
    BY <1>2, <2>2, <2>3 DEF HandleInitiateCluster
<1>3. CASE HandleFormCluster(n)
  <2>1. UNCHANGED m_socket
    BY <1>3 DEF HandleFormCluster
  <2>2. CASE /\ m_status' = [m_status EXCEPT ![n] = "CLUSTER_UPDATE"]
             /\ Simulate(n, CancelledByJoin(n),
                         <<After(TimeWindow[n], "Send"),
                           After(ListUpdateDelay, "UpdateNeighborList")>>)
    <3>1. \A f \in CancelledByJoin(n) : f.type \in {"FormCluster"}
      BY CancelledTypes
    <3>2. Waits(n, {"Send"})' /\ Waits(n, {"UpdateNeighborList"})'
      BY <2>2, <3>1, QueueAfterTwo DEF Waits
    <3>3. m_status'[n] = "CLUSTER_UPDATE"
      BY <2>2 DEF TypeOK
    <3> QED
      BY <3>2, <3>3 DEF Timed
  <2>3. CASE UNCHANGED <<m_status, events>>
    BY <2>1, <2>3 DEF events, Timed, Formed, Waits, Settled
  <2> QED
    BY <1>3, <2>2, <2>3 DEF HandleFormCluster
<1> QED
  BY <1>1, <1>2, <1>3 DEF HandleRead

\* A vehicle that has a place keeps one.
LEMMA FormedForGood ==
  ASSUME TypeOK, NEW n \in Node, VehicleInv(n), EventIds(n), Timed(n), Formed(n),
         Application(n) \/ Send(n) \/ Timer(n) \/ HandleRead(n)
  PROVE  Formed(n)'
<1>1. PICK u \in pending[n] : u.type = "UpdateNeighborList"
  BY DEF Timed, Waits
<1>2. SUFFICES Waits(n, {"UpdateNeighborList"})'
  BY DEF Formed, Waits, Upkeep
<1>3. SUFFICES ASSUME ~ UpdateNeighborList(n) PROVE u \in pending'[n]
  <2>1. CASE UpdateNeighborList(n)
    <3>1. PICK e \in Due(n, "UpdateNeighborList") :
            Simulate(n, {e}, <<After(Interval, "UpdateNeighborList")>>)
      BY <2>1 DEF UpdateNeighborList
    <3> QED
      BY <3>1, QueueAfterOne DEF Waits
  <2> QED
    BY <1>1, <2>1 DEF Waits
<1>4. \A done : u \notin done /\ Simulate(n, done, <<>>) => u \in pending'[n]
  BY QueueAfterNothing
<1>5. \A done, d, t : u \notin done /\ Simulate(n, done, <<After(d, t)>>)
          => u \in pending'[n]
  BY QueueAfterOne
<1>6. \A done, d, t, c, v :
          u \notin done /\ Simulate(n, done, <<After(d, t), After(c, v)>>)
          => u \in pending'[n]
  BY QueueAfterTwo
<1>7. \A done : u \notin done /\ StartElection(n, done) => u \in pending'[n]
  BY <1>6 DEF StartElection
<1>8. /\ \A t : t /= "UpdateNeighborList" => u \notin Due(n, t)
      /\ \A s : u \notin SendDue(n, s)
      /\ u \notin Cancelled(n) /\ u \notin CancelledByJoin(n)
  BY <1>1, CancelledTypes DEF Due, SendDue
<1>9. CASE Application(n)
  <2>1. CASE StartApplication(n)
    BY <1>5, <1>8, <2>1 DEF StartApplication
  <2>2. CASE StopApplication(n)
    <3>1. PICK e \in Due(n, "Stop") : Simulate(n, {e} \cup Cancelled(n), <<>>)
      BY <2>2 DEF StopApplication
    <3>2. u \notin {e} \cup Cancelled(n)
      BY <1>8
    <3> QED
      BY <1>4, <3>1, <3>2
  <2> QED
    BY <1>9, <2>1, <2>2 DEF Application
<1>10. CASE Send(n)
  <2>1. CASE SendInitiateCluster(n)
    BY <1>7, <1>8, <2>1 DEF SendInitiateCluster
  <2>2. CASE SendFormCluster(n)
    BY <1>6, <1>8, <2>2 DEF SendFormCluster
  <2>3. CASE SendClusterInfo(n)
    BY <1>5, <1>8, <2>3 DEF SendClusterInfo
  <2>4. CASE SendUpdate(n)
    BY <1>5, <1>8, <2>4 DEF SendUpdate
  <2> QED
    BY <1>10, <2>1, <2>2, <2>3, <2>4 DEF Send
<1>11. CASE Timer(n)
  <2>1. CASE InitiateCluster(n)
    BY <1>4, <1>5, <1>8, <2>1 DEF InitiateCluster
  <2>2. CASE FormCluster(n)
    BY <1>5, <1>8, <2>2 DEF FormCluster
  <2>3. CASE UpdateNeighbors(n)
    BY <1>5, <1>8, <2>3 DEF UpdateNeighbors
  <2>4. CASE SendIncident(n)
    BY <1>5, <1>8, <2>4 DEF SendIncident
  <2> QED
    BY <1>3, <1>11, <2>1, <2>2, <2>3, <2>4 DEF Timer
<1>12. CASE HandleRead(n)
  <2>1. CASE HandleClusterInfo(n) \/ HandleIncidentEvent(n)
    BY <1>1, <2>1 DEF HandleClusterInfo, HandleIncidentEvent, events
  <2>2. CASE HandleInitiateCluster(n)
    BY <1>1, <1>7, <2>2 DEF HandleInitiateCluster, events
  <2>3. CASE HandleFormCluster(n)
    BY <1>1, <1>6, <1>8, <2>3 DEF HandleFormCluster, events
  <2> QED
    BY <1>12, <2>1, <2>2, <2>3 DEF HandleRead
<1> QED
  BY <1>9, <1>10, <1>11, <1>12

\* What a handler schedules is neither a start nor a stop.
LEMMA SchedulesNoStart ==
  ASSUME TypeOK, NEW n \in Node,
         Application(n) \/ Send(n) \/ Timer(n) \/ HandleRead(n)
  PROVE  \A e \in pending'[n] : e.type \in {"Start", "Stop"} => e \in pending[n]
<1> DEFINE none == \A e \in pending'[n] :
                      e.type \in {"Start", "Stop"} => e \in pending[n]
<1>1. \A done : Simulate(n, done, <<>>) => none
  BY SimulateNothing
<1>2. \A done, d, t :
        t /= "Start" /\ t /= "Stop" /\ Simulate(n, done, <<After(d, t)>>) => none
  BY SimulateOne
<1>3. \A done, d, t, c, u :
        t /= "Start" /\ t /= "Stop" /\ u /= "Start" /\ u /= "Stop"
        /\ Simulate(n, done, <<After(d, t), After(c, u)>>) => none
  BY SimulateTwo
<1>4. \A done : StartElection(n, done) => none
  BY <1>3 DEF StartElection
<1> SUFFICES none
  OBVIOUS
<1> HIDE DEF none
<1>5. CASE Application(n)
  BY <1>1, <1>2, <1>5 DEF Application, StartApplication, StopApplication
<1>6. CASE Send(n)
  <2>1. CASE SendInitiateCluster(n)
    BY <1>4, <2>1 DEF SendInitiateCluster
  <2>2. CASE SendFormCluster(n)
    BY <1>3, <2>2 DEF SendFormCluster
  <2>3. CASE SendClusterInfo(n) \/ SendUpdate(n)
    BY <1>2, <2>3 DEF SendClusterInfo, SendUpdate
  <2> QED
    BY <1>6, <2>1, <2>2, <2>3 DEF Send
<1>7. CASE Timer(n)
  BY <1>1, <1>2, <1>7
  DEF Timer, InitiateCluster, FormCluster, UpdateNeighbors, UpdateNeighborList,
      SendIncident
<1>8. CASE HandleRead(n)
  <2>0. UNCHANGED events => none
    BY DEF events, none
  <2>1. CASE HandleClusterInfo(n) \/ HandleIncidentEvent(n)
    BY <2>0, <2>1 DEF HandleClusterInfo, HandleIncidentEvent
  <2>2. CASE HandleInitiateCluster(n)
    BY <1>4, <2>0, <2>2 DEF HandleInitiateCluster
  <2>3. CASE HandleFormCluster(n)
    BY <1>3, <2>0, <2>3 DEF HandleFormCluster
  <2> QED
    BY <1>8, <2>1, <2>2, <2>3 DEF HandleRead
<1> QED
  BY <1>5, <1>6, <1>7, <1>8

-----------------------------------------------------------------------------
\* No vehicle touches the event ids of another one.
Idle(m) ==
    /\ nextUid'[m] = nextUid[m]
    /\ m_sendEvent'[m] = m_sendEvent[m]
    /\ m_chElectionEvent'[m] = m_chElectionEvent[m]
    /\ m_sendIncidentEvent'[m] = m_sendIncidentEvent[m]

LEMMA OthersIdle ==
  ASSUME TypeOK, NEW n \in Node, NEW m \in Node \ {n},
         Application(n) \/ Send(n) \/ Timer(n) \/ HandleRead(n)
  PROVE  Idle(m)
<1> USE DEF Idle
<1>0. \A done, plan : Simulate(n, done, plan) => nextUid'[m] = nextUid[m]
  BY DEF TypeOK, Simulate
<1>1. \A done : StartElection(n, done) =>
          /\ nextUid'[m] = nextUid[m]
          /\ m_chElectionEvent'[m] = m_chElectionEvent[m]
          /\ m_sendIncidentEvent'[m] = m_sendIncidentEvent[m]
  BY <1>0 DEF StartElection, TypeOK
<1>2. CASE Application(n)
  BY <1>0, <1>2 DEF Application, StartApplication, StopApplication, TypeOK, timers
<1>3. CASE Send(n)
  BY <1>0, <1>1, <1>3
  DEF Send, SendClusterInfo, SendInitiateCluster, SendFormCluster, SendUpdate,
      TypeOK, timers
<1>4. CASE Timer(n)
  BY <1>0, <1>4
  DEF Timer, InitiateCluster, FormCluster, UpdateNeighbors, UpdateNeighborList,
      SendIncident, TypeOK, timers
<1>5. CASE HandleRead(n)
  BY <1>0, <1>1, <1>5
  DEF HandleRead, HandleClusterInfo, HandleInitiateCluster, HandleFormCluster,
      HandleIncidentEvent, TypeOK, events, timers
<1> QED
  BY <1>2, <1>3, <1>4, <1>5

LEMMA IdleKeepsTimed ==
  ASSUME NEW m \in Node, Untouched(m), Idle(m), EventIds(m), Timed(m)
  PROVE  EventIds(m)' /\ Timed(m)'
<1>1. EventIds(m)'
  BY DEF Untouched, Idle, EventIds, Refers
<1>2. Timed(m)'
  BY DEF Untouched, Timed, Formed, Waits, Settled
<1> QED
  BY <1>1, <1>2

LEMMA TimedInit == Init => TimedInv
<1> SUFFICES ASSUME Init PROVE TimedInv
  OBVIOUS
<1>1. ASSUME NEW n \in Node PROVE EventIds(n) /\ Timed(n)
  <2>1. /\ pending[n] = {[uid |-> 1, type |-> "Start", due |-> StartTime[n]],
                         [uid |-> 2, type |-> "Stop", due |-> StopTime[n]]}
        /\ nextUid[n] = 3
        /\ m_sendEvent[n] = 0 /\ m_chElectionEvent[n] = 0
        /\ m_sendIncidentEvent[n] = 0
        /\ m_socket[n] = FALSE /\ m_status[n] = "CLUSTER_INITIALIZATION"
    BY DEF Init
  <2>2. EventIds(n)
    BY <2>1 DEF EventIds, Refers
  <2>3. Timed(n)
    BY <2>1 DEF Timed, Formed, Waits, Settled, Upkeep
  <2> QED
    BY <2>2, <2>3
<1> QED
  BY <1>1, MembershipInit DEF TimedInv

LEMMA TimedNext == TimedInv /\ [Next]_vars => TimedInv'
<1> SUFFICES ASSUME TimedInv, [Next]_vars PROVE TimedInv'
  OBVIOUS
<1>1. MembershipInv'
  BY MembershipNext DEF TimedInv
<1>2. TypeOK
  BY DEF TimedInv, MembershipInv
<1>3. CASE \E n \in Node : Application(n) \/ Send(n) \/ Timer(n) \/ HandleRead(n)
  <2>1. PICK n \in Node : Application(n) \/ Send(n) \/ Timer(n) \/ HandleRead(n)
    BY <1>3
  <2>2. EventIds(n)' /\ Timed(n)'
    BY <1>2, <2>1, StepKeepsIds, ApplicationKeepsTimed, SendKeepsTimed,
       TimerKeepsTimed, HandleReadKeepsTimed DEF TimedInv, MembershipInv
  <2>3. ASSUME NEW m \in Node \ {n} PROVE EventIds(m)' /\ Timed(m)'
    BY <1>2, <2>1, OthersUntouched, OthersIdle, IdleKeepsTimed DEF TimedInv
  <2> QED
    BY <1>1, <2>2, <2>3 DEF TimedInv
<1>4. CASE NoListener \/ Lose \/ Tick \/ UNCHANGED vars
  <2>1. UNCHANGED <<pending, nextUid, m_socket, m_status, m_currentMobility,
                    m_2rStableList, m_rStableList, m_clusterList,
                    m_socketIncident, m_sendEvent, m_chElectionEvent,
                    m_sendIncidentEvent>>
    BY <1>4 DEF NoListener, Lose, Tick, vars, events, lists, timers, incident
  <2>2. \A n \in Node : EventIds(n)' /\ Timed(n)'
    BY <2>1, IdleKeepsTimed DEF TimedInv, Untouched, Idle
  <2> QED
    BY <1>1, <2>2 DEF TimedInv
<1> QED
  BY <1>3, <1>4 DEF Next

\* The inductive invariant holds in every reachable state: event ids are
\* unique, the three EventIds of a vehicle refer to events of their own kind,
\* and a vehicle that has formed or joined a cluster purges its lists for good.
THEOREM TimersInvariant == Spec => []TimedInv
<1> QED
  BY TimedInit, TimedNext, PTL DEF Spec

\* No running vehicle that takes part in an election, forms a cluster or has
\* settled is left without the timer that takes it further, whatever it
\* cancelled for its new status and however often it was elected.
THEOREM NeverWithoutTimerHolds == Spec => []NeverWithoutTimer
<1>1. TimedInv => NeverWithoutTimer
  BY DEF TimedInv, Timed, Formed, NeverWithoutTimer
<1> QED
  BY <1>1, TimersInvariant, PTL

=============================================================================
