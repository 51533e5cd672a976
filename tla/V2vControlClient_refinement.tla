--------------------- MODULE V2vControlClient_refinement ---------------------
(***************************************************************************)
(* Proof that the application of the vehicles implements V2vMembership:    *)
(* whatever a handler does, it moves at most its own vehicle, and only as  *)
(* the abstract specification allows.                                      *)
(***************************************************************************)
EXTENDS V2vControlClient_timers

-----------------------------------------------------------------------------
(***************************************************************************)
(* A place is for good, and a start is no step of the abstract             *)
(* specification: before it a vehicle has not taken part in anything.      *)
(***************************************************************************)
Fresh(n) ==
    Waits(n, {"Start"}) =>
        /\ m_status[n] = "CLUSTER_INITIALIZATION"
        /\ \A e \in pending[n] : e.type \in {"Start", "Stop"}

PlacedInv == TimedInv /\ \A n \in Node : Fresh(n)

\* A vehicle that still has to start can only start or stop.
LEMMA StepKeepsFresh ==
  ASSUME TypeOK, NEW n \in Node, VehicleInv(n), Fresh(n),
         Application(n) \/ Send(n) \/ Timer(n) \/ HandleRead(n)
  PROVE  Fresh(n)'
<1> SUFFICES ASSUME Waits(n, {"Start"})'
             PROVE  /\ m_status'[n] = "CLUSTER_INITIALIZATION"
                    /\ \A e \in pending'[n] : e.type \in {"Start", "Stop"}
  BY DEF Fresh
<1>1. PICK s \in pending'[n] : s.type = "Start"
  BY DEF Waits
<1>2. s \in pending[n]
  BY <1>1, SchedulesNoStart
<1>3. /\ ~ m_socket[n]
      /\ m_status[n] = "CLUSTER_INITIALIZATION"
      /\ \A e \in pending[n] : e.type \in {"Start", "Stop"}
  BY <1>1, <1>2 DEF VehicleInv, StartsOnce, Fresh, Waits
<1>4. \A t \in {"InitiateCluster", "FormCluster", "UpdateNeighbors",
               "UpdateNeighborList", "SendIncident"} : Due(n, t) = {}
  BY <1>3 DEF Due
<1>5. CASE StartApplication(n)
  <2>1. PICK e \in Due(n, "Start") :
          Simulate(n, {e}, <<After(TimeWindow[n], "Send")>>)
    BY <1>5 DEF StartApplication
  <2>2. e \in pending[n] /\ e.type = "Start"
    BY DEF Due
  <2>3. e = s
    BY <1>1, <1>2, <2>2 DEF VehicleInv, StartsOnce
  <2>4. s \in pending[n] \ {e} \/ s.type = "Send"
    BY <1>1, <2>1, SimulateOne
  <2> QED
    BY <1>1, <2>3, <2>4
<1>6. CASE StopApplication(n)
  <2>1. PICK e \in Due(n, "Stop") : Simulate(n, {e} \cup Cancelled(n), <<>>)
    BY <1>6 DEF StopApplication
  <2>2. pending'[n] \subseteq pending[n] /\ UNCHANGED m_status
    BY <1>6, <2>1, SimulateNothing DEF StopApplication
  <2> QED
    BY <1>3, <2>2
<1>7. ~ Send(n)
  BY <1>3 DEF Send, SendClusterInfo, SendInitiateCluster, SendFormCluster,
              SendUpdate, SendDue
<1>8. ~ Timer(n)
  BY <1>4 DEF Timer, InitiateCluster, FormCluster, UpdateNeighbors,
              UpdateNeighborList, SendIncident
<1>9. ~ HandleRead(n)
  BY <1>3 DEF HandleRead, HandleClusterInfo, HandleInitiateCluster,
              HandleFormCluster, HandleIncidentEvent, Inbox
<1> QED
  BY <1>5, <1>6, <1>7, <1>8, <1>9 DEF Application

LEMMA PlacedInit == Init => PlacedInv
<1> SUFFICES ASSUME Init PROVE PlacedInv
  OBVIOUS
<1>1. \A n \in Node : Fresh(n)
  BY DEF Init, Fresh, Waits
<1> QED
  BY <1>1, TimedInit DEF PlacedInv

LEMMA PlacedNext == PlacedInv /\ [Next]_vars => PlacedInv'
<1> SUFFICES ASSUME PlacedInv, [Next]_vars PROVE PlacedInv'
  OBVIOUS
<1>1. TimedInv'
  BY TimedNext DEF PlacedInv
<1>2. TypeOK /\ \A n \in Node : VehicleInv(n) /\ Fresh(n)
  BY DEF PlacedInv, TimedInv, MembershipInv
<1>3. CASE \E n \in Node : Application(n) \/ Send(n) \/ Timer(n) \/ HandleRead(n)
  <2>1. PICK n \in Node : Application(n) \/ Send(n) \/ Timer(n) \/ HandleRead(n)
    BY <1>3
  <2>2. Fresh(n)'
    BY <1>2, <2>1, StepKeepsFresh
  <2>3. ASSUME NEW m \in Node \ {n} PROVE Fresh(m)'
    BY <1>2, <2>1, OthersUntouched DEF Untouched, Fresh, Waits
  <2> QED
    BY <1>1, <2>2, <2>3 DEF PlacedInv
<1>4. CASE NoListener \/ Lose \/ Tick \/ UNCHANGED vars
  <2>1. UNCHANGED <<pending, m_status>>
    BY <1>4 DEF NoListener, Lose, Tick, vars, events
  <2> QED
    BY <1>1, <1>2, <2>1 DEF PlacedInv, Fresh, Waits
<1> QED
  BY <1>3, <1>4 DEF Next

-----------------------------------------------------------------------------
(***************************************************************************)
(* The mapped state after the step of one vehicle.                         *)
(***************************************************************************)
LEMMA MappedPlace ==
  ASSUME NEW n \in Node, \A m \in Node \ {n} : Untouched(m),
         PlaceOf(n)' = PlaceOf(n)
  PROVE  [m \in Node |-> PlaceOf(m)]' = [m \in Node |-> PlaceOf(m)]
<1>1. \A m \in Node \ {n} : PlaceOf(m)' = PlaceOf(m)
  BY DEF Untouched, PlaceOf, Formed, Waits, Settled
<1> QED
  BY <1>1

LEMMA MappedStatus ==
  ASSUME NEW n \in Node, \A m \in Node \ {n} : Untouched(m),
         TakesPart(n)' = TakesPart(n)
  PROVE  [m \in Node |-> TakesPart(m)]' = [m \in Node |-> TakesPart(m)]
<1>1. \A m \in Node \ {n} : TakesPart(m)' = TakesPart(m)
  BY DEF Untouched, TakesPart
<1> QED
  BY <1>1

LEMMA MappedMove ==
  ASSUME NEW n \in Node, \A m \in Node \ {n} : Untouched(m),
         NEW where, PlaceOf(n)' = where, NEW really, TakesPart(n)' = really
  PROVE  Membership!Moves(n, where) /\ Membership!Elects(n, really)
<1>1. \A m \in Node \ {n} : PlaceOf(m)' = PlaceOf(m) /\ TakesPart(m)' = TakesPart(m)
  BY DEF Untouched, PlaceOf, TakesPart, Formed, Waits, Settled
<1> QED
  BY <1>1 DEF Membership!Moves, Membership!Elects

MappedStep ==
    [Membership!Next]_<<[n \in Node |-> PlaceOf(n)],
                        [n \in Node |-> TakesPart(n)]>>

\* A handler that schedules no upkeep and leaves status, degree and cluster
\* alone moves nobody.
LEMMA RoutineStutters ==
  ASSUME NEW n \in Node, \A m \in Node \ {n} : Untouched(m),
         Formed(n) <=> Formed(n)', TakesPart(n)' = TakesPart(n),
         Formed(n) => /\ m_currentMobility'[n].degree = m_currentMobility[n].degree
                      /\ m_currentMobility'[n].clusterId =
                            m_currentMobility[n].clusterId
  PROVE  MappedStep
<1>1. PlaceOf(n)' = PlaceOf(n)
  BY DEF PlaceOf, Formed, Waits, Settled, TakesPart
<1> QED
  BY <1>1, MappedPlace, MappedStatus DEF MappedStep

LEMMA ApplicationMapped ==
  ASSUME TypeOK, NEW n \in Node, VehicleInv(n), EventIds(n), Timed(n), Fresh(n),
         \A m \in Node \ {n} : Untouched(m), Application(n)
  PROVE  MappedStep
<1>0. Formed(n) => Formed(n)'
  BY FormedForGood
<1>1. CASE StartApplication(n)
  <2>1. PICK e \in Due(n, "Start") :
          Simulate(n, {e}, <<After(TimeWindow[n], "Send")>>)
    BY <1>1 DEF StartApplication
  <2>2. ~ Formed(n) /\ m_status[n] = "CLUSTER_INITIALIZATION"
    BY DEF Due, VehicleInv, StartsOnce, Fresh, Waits
  <2>3. m_status'[n] = "CLUSTER_INITIALIZATION"
    BY <1>1 DEF StartApplication, TypeOK
  <2>4. \A f \in pending'[n] : f \in pending[n] \/ f.type = "Send"
    BY <2>1, SimulateOne
  <2>5. ~ Formed(n)'
    BY <2>2, <2>3, <2>4 DEF Formed, Waits, Settled, Upkeep
  <2> QED
    BY <2>2, <2>3, <2>5, RoutineStutters DEF TakesPart
<1>2. CASE StopApplication(n)
  <2>1. PICK e \in Due(n, "Stop") : Simulate(n, {e} \cup Cancelled(n), <<>>)
    BY <1>2 DEF StopApplication
  <2>2. pending'[n] \subseteq pending[n]
    BY <2>1, SimulateNothing
  <2>3. UNCHANGED <<m_status, m_currentMobility>>
    BY <1>2 DEF StopApplication
  <2>4. Formed(n)' => Formed(n)
    BY <2>2, <2>3 DEF Formed, Waits, Settled
  <2> QED
    BY <1>0, <2>3, <2>4, RoutineStutters DEF TakesPart
<1> QED
  BY <1>1, <1>2 DEF Application

LEMMA SendMapped ==
  ASSUME TypeOK, NEW n \in Node, VehicleInv(n), EventIds(n), Timed(n),
         \A m \in Node \ {n} : Untouched(m), Send(n)
  PROVE  MappedStep
<1>0. Formed(n) => Formed(n)'
  BY FormedForGood
<1>1. UNCHANGED m_status
  BY DEF Send, SendClusterInfo, SendInitiateCluster, SendFormCluster, SendUpdate
<1>2. m_currentMobility[n] \in NeighborInfo
  BY DEF TypeOK
<1>3. CASE SendClusterInfo(n)
  <2>1. PICK e \in SendDue(n, "CLUSTER_INITIALIZATION") :
          Simulate(n, {e}, <<After(Slot * MaxUes, "InitiateCluster")>>)
    BY <1>3 DEF SendClusterInfo
  <2>2. \A f \in pending'[n] : f \in pending[n] \/ f.type = "InitiateCluster"
    BY <2>1, SimulateOne
  <2>3. Formed(n)' => Formed(n)
    BY <1>1, <2>2 DEF Formed, Waits, Settled, Upkeep
  <2>4. UNCHANGED m_currentMobility
    BY <1>3 DEF SendClusterInfo
  <2> QED
    BY <1>0, <1>1, <2>3, <2>4, RoutineStutters DEF TakesPart
<1>4. CASE SendInitiateCluster(n)
  <2>1. PICK e, w, d :
          Simulate(n, {e}, <<After(w, "FormCluster"), After(d, "SendIncident")>>)
    BY <1>4 DEF SendInitiateCluster, StartElection
  <2>2. \A f \in pending'[n] :
          f \in pending[n] \/ f.type = "FormCluster" \/ f.type = "SendIncident"
    BY <2>1, SimulateTwo
  <2>3. Formed(n)' => Formed(n)
    BY <1>1, <2>2 DEF Formed, Waits, Settled, Upkeep
  <2>4. UNCHANGED m_currentMobility
    BY <1>4 DEF SendInitiateCluster
  <2> QED
    BY <1>0, <1>1, <2>3, <2>4, RoutineStutters DEF TakesPart
<1>5. CASE SendFormCluster(n)
  <2>1. PICK e \in SendDue(n, "CLUSTER_FORMATION") :
          Simulate(n, {e}, <<After(0, "UpdateNeighbors"),
                             After(ListUpdateDelay, "UpdateNeighborList")>>)
    BY <1>5 DEF SendFormCluster
  <2>2. TakesPart(n) /\ TakesPart(n)'
    BY <1>1, <1>5 DEF SendFormCluster, SendDue, TakesPart
  <2>3. Formed(n)'
    BY <2>1, QueueAfterTwo DEF Formed, Waits, Upkeep
  <2>4. m_currentMobility'[n] = AsHead(n, AcquireMobilityInfo(n))
    BY <1>5 DEF SendFormCluster, TypeOK
  <2>5. AcquireMobilityInfo(n) \in NeighborInfo
    BY MobilityType, NodeAssumption DEF TypeOK
  <2>6. m_currentMobility'[n].degree = "CH" /\ m_currentMobility'[n].clusterId = n
    BY <2>4, <2>5 DEF AsHead, NeighborInfo
  <2>7. PlaceOf(n)' = n
    BY <2>3, <2>6 DEF PlaceOf, Formed, Waits, Settled
  <2>8. Membership!Moves(n, n)
    BY <2>7, MappedMove
  <2>9. TakesPart(n)' = TakesPart(n)
    BY <2>2 DEF TakesPart
  <2>10. [m \in Node |-> TakesPart(m)]' = [m \in Node |-> TakesPart(m)]
    BY <2>9, MappedStatus
  <2>11. Membership!Lead(n)
    BY <2>2, <2>8, <2>10 DEF Membership!Lead
  <2> QED
    BY <2>11 DEF MappedStep, Membership!Next
<1>6. CASE SendUpdate(n)
  <2>1. PICK e \in SendDue(n, "CLUSTER_UPDATE") :
          Simulate(n, {e}, <<After(Interval, "Send")>>)
    BY <1>6 DEF SendUpdate
  <2>2. Settled(n) /\ Settled(n)'
    BY <1>1, <1>6 DEF SendUpdate, SendDue, Settled
  <2>3. m_currentMobility'[n] = AcquireMobilityInfo(n)
    BY <1>6 DEF SendUpdate, TypeOK
  <2>4. /\ m_currentMobility'[n].degree = m_currentMobility[n].degree
        /\ m_currentMobility'[n].clusterId = m_currentMobility[n].clusterId
    BY <1>2, <2>3 DEF AcquireMobilityInfo, NeighborInfo
  <2> QED
    BY <1>1, <2>2, <2>4, RoutineStutters DEF TakesPart, Formed
<1> QED
  BY <1>3, <1>4, <1>5, <1>6 DEF Send

\* The place of a vehicle that has formed, by its degree.
LEMMA PlaceByDegree ==
  ASSUME TypeOK, NEW n \in Node, VehicleInv(n), Formed(n)
  PROVE  LET degree == m_currentMobility[n].degree
         IN  \/ degree = "CH" /\ PlaceOf(n) = n
             \/ /\ degree = "CM"
                /\ PlaceOf(n) = m_currentMobility[n].clusterId
                /\ PlaceOf(n) \in Node \ {n}
             \/ degree = "STANDALONE" /\ PlaceOf(n) = -2
<1>1. m_currentMobility[n].degree \in NodeDegree
  BY DEF TypeOK, NeighborInfo
<1>2. Sound(n)
  BY DEF VehicleInv, Placed
<1>3. Keys(m_2rStableList[n]) \subseteq Node \ {n}
  BY DEF VehicleInv, Nested, Keys
<1>4. PlaceOf(n) = IF m_currentMobility[n].degree = "STANDALONE" THEN -2
                   ELSE m_currentMobility[n].clusterId
  BY DEF PlaceOf
<1> QED
  BY <1>1, <1>2, <1>3, <1>4 DEF Sound, NodeDegree

\* The same after a step.
LEMMA PlaceAfter ==
  ASSUME NEW n \in Node, VehicleInv(n)', Formed(n)'
  PROVE  /\ m_currentMobility'[n].degree = "CH" => PlaceOf(n)' = n
         /\ m_currentMobility'[n].degree = "CM" =>
               PlaceOf(n)' = m_currentMobility'[n].clusterId
         /\ m_currentMobility'[n].degree = "STANDALONE" => PlaceOf(n)' = -2
<1>1. m_currentMobility'[n].degree = "CH" => m_currentMobility'[n].clusterId = n
  BY DEF VehicleInv, Placed, Sound
<1>2. PlaceOf(n)' = IF m_currentMobility'[n].degree = "STANDALONE" THEN -2
                    ELSE m_currentMobility'[n].clusterId
  BY DEF PlaceOf, Formed, Waits, Settled
<1> QED
  BY <1>1, <1>2

\* The place before a step that leaves the mobility of a vehicle alone.
LEMMA PlaceStays ==
  ASSUME NEW n \in Node, Formed(n) <=> Formed(n)',
         Formed(n) => m_currentMobility'[n] = m_currentMobility[n]
  PROVE  PlaceOf(n)' = PlaceOf(n)
  BY DEF PlaceOf, Formed, Waits, Settled

LEMMA EntersOrStays ==
  ASSUME NEW n \in Node, \A m \in Node \ {n} : Untouched(m),
         Formed(n) <=> Formed(n)', TakesPart(n)',
         Formed(n) => m_currentMobility'[n] = m_currentMobility[n]
  PROVE  MappedStep
<1>1. TakesPart(n) \in BOOLEAN /\ TakesPart(n)' = TRUE
  BY DEF TakesPart
<1>2. [m \in Node |-> PlaceOf(m)]' = [m \in Node |-> PlaceOf(m)]
  BY PlaceStays, MappedPlace
<1>3. CASE TakesPart(n)
  <2>1. TakesPart(n)' = TakesPart(n)
    BY <1>1, <1>3
  <2> QED
    BY <1>2, <2>1, MappedStatus DEF MappedStep
<1>4. CASE ~ TakesPart(n)
  <2>1. Membership!Elects(n, TRUE)
    BY <1>1, MappedMove
  <2>2. Membership!EnterElection(n)
    BY <1>2, <1>4, <2>1 DEF Membership!EnterElection
  <2> QED
    BY <2>2 DEF MappedStep, Membership!Next
<1> QED
  BY <1>3, <1>4

LEMMA UpdateNeighborListMapped ==
  ASSUME TypeOK, NEW n \in Node, VehicleInv(n), VehicleInv(n)',
         Formed(n)', \A m \in Node \ {n} : Untouched(m), UpdateNeighborList(n)
  PROVE  MappedStep
<1> DEFINE own == m_currentMobility[n]
           stale == Stale(own, m_2rStableList[n])
           listR == m_rStableList[n]
<1>1. m_currentMobility'[n] = MobilityAfterUpdate(own, stale, listR)
      /\ UNCHANGED m_status
  BY DEF UpdateNeighborList, TypeOK
<1>2. Formed(n)
  BY DEF UpdateNeighborList, Due, Formed, Waits, Upkeep
<1>3. own \in NeighborInfo /\ own.imsi = n
  BY DEF TypeOK, VehicleInv, Identity
<1>4. stale \subseteq Keys(m_2rStableList[n])
  BY DEF Stale
<1>5. [m \in Node |-> TakesPart(m)]' = [m \in Node |-> TakesPart(m)]
  <2>1. TakesPart(n)' = TakesPart(n)
    BY <1>1 DEF TakesPart
  <2> QED
    BY <2>1, MappedStatus
<1>6. n \notin Keys(m_2rStableList[n])
  BY DEF VehicleInv, Nested
<1> HIDE DEF stale, listR
<1>7. CASE BecomesHead(own, stale, listR)
  <2>1. m_currentMobility'[n].degree = "CH"
    BY <1>1, <1>3, <1>7 DEF MobilityAfterUpdate, NeighborInfo
  <2>2. PlaceOf(n)' = n
    BY <2>1, PlaceAfter
  <2>3. CASE PlaceOf(n) = n
    <3>1. PlaceOf(n)' = PlaceOf(n)
      BY <2>2, <2>3
    <3> QED
      BY <1>5, <3>1, MappedPlace DEF MappedStep
  <2>4. CASE PlaceOf(n) \in Node \ {n} \/ PlaceOf(n) = -2
    <3>1. Membership!Moves(n, n)
      BY <2>2, MappedMove
    <3>2. Membership!TakeLead(n)
      BY <1>5, <2>4, <3>1
      DEF Membership!TakeLead, Membership!IsMember, Membership!Alone
    <3> QED
      BY <3>2 DEF MappedStep, Membership!Next
  <2> QED
    BY <1>2, <2>3, <2>4, PlaceByDegree
<1>8. CASE ~ BecomesHead(own, stale, listR) /\ LostHead(own, stale)
  <2>1. m_currentMobility'[n].degree = "STANDALONE"
    BY <1>1, <1>3, <1>8 DEF MobilityAfterUpdate, NeighborInfo
  <2>2. PlaceOf(n)' = -2
    BY <2>1, PlaceAfter
  <2>3. own.clusterId /= n
    BY <1>4, <1>6, <1>8 DEF LostHead
  <2>4. own.degree /= "CH"
    BY <1>2, <2>3 DEF VehicleInv, Placed, Sound
  <2>5. CASE PlaceOf(n) = -2
    <3>1. PlaceOf(n)' = PlaceOf(n)
      BY <2>2, <2>5
    <3> QED
      BY <1>5, <3>1, MappedPlace DEF MappedStep
  <2>6. CASE PlaceOf(n) \in Node \ {n}
    <3>1. Membership!Moves(n, -2)
      BY <2>2, MappedMove
    <3>2. Membership!LoseHead(n)
      BY <1>5, <2>6, <3>1
      DEF Membership!LoseHead, Membership!IsMember, Membership!Alone
    <3> QED
      BY <3>2 DEF MappedStep, Membership!Next
  <2> QED
    BY <1>2, <2>4, <2>5, <2>6, PlaceByDegree
<1>9. CASE ~ BecomesHead(own, stale, listR) /\ ~ LostHead(own, stale)
  <2>1. m_currentMobility'[n] = m_currentMobility[n]
    BY <1>1, <1>9 DEF MobilityAfterUpdate
  <2>2. PlaceOf(n)' = PlaceOf(n)
    BY <1>2, <2>1, PlaceStays
  <2> QED
    BY <1>5, <2>2, MappedPlace DEF MappedStep
<1> QED
  BY <1>7, <1>8, <1>9

LEMMA TimerMapped ==
  ASSUME TypeOK, NEW n \in Node, VehicleInv(n), VehicleInv(n)', EventIds(n),
         Timed(n), \A m \in Node \ {n} : Untouched(m), Timer(n)
  PROVE  MappedStep
<1>0. Formed(n) => Formed(n)'
  BY FormedForGood
<1>1. CASE InitiateCluster(n)
  <2>1. PICK e \in Due(n, "InitiateCluster") :
          \/ /\ Simulate(n, {e}, <<After(Slot * MaxUes, "Send")>>)
             /\ m_status' = [m_status EXCEPT ![n] = "CLUSTER_HEAD_ELECTION"]
          \/ Simulate(n, {e}, <<>>) /\ UNCHANGED m_status
    BY <1>1 DEF InitiateCluster
  <2>2. UNCHANGED m_currentMobility
    BY <1>1 DEF InitiateCluster
  <2>3. CASE /\ Simulate(n, {e}, <<After(Slot * MaxUes, "Send")>>)
             /\ m_status' = [m_status EXCEPT ![n] = "CLUSTER_HEAD_ELECTION"]
    <3>1. \A f \in pending'[n] : f \in pending[n] \/ f.type = "Send"
      BY <2>3, SimulateOne
    <3>2. m_status'[n] = "CLUSTER_HEAD_ELECTION"
      BY <2>3 DEF TypeOK
    <3>3. Formed(n)' => Formed(n)
      BY <3>1, <3>2 DEF Formed, Waits, Settled, Upkeep
    <3> QED
      BY <1>0, <2>2, <3>2, <3>3, EntersOrStays DEF TakesPart
  <2>4. CASE Simulate(n, {e}, <<>>) /\ UNCHANGED m_status
    <3>1. pending'[n] \subseteq pending[n]
      BY <2>4, SimulateNothing
    <3>2. Formed(n)' => Formed(n)
      BY <2>4, <3>1 DEF Formed, Waits, Settled
    <3> QED
      BY <1>0, <2>2, <2>4, <3>2, RoutineStutters DEF TakesPart
  <2> QED
    BY <2>1, <2>3, <2>4
<1>2. CASE FormCluster(n)
  <2>1. PICK e \in Due(n, "FormCluster") : Simulate(n, {e}, <<After(0, "Send")>>)
    BY <1>2 DEF FormCluster
  <2>2. \A f \in pending'[n] : f \in pending[n] \/ f.type = "Send"
    BY <2>1, SimulateOne
  <2>3. m_status'[n] = "CLUSTER_FORMATION" /\ UNCHANGED m_currentMobility
    BY <1>2 DEF FormCluster, TypeOK
  <2>4. Formed(n)' => Formed(n)
    BY <2>2, <2>3 DEF Formed, Waits, Settled, Upkeep
  <2> QED
    BY <1>0, <2>3, <2>4, EntersOrStays DEF TakesPart
<1>3. CASE UpdateNeighbors(n)
  <2>1. m_status'[n] = "CLUSTER_UPDATE" /\ UNCHANGED m_currentMobility
    BY <1>3 DEF UpdateNeighbors, TypeOK
  <2>2. Formed(n) /\ Formed(n)'
    BY <1>3, <2>1 DEF UpdateNeighbors, Due, Formed, Waits, Settled, Upkeep
  <2>3. [m \in Node |-> PlaceOf(m)]' = [m \in Node |-> PlaceOf(m)]
    <3>1. PlaceOf(n)' = PlaceOf(n)
      BY <2>1, <2>2, PlaceStays
    <3> QED
      BY <3>1, MappedPlace
  <2>4. TakesPart(n)' = FALSE /\ TakesPart(n) \in BOOLEAN
    BY <2>1 DEF TakesPart
  <2>5. CASE TakesPart(n)
    <3>1. Membership!Elects(n, FALSE)
      BY <2>4, MappedMove
    <3>2. PlaceOf(n) /= -1
      <4>1. n \in Nat /\ Node \subseteq Nat
        BY NodeAssumption
      <4> QED
        BY <2>2, <4>1, PlaceByDegree
    <3>3. Membership!Settle(n)
      BY <2>3, <2>5, <3>1, <3>2 DEF Membership!Settle, Membership!NoPlace
    <3> QED
      BY <3>3 DEF MappedStep, Membership!Next
  <2>6. CASE ~ TakesPart(n)
    <3>1. TakesPart(n)' = TakesPart(n)
      BY <2>4, <2>6
    <3> QED
      BY <2>3, <3>1, MappedStatus DEF MappedStep
  <2> QED
    BY <2>5, <2>6
<1>4. CASE UpdateNeighborList(n)
  <2>1. Formed(n)
    BY <1>4 DEF UpdateNeighborList, Due, Formed, Waits, Upkeep
  <2> QED
    BY <1>0, <1>4, <2>1, UpdateNeighborListMapped
<1>5. CASE SendIncident(n)
  <2>1. PICK e \in Due(n, "SendIncident") :
          Simulate(n, {e}, <<After(IncidentWindow, "SendIncident")>>)
    BY <1>5 DEF SendIncident
  <2>2. UNCHANGED <<m_status, m_currentMobility>>
    BY <1>5 DEF SendIncident
  <2>3. \A f \in pending'[n] : f \in pending[n] \/ f.type = "SendIncident"
    BY <2>1, SimulateOne
  <2>4. Formed(n)' => Formed(n)
    BY <2>2, <2>3 DEF Formed, Waits, Settled, Upkeep
  <2> QED
    BY <1>0, <2>2, <2>4, RoutineStutters DEF TakesPart
<1> QED
  BY <1>1, <1>2, <1>3, <1>4, <1>5 DEF Timer

LEMMA HandleClusterInfoMapped ==
  ASSUME TypeOK, NEW n \in Node, VehicleInv(n), VehicleInv(n)',
         \A m \in Node \ {n} : Untouched(m), HandleClusterInfo(n)
  PROVE  MappedStep
<1>1. PICK p \in Inbox(n, "ClusterInfo") :
        /\ m_rStableList' =
              [m_rStableList EXCEPT ![n] = StableAfter(n, p.msg.info)]
        /\ React(n, p.msg.info, p.from)
        /\ UNCHANGED <<pending, m_status>>
  BY DEF HandleClusterInfo, events
<1> DEFINE other == p.msg.info
           potential == MergeCheck(m_currentMobility[n], StableAfter(n, other))
<1>2. React(n, other, p.from)
  BY <1>1
<1>3. m_rStableList'[n] = StableAfter(n, other)
  BY <1>1 DEF TypeOK
<1>4. m_currentMobility[n] \in NeighborInfo
  BY DEF TypeOK
<1>5. Formed(n)' <=> Formed(n)
  BY <1>1 DEF Formed, Waits, Settled
<1>6. TakesPart(n)' = TakesPart(n)
  BY <1>1 DEF TakesPart
<1>7. [m \in Node |-> TakesPart(m)]' = [m \in Node |-> TakesPart(m)]
  BY <1>6, MappedStatus
<1> HIDE DEF other
<1>8. CASE /\ Attaches(n, other, potential)
           /\ m_currentMobility' =
                 [m_currentMobility EXCEPT ![n] = AsMember(@, potential)]
  <2> HIDE DEF potential
  <2>1. Formed(n) /\ Formed(n)' /\ ~ TakesPart(n)
    BY <1>5, <1>8 DEF Attaches, Formed, Settled, TakesPart
  <2>2. m_currentMobility'[n] = AsMember(m_currentMobility[n], potential)
    BY <1>8 DEF TypeOK
  <2>3. PlaceOf(n)' = potential
    BY <1>4, <2>1, <2>2, PlaceAfter DEF AsMember, NeighborInfo
  <2>4. potential \in Node \ {n}
    <3>1. potential \in Keys(m_rStableList'[n])
      BY <1>3, <1>8 DEF Attaches
    <3> QED
      BY <3>1 DEF VehicleInv, Nested, Keys
  <2>5. Membership!Moves(n, potential)
    BY <2>3, MappedMove
  <2>6. CASE m_currentMobility[n].degree = "STANDALONE"
    <3>1. PlaceOf(n) = -2
      BY <2>1, <2>6, PlaceByDegree
    <3>2. Membership!Attach(n)
      BY <1>7, <2>1, <2>4, <2>5, <3>1 DEF Membership!Attach, Membership!Alone
    <3> QED
      BY <3>2 DEF MappedStep, Membership!Next
  <2>7. CASE MayMerge(n, other) /\ n < potential
    <3>1. PlaceOf(n) = n
      BY <2>1, <2>7, PlaceByDegree DEF MayMerge
    <3>2. Membership!Merge(n)
      BY <1>7, <2>1, <2>4, <2>5, <2>7, <3>1 DEF Membership!Merge
    <3> QED
      BY <3>2 DEF MappedStep, Membership!Next
  <2> QED
    BY <1>8, <2>6, <2>7 DEF Attaches
<1>9. CASE /\ Leads(n, other, potential)
           /\ m_currentMobility' = [m_currentMobility EXCEPT ![n] = AsHead(n, @)]
  <2> HIDE DEF potential
  <2>1. Formed(n) /\ Formed(n)'
    BY <1>5, <1>9 DEF Leads, Formed, Settled
  <2>2. m_currentMobility'[n] = AsHead(n, m_currentMobility[n])
    BY <1>9 DEF TypeOK
  <2>3. m_currentMobility'[n].degree = "CH"
    BY <1>4, <2>2 DEF AsHead, NeighborInfo
  <2>4. PlaceOf(n)' = n
    BY <2>1, <2>3, PlaceAfter
  <2>5. PlaceOf(n) = -2
    BY <1>9, <2>1, PlaceByDegree DEF Leads
  <2>6. Membership!Moves(n, n)
    BY <2>4, MappedMove
  <2>7. Membership!TakeLead(n)
    BY <1>7, <2>5, <2>6 DEF Membership!TakeLead, Membership!Alone
  <2> QED
    BY <2>7 DEF MappedStep, Membership!Next
<1>10. CASE UNCHANGED m_currentMobility
  BY <1>5, <1>6, <1>10, RoutineStutters
<1> QED
  BY <1>2, <1>8, <1>9, <1>10 DEF React

LEMMA HandleReadMapped ==
  ASSUME TypeOK, NEW n \in Node, VehicleInv(n), VehicleInv(n)', EventIds(n),
         Timed(n), \A m \in Node \ {n} : Untouched(m), HandleRead(n)
  PROVE  MappedStep
<1>0. Formed(n) => Formed(n)'
  BY FormedForGood
<1>1. CASE HandleClusterInfo(n)
  BY <1>1, HandleClusterInfoMapped
<1>2. CASE HandleInitiateCluster(n)
  <2>1. CASE /\ AcceptsRequest(n)
             /\ m_status' = [m_status EXCEPT ![n] = "CLUSTER_HEAD_ELECTION"]
             /\ StartElection(n, {})
    <3>1. PICK w, d :
            Simulate(n, {}, <<After(w, "FormCluster"), After(d, "SendIncident")>>)
      BY <2>1 DEF StartElection
    <3>2. \A f \in pending'[n] :
            f \in pending[n] \/ f.type = "FormCluster" \/ f.type = "SendIncident"
      BY <3>1, SimulateTwo
    <3>3. m_status'[n] = "CLUSTER_HEAD_ELECTION"
      BY <2>1 DEF TypeOK
    <3>4. ~ Formed(n)
      BY <2>1 DEF AcceptsRequest, VehicleInv, Placed
    <3>5. ~ Formed(n)'
      BY <3>2, <3>3, <3>4 DEF Formed, Waits, Settled, Upkeep
    <3> QED
      BY <3>3, <3>4, <3>5, EntersOrStays DEF TakesPart
  <2>2. CASE AcceptsRequest(n) /\ UNCHANGED <<m_status, events>>
    <3>1. ~ Formed(n)
      BY <2>2 DEF AcceptsRequest, VehicleInv, Placed
    <3>2. ~ Formed(n)'
      BY <2>2, <3>1 DEF events, Formed, Waits, Settled
    <3> QED
      BY <2>2, <3>1, <3>2, RoutineStutters DEF TakesPart
  <2>3. CASE UNCHANGED <<m_status, m_currentMobility, events>>
    <3>1. Formed(n)' <=> Formed(n)
      BY <2>3 DEF events, Formed, Waits, Settled
    <3> QED
      BY <2>3, <3>1, RoutineStutters DEF TakesPart
  <2> QED
    BY <1>2, <2>1, <2>2, <2>3 DEF HandleInitiateCluster
<1>3. CASE HandleFormCluster(n)
  <2>1. PICK p \in Inbox(n, "FormCluster") :
          \/ /\ Joins(n, p.msg.info.clusterId)
             /\ m_status' = [m_status EXCEPT ![n] = "CLUSTER_UPDATE"]
             /\ m_currentMobility' = [m_currentMobility EXCEPT
                   ![n] = AsMember(@, p.msg.info.clusterId)]
          \/ UNCHANGED <<m_status, m_currentMobility, events>>
    BY <1>3 DEF HandleFormCluster
  <2>2. CASE /\ Joins(n, p.msg.info.clusterId)
             /\ m_status' = [m_status EXCEPT ![n] = "CLUSTER_UPDATE"]
             /\ m_currentMobility' = [m_currentMobility EXCEPT
                   ![n] = AsMember(@, p.msg.info.clusterId)]
    <3> DEFINE head == p.msg.info.clusterId
    <3>1. head \in Node \ {n}
      BY <2>2 DEF Joins, VehicleInv, Nested, Keys
    <3>2. m_currentMobility'[n] = AsMember(m_currentMobility[n], head)
          /\ m_status'[n] = "CLUSTER_UPDATE"
      BY <2>2 DEF TypeOK
    <3> HIDE DEF head
    <3>3. Formed(n)'
      BY <3>2 DEF Formed, Settled
    <3>4. m_currentMobility[n] \in NeighborInfo
      BY DEF TypeOK
    <3>5. PlaceOf(n)' = head
      BY <3>2, <3>3, <3>4, PlaceAfter DEF AsMember, NeighborInfo
    <3>6. TakesPart(n) /\ TakesPart(n)' = FALSE
      BY <2>2, <3>2 DEF Joins, TakesPart
    <3>7. Membership!Moves(n, head) /\ Membership!Elects(n, FALSE)
      BY <3>5, <3>6, MappedMove
    <3>8. Membership!Join(n)
      BY <3>1, <3>6, <3>7 DEF Membership!Join
    <3> QED
      BY <3>8 DEF MappedStep, Membership!Next
  <2>3. CASE UNCHANGED <<m_status, m_currentMobility, events>>
    <3>1. Formed(n)' <=> Formed(n)
      BY <2>3 DEF events, Formed, Waits, Settled
    <3> QED
      BY <2>3, <3>1, RoutineStutters DEF TakesPart
  <2> QED
    BY <2>1, <2>2, <2>3
<1>4. CASE HandleIncidentEvent(n)
  <2>1. UNCHANGED <<pending, m_status, m_currentMobility>>
    BY <1>4 DEF HandleIncidentEvent, events
  <2>2. Formed(n)' <=> Formed(n)
    BY <2>1 DEF Formed, Waits, Settled
  <2> QED
    BY <2>1, <2>2, RoutineStutters DEF TakesPart
<1> QED
  BY <1>1, <1>2, <1>3, <1>4 DEF HandleRead

LEMMA MappedInit == Init => Membership!Init
<1> SUFFICES ASSUME Init PROVE Membership!Init
  OBVIOUS
<1>1. ASSUME NEW n \in Node PROVE PlaceOf(n) = -1 /\ TakesPart(n) = FALSE
  <2>1. /\ pending[n] = {[uid |-> 1, type |-> "Start", due |-> StartTime[n]],
                         [uid |-> 2, type |-> "Stop", due |-> StopTime[n]]}
        /\ m_status[n] = "CLUSTER_INITIALIZATION"
    BY DEF Init
  <2>2. ~ Formed(n)
    BY <2>1 DEF Formed, Waits, Settled, Upkeep
  <2> QED
    BY <2>1, <2>2 DEF PlaceOf, TakesPart
<1> QED
  BY <1>1 DEF Membership!Init, Membership!NoPlace

LEMMA MappedNext == PlacedInv /\ PlacedInv' /\ [Next]_vars => MappedStep
<1> SUFFICES ASSUME PlacedInv, PlacedInv', [Next]_vars PROVE MappedStep
  OBVIOUS
<1>1. /\ TypeOK
      /\ \A n \in Node : VehicleInv(n) /\ VehicleInv(n)'
      /\ \A n \in Node : EventIds(n) /\ Timed(n) /\ Fresh(n)
  BY DEF PlacedInv, TimedInv, MembershipInv
<1>2. CASE \E n \in Node : Application(n) \/ Send(n) \/ Timer(n) \/ HandleRead(n)
  <2>1. PICK n \in Node : Application(n) \/ Send(n) \/ Timer(n) \/ HandleRead(n)
    BY <1>2
  <2>2. \A m \in Node \ {n} : Untouched(m)
    BY <1>1, <2>1, OthersUntouched
  <2> QED
    BY <1>1, <2>1, <2>2, ApplicationMapped, SendMapped, TimerMapped,
       HandleReadMapped
<1>3. CASE NoListener \/ Lose \/ Tick \/ UNCHANGED vars
  <2>1. UNCHANGED <<pending, m_status, m_currentMobility>>
    BY <1>3 DEF NoListener, Lose, Tick, vars, events
  <2>2. \A n \in Node : PlaceOf(n)' = PlaceOf(n) /\ TakesPart(n)' = TakesPart(n)
    BY <2>1 DEF PlaceOf, TakesPart, Formed, Waits, Settled
  <2> QED
    BY <2>2 DEF MappedStep
<1> QED
  BY <1>2, <1>3 DEF Next

\* Whatever is heard, lost or late, every step of the simulation moves at
\* most one vehicle, and as V2vMembership allows: into an election, to
\* another head, to its own cluster or out of all; two heads never merge into
\* each other, and no head just loses its cluster.
THEOREM MembershipImplemented == Spec => ImplementsMembership
<1> QED
  BY MappedInit, MappedNext, PlacedInit, PlacedNext, PTL
  DEF Spec, MappedStep, ImplementsMembership, Membership!Spec

=============================================================================
