# V2V clustering: specification and verification

This directory holds TLA+ modules for the vehicle clustering protocol of the
ns-3 module `v2v` and for the mobility model that comes with it, TLC
configurations that check them on a small road, and TLAPS proofs of what holds
on every road. Line numbers without a file refer to
`model/v2v-control-client.cc`.

## 1. Inventory of the system

| Component | Source | State | Operations |
|---|---|---|---|
| `V2vControlClient`, the application of a vehicle | `model/v2v-control-client.{h,cc}` | status, own `NeighborInfo`, three neighbour maps, three event ids, sockets, counters | start, stop; `Send` (by status); the timers `InitiateCluster`, `FormCluster`, `UpdateNeighbors`, `UpdateNeighborList`, `SendIncident`; `HandleRead` (by header) |
| Clustering decisions | the same file | none: they read the vehicle's own data and a list | `IsStable`, `IsSlowestNode`, `SuitabilityCheck`, `MergeCheck`, the walk of `UpdateNeighborList` |
| `V2vClusterSap` | `model/v2v-cluster-sap.h` | the records | none |
| `V2vClusterHeader` | `model/v2v-cluster-header.cc` | the fields of four headers | set, get, serialise |
| `V2vMobilityModel` | `model/v2v-mobility-model.{h,cc}` | position, velocity and time of the last look (`m_helper`), one event (`m_event`) | `DoInitialize`, `DoInitializePrivate` (a new walk), `Rebound`, `DoSetPosition`, `DoGetPosition` |
| `V2vControlClientHelper` | `helper/` | attribute values | creates applications |
| Example | `examples/v2v-clustering-example.cc` | none | a grid of vehicles, TDMA start times, 802.11p devices |
| Tests | `test/v2v-test-suite.cc` | none | test cases that run an empty simulation |

How they interact. A vehicle broadcasts on UDP; whoever is in range gets the
packet in `HandleRead`. Everything else is an event the vehicle schedules for
itself. A life goes as follows:

1. `StartApplication` schedules the first `Send`, after the vehicle's TDMA slot.
   It broadcasts a ClusterInfo and, one window of `m_maxUes` slots later,
   `InitiateCluster` asks whether the vehicle is the slowest of those nearby.
2. The slowest one broadcasts InitiateCluster, one more window later. It and all
   who hear it wait for the time `SuitabilityCheck` gives.
3. Whose time ends first (`FormCluster`) broadcasts a FormCluster and is head
   (`CH`); whoever hears it in time is a member (`CM`).
4. Settled vehicles (`CLUSTER_UPDATE`) broadcast a ClusterInfo every second, put
   each other on their lists, and remove silent neighbours each second. Heads
   without members merge with other heads, members that lose their head are
   `STANDALONE` until they find another one or become head.
5. From some time after the election on, each vehicle reports incidents: a head
   to everybody, a member over a socket to its head, which repeats them.

Beside this, the vehicle moves: it walks along x for a time or a distance, at a
speed drawn anew for each walk, and a walk that would leave the rectangle of the
bounds is thrown back at the border and goes on for what is left of it. The
client never calls the mobility model except to ask for position and velocity.

What is hard. The steps are driven by timers and packets that race: two waiting
times may end within one propagation delay; a FormCluster races with the
receiver's own election timer and with its own InitiateCluster; `InitiateCluster`
never looks at the status. Packets get lost. Vehicles stop. Decisions are taken
on lists that are as old as the last packet. Some values are read uninitialised:
`maxDistance` (1054), the degree and the cluster of the first ClusterInfo (863). The mobility
model has two ways to start a walk, and truncates the delays it schedules.
`PROJECT.json` lists each such hazard with its line and the properties aimed at
it. The test suite exercises none of this.

What makes the components correct:

- **control client**: timers and transmissions are tracked by their event ids;
  nobody waits without a timer; the status moves forward; elections end; every
  vehicle gets a place in a cluster, keeps a sound one and changes it only in
  the ways `V2vMembership` names; the lists agree with each other and with the
  time; no null socket is used; a vehicle that stops leaves little behind.
- **decisions**: at least one vehicle is slowest; a merge target is a head; the
  walk of `UpdateNeighborList` has one outcome whatever the order.
- **headers**: what is read is what was written.
- **mobility**: a vehicle stays within its bounds, has one chain of walks, and a
  walk that is thrown back ends when it was to end; speeds stay close enough for
  vehicles to be stable neighbours.

## 2. Modules

| Module | What it models |
|---|---|
| `V2vClusterSap` | the vocabulary: `NeighborInfo`, the maps from imsi to `NeighborInfo`, the headers |
| `V2vClusterMetrics` | the decisions, as operators of a vehicle's own data and a list |
| `V2vClusterLoops` | the loops of `MergeCheck`, `IsSlowestNode` and `UpdateNeighborList`, entry by entry, and that they compute the decisions of `V2vClusterMetrics` |
| `V2vControlClient` | the application of every vehicle, over an event queue and a channel, with its properties |
| `V2vMembership` | the abstract specification: how vehicles may move between clusters |
| `V2vMobilityModel` | walks, rebounds and resets over an event queue |
| `V2vControlClient_proofs` | proofs: types, lists and their entries, membership |
| `V2vControlClient_timers` | proofs: event ids and timers; extends the one before |
| `V2vControlClient_refinement` | proof that the client implements `V2vMembership`; extends `V2vControlClient_timers` |
| `V2vControlClient_tdma` | proofs of what the TDMA schedule buys: one duty at a time, one event at most that is forgotten; extends `V2vControlClient_timers` |
| `V2vControlClient_silence` | proofs: what is over before the next thing begins, and before a stop; how old the neighbours on a list get; extends `V2vControlClient_tdma` |
| `V2vControlClient_elections` | proofs of how an election comes out; extends `V2vControlClient_silence` |
| `V2vMobilityModel_proofs` | theorems about `V2vMobilityModel` |
| `V2vClusterLoops_proofs` | theorems about the decisions and the loops that compute them |
| `MCV2vControlClient`, `MCV2vClusterLoops`, `MCV2vMobilityModel` | the instances for TLC |

`V2vClusterMetrics` extends `V2vClusterSap`; `V2vControlClient` and
`V2vClusterLoops` extend `V2vClusterMetrics`; `V2vControlClient` instantiates
`V2vMembership` with the refinement mapping below. `V2vMobilityModel` stands alone:
the client is given arbitrary functions of time for position and velocity, which
cover every movement, and what it relies on (`SimilarSpeed`) is checked where the
movement is modelled.

### State

Each member of the class is a variable of its name, a function from vehicles.
Exceptions: `m_socket` stands for the broadcast and the listening socket, which
are created and closed together; `m_socketIncident` holds the vehicle the socket
is connected to, or `Null`; `m_clusterList` holds only the keys, as no code reads
the entries; `stats` holds the counters (`echoes` counts the additions to
`m_overalDelay`). An `EventId` is the `uid` of an event, 0 by default. `pending`,
`nextUid` and `now` are the ns-3 scheduler, `air` the channel.

Times are in milliseconds. A `NeighborInfo` has no position and no velocity: they
are functions of the vehicle and of the time stamp (`PosX`, `PosY`, `VelX`), so
the entry carries as much as in the code.

### Actions

One action per scheduled function, per branch of `Send` and per branch of
`HandleRead`, each from its first guard to its last assignment; the `map` of
`PROJECT.json` gives the lines. `Simulate` stands for the calls of
`Simulator::Schedule` and `Cancel` in a handler.

### What the protocol promises: `V2vMembership`

A vehicle has no place before its first cluster; then it is head, member of
another vehicle's cluster, or alone. Nothing but an election gives a first place;
a head never just loses its cluster, it merges, and only towards a larger id; a
vehicle comes to another head in an election, by a merge or out of being alone;
one vehicle moves at a time. `ImplementsMembership` maps `place[n]` to the cluster
of a vehicle that has ended an election (`Formed`), -1 before, -2 for
`STANDALONE`; `electing[n]` to the statuses `CLUSTER_HEAD_ELECTION` and
`CLUSTER_FORMATION`. Timers, lists, sockets and packets are all hidden, so the
packets and timers that race may only ever race to allowed moves.

### Mobility

Times are in milliseconds, speeds in cm/s (the code rounds the speed difference to
these), and lengths in units of 10 micrometres, so that a speed times a time is a
length. A delay is truncated to milliseconds, where ns-3 truncates it to
nanoseconds: the remainder is lost in the same place and the same direction.
`DoInitialize` and the event that `DoSetPosition` schedules before the simulation
starts are separate actions of either order, and `DoSetPosition` may come again in
the middle of a walk. `DoGetPosition` is a step, since it cuts the stored position
to the bounds. `Rebound` follows `GetClosestSide`: only the speed across the closest
side is turned. `ConstantVelocityHelper` and `Rectangle` are ns-3's; they are
modelled from how the file uses them. `m_direction` and `m_directionVariable` are
left out: every walk sets the direction to 1.0. (For the reader of the code: with
`MODE_DISTANCE` the length of a walk is divided by the speed before the speed
difference is added, so the distance is not kept exactly; the model does the same.)

### Abstractions

- Events of the same millisecond, and packets sent in it, happen in any order.
  ns-3 orders them by nanoseconds, and packets take microseconds. A TDMA slot is
  a millisecond. So the model has all orders the program has, and more.
- `SuitabilityCheck` gives any of `WaitingTimes` up to as many seconds as there
  are stable neighbours: the code's value is that number times the exponential
  of a non-positive real number computed from the lists. The special case of no
  stable neighbour (688) is exact.
- `maxDistance` before its first assignment is any of `IndeterminateDistance`,
  the degree and the cluster before the first election any of
  `IndeterminateDegree` and `IndeterminateClusterId`.
- `MergeCheck` compares quotients by cross multiplication. A head for which the
  code computes no time of its own (equal x, equal speed, a vehicle at rest)
  is compared by the time of the one before, which never exceeds the best: it
  is left out. `UpdateNeighborList` is given by its outcome. `V2vClusterLoops` has
  the loops as the code runs them, the time of the entry before and the degree
  changed on the way included, and the run `Decisions` compares the two.
- A handler that would dereference a null socket has no step: its event stays
  due and the clock stops, as the program would. `NoNullSocketUse` is the
  property that it never comes to that.
- `NS_ASSERT` does nothing, as in an optimised build.
- Within a millisecond two equal copies of a packet are one.
- Not modelled: tracing, logging, `StatusReport`, IPv6, byte layouts, and
  connection callbacks (UDP never calls the failing ones).

## 3. Runs

The runs of the control client have the three vehicles of the example's grid: 5 m
apart along x and 3 m along y, 31, 29 and 33 m/s, started at 0.1 s, in slots of
1 ms, all in range of each other. Speeds apart by less than the stability
threshold of 10 m/s make all of them stable neighbours (in `Drive` until vehicle 0
is thrown back at a border, at 2 s); vehicle 1 is the slowest, vehicle 0 has the id
that collides with the sentinel. Three vehicles are enough for
a head, its member and a third party that overhears, elects or merges; two would
leave out every situation in which sender and head differ.

`MaxTime` is the end of the simulation and `MaxLosses` the number of copies lost;
both bound the state space. That is why `CHECK_DEADLOCK FALSE` is in every
configuration: at `MaxTime` a simulation stops (and in `Decisions` a behaviour is
one call). Identities matter (ids break ties), so there is no symmetry.

| Run | Bounds that matter | Question |
|---|---|---|
| `Formation` | until 1.6 s, 1 loss, waiting times 1 ms and 900 ms (shorter and longer than the window of 3 ms), `maxDistance` 0, huge or NaN | Is the formation orderly (`ElectionTimerTracked`, `SendChains`, `FormsOnce`, `StatusOrder`, `NeverWithoutTimer`, `NoNullSocketUse`)? Where does everybody end, without losses (`ClusteredInTime`, `NoElectionBesideHead`) and with them (`LossStrandsOne`)? |
| `Maintenance` | waiting times 0.9 s and 1.7 s, vehicle 2 leaves at 2.5 s, 1 loss, incidents, until 5.6 s: five update rounds, three after the stop | Do elections end, and lost heads get replaced (`ElectionConcludes`, `StandaloneResolves`, `StoppedHeadAbandoned`, `StandaloneHasNeighbors`)? Does nothing that is left run into a closed socket (`NoNullSocketUse`)? Is every move one of `V2vMembership`? |
| `Drive` | waiting times 1 ms and 1392 ms, `maxDistance` 0 (`Formation` varies it), vehicle 2 leaves at 1.2 s, in the middle of the elections, vehicle 0 is thrown back at 2 s, 1 loss, until 4.6 s | Are lists and sockets kept in order (`NeighborListsNested`, `NeighborsRecent`, `StableEntriesLag`, `MembersOnlyAtHead`, `MemberKnowsItsHead`, `OneUpdateChain`), and what does a stop leave (`StopLeavesOne`)? |
| `Stray` | vehicle 2 in slot 6 of a window of 3, uninitialised degree CH or CM, cluster 2, waiting times 1 and 900 ms | Do membership and timers survive a settled vehicle that is elected again (`HeadOwnsItsCluster`, `MemberKnowsItsHead`, `NeverWithoutTimer`, `ImplementsMembership`)? |
| `Mobility` | a road of 500 m, two places, walks of 40 s at 30 m/s give or take 5 m/s, one `SetPosition` at any event or look, a look at least every 30 s, until 62 s | Where do vehicles go, and for how long (`WithinBounds`, `OneWalk`, `SimilarSpeed`, `WalkKeepsItsEnd`, `WalkEnds`)? |
| `Decisions` | every list of three other vehicles out of a few data: equal and different speeds, both ways, at rest, near and out of range; time stamps on both sides of the 1.2 s | Do the loops compute the decisions (`MergeCheckAgrees`, `IsSlowestNodeAgrees`, `UpdateNeighborListAgrees`), and are these right (`SpanIsExact`, `SomebodyIsSlowest`)? |

The bounds of `Mobility`: at 25 to 35 m/s a vehicle drives 1000 to 1400 m in a walk
of 40 s, so walks on the 500 m are thrown back at both borders, and the 62 s hold the
end of the first walk and part of the second. The two draws are the
ends of the range of the random variable. In `Decisions` three entries are enough for
an entry before, an entry after and a tie, and for a removed head between two others.

What the passing runs take for granted, because the code does not hold without it
(section 4 states it as hypotheses of the theorems):

- `NoNullSocketUse`: a stop after the elections, and waiting times of at least a
  window (`Slot * MaxUes`, 3 ms), as in `Maintenance`; or nobody stops, as in
  `Formation`. `StopApplication` cancels neither the election timer nor a Send that
  `m_sendEvent` forgot (290). Where vehicle 2 stops before that, in `Drive`, either goes on to a
  Send on a socket that is null, which ends the program (and the model's behaviour);
  the property is not claimed there, `StopLeavesOne` is.
- `FormsOnce`: waiting times below the incident window. Beyond it the bounds of
  the `UniformVariable` (485) swap, and an incident may precede the election.
- `ClusteredInTime` and `NoElectionBesideHead` speak of behaviours without losses. A
  vehicle that misses the InitiateCluster and is not the slowest stays in its
  initialization for ever; `LossStrandsOne` bounds the damage.
- `OneUpdateChain`, in `Drive`: one election per vehicle. Each starts a chain and
  none is cancelled (521), so a vehicle that is elected again, as in `Stray`, has two.
- `SimilarSpeed`: one mean speed for all, as in the example.

The waiting times are a choice of the instances. Line 772 gives the number of stable
neighbours times the exponential of a non-positive number: any time up to two seconds
with three vehicles. With the example's metric of 3.0 these three would draw less than
a millisecond; longer times belong to more vehicles or to a smaller metric. `Formation`,
`Drive` and `Stray` have a short and a long one, so that a FormCluster may overtake its
receiver's own InitiateCluster. With the 1392 ms of `Drive` the last FormCluster falls
in the millisecond of the others' first update. `Maintenance` has long ones only: there
vehicle 2 stops after the elections.

What holds of lists and stops is less than one would wish, and is stated as it is:

- `SendChains`: a vehicle overtaken by a FormCluster has two Sends, but never three, and
  only a member that has never waited itself has them. (That it has one, as
  `m_sendEvent` assumes, is what `SendEvent` refutes.)
- `NeighborsRecent`: 1.2 s and two rounds from the first update on, not 1.2 s. The own
  time stamp is that of the last Send, up to a round old when the list is purged, and what is
  kept stays for another round.
- `StableEntriesLag`: an entry of `m_rStableList` is updated only while its vehicle is
  stable (345), so the copy of one that has turned back keeps the values of before. The
  property says that nothing else separates the copies, and that until its next Send
  the owner can tell from its own data that the neighbour's last ones are not stable.
- `StopLeavesOne`: a stop leaves an election timer, an `InitiateCluster` or a Send
  running, but one of them only, and no incident.

`Stray` is a road with more vehicles than `MaxUes`, whose last slot is outside the
window. There a vehicle can settle before its own `InitiateCluster` is due, which
takes it back into an election: `StatusOrder` and `ElectionTimerTracked` are not
claimed for it, membership is.

Six runs show that the code does not keep what it says of itself (`findings` in
`PROJECT.json` quotes the lines):

| Run | Property | What happens |
|---|---|---|
| `SendEvent` | `SendEventTracked` | a FormCluster comes between the decision to initiate and the InitiateCluster: two Sends are pending |
| `IncidentPeer` | `IncidentPeerIsHead` | the incident socket is connected to whoever sent the packet at hand |
| `MergeTarget` | `AttachesToHead` | the sentinel 0 is taken for vehicle 0, which is no head |
| `LiveHead` | `HeadDroppedOnlyWhenSilent` | a member drops a head right after the cluster has formed |
| `Headless` | `HeadlessResolves` | from 2.0 s on vehicle 0 follows vehicle 1, a member itself; that one loses its own head, which has stopped, is `STANDALONE` from 4.5 s to 5.0 s and then attaches to vehicle 0: up to the end at 7.1 s the two follow each other, neither falls silent, so neither looks for a head, and incidents reach nobody who repeats them |
| `DefaultBounds` | `WalkEnds` | within the default bounds, a single point, a vehicle is thrown back for ever and the time of the simulation stands still |

`Headless` also explains why `StandaloneResolves` counts vehicles that are alone and
not those whose head has become a member.

Fairness. `FairSpec` adds `WF_vars(Next)`: the simulator runs the next event as
long as there is one and its time is not over. No fairness is assumed of a
particular action, of the channel, or of the drawn waiting times. A liveness
property about the end of a situation only speaks of situations that begin early
enough (`Early`) for the end to be before `MaxTime`.

In the mobility model `FairSpec` says the same: the clock goes on to the next event
or the next look. `WalkEnds` is true under it only because walks are thrown back
finitely often in finite time, which `DefaultBounds` shows is not a matter of course.

Each property of a passing run has a mutant: a plausible slip in one definition
(the operators marked "mutant", beside the definition they replace) that breaks
the property in that very run.

## 4. Proofs

Eight modules hold theorems (section 2 says which extends which: the later invariants
contain the earlier ones). They hold for every finite set of vehicles, movement, number
of losses and end of the simulation that the assumptions and hypotheses allow.

The assumptions are the named ASSUMEs of the modules: ids are natural numbers, a
vehicle does not hear itself, times are natural numbers and intervals positive, a
vehicle stops after it starts, and at most 100 vehicles share the window (235). On
the road: places lie within the bounds, and speeds exceed their variation. TLC
evaluates them in every run.

### Whatever the schedule

Nothing is assumed of the TDMA schedule, of who hears whom, of `WaitingTimes` beyond
their being times of which one is at most a second, or of uninitialised values beyond
their type.

| Theorem | Statement |
|---|---|
| `TypeCorrect` | `Spec => []TypeOK` |
| `MembershipInvariant` | `Spec => []MembershipInv`, inductive |
| `ListsNested`, `HeadOwns`, `MemberKnows`, `StandaloneHas` | `Spec => []NeighborListsNested`, `[]HeadOwnsItsCluster`, `[]MemberKnowsItsHead`, `[]StandaloneHasNeighbors` |
| `TimersInvariant` | `Spec => []TimedInv`, inductive |
| `NeverWithoutTimerHolds` | `Spec => []NeverWithoutTimer` |
| `MembershipImplemented` | `Spec => ImplementsMembership`: the refinement of `V2vMembership` |
| `StableEntriesLagHolds` | `Spec => []StableEntriesLag` |

*Membership.* The three membership properties speak of settled vehicles and are
not inductive: `InitiateCluster` may take a settled vehicle back to
`CLUSTER_HEAD_ELECTION`, and `UpdateNeighbors` settles a vehicle whatever its
degree. The invariant therefore follows a vehicle from the moment it first gets
a place: `Formed(n)` (of `V2vControlClient`, where the refinement mapping uses it
too) holds when it is settled or has an `UpdateNeighbors` or `UpdateNeighborList`
scheduled. From then on its place is sound (`Sound`) and its status is never
`CLUSTER_INITIALIZATION` again. The second half is needed since
`HandleInitiateCluster` overwrites the cluster of a vehicle with that status, and
it rests on a vehicle starting only once (`StartsOnce`): a start is never
scheduled again, and before it the vehicle has no socket to hear or to send.
Soundness of a member needs the nesting of the lists (`Nested`), because
`HandleClusterInfo` attaches to an entry of the stable list but
`UpdateNeighborList` looks for the head in the list of all neighbours. Nesting
needs that nobody receives a ClusterInfo about himself (`AirInv`), which needs
that a ClusterInfo bears the id of its sender (`Identity`). The proof has a lemma for
the vehicles that do not act (`OthersUntouched`), one for steps that touch neither
place nor lists (`RoutineKeepsInv`), one for each action that does, and one for the
air (`AirStep`).

*Timers.* A timer can get lost only by being cancelled. `EventIds` says that each uid
is used once, that those in use are below `nextUid`, and that each of the three EventIds
of a vehicle, if its event is still pending, refers to one of its own kind; so a FormCluster cancels an election
timer and nothing else (`CancelledTypes`). `Timed` says what a vehicle of each status
waits for; that `UpdateNeighborList` goes on for good makes the rest easy.

*Refinement.* Step by step: of each action, what it does to its vehicle's place
(`MappedNext`), for the initial states `MappedInit`. The abstract specification has no
start and no initialization after the first place, so the proof needs that a place is
for good (`FormedForGood`) and that a vehicle that has still to start has taken part in
nothing (`Fresh`).

*Entries.* `Lag`: where the two copies of a neighbour's data differ, either the later one
is of a vehicle the owner's data call too fast, or the owner has dated itself since. It is
inductive because both are written in one handler if the vehicle is stable and only
the one in the list of all if it is not, and because what is received is not
dated later than now (`DatedAir`), so that an owner who sends dates itself after all it has heard.

### With the schedule of the example

The other theorems state their circumstances as hypotheses. The example sets the first
four; the others are what its road, channel and random numbers should provide. `Formation`,
`Drive` and `Maintenance` satisfy `TdmaSchedule`, `ShortWindow`, `InRange` and `FewLosses`;
the movement of `Drive` is not `AllStable` and its stop no `LateStop`, and `LongWaits`
holds of `Maintenance` only. What fails without them is in section 3.

| Hypothesis | Meaning |
|---|---|
| `TdmaSchedule` | all start together, and send first in a slot of one common window |
| `ShortWindow` | a window of at most half a second; the defaults are 100 slots of 1 ms (110-115) |
| `LateStop` | nobody stops before three windows and the longest waiting time are over |
| `InRange` | everybody hears everybody |
| `AllStable` | speeds are within 10 m/s of each other |
| `FewLosses` | fewer copies are lost than would silence all others for somebody |
| `LongWaits` | waiting times of at least one window; the exponential of 682 does not guarantee it |
| `WindowOutlastsWaiting` | waiting times below the incident window |
| `SomebodySlowest` | one vehicle is never faster than any other (equal speeds decided by the id); steady speeds suffice (`SteadySpeedsSuffice`) |

| Theorem | Hypotheses | Property |
|---|---|---|
| `TdmaInvariant` | `TdmaSchedule` | inductive |
| `ElectionTimerTrackedHolds`, `OneUpdateChainHolds`, `MembersOnlyAtHeadHolds`, `StatusOrderHolds` | `TdmaSchedule` | the one of the name; `StatusOrder` is an action property |
| `SendChainsHolds`, `StopLeavesOneHolds` | `TdmaSchedule` | `SendChains`, `StopLeavesOne` |
| `NeighborsRecentHolds` | `TdmaSchedule`, `ShortWindow` | `NeighborsRecent` |
| `FormsOnceHolds` | `TdmaSchedule`, `WindowOutlastsWaiting` | `FormsOnce` |
| `SomebodyKnown` | `TdmaSchedule`, `LateStop`, `InRange`, `AllStable`, `FewLosses` | `KnowsSomebody` |
| `SilenceInvariant` | these and `LongWaits` (together: `Highway`) | inductive |
| `NoNullSocketUseHolds` | `Highway`, `WindowOutlastsWaiting` | `NoNullSocketUse` |
| `NoElectionBesideHeadHolds` | `Highway` | `NoElectionBesideHead` |
| `LossStrandsOneHolds`, `ClusteredInTimeHolds` | `Highway`, `SomebodySlowest` | `LossStrandsOne`, `ClusteredInTime` |

*One duty at a time.* `TdmaInv` gives each status its duties: events that take the vehicle
further, of which at most one is pending. It is inductive because the windows do
not overlap (`InSlot`, `RequestsInTime`): every `InitiateCluster` event ran before the
first request is in the air, so a vehicle that hears one has no such event left to take it
back. `FormsOnce` adds that an incident comes after the duty (`IncidentAfterDuty`).

*What is forgotten.* A Send is `Forgotten` if `m_sendEvent` does not refer to it, and the events
of a set are `Alike` if there is at most one. `ChainsInv`: a settled vehicle has forgotten at
most one Send, and one that has waited itself (its `m_chElectionEvent` is not 0) none, since
its request was sent before its waiting time began. The two chains of a vehicle take
turns to be forgotten, as each Send overwrites the id of the other. After the stop
(`LeftAfterStop`) one event of those begun is left; each that runs schedules at most one in its
place, and a Send none, as its socket is null.

*Silence.* The waiting time of a vehicle without stable neighbours is its id in seconds,
0 for vehicle 0, so first nobody may be in that state (`SomebodyKnown`): of every other
vehicle the ClusterInfo was received, is in the air, is still to come or was lost
(`Hears`), and the lost ones are too few. Then each request is sent within two windows
(`ThirdEnd`) and every FormCluster comes later (`Ordered`), which is before anybody
stops; so a stop finds nothing it fails to cancel (`Silent`), and no Send meets a null socket.

*Rounds.* A vehicle dates itself only when it sends, and `UpdateNeighborList` compares the
entries with that date. The two come once per interval, in phases that nothing relates. What
holds in every phase is `DatesItself`: when a vehicle purges, its next Send is due within an
interval of its own date. So that date is at most an interval old, what the purge keeps is at
most 1.2 s and an interval old, and another interval later the next purge comes
(`RecentUntil`), whose outcome does not depend on the Sends in between, as what is kept is
counted against the time and not the date. Before the first purge a vehicle may hold
entries as old as the start, however long it waited; `FormationsOver` is when that is over
(`FormsBy`, `FirstUpdate`). `ShortWindow` makes the first Send of a vehicle that joins come
before its first purge. Neither the waiting times, nor losses, nor the movement, nor who hears
whom matter.

*Elections.* `FoundedInv`: after the first head no request is to come, and in a run without
losses everybody who waits has a FormCluster in the air that ends it (`Ending`).
`SlowestInv(s)`, for a slowest vehicle `s`: whatever its list and `maxDistance` hold, its
`InitiateCluster` decides for it, or somebody else's request came first; the vehicles
that are left out of its request (`LeftOut`) are at most as many as losses. A vehicle
stranded in its initialization is one of these.

### Mobility and decisions

| Theorem | Hypotheses | Property |
|---|---|---|
| `WalkInvariant`, `TypeCorrect`, `OneWalkHolds`, `WithinBoundsHolds` | none | inductive; `TypeOK`, `OneWalk`, `WithinBounds` |
| `SimilarSpeedHolds` | one mean speed for all | `SimilarSpeed` |
| `WalkKeepsItsEndHolds` | `EqualWalks`: walks last equally long, as in `MODE_TIME` | `WalkKeepsItsEnd`, an action property |
| `SpanIsExactHolds`, `SomebodyIsSlowestHolds` | `Measured`: places and speeds are integers; `Informed`: lists hold entries of their keys | `SpanIsExact`, `SomebodyIsSlowest` |
| `MergeCheckAgreesHolds`, `IsSlowestNodeAgreesHolds`, `UpdateNeighborListAgreesHolds` | the same | `MergeCheckAgrees`, `IsSlowestNodeAgrees`, `UpdateNeighborListAgrees` |

*Walks.* `Walking(n)`: the vehicle has one event, the one `m_event` refers to, which is not
overdue, and is inside its bounds now and at that event. In between it is inside because its
way is straight (`Between`), and the event is not too late because a truncated quotient
times its divisor does not exceed the dividend (`BorderIsMet`).
`EqualWalks` is needed since a walk whose event is superseded in the millisecond it began, by
`DoInitialize` and `DoSetPosition` before the start, is replaced by one of another length.

*Decisions.* `SpanExact` separates the signs (`SpanLinear`) from the product. The slowest
vehicle is the least id of those with the least speed; that there is one is well-founded
induction (`LeastExists`).

*Loops.* That the three loops of the code compute the decisions the protocol is modelled
with, for lists of any length, needs induction over the entries walked over, without the
library's induction theorems (their predicates are operators). `FoldLeft` is
therefore unfolded to the function on sets of positions it is defined by
(`FoldExists`), and its claim is a set of positions: were one left out, there would be a
least one (`SubsetInduction`, from `LeastExists`). Each loop has its own claim about the entries seen so
far. `MergeBodyFinds`: the head kept is the first of the longest
time among those seen, and the time left over from the entry before does not exceed it, so that
an entry which computes none of its own is never taken (`LongerTransitive` compares quotients
by cross multiplication). `PurgeBodyErases`: what the loop holds is at each entry the outcome of erasing at once
those of the entries seen that are stale, degree, cluster and count included, although later
entries are compared with what it has changed.
`FarthestFound`: the first pass of `IsSlowestNode` leaves in `maxDistance` the largest
distance, unless it held a larger value, or NaN. The order of a map's keys is the
sorted enumeration; that there is one is shown by rank (`SortedExists`).

### How far the proofs reach

TLC finds each inductive invariant to hold on an instance where its hypotheses do: the
control client's on `Formation` and `Drive`, with `Highway` on `Maintenance`, those without
hypotheses on `Stray`, too, and those of the mobility model and the loops on `Mobility` and
`Decisions`. Where a property is checked on an instance beyond the hypotheses of its theorem
(`NoElectionBesideHead`, `ClusteredInTime`, `LossStrandsOne` and `NoNullSocketUse` on `Formation`,
whose short waiting times are not `LongWaits`), the run shows more than the theorem.

Every invariant that a passing run checks is stated by a theorem. Model-checked
only is liveness (`ElectionConcludes`, `StandaloneResolves`, `StoppedHeadAbandoned`,
`WalkEnds`), which is out of reach of the prover, like ENABLED. The hypotheses of the schedule
are sufficient, not necessary: section 5 names the one worth weakening.

## 5. Not modelled, and the plan

Open, in order of importance:

1. `Highway` without `InRange`: which of the election theorems hold within the range of a
   vehicle on a longer road.
2. Incidents: echoes and the time stamp comparison (538), and vehicle 0 repeating
   the incidents of vehicles on their own (1109), with a topology in which a member
   reaches vehicles only over its head. The actions are modelled; no property is
   stated of them beyond the sockets.
3. A road longer than the radio range (a `Reach` that is not full). The theorems
   without a schedule cover any `Reach`; the runs have a full one.

Left out for good:

- the waiting time of `SuitabilityCheck` as a number: it is the exponential of
  real-valued statistics of the list, of which only the range matters here;
- the byte layout of the headers: a memcpy of a struct, written and read by the same
  build; the fields and when they are filled in are modelled;
- `V2vControlClientHelper`: it passes attributes on, which are CONSTANTS here;
- the 802.11p devices the example sets up, which are ns-3's: `air` stands for them;
- the test suite, which runs an empty simulation.
