------------------------- MODULE V2vClusterMetrics -------------------------
(***************************************************************************)
(* The decisions V2vControlClient takes from its neighbour lists:          *)
(* IsStable, IsSlowestNode, SuitabilityCheck, MergeCheck and the effect of *)
(* UpdateNeighborList on the lists.  Every one of them reads the vehicle's *)
(* own NeighborInfo (own) and a list, and changes nothing.                 *)
(*                                                                         *)
(* Positions are in millimetres and velocities in millimetres per          *)
(* millisecond.  V2vMobilityModel never gives a vehicle a velocity along   *)
(* y, so VelX is the velocity.                                             *)
(***************************************************************************)
EXTENDS V2vClusterSap

CONSTANTS
    PosX(_, _), PosY(_, _),   \* position of a vehicle at a time
    VelX(_, _),               \* velocity of a vehicle at a time
    WaitingTimes,             \* outcomes of SuitabilityCheck, rounded to ms
    IndeterminateDistance,    \* what maxDistance may hold uninitialised
    NaN                       \* one of those: not a number

ASSUME WaitingTimesAssumption ==
    /\ WaitingTimes \subseteq Nat
    /\ \E w \in WaitingTimes : w <= 1000

ASSUME DistanceAssumption ==
    /\ IndeterminateDistance /= {}
    /\ IndeterminateDistance \ {NaN} \subseteq Int
    /\ NaN \notin Int

Abs(x) == IF x < 0 THEN -x ELSE x

X(info) == PosX(info.imsi, info.ts)
Y(info) == PosY(info.imsi, info.ts)
V(info) == VelX(info.imsi, info.ts)

\* A neighbour is stable if the relative speed is at most 10 m/s (vTh).
IsStable(own, other) == Abs(V(own) - V(other)) <= 10

(***************************************************************************)
(* IsSlowestNode.  Only neighbours nearer than half of maxDistance count,  *)
(* and maxDistance is the largest of the distances and of what the         *)
(* uninitialised variable held (g).  Nothing is near when that is NaN.     *)
(***************************************************************************)
Distance(own, other) == Abs(X(own) - X(other)) + Abs(Y(own) - Y(other))

Nearby(own, list, g) ==
    {k \in Keys(list) :
        /\ g /= NaN
        /\ \/ 2 * Distance(own, list[k]) < g
           \/ \E j \in Keys(list) :
                2 * Distance(own, list[k]) < Distance(own, list[j])}

\* mutant: the smaller imsi beats any speed
SlowerOrSmaller(other, own) ==
    Abs(V(other)) <= Abs(V(own)) \/ other.imsi < own.imsi

\* equal speeds are decided for the smaller imsi
Slower(other, own) ==
    \/ Abs(V(other)) < Abs(V(own))
    \/ Abs(V(other)) = Abs(V(own)) /\ other.imsi < own.imsi

IsSlowestNode(own, list, g) ==
    \A k \in Nearby(own, list, g) : ~ Slower(list[k], own)

(***************************************************************************)
(* SuitabilityCheck.  Without stable neighbours the waiting time is the    *)
(* imsi, in seconds; otherwise it is size * exp(-m_clusterTimeMetric * w), *)
(* with w >= 0 a real-valued function of the lists: any time from 0 (the   *)
(* exponential of a large w) to size seconds.                              *)
(***************************************************************************)
SuitabilityCheck(own, list) ==
    IF Keys(list) = {}
    THEN {1000 * own.imsi}
    ELSE {w \in WaitingTimes : w <= 1000 * Cardinality(Keys(list))}

(***************************************************************************)
(* MergeCheck: the stable head that stays longest within 80 m.  The time   *)
(* it stays is Span / Closing; it is not computed (the code keeps the last *)
(* one, which is never larger than the best) for equal positions along x,  *)
(* equal speeds, or a vehicle at rest.                                     *)
(***************************************************************************)
Closing(own, other) == Abs(V(own) - V(other))

\* mutant: as if all drove towards larger x
DriftApartForward(own, other) ==
    (X(own) < X(other)) <=> (Abs(V(own)) < Abs(V(other)))

DriftApart(own, other) ==
    (X(own) < X(other)) <=> ((V(own) > 0) <=> (Abs(V(own)) < Abs(V(other))))

Span(own, other) ==
    IF DriftApart(own, other)
    THEN 80000 - Abs(X(own) - X(other))
    ELSE 80000 + Abs(X(own) - X(other))

MergeCandidates(own, list) ==
    {k \in Keys(list) :
        /\ list[k].degree = "CH"
        /\ X(own) /= X(list[k])
        /\ V(own) /= 0
        /\ Abs(V(own)) /= Abs(V(list[k]))
        /\ Span(own, list[k]) > 0}

\* the first, in the order of the keys, of those with the longest time;
\* 0 when there is none
MergeCheck(own, list) ==
    LET Cross(j, k) == Span(own, list[j]) * Closing(own, list[k])
        Best(k) == \A j \in MergeCandidates(own, list) :
                      \/ Cross(k, j) > Cross(j, k)
                      \/ Cross(k, j) = Cross(j, k) /\ k <= j
    IN  IF MergeCandidates(own, list) = {}
        THEN 0
        ELSE CHOOSE k \in MergeCandidates(own, list) : Best(k)

(***************************************************************************)
(* UpdateNeighborList walks 2rStable in the order of the keys, erases the  *)
(* stale entries from the three lists, and changes the degree on the way.  *)
(* Its outcome does not depend on that order:                              *)
(*   - the vehicle becomes head if the walk erases something, rStable ends *)
(*     up empty, and it was no head or stopped being one;                  *)
(*   - otherwise it becomes standalone if its head was erased.             *)
(***************************************************************************)
\* mutant: a limit of 12 s
StaleByTenfold(own, list) == {k \in Keys(list) : own.ts - list[k].ts > 12000}

Stale(own, list) == {k \in Keys(list) : own.ts - list[k].ts > 1200}

\* mutant: looks for itself
LostHeadOfOther(own, stale) == own.imsi \in stale

LostHead(own, stale) == own.clusterId \in stale

\* mutant: rStable is looked at before the erasure
BecomesHeadTooLate(own, stale, listR) ==
    /\ stale /= {}
    /\ Keys(listR) = {}
    /\ own.degree /= "CH" \/ LostHead(own, stale)

BecomesHead(own, stale, listR) ==
    /\ stale /= {}
    /\ Keys(listR) \subseteq stale
    /\ own.degree /= "CH" \/ LostHead(own, stale)

\* mutant: a lost head is still followed
StaysMemberAfterUpdate(own, stale, listR) ==
    IF BecomesHead(own, stale, listR)
    THEN [own EXCEPT !.degree = "CH", !.clusterId = own.imsi]
    ELSE own

MobilityAfterUpdate(own, stale, listR) ==
    IF BecomesHead(own, stale, listR)
    THEN [own EXCEPT !.degree = "CH", !.clusterId = own.imsi]
    ELSE IF LostHead(own, stale)
         THEN [own EXCEPT !.degree = "STANDALONE", !.clusterId = 0]
         ELSE own

=============================================================================
