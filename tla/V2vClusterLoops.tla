-------------------------- MODULE V2vClusterLoops --------------------------
(***************************************************************************)
(* The loops of MergeCheck, IsSlowestNode and UpdateNeighborList, entry by *)
(* entry, to compare with what V2vClusterMetrics says they compute: each   *)
(* is a fold of its body over the keys of a std::map, in their order.      *)
(*                                                                         *)
(* A behaviour is one call, of one vehicle, on one state of its lists.     *)
(***************************************************************************)
EXTENDS V2vClusterMetrics, SequencesExt

CONSTANTS
    OwnInfo(_),            \* what a vehicle may know of itself,
    Heard,                 \* and what it may have heard of another one,
    PurgedOwnInfo(_),      \* at the call of UpdateNeighborList
    PurgedHeard

VARIABLES
    own,                   \* m_currentMobility
    list2,                 \* m_2rStableList
    listR,                 \* m_rStableList
    result                 \* of the call, Null before

vars == <<own, list2, listR, result>>

\* the keys of a std::map, as its iterator finds them
InOrder(list) ==
    CHOOSE seq \in SetToSeqs(Keys(list)) :
        \A i, j \in DOMAIN seq : i < j => seq[i] < seq[j]

-----------------------------------------------------------------------------
(***************************************************************************)
(* MergeCheck.  A time is a fraction of a length and a positive speed.     *)
(***************************************************************************)
\* mutant: the last of equal times
NoShorterThan(t, u) == t.length * u.speed >= u.length * t.speed

LongerThan(t, u) == t.length * u.speed > u.length * t.speed

NoTime == [length |-> 0, speed |-> 1]

\* the conditions of the code, by the order of their tests
FarAndFar(node) ==
    \/ X(own) < X(node) /\ V(own) > 0 /\ Abs(V(own)) < Abs(V(node))
    \/ X(own) < X(node) /\ V(own) < 0 /\ Abs(V(own)) > Abs(V(node))
    \/ X(own) > X(node) /\ V(own) > 0 /\ Abs(V(own)) > Abs(V(node))
    \/ X(own) > X(node) /\ V(own) < 0 /\ Abs(V(own)) < Abs(V(node))

CloserAndCloser(node) ==
    \/ X(own) < X(node) /\ V(own) > 0 /\ Abs(V(own)) > Abs(V(node))
    \/ X(own) < X(node) /\ V(own) < 0 /\ Abs(V(own)) < Abs(V(node))
    \/ X(own) > X(node) /\ V(own) > 0 /\ Abs(V(own)) < Abs(V(node))
    \/ X(own) > X(node) /\ V(own) < 0 /\ Abs(V(own)) > Abs(V(node))

\* rt, which keeps its value if no condition holds
RemainingTime(rt, node) ==
    LET apart == Abs(X(own) - X(node))
        speed == Abs(V(own) - V(node))
    IN  IF FarAndFar(node) THEN [length |-> 80000 - apart, speed |-> speed]
        ELSE IF CloserAndCloser(node)
             THEN [length |-> 80000 + apart, speed |-> speed]
             ELSE rt

MergeBody(found, node) ==
    LET rt == RemainingTime(found.rt, node)
    IN  IF node.degree /= "CH" THEN found
        ELSE IF LongerThan(rt, found.boundary)
             THEN [id |-> node.imsi, rt |-> rt, boundary |-> rt]
             ELSE [found EXCEPT !.rt = rt]

MergeLoop ==
    FoldLeft(LAMBDA found, k : MergeBody(found, listR[k]),
             [id |-> 0, rt |-> NoTime, boundary |-> NoTime], InOrder(listR)).id

-----------------------------------------------------------------------------
(***************************************************************************)
(* IsSlowestNode: maxDistance, then the comparisons.  Nothing is larger or *)
(* smaller than NaN.                                                       *)
(***************************************************************************)
\* mutant: the last distance, not the largest
LastDistance(max, node) == IF max /= NaN THEN Distance(own, node) ELSE max

Farther(max, node) ==
    IF max /= NaN /\ Distance(own, node) > max THEN Distance(own, node) ELSE max

Beats(max, node) ==
    /\ max /= NaN
    /\ 2 * Distance(own, node) < max
    /\ \/ Abs(V(node)) < Abs(V(own))
       \/ Abs(V(node)) = Abs(V(own)) /\ node.imsi < own.imsi

Farthest(maxDistance) ==
    FoldLeft(LAMBDA max, k : Farther(max, list2[k]), maxDistance, InOrder(list2))

NobodyBeats(max) ==
    FoldLeft(LAMBDA slowest, k : slowest /\ ~ Beats(max, list2[k]), TRUE,
             InOrder(list2))

SlowestLoop(maxDistance) == NobodyBeats(Farthest(maxDistance))

-----------------------------------------------------------------------------
(***************************************************************************)
(* UpdateNeighborList.                                                     *)
(***************************************************************************)
PurgeBody(s, k) ==
    LET lost == s.list2[k].imsi = s.own.clusterId
        info == IF lost
                THEN [s.own EXCEPT !.clusterId = 0, !.degree = "STANDALONE"]
                ELSE s.own
        left == Erase(s.listR, {k})
        head == Keys(left) = {} /\ info.degree /= "CH"
    IN  IF own.ts - s.list2[k].ts <= 1200
        THEN s
        ELSE [list2 |-> Erase(s.list2, {k}),
              listR |-> left,
              own |-> IF head THEN [info EXCEPT !.degree = "CH",
                                                !.clusterId = own.imsi]
                      ELSE info,
              changes |-> IF head THEN s.changes + 1 ELSE s.changes]

PurgeLoop(order) ==
    FoldLeft(PurgeBody, [list2 |-> list2, listR |-> listR, own |-> own,
                         changes |-> 0], order)

-----------------------------------------------------------------------------
\* the lists of n: some of the vehicles, each with something heard of it
Lists(n, heard) ==
    {[k \in Node |->
         IF k = n \/ h[k] = Null THEN Null
         ELSE [imsi |-> k, ts |-> h[k].ts, degree |-> h[k].degree, clusterId |-> k]] :
     h \in [Node -> heard \cup {Null}]}

Init ==
    /\ \E n \in Node :
        \/ /\ own \in OwnInfo(n)
           /\ list2 \in Lists(n, Heard)
           /\ listR = list2
        \/ /\ own \in PurgedOwnInfo(n)
           /\ list2 \in Lists(n, PurgedHeard)
           /\ \E keys \in SUBSET Keys(list2) : listR = Erase(list2, keys)
    /\ result = Null

CallMergeCheck ==
    /\ result = Null
    /\ result' = [of |-> "MergeCheck", id |-> MergeLoop]
    /\ UNCHANGED <<own, list2, listR>>

CallIsSlowestNode ==
    /\ result = Null
    /\ \E g \in IndeterminateDistance :
          result' = [of |-> "IsSlowestNode", maxDistance |-> g,
                     slowest |-> SlowestLoop(g)]
    /\ UNCHANGED <<own, list2, listR>>

CallUpdateNeighborList ==
    /\ result = Null
    /\ result' = [of |-> "UpdateNeighborList", purged |-> PurgeLoop(InOrder(list2))]
    /\ UNCHANGED <<own, list2, listR>>

Next == CallMergeCheck \/ CallIsSlowestNode \/ CallUpdateNeighborList

Spec == Init /\ [][Next]_vars

Returned(name) == result /= Null /\ result.of = name

-----------------------------------------------------------------------------
\* MergeCheck finds the first of the heads with the longest time, though it
\* goes on with the time of the entry before when it computes none.
MergeCheckAgrees ==
    Returned("MergeCheck") => result.id = MergeCheck(own, listR)

\* The two passes of IsSlowestNode compare with the vehicles that are nearby,
\* whatever maxDistance held, NaN included.
IsSlowestNodeAgrees ==
    Returned("IsSlowestNode") =>
        result.slowest = IsSlowestNode(own, list2, result.maxDistance)

\* UpdateNeighborList, which changes degree and cluster on its way and compares
\* later entries with what it has changed, comes to one outcome, in the order
\* of the keys and in every other one, and counts at most one change.
UpdateNeighborListAgrees ==
    Returned("UpdateNeighborList") =>
        LET stale == Stale(own, list2)
        IN  /\ result.purged =
                  [list2 |-> Erase(list2, stale),
                   listR |-> Erase(listR, stale),
                   own |-> MobilityAfterUpdate(own, stale, listR),
                   changes |-> IF BecomesHead(own, stale, listR) THEN 1 ELSE 0]
            /\ \A order \in SetToSeqs(Keys(list2)) :
                  PurgeLoop(order) = result.purged

\* Span / Closing is the time after which two vehicles that drive the same
\* way are 80 m apart, the range of transmission.
SpanIsExact ==
    \A k \in MergeCandidates(own, listR) :
        V(own) * V(listR[k]) > 0 =>
            Abs((X(own) - X(listR[k])) * Closing(own, listR[k])
                  + (V(own) - V(listR[k])) * Span(own, listR[k]))
              = 80000 * Closing(own, listR[k])

\* If all know each other, somebody is the slowest and starts a cluster,
\* whatever maxDistance holds at each of them.
SomebodyIsSlowest ==
    LET all == Insert(list2, own)
    IN  \E k \in Keys(all) : \A g \in IndeterminateDistance :
            IsSlowestNode(all[k], Erase(all, {k}), g)

=============================================================================
