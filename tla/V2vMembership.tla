--------------------------- MODULE V2vMembership ---------------------------
(***************************************************************************)
(* What the clustering promises of the place of a vehicle, whatever the    *)
(* packets say and whenever the timers end: an abstract specification that *)
(* V2vControlClient implements.                                            *)
(*                                                                         *)
(* A vehicle has no place before its first cluster.  From then on place[n] *)
(* is the head of its cluster, n itself if it is one, or Alone.  A vehicle *)
(* comes to another head in an election, by a merge, or out of being       *)
(* alone; no head just loses its cluster.                                  *)
(***************************************************************************)
EXTENDS Integers

CONSTANT Node        \* the vehicles, natural numbers

VARIABLES
    place,           \* of each vehicle
    electing         \* does it take part in an election?

NoPlace == -1        \* before the first cluster
Alone == -2          \* in no cluster any more

IsMember(n) == place[n] \in Node \ {n}

Moves(n, where) == place' = [place EXCEPT ![n] = where]

Elects(n, really) == electing' = [electing EXCEPT ![n] = really]

Init ==
    /\ place = [n \in Node |-> NoPlace]
    /\ electing = [n \in Node |-> FALSE]

-----------------------------------------------------------------------------
(***************************************************************************)
(* The election.  Nothing else gives a vehicle its first place.            *)
(***************************************************************************)

\* a vehicle that has a place keeps it until the election is decided
EnterElection(n) ==
    /\ ~ electing[n]
    /\ Elects(n, TRUE)
    /\ UNCHANGED place

\* another vehicle is head first
Join(n) ==
    /\ electing[n]
    /\ \E head \in Node \ {n} : Moves(n, head)
    /\ Elects(n, FALSE)

Lead(n) ==
    /\ electing[n]
    /\ Moves(n, n)
    /\ UNCHANGED electing

Settle(n) ==
    /\ electing[n]
    /\ place[n] /= NoPlace
    /\ Elects(n, FALSE)
    /\ UNCHANGED place

-----------------------------------------------------------------------------
(***************************************************************************)
(* Life in the cluster.  Heads are missed during an election, too.         *)
(***************************************************************************)
LoseHead(n) ==
    /\ IsMember(n)
    /\ Moves(n, Alone)
    /\ UNCHANGED electing

\* a vehicle on its own leads itself, maybe as soon as its head is lost
TakeLead(n) ==
    /\ IsMember(n) \/ place[n] = Alone
    /\ Moves(n, n)
    /\ UNCHANGED electing

Attach(n) ==
    /\ ~ electing[n]
    /\ place[n] = Alone
    /\ \E head \in Node \ {n} : Moves(n, head)
    /\ UNCHANGED electing

\* only towards a larger id: two heads never merge into each other
Merge(n) ==
    /\ ~ electing[n]
    /\ place[n] = n
    /\ \E head \in Node : n < head /\ Moves(n, head)
    /\ UNCHANGED electing

Next ==
    \E n \in Node :
        \/ EnterElection(n) \/ Join(n) \/ Lead(n) \/ Settle(n)
        \/ LoseHead(n) \/ TakeLead(n) \/ Attach(n) \/ Merge(n)

Spec == Init /\ [][Next]_<<place, electing>>

=============================================================================
