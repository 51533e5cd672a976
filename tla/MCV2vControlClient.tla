------------------------- MODULE MCV2vControlClient -------------------------
(***************************************************************************)
(* Three vehicles of the example (examples/v2v-clustering-example.cc): a   *)
(* row 5 m apart along x and 3 m along y, around 30 m/s, all started at    *)
(* 0.1 s, each in a transmission slot of 1 ms after the one before.        *)
(***************************************************************************)
EXTENDS V2vControlClient

Vehicles == {0, 1, 2}

MCVelX(n, t) == CASE n = 0 -> 31 [] n = 1 -> 29 [] n = 2 -> 33
MCPosX(n, t) == 5000 * n + MCVelX(n, t) * t
MCPosY(n, t) == 3000 * n

\* tdmaStart = (u + 1) * minimumTdmaSlot
TdmaWindow == [n \in Vehicles |-> n + 1]

\* vehicle 2 in a slot outside the window of the others
StrayWindow == [n \in Vehicles |-> IF n = 2 THEN 6 ELSE n + 1]

Together == [n \in Vehicles |-> 100]
AfterTheEnd == [n \in Vehicles |-> 60000]
\* vehicle 2 leaves the road early
OneLeaves == [n \in Vehicles |-> IF n = 2 THEN 2500 ELSE 60000]

\* vehicle 2 leaves before the longer waiting time is over
OneLeavesEarly == [n \in Vehicles |-> IF n = 2 THEN 1200 ELSE 60000]

\* vehicle 0 is thrown back at a border at 2 s
TurningVelX(n, t) == IF n = 0 /\ t > 2000 THEN -31 ELSE MCVelX(n, t)
TurningPosX(n, t) ==
    IF n = 0 /\ t > 2000 THEN 31 * (4000 - t) ELSE MCPosX(n, t)

FullMesh == [n \in Vehicles |-> Vehicles \ {n}]

=============================================================================
