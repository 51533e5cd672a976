------------------------- MODULE MCV2vClusterLoops -------------------------
(***************************************************************************)
(* Four vehicles whose data are any of a few: a time stamp stands for a    *)
(* place and a velocity, and for whether it is too old.                    *)
(***************************************************************************)
EXTENDS V2vClusterLoops

Vehicles == 0..3

\* equal and different ones, both ways, at rest; near and out of range
Speeds == <<30, -29, 31, 0>>
Places == <<0, 90000>>

MCVelX(n, t) == Speeds[((t % 8) \div 2) + 1] + (n % 2)
MCPosX(n, t) == Places[(t % 2) + 1]
MCPosY(n, t) == 3000 * n

Info(n, times, degrees, ids) ==
    [imsi: {n}, ts: times, degree: degrees, clusterId: ids]

MCOwnInfo(n) == Info(n, 0..7, {"CH"}, {n})
MCHeard == [ts: 0..5, degree: {"CH"}] \cup [ts: {0}, degree: {"CM"}]

\* 1.2 s is the limit: old, almost old, new
MCPurgedOwnInfo(n) == Info(n, {1800}, NodeDegree, {0, 1, 3})
MCPurgedHeard == [ts: {594, 600, 1800}, degree: {"CH"}]

=============================================================================
