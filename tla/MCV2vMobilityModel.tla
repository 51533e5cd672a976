------------------------- MODULE MCV2vMobilityModel -------------------------
(***************************************************************************)
(* Two vehicles on a road of the kind of the example                       *)
(* (examples/v2v-clustering-example.cc): walks of 40 s at 30 m/s, give or  *)
(* take 5 m/s.  The road is shorter, for the vehicles to meet its ends.    *)
(***************************************************************************)
EXTENDS V2vMobilityModel

Vehicles == {0, 1}

Metre == 100000

\* Rectangle (xMin, xMax, yMin, yMax); a walk crosses it at least twice
Road == [xMin |-> 0, xMax |-> 500 * Metre, yMin |-> -1000 * Metre,
         yMax |-> 1000 * Metre]

Grid == {[x |-> 0, y |-> 0], [x |-> 35 * Metre, y |-> 3 * Metre]}

\* the least, and just less than the most
RandomDraws == {-5000, 4999}

DefaultDraws == {-1000, 999}

\* Rectangle (0.0, 0.0, 100.0, 100.0)
DefaultRectangle == [xMin |-> 0, xMax |-> 0, yMin |-> 100 * Metre,
                     yMax |-> 100 * Metre]

DefaultPlace == {[x |-> 0, y |-> 100 * Metre]}

=============================================================================
