-------------------------- MODULE V2vMobilityModel --------------------------
(***************************************************************************)
(* How vehicles move (model/v2v-mobility-model.cc): walks at constant      *)
(* velocity along x, each with a new speed, thrown back at the borders of  *)
(* a rectangle.                                                            *)
(*                                                                         *)
(* Times are in milliseconds, speeds in cm/s (the speed difference is      *)
(* rounded to these), lengths in units of 10 micrometres (a cm/s times a   *)
(* millisecond).  Scheduling truncates a delay to whole units of time, as  *)
(* ns-3 does to nanoseconds.                                               *)
(*                                                                         *)
(* The velocity along y is 0, or -0 after a rebound, and left out.         *)
(***************************************************************************)
EXTENDS Integers, FiniteSets

CONSTANTS
    Node,
    Bounds,          \* m_bounds
    Mode,            \* m_mode
    ModeTime,        \* m_modeTime
    ModeDistance,    \* m_modeDistance
    Speeds,          \* values m_speed may give
    SpeedVariation,  \* m_speedVariation
    Draws,           \* values of the random variable, in tenths of cm/s
    Places,          \* positions the program sets
    QueryInterval,   \* the time between two looks at the position
    MaxMoves,        \* bound: positions set after the start
    MaxTime          \* bound: the end of the simulation

ASSUME BoundsAssumption ==
    /\ Bounds \in [xMin: Int, xMax: Int, yMin: Int, yMax: Int]
    /\ Places \subseteq [x: Bounds.xMin..Bounds.xMax, y: Bounds.yMin..Bounds.yMax]

ASSUME WalkAssumption ==
    /\ Mode \in {"MODE_DISTANCE", "MODE_TIME"}
    /\ ModeTime \in Nat \ {0}
    /\ ModeDistance \in Nat
    /\ SpeedVariation \in Nat
    /\ Speeds \subseteq Nat \ 0..SpeedVariation
    \* UniformVariable excludes the upper bound
    /\ Draws \subseteq {-10 * SpeedVariation}
                         \cup (-10 * SpeedVariation)..(10 * SpeedVariation - 1)

ASSUME ScheduleAssumption ==
    /\ QueryInterval \in Nat \ {0}
    /\ MaxMoves \in Nat
    /\ MaxTime \in Nat

VARIABLES
    now,             \* the clock of the simulator
    pending,         \* the scheduled events of each vehicle
    m_event,         \* uid; 0 is the default EventId
    position,        \* m_helper: where the vehicle was
    velocity,        \* m_helper: along x
    lastUpdate,      \* m_helper: at this time
    initialized,     \* did ns-3 call DoInitialize?
    moves            \* positions set so far

helper == <<position, velocity, lastUpdate>>

vars == <<now, pending, m_event, helper, initialized, moves>>

-----------------------------------------------------------------------------
(***************************************************************************)
(* ConstantVelocityHelper and Rectangle.                                   *)
(***************************************************************************)
Abs(x) == IF x < 0 THEN -x ELSE x

Clamp(x, low, high) == IF x < low THEN low ELSE IF x > high THEN high ELSE x

\* Update: where a vehicle is now
CurrentX(n) == position[n].x + velocity[n] * (now - lastUpdate[n])

\* UpdateWithBounds
Confined(n) == [x |-> Clamp(CurrentX(n), Bounds.xMin, Bounds.xMax),
                y |-> Clamp(position[n].y, Bounds.yMin, Bounds.yMax)]

IsInside(p) == /\ Bounds.xMin <= p.x /\ p.x <= Bounds.xMax
               /\ Bounds.yMin <= p.y /\ p.y <= Bounds.yMax

FromBorderX(p) == LET toMin == Abs(p.x - Bounds.xMin)
                      toMax == Abs(Bounds.xMax - p.x)
                  IN  IF toMin < toMax THEN toMin ELSE toMax

FromBorderY(p) == LET toMin == Abs(p.y - Bounds.yMin)
                      toMax == Abs(Bounds.yMax - p.y)
                  IN  IF toMin < toMax THEN toMin ELSE toMax

\* GetClosestSide: is it LEFT or RIGHT?
ClosestSideAlongX(p) == FromBorderX(p) < FromBorderY(p)

\* CalculateIntersection, from a place inside, along x
Intersection(v) == IF v >= 0 THEN Bounds.xMax ELSE Bounds.xMin

-----------------------------------------------------------------------------
(***************************************************************************)
(* Events.  A uid is free again when its event is over: only m_event       *)
(* refers to one, and m_event is set whenever an event is scheduled.       *)
(***************************************************************************)
EventType == {"DoInitializePrivate", "Rebound"}

\* left is delayLeft, the argument of Rebound
Event == [uid: Nat \ {0}, type: EventType, due: Nat, left: Nat]

Due(n, type) == {e \in pending[n] : e.type = type /\ e.due <= now}

Tracked(n, uid) == {e \in pending[n] : e.uid = uid}

FreeUid(n, done) == CHOOSE uid \in 1..(Cardinality(pending[n]) + 1) :
                       \A e \in pending[n] \ done : e.uid /= uid

\* m_event = Simulator::Schedule; the events in done ran or were cancelled
Simulate(n, done, type, due, left) ==
    /\ pending' = [pending EXCEPT ![n] = (@ \ done) \cup
          {[uid |-> FreeUid(n, done), type |-> type, due |-> due, left |-> left]}]
    /\ m_event' = [m_event EXCEPT ![n] = FreeUid(n, done)]

-----------------------------------------------------------------------------
(***************************************************************************)
(* The walk.                                                               *)
(***************************************************************************)

\* mutant: m_event goes on
SupersededNothing(n) == {}

\* m_event.Cancel (), Simulator::Remove (m_event)
Superseded(n) == Tracked(n, m_event[n])

\* mutant: the way from the origin instead of from the vehicle
DelayFromOrigin(x, v) == Abs(Intersection(v)) \div Abs(v)

\* the time until the border
DelayToBorder(x, v) == Abs(Intersection(v) - x) \div Abs(v)

\* mutant: the walk starts anew
LeftOfWholeWalk(left, delay) == left

\* mutant: the other way round
LeftReversed(left, delay) == delay - left

LeftAfter(left, delay) == left - delay

\* a walk of vehicle n from place p at velocity v, for delayLeft
DoWalk(n, done, p, v, delayLeft) ==
    LET delay == DelayToBorder(p.x, v)
        over  == done \cup Superseded(n)
    IN  IF IsInside([p EXCEPT !.x = @ + v * delayLeft])
        THEN Simulate(n, over, "DoInitializePrivate", now + delayLeft, 0)
        ELSE Simulate(n, over, "Rebound", now + delay, LeftAfter(delayLeft, delay))

\* mutant: away from zero
AwayFromZero(draw) ==
    IF draw >= 0 THEN (draw + 5 + 9) \div 10 ELSE - ((- draw + 5 + 9) \div 10)

\* ceil (r * 100 + 0.5): draw is r in tenths of cm/s
SpeedDifference(draw) == - ((- draw - 5) \div 10)

Drive(n, p, v) ==
    /\ position' = [position EXCEPT ![n] = p]
    /\ velocity' = [velocity EXCEPT ![n] = v]
    /\ lastUpdate' = [lastUpdate EXCEPT ![n] = now]

DelayLeft(speed) ==
    IF Mode = "MODE_TIME" THEN ModeTime ELSE ModeDistance \div speed

\* DoInitializePrivate: direction 1.0, whatever the walk before
NewWalk(n, done) ==
    \E speed \in Speeds, draw \in Draws :
        LET here == [position[n] EXCEPT !.x = CurrentX(n)]
            v    == speed + SpeedDifference(draw)
        IN  /\ Drive(n, here, v)
            /\ DoWalk(n, done, here, v, DelayLeft(speed))

-----------------------------------------------------------------------------
(***************************************************************************)
(* Vehicles are placed before the simulation starts, which schedules a     *)
(* walk; DoInitialize starts one, too.                                     *)
(***************************************************************************)
Init ==
    /\ now = 0
    /\ pending = [n \in Node |->
          {[uid |-> 1, type |-> "DoInitializePrivate", due |-> 0, left |-> 0]}]
    /\ m_event = [n \in Node |-> 1]
    /\ position \in [Node -> Places]
    /\ velocity = [n \in Node |-> 0]
    /\ lastUpdate = [n \in Node |-> 0]
    /\ initialized = [n \in Node |-> FALSE]
    /\ moves = 0

DoInitialize(n) ==
    /\ ~ initialized[n]
    /\ initialized' = [initialized EXCEPT ![n] = TRUE]
    /\ NewWalk(n, {})
    /\ UNCHANGED <<now, moves>>

DoInitializePrivate(n) ==
    /\ \E e \in Due(n, "DoInitializePrivate") : NewWalk(n, {e})
    /\ UNCHANGED <<now, initialized, moves>>

\* mutant: as the sides were meant for y
TurnedBack(p, v) == IF ClosestSideAlongX(p) THEN v ELSE -v

Turned(p, v) == IF ClosestSideAlongX(p) THEN -v ELSE v

Rebound(n) ==
    /\ \E e \in Due(n, "Rebound") :
          LET here == Confined(n)
              v    == Turned(here, velocity[n])
          IN  Drive(n, here, v) /\ DoWalk(n, {e}, here, v, e.left)
    /\ UNCHANGED <<now, initialized, moves>>

\* The velocity of a vehicle that is placed is 0, until its event runs.
DoSetPosition(n) ==
    /\ moves < MaxMoves
    /\ moves' = moves + 1
    /\ \E p \in Places : Drive(n, p, 0)
    /\ Simulate(n, Superseded(n), "DoInitializePrivate", now, 0)
    /\ UNCHANGED <<now, initialized>>

\* somebody asks for the position, which is cut to the bounds
DoGetPosition(n) ==
    /\ lastUpdate[n] /= now
    /\ Drive(n, Confined(n), velocity[n])
    /\ UNCHANGED <<now, pending, m_event, initialized, moves>>

\* the next event, or the next time somebody looks
Tick ==
    LET next == {e.due : e \in UNION {pending[n] : n \in Node}}
                   \cup {QueryInterval * (now \div QueryInterval + 1)}
    IN  /\ \A n \in Node : initialized[n]
        /\ \E t \in next :
              /\ \A u \in next : t <= u
              /\ now < t /\ t <= MaxTime
              /\ now' = t
        /\ UNCHANGED <<pending, m_event, helper, initialized, moves>>

Next ==
    \/ \E n \in Node : \/ DoInitialize(n) \/ DoInitializePrivate(n)
                       \/ Rebound(n) \/ DoSetPosition(n) \/ DoGetPosition(n)
    \/ Tick

Spec == Init /\ [][Next]_vars

\* The simulator runs until its time is over.
FairSpec == Spec /\ WF_vars(Next)

-----------------------------------------------------------------------------
\* No walk is scheduled into the past or has less than nothing left.
TypeOK ==
    /\ now \in Nat
    /\ pending \in [Node -> SUBSET Event]
    /\ m_event \in [Node -> Nat \ {0}]
    /\ position \in [Node -> [x: Int, y: Int]]
    /\ velocity \in [Node -> Int]
    /\ lastUpdate \in [Node -> 0..now]
    /\ initialized \in [Node -> BOOLEAN]
    /\ moves \in 0..MaxMoves

\* A vehicle is always within its bounds, before any look at it cuts the
\* position to them: the delays DoWalk computes are never too long.
WithinBounds ==
    \A n \in Node : IsInside([position[n] EXCEPT !.x = CurrentX(n)])

\* One chain of walks per vehicle, the one m_event would cancel, whether it
\* began in DoInitialize or DoSetPosition; and no vehicle stands still.
OneWalk ==
    \A n \in Node :
        \E e \in pending[n] :
            /\ pending[n] = {e}
            /\ e.uid = m_event[n]
            /\ velocity[n] = 0 => e.due = now

\* Vehicles that drive the same way, at the same mean speed, differ by at
\* most twice the variation: with the 5 m/s of the example, by no more than
\* the 10 m/s up to which IsStable takes them for stable neighbours.  The
\* rounding of the speed difference moves its range without widening it.
SimilarSpeed ==
    \A n, m \in Node : velocity[n] > 0 /\ velocity[m] > 0 =>
        Abs(velocity[n] - velocity[m]) <= 2 * SpeedVariation

\* when the walk will be over
End(e) == e.due + e.left

\* However often a walk is thrown back, it ends when it was to end.
WalkKeepsItsEnd ==
    [][\A n \in Node : \A e \in pending[n], f \in pending'[n] :
          e.type = "Rebound" /\ moves' = moves => End(f) = End(e)]_vars

Walks(n, type) == \E e \in pending[n] : e.type = type

\* There is time to see how it ends.
Early(n) == \A e \in pending[n] : End(e) <= MaxTime

\* "Change current direction and speed after moving for this delay" (the
\* attribute Time): a vehicle is not thrown back for ever, it comes to the
\* end of its walk.
WalkEnds ==
    \A n \in Node :
        Walks(n, "Rebound") /\ Early(n) ~> Walks(n, "DoInitializePrivate")

=============================================================================
