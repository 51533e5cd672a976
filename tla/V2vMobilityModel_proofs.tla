----------------------- MODULE V2vMobilityModel_proofs -----------------------
(***************************************************************************)
(* Proofs about V2vMobilityModel, for every rectangle, mode, set of speeds *)
(* and choice of bounds that the assumptions allow.                        *)
(***************************************************************************)
EXTENDS V2vMobilityModel, FiniteSetTheorems, TLAPS

-----------------------------------------------------------------------------
(***************************************************************************)
(* Arithmetic of delays and distances.                                     *)
(***************************************************************************)
LEMMA Quotient ==
  ASSUME NEW a \in Nat, NEW b \in Nat \ {0}
  PROVE  /\ a \div b \in Nat
         /\ b * (a \div b) <= a
         /\ a < b * (a \div b) + b
  OBVIOUS

LEMMA Scaled ==
  ASSUME NEW v \in Nat, NEW a \in Nat, NEW b \in Nat, a <= b
  PROVE  v * a \in Nat /\ v * b \in Nat /\ v * a <= v * b
<1>1. PICK d \in Nat : b = a + d
  <2>1. b - a \in Nat /\ b = a + (b - a)
    OBVIOUS
  <2> QED
    BY <2>1
<1>2. v * b = v * a + v * d
  BY <1>1
<1>3. v * a \in Nat /\ v * d \in Nat
  OBVIOUS
<1> QED
  BY <1>2, <1>3

\* within the bounds along x
InX(x) == Bounds.xMin <= x /\ x <= Bounds.xMax

\* On a straight way between two places inside, a vehicle is inside.
LEMMA Between ==
  ASSUME NEW x \in Int, NEW v \in Int, NEW a \in Nat, NEW b \in Nat, a <= b,
         InX(x), InX(x + v * b)
  PROVE  InX(x + v * a)
<1>1. Bounds.xMin \in Int /\ Bounds.xMax \in Int
  BY BoundsAssumption
<1>2. CASE v >= 0
  <2>1. v * a \in Nat /\ v * b \in Nat /\ v * a <= v * b
    BY <1>2, Scaled
  <2> QED
    BY <1>1, <2>1 DEF InX
<1>3. CASE v < 0
  <2>1. (-v) * a \in Nat /\ (-v) * b \in Nat /\ (-v) * a <= (-v) * b
    <3>1. -v \in Nat
      BY <1>3
    <3> QED
      BY <3>1, Scaled
  <2>2. (-v) * a = -(v * a) /\ (-v) * b = -(v * b) /\ v * a \in Int /\ v * b \in Int
    OBVIOUS
  <2> QED
    BY <1>1, <2>1, <2>2 DEF InX
<1> QED
  BY <1>2, <1>3

\* A walk that would leave the bounds meets the border before its time is
\* over, and the delay DoWalk computes does not take it across.
LEMMA BorderIsMet ==
  ASSUME NEW x \in Int, NEW v \in Int \ {0}, NEW left \in Nat,
         InX(x), ~ InX(x + v * left)
  PROVE  /\ DelayToBorder(x, v) \in Nat
         /\ DelayToBorder(x, v) <= left
         /\ InX(x + v * DelayToBorder(x, v))
<1>1. Bounds.xMin \in Int /\ Bounds.xMax \in Int
  BY BoundsAssumption
<1>2. CASE v > 0
  <2> DEFINE way == Bounds.xMax - x
             delay == way \div v
  <2>1. way \in Nat /\ v \in Nat \ {0}
    BY <1>1, <1>2 DEF InX
  <2>2. DelayToBorder(x, v) = delay
    BY <1>2, <2>1 DEF DelayToBorder, Intersection, Abs
  <2> HIDE DEF way
  <2>3. delay \in Nat /\ v * delay <= way /\ way < v * delay + v
    BY <2>1, Quotient
  <2> HIDE DEF delay
  <2>4. v * left \in Nat /\ v * delay \in Nat
    BY <2>1, <2>3, Scaled
  <2>5. way < v * left
    BY <1>1, <2>4 DEF way, InX
  <2>6. delay <= left
    <3>1. SUFFICES ASSUME left < delay PROVE FALSE
      BY <2>3
    <3>2. v * left <= v * delay
      BY <2>1, <2>3, <3>1, Scaled
    <3> QED
      BY <2>1, <2>3, <2>4, <2>5, <3>2
  <2>7. InX(x + v * delay)
    BY <1>1, <2>3, <2>4 DEF way, InX
  <2> QED
    BY <2>2, <2>3, <2>6, <2>7
<1>3. CASE v < 0
  <2> DEFINE way == x - Bounds.xMin
             w == -v
             delay == way \div w
  <2>1. way \in Nat /\ w \in Nat \ {0}
    BY <1>1, <1>3 DEF InX
  <2>2. DelayToBorder(x, v) = delay
    <3>1. Abs(Intersection(v) - x) = way /\ Abs(v) = w
      BY <1>1, <1>3, <2>1 DEF Intersection, Abs
    <3> QED
      BY <3>1 DEF DelayToBorder
  <2>3. \A d \in Nat : v * d = -(w * d)
    OBVIOUS
  <2> HIDE DEF way, w
  <2>4. delay \in Nat /\ w * delay <= way /\ way < w * delay + w
    BY <2>1, Quotient
  <2> HIDE DEF delay
  <2>5. w * left \in Nat /\ w * delay \in Nat
    BY <2>1, <2>4, Scaled
  <2>6. v * left = -(w * left) /\ v * delay = -(w * delay)
    BY <2>3, <2>4
  <2>7. way < w * left
    BY <1>1, <2>5, <2>6 DEF way, InX
  <2>8. delay <= left
    <3>1. SUFFICES ASSUME left < delay PROVE FALSE
      BY <2>4
    <3>2. w * left <= w * delay
      BY <2>1, <2>4, <3>1, Scaled
    <3> QED
      BY <2>1, <2>4, <2>5, <2>7, <3>2
  <2>9. InX(x + v * delay)
    BY <1>1, <2>4, <2>5, <2>6 DEF way, InX
  <2> QED
    BY <2>2, <2>4, <2>8, <2>9
<1> QED
  BY <1>2, <1>3

\* The rounded difference of the speed stays in a range of twice the
\* variation.
LEMMA DifferenceRange ==
  ASSUME NEW draw \in Draws
  PROVE  SpeedDifference(draw) \in (1 - SpeedVariation)..(SpeedVariation + 1)
<1>1. /\ SpeedVariation \in Nat /\ draw \in Int
      /\ -10 * SpeedVariation <= draw
      /\ draw < 10 * SpeedVariation \/ draw = -10 * SpeedVariation
  BY WalkAssumption
<1> DEFINE q == (- draw - 5) \div 10
<1>2. q \in Int /\ 10 * q <= - draw - 5 /\ - draw - 5 < 10 * q + 10
  BY <1>1
<1>3. SpeedDifference(draw) = -q
  BY DEF SpeedDifference
<1> HIDE DEF q
<1> QED
  BY <1>1, <1>2, <1>3

-----------------------------------------------------------------------------
(***************************************************************************)
(* The invariant.  WithinBounds and OneWalk hold because a vehicle has one *)
(* event, m_event, which is not over, and is inside now and at that event; *)
(* only a vehicle just placed stands still, until its event runs.          *)
(***************************************************************************)
Walking(n) ==
    \E e \in pending[n] :
        /\ pending[n] = {e}
        /\ e.uid = m_event[n]
        /\ now <= e.due
        /\ velocity[n] = 0 => e.due = now /\ e.type = "DoInitializePrivate"
        /\ IsInside(position[n])
        /\ InX(position[n].x + velocity[n] * (e.due - lastUpdate[n]))

WalkInv == TypeOK /\ \A n \in Node : Walking(n)

\* f is the one event of n from now on
Replaces(n, f) ==
    /\ pending' = [pending EXCEPT ![n] = {f}]
    /\ m_event' = [m_event EXCEPT ![n] = f.uid]

\* Rescheduling: the only event of a vehicle is replaced by one with a uid.
LEMMA OneEventLeft ==
  ASSUME TypeOK, NEW n \in Node, Walking(n),
         NEW over, Superseded(n) \subseteq over,
         NEW type \in EventType, NEW due \in Nat, NEW left \in Nat,
         Simulate(n, over, type, due, left)
  PROVE  \E f \in Event :
            /\ f.type = type /\ f.due = due /\ f.left = left
            /\ Replaces(n, f)
<1> DEFINE uid == FreeUid(n, over)
           f == [uid |-> uid, type |-> type, due |-> due, left |-> left]
<1>1. PICK e \in pending[n] : pending[n] = {e} /\ e.uid = m_event[n]
  BY DEF Walking
<1>2. pending[n] \ over = {}
  BY <1>1 DEF Superseded, Tracked
<1>3. uid \in Nat \ {0}
  <2>1. Cardinality(pending[n]) = 1
    BY <1>1, FS_Singleton
  <2>2. uid = CHOOSE u \in 1..2 : \A g \in {} : g.uid /= u
    <3>1. uid = CHOOSE u \in 1..(Cardinality(pending[n]) + 1) :
                   \A g \in pending[n] \ over : g.uid /= u
      BY DEF FreeUid
    <3> QED
      BY <1>2, <2>1, <3>1
  <2>3. \E u \in 1..2 : \A g \in {} : g.uid /= u
    OBVIOUS
  <2>4. uid \in 1..2
    BY <2>2, <2>3
  <2> QED
    BY <2>4
<1>4. /\ pending' = [pending EXCEPT ![n] = (@ \ over) \cup {f}]
      /\ m_event' = [m_event EXCEPT ![n] = uid]
  BY DEF Simulate
<1> HIDE DEF uid
<1>5. f \in Event
  BY <1>3 DEF Event
<1>6. pending' = [pending EXCEPT ![n] = {f}]
  BY <1>2, <1>4
<1> QED
  BY <1>4, <1>5, <1>6 DEF Replaces

\* A new walk ends inside, or at the border with the rest of its time left.
LEMMA WalkScheduled ==
  ASSUME TypeOK, NEW n \in Node, Walking(n), NEW done,
         NEW p \in [x: Int, y: Int], IsInside(p), NEW v \in Int \ {0},
         NEW left \in Nat, DoWalk(n, done, p, v, left)
  PROVE  \E f \in Event :
            /\ Replaces(n, f)
            /\ now <= f.due
            /\ End(f) = now + left
            /\ InX(p.x + v * (f.due - now))
<1> DEFINE delay == DelayToBorder(p.x, v)
<1>1. now \in Nat /\ p.x \in Int /\ InX(p.x)
  BY DEF TypeOK, IsInside, InX
<1>2. IsInside([p EXCEPT !.x = @ + v * left]) <=> InX(p.x + v * left)
  BY DEF IsInside, InX
<1> DEFINE over == done \cup Superseded(n)
<1>3. \A type \in EventType, due \in Nat, rest \in Nat :
        Simulate(n, over, type, due, rest) =>
        \E f \in Event :
            /\ f.due = due /\ f.left = rest
            /\ Replaces(n, f)
  <2>1. Superseded(n) \subseteq over
    OBVIOUS
  <2> HIDE DEF over
  <2> QED
    BY <2>1, OneEventLeft
<1>4. {"DoInitializePrivate", "Rebound"} = EventType
  BY DEF EventType
<1>5. CASE InX(p.x + v * left)
  <2> DEFINE due == now + left
  <2>1. Simulate(n, done \cup Superseded(n), "DoInitializePrivate", due, 0)
    BY <1>2, <1>5 DEF DoWalk
  <2>2. due \in Nat /\ due - now = left /\ now <= due
    BY <1>1
  <2> HIDE DEF due
  <2>3. PICK f \in Event :
          /\ f.due = due /\ f.left = 0
          /\ Replaces(n, f)
    BY <1>3, <1>4, <2>1, <2>2
  <2>4. End(f) = now + left
    BY <1>1, <2>2, <2>3 DEF End, due
  <2> QED
    BY <1>5, <2>2, <2>3, <2>4
<1>6. CASE ~ InX(p.x + v * left)
  <2> DEFINE due == now + delay
             rest == LeftAfter(left, delay)
  <2>1. delay \in Nat /\ delay <= left /\ InX(p.x + v * delay)
    BY <1>1, <1>6, BorderIsMet
  <2>2. Simulate(n, done \cup Superseded(n), "Rebound", due, rest)
    BY <1>2, <1>6 DEF DoWalk
  <2> HIDE DEF delay
  <2>3. /\ due \in Nat /\ due - now = delay /\ now <= due
        /\ rest \in Nat /\ due + rest = now + left
    BY <1>1, <2>1 DEF LeftAfter
  <2> HIDE DEF due, rest
  <2>4. PICK f \in Event :
          /\ f.due = due /\ f.left = rest
          /\ Replaces(n, f)
    BY <1>3, <1>4, <2>2, <2>3
  <2> QED
    BY <2>1, <2>3, <2>4 DEF End
<1> QED
  BY <1>5, <1>6

\* Between two events a vehicle is inside: cutting its position changes
\* nothing.
LEMMA InsideNow ==
  ASSUME TypeOK, NEW n \in Node, Walking(n)
  PROVE  /\ CurrentX(n) \in Int
         /\ InX(CurrentX(n))
         /\ [position[n] EXCEPT !.x = CurrentX(n)] \in [x: Int, y: Int]
         /\ IsInside([position[n] EXCEPT !.x = CurrentX(n)])
         /\ Confined(n) = [position[n] EXCEPT !.x = CurrentX(n)]
<1>1. PICK e \in pending[n] :
        /\ now <= e.due
        /\ IsInside(position[n])
        /\ InX(position[n].x + velocity[n] * (e.due - lastUpdate[n]))
  BY DEF Walking
<1>2. /\ now \in Nat /\ e.due \in Nat /\ lastUpdate[n] \in 0..now
      /\ position[n] \in [x: Int, y: Int] /\ velocity[n] \in Int
  BY DEF TypeOK, Event
<1> DEFINE a == now - lastUpdate[n]
           b == e.due - lastUpdate[n]
           here == [position[n] EXCEPT !.x = CurrentX(n)]
<1>3. a \in Nat /\ b \in Nat /\ a <= b
  BY <1>1, <1>2
<1>4. InX(position[n].x)
  BY <1>1 DEF IsInside, InX
<1>5. CurrentX(n) = position[n].x + velocity[n] * a
  BY DEF CurrentX
<1> HIDE DEF a, b
<1>6. InX(position[n].x + velocity[n] * b)
  BY <1>1 DEF b
<1>7. InX(CurrentX(n)) /\ CurrentX(n) \in Int
  <2> DEFINE x == position[n].x
             v == velocity[n]
  <2>1. x \in Int /\ v \in Int
    BY <1>2
  <2>2. CurrentX(n) = x + v * a /\ InX(x) /\ InX(x + v * b)
    BY <1>4, <1>5, <1>6
  <2> HIDE DEF x, v
  <2>3. InX(x + v * a)
    BY <1>3, <2>1, <2>2, Between
  <2>4. x + v * a \in Int
    BY <1>3, <2>1
  <2> QED
    BY <2>2, <2>3, <2>4
<1>8. here \in [x: Int, y: Int] /\ here.x = CurrentX(n) /\ here.y = position[n].y
  BY <1>2, <1>7
<1>9. IsInside(here)
  BY <1>1, <1>7, <1>8 DEF IsInside, InX
<1>10. Confined(n) = here
  <2>1. Bounds \in [xMin: Int, xMax: Int, yMin: Int, yMax: Int]
    BY BoundsAssumption
  <2>2. Clamp(CurrentX(n), Bounds.xMin, Bounds.xMax) = CurrentX(n)
    BY <1>7, <2>1 DEF Clamp, InX
  <2>3. Clamp(position[n].y, Bounds.yMin, Bounds.yMax) = position[n].y
    BY <1>1, <1>2, <2>1 DEF Clamp, IsInside
  <2> QED
    BY <1>2, <2>2, <2>3 DEF Confined
<1> QED
  BY <1>7, <1>8, <1>9, <1>10

\* A vehicle that is placed or sets out keeps the invariant, its own part and
\* everybody else's.
LEMMA DriveKeepsInv ==
  ASSUME WalkInv, NEW n \in Node, NEW p \in [x: Int, y: Int], IsInside(p),
         NEW v \in Int, Drive(n, p, v), NEW f \in Event, Replaces(n, f),
         now' = now, now <= f.due,
         v = 0 => f.due = now /\ f.type = "DoInitializePrivate",
         InX(p.x + v * (f.due - now)),
         initialized' \in [Node -> BOOLEAN], moves' \in 0..MaxMoves
  PROVE  WalkInv'
<1>1. now \in Nat /\ now \in 0..now
  BY DEF WalkInv, TypeOK
<1>2. f.uid \in Nat \ {0}
  BY DEF Event
<1>3. TypeOK'
  BY <1>1, <1>2 DEF WalkInv, TypeOK, Drive, Replaces
<1>4. /\ pending'[n] = {f} /\ m_event'[n] = f.uid
      /\ position'[n] = p /\ velocity'[n] = v /\ lastUpdate'[n] = now
  BY DEF WalkInv, TypeOK, Drive, Replaces
<1>5. Walking(n)'
  BY <1>4 DEF Walking, IsInside, InX
<1>6. ASSUME NEW m \in Node \ {n} PROVE Walking(m)'
  <2>1. /\ pending'[m] = pending[m] /\ m_event'[m] = m_event[m]
        /\ position'[m] = position[m] /\ velocity'[m] = velocity[m]
        /\ lastUpdate'[m] = lastUpdate[m]
    BY DEF WalkInv, TypeOK, Drive, Replaces
  <2> QED
    BY <2>1 DEF WalkInv, Walking, IsInside, InX
<1> QED
  BY <1>3, <1>5, <1>6 DEF WalkInv

\* A new walk sets out from where the vehicle is, at a speed of its own.
LEMMA NewWalkSetsOut ==
  ASSUME WalkInv, NEW n \in Node, NEW done, NewWalk(n, done)
  PROVE  \E speed \in Speeds, d \in (1 - SpeedVariation)..(SpeedVariation + 1),
            p \in [x: Int, y: Int], f \in Event :
            /\ speed + d > 0
            /\ DelayLeft(speed) \in Nat
            /\ IsInside(p)
            /\ Drive(n, p, speed + d)
            /\ Replaces(n, f)
            /\ now <= f.due
            /\ End(f) = now + DelayLeft(speed)
            /\ InX(p.x + (speed + d) * (f.due - now))
<1> DEFINE here == [position[n] EXCEPT !.x = CurrentX(n)]
<1>1. PICK speed \in Speeds, draw \in Draws :
        /\ Drive(n, here, speed + SpeedDifference(draw))
        /\ DoWalk(n, done, here, speed + SpeedDifference(draw), DelayLeft(speed))
  BY DEF NewWalk
<1> DEFINE d == SpeedDifference(draw)
           left == DelayLeft(speed)
<1>2. d \in (1 - SpeedVariation)..(SpeedVariation + 1)
  BY DifferenceRange
<1>3. SpeedVariation \in Nat /\ speed \in Nat /\ speed > SpeedVariation
  BY WalkAssumption
<1>4. left \in Nat
  <2>1. speed \in Nat \ {0}
    BY <1>3
  <2>2. ModeTime \in Nat /\ ModeDistance \in Nat
    BY WalkAssumption
  <2> QED
    BY <2>1, <2>2, Quotient DEF DelayLeft
<1>5. here \in [x: Int, y: Int] /\ IsInside(here)
  BY InsideNow DEF WalkInv
<1>6. Drive(n, here, speed + d) /\ DoWalk(n, done, here, speed + d, left)
  BY <1>1
<1> HIDE DEF here, d, left
<1>7. d \in Int /\ speed + d > 0 /\ speed + d \in Int \ {0}
  BY <1>2, <1>3
<1>8. PICK f \in Event :
        /\ Replaces(n, f)
        /\ now <= f.due
        /\ End(f) = now + left
        /\ InX(here.x + (speed + d) * (f.due - now))
  BY <1>4, <1>5, <1>6, <1>7, WalkScheduled DEF WalkInv
<1> QED
  BY <1>2, <1>4, <1>5, <1>6, <1>7, <1>8 DEF left

LEMMA NewWalkKeepsInv ==
  ASSUME WalkInv, NEW n \in Node, NEW done, NewWalk(n, done), now' = now,
         initialized' \in [Node -> BOOLEAN], moves' = moves
  PROVE  WalkInv'
<1>1. PICK speed \in Speeds, d \in (1 - SpeedVariation)..(SpeedVariation + 1),
           p \in [x: Int, y: Int], f \in Event :
        /\ speed + d > 0
        /\ IsInside(p)
        /\ Drive(n, p, speed + d)
        /\ Replaces(n, f)
        /\ now <= f.due
        /\ InX(p.x + (speed + d) * (f.due - now))
  BY NewWalkSetsOut
<1> DEFINE v == speed + d
<1>2. v \in Int /\ v /= 0
  BY <1>1, WalkAssumption
<1>3. moves' \in 0..MaxMoves
  BY DEF WalkInv, TypeOK
<1>4. IsInside(p) /\ Drive(n, p, v) /\ InX(p.x + v * (f.due - now))
  BY <1>1
<1> HIDE DEF v
<1> QED
  BY <1>1, <1>2, <1>3, <1>4, DriveKeepsInv

\* A walk that is thrown back keeps the speed, and its end.
LEMMA ReboundSetsOut ==
  ASSUME WalkInv, NEW n \in Node, Rebound(n)
  PROVE  \E v \in {velocity[n], -velocity[n]}, p \in [x: Int, y: Int],
            f \in Event, e \in pending[n] :
            /\ v \in Int \ {0}
            /\ IsInside(p)
            /\ Drive(n, p, v)
            /\ Replaces(n, f)
            /\ now <= f.due
            /\ End(f) = End(e)
            /\ InX(p.x + v * (f.due - now))
<1> DEFINE here == Confined(n)
           v == Turned(here, velocity[n])
<1>1. PICK e \in Due(n, "Rebound") :
        Drive(n, here, v) /\ DoWalk(n, {e}, here, v, e.left)
  BY DEF Rebound
<1>2. e \in pending[n] /\ e.type = "Rebound" /\ e.due <= now
  BY DEF Due
<1>3. now <= e.due /\ velocity[n] /= 0
  BY <1>2 DEF WalkInv, Walking
<1>4. /\ velocity[n] \in Int /\ e.left \in Nat /\ e.due \in Nat /\ now \in Nat
      /\ Walking(n) /\ TypeOK
  BY <1>2 DEF WalkInv, TypeOK, Event
<1>5. v \in {velocity[n], -velocity[n]}
  BY DEF Turned
<1>6. here \in [x: Int, y: Int] /\ IsInside(here)
  BY <1>4, InsideNow
<1> HIDE DEF v, here
<1>7. v \in Int \ {0}
  BY <1>3, <1>4, <1>5
<1>8. PICK f \in Event :
        /\ Replaces(n, f)
        /\ now <= f.due
        /\ End(f) = now + e.left
        /\ InX(here.x + v * (f.due - now))
  BY <1>1, <1>4, <1>6, <1>7, WalkScheduled
<1>9. End(f) = End(e)
  BY <1>2, <1>3, <1>4, <1>8 DEF End
<1> QED
  BY <1>1, <1>2, <1>5, <1>6, <1>7, <1>8, <1>9

LEMMA ReboundKeepsInv ==
  ASSUME WalkInv, NEW n \in Node, Rebound(n)
  PROVE  WalkInv'
<1>1. PICK v \in {velocity[n], -velocity[n]}, p \in [x: Int, y: Int], f \in Event :
        /\ v \in Int \ {0}
        /\ IsInside(p)
        /\ Drive(n, p, v)
        /\ Replaces(n, f)
        /\ now <= f.due
        /\ InX(p.x + v * (f.due - now))
  BY ReboundSetsOut
<1>2. /\ now' = now /\ moves' \in 0..MaxMoves
      /\ initialized' \in [Node -> BOOLEAN]
  BY DEF Rebound, WalkInv, TypeOK
<1> QED
  BY <1>1, <1>2, DriveKeepsInv

LEMMA DoSetPositionKeepsInv ==
  ASSUME WalkInv, NEW n \in Node, DoSetPosition(n)
  PROVE  WalkInv'
<1>1. PICK p \in Places : Drive(n, p, 0)
  BY DEF DoSetPosition
<1>2. p \in [x: Int, y: Int] /\ IsInside(p)
  <2>1. Bounds \in [xMin: Int, xMax: Int, yMin: Int, yMax: Int]
    BY BoundsAssumption
  <2>2. p \in [x: Bounds.xMin..Bounds.xMax, y: Bounds.yMin..Bounds.yMax]
    BY BoundsAssumption
  <2> QED
    BY <2>1, <2>2 DEF IsInside
<1>3. now \in Nat /\ 0 \in Nat /\ "DoInitializePrivate" \in EventType
      /\ Superseded(n) \subseteq Superseded(n) /\ TypeOK /\ Walking(n)
  BY DEF WalkInv, TypeOK, EventType
<1>4. Simulate(n, Superseded(n), "DoInitializePrivate", now, 0)
  BY DEF DoSetPosition
<1>5. PICK f \in Event : /\ f.type = "DoInitializePrivate" /\ f.due = now
                         /\ Replaces(n, f)
  BY <1>3, <1>4, OneEventLeft
<1>6. now <= f.due /\ InX(p.x + 0 * (f.due - now))
  BY <1>2, <1>3, <1>5 DEF IsInside, InX
<1>7. /\ now' = now /\ moves' \in 0..MaxMoves
      /\ initialized' \in [Node -> BOOLEAN]
  BY ScheduleAssumption DEF DoSetPosition, WalkInv, TypeOK
<1> QED
  BY <1>1, <1>2, <1>5, <1>6, <1>7, DriveKeepsInv

LEMMA DoGetPositionKeepsInv ==
  ASSUME WalkInv, NEW n \in Node, DoGetPosition(n)
  PROVE  WalkInv'
<1> DEFINE here == [position[n] EXCEPT !.x = CurrentX(n)]
<1>1. /\ here \in [x: Int, y: Int] /\ IsInside(here) /\ Confined(n) = here
      /\ here.x = CurrentX(n)
  BY InsideNow DEF WalkInv, TypeOK
<1>2. Drive(n, here, velocity[n])
      /\ UNCHANGED <<now, pending, m_event, initialized, moves>>
  BY <1>1 DEF DoGetPosition
<1>3. PICK e \in pending[n] :
        /\ pending[n] = {e}
        /\ e.uid = m_event[n]
        /\ now <= e.due
        /\ velocity[n] = 0 => e.due = now /\ e.type = "DoInitializePrivate"
        /\ InX(position[n].x + velocity[n] * (e.due - lastUpdate[n]))
  BY DEF WalkInv, Walking
<1>4. /\ now \in Nat /\ e.due \in Nat /\ lastUpdate[n] \in 0..now
      /\ position[n].x \in Int /\ velocity[n] \in Int /\ e \in Event
  BY DEF WalkInv, TypeOK, Event
<1>5. here.x + velocity[n] * (e.due - now)
        = position[n].x + velocity[n] * (e.due - lastUpdate[n])
  BY <1>1, <1>4 DEF CurrentX
<1> HIDE DEF here
<1>6. Replaces(n, e)
  BY <1>2, <1>3 DEF WalkInv, TypeOK, Replaces
<1>7. initialized' \in [Node -> BOOLEAN] /\ moves' \in 0..MaxMoves
  BY <1>2 DEF WalkInv, TypeOK
<1>8. InX(here.x + velocity[n] * (e.due - now))
  BY <1>3, <1>5
<1> QED
  BY <1>1, <1>2, <1>3, <1>4, <1>6, <1>7, <1>8, DriveKeepsInv

LEMMA TickKeepsInv == ASSUME WalkInv, Tick PROVE WalkInv'
<1>1. UNCHANGED <<pending, m_event, position, velocity, lastUpdate, initialized,
                  moves>>
  BY DEF Tick, helper
<1> DEFINE dues == {e.due : e \in UNION {pending[n] : n \in Node}}
           look == QueryInterval * (now \div QueryInterval + 1)
<1>2. PICK t \in dues \cup {look} :
        (\A u \in dues \cup {look} : t <= u) /\ now < t /\ now' = t
  BY DEF Tick
<1>3. t \in Nat
  <2>1. dues \subseteq Nat
    BY DEF WalkInv, TypeOK, Event
  <2>2. look \in Nat
    <3>1. now \in Nat /\ QueryInterval \in Nat \ {0}
      BY ScheduleAssumption DEF WalkInv, TypeOK
    <3>2. now \div QueryInterval \in Nat
      BY <3>1, Quotient
    <3>3. now \div QueryInterval + 1 \in Nat
      BY <3>2
    <3> QED
      BY <3>1, <3>3, Scaled
  <2> HIDE DEF dues, look
  <2> QED
    BY <2>1, <2>2
<1>4. ASSUME NEW n \in Node PROVE Walking(n)'
  <2>1. \A e \in pending[n] : now' <= e.due /\ now < e.due
    <3>1. \A e \in pending[n] : e.due \in dues /\ e.due \in Nat
      BY DEF WalkInv, TypeOK, Event
    <3>2. now \in Nat
      BY DEF WalkInv, TypeOK
    <3> HIDE DEF dues, look
    <3> QED
      BY <1>2, <1>3, <3>1, <3>2
  <2>2. PICK e \in pending[n] :
          /\ pending[n] = {e}
          /\ e.uid = m_event[n]
          /\ velocity[n] = 0 => e.due = now /\ e.type = "DoInitializePrivate"
          /\ IsInside(position[n])
          /\ InX(position[n].x + velocity[n] * (e.due - lastUpdate[n]))
    BY DEF WalkInv, Walking
  <2>3. velocity[n] /= 0
    <3>1. e.due \in Nat /\ now \in Nat
      BY DEF WalkInv, TypeOK, Event
    <3> QED
      BY <2>1, <2>2, <3>1
  <2> QED
    BY <1>1, <2>1, <2>2, <2>3 DEF Walking, IsInside, InX
<1>5. lastUpdate' \in [Node -> 0..now']
  <2>1. now \in Nat /\ lastUpdate \in [Node -> 0..now]
    BY DEF WalkInv, TypeOK
  <2>2. 0..now \subseteq 0..t
    BY <1>2, <1>3, <2>1
  <2> QED
    BY <1>1, <1>2, <2>1, <2>2
<1>6. TypeOK'
  BY <1>1, <1>2, <1>3, <1>5 DEF WalkInv, TypeOK
<1> QED
  BY <1>4, <1>6 DEF WalkInv

LEMMA WalkInit == Init => WalkInv
<1> SUFFICES ASSUME Init PROVE WalkInv
  OBVIOUS
<1>1. Bounds \in [xMin: Int, xMax: Int, yMin: Int, yMax: Int]
  BY BoundsAssumption
<1>2. \A p \in Places : p \in [x: Int, y: Int] /\ IsInside(p)
  <2>1. \A p \in Places :
          p \in [x: Bounds.xMin..Bounds.xMax, y: Bounds.yMin..Bounds.yMax]
    BY BoundsAssumption
  <2> QED
    BY <1>1, <2>1 DEF IsInside
<1>3. position \in [Node -> [x: Int, y: Int]] /\ \A n \in Node : IsInside(position[n])
  BY <1>2 DEF Init
<1>4. TypeOK
  BY <1>3, ScheduleAssumption DEF Init, TypeOK, Event, EventType
<1>5. ASSUME NEW n \in Node PROVE Walking(n)
  <2> DEFINE e == [uid |-> 1, type |-> "DoInitializePrivate", due |-> 0, left |-> 0]
  <2>1. /\ pending[n] = {e} /\ m_event[n] = 1 /\ velocity[n] = 0
        /\ lastUpdate[n] = 0 /\ now = 0
    BY DEF Init
  <2>2. e.uid = 1 /\ e.due = 0 /\ e.type = "DoInitializePrivate"
    OBVIOUS
  <2> HIDE DEF e
  <2>3. position[n].x \in Int
    BY <1>3
  <2> QED
    BY <1>3, <2>1, <2>2, <2>3 DEF Walking, IsInside, InX
<1> QED
  BY <1>4, <1>5 DEF WalkInv

LEMMA WalkNext == WalkInv /\ [Next]_vars => WalkInv'
<1> SUFFICES ASSUME WalkInv, [Next]_vars PROVE WalkInv'
  OBVIOUS
<1>1. ASSUME NEW n \in Node, DoInitialize(n) \/ DoInitializePrivate(n)
      PROVE  WalkInv'
  <2>1. PICK done : NewWalk(n, done)
    BY <1>1 DEF DoInitialize, DoInitializePrivate
  <2>2. now' = now /\ moves' = moves /\ initialized' \in [Node -> BOOLEAN]
    BY <1>1 DEF DoInitialize, DoInitializePrivate, WalkInv, TypeOK
  <2> QED
    BY <2>1, <2>2, NewWalkKeepsInv
<1>2. CASE UNCHANGED vars
  BY <1>2 DEF vars, helper, WalkInv, TypeOK, Walking, IsInside, InX
<1> QED
  BY <1>1, <1>2, ReboundKeepsInv, DoSetPositionKeepsInv, DoGetPositionKeepsInv,
     TickKeepsInv DEF Next

\* The inductive invariant: a vehicle has one event, the one m_event refers
\* to and not overdue, and is inside now and when that event will be due.
THEOREM WalkInvariant == Spec => []WalkInv
<1> QED
  BY WalkInit, WalkNext, PTL DEF Spec

\* No walk is scheduled into the past, and no rebound leaves less than no
\* time to go, whatever the mode, the speeds and the rectangle.
THEOREM TypeCorrect == Spec => []TypeOK
<1>1. WalkInv => TypeOK
  BY DEF WalkInv
<1> QED
  BY <1>1, WalkInvariant, PTL

\* One chain of walks per vehicle, the one m_event would cancel, however
\* often it is placed anew; and only a vehicle just placed stands still.
THEOREM OneWalkHolds == Spec => []OneWalk
<1>1. WalkInv => OneWalk
  BY DEF WalkInv, Walking, OneWalk
<1> QED
  BY <1>1, WalkInvariant, PTL

\* A vehicle is never beyond its bounds, even between two looks at it: the
\* truncated delays DoWalk computes are never too long.
THEOREM WithinBoundsHolds == Spec => []WithinBounds
<1>1. WalkInv => WithinBounds
  BY InsideNow DEF WalkInv, WithinBounds
<1> QED
  BY <1>1, WalkInvariant, PTL

-----------------------------------------------------------------------------
(***************************************************************************)
(* Speeds.                                                                 *)
(***************************************************************************)
Difference == (1 - SpeedVariation)..(SpeedVariation + 1)

\* a vehicle stands still, or drives at a mean speed give or take
Drives(n) ==
    \/ velocity[n] = 0
    \/ \E speed \in Speeds, d \in Difference :
          velocity[n] = speed + d \/ velocity[n] = -(speed + d)

SpeedInv == WalkInv /\ \A n \in Node : Drives(n)

LEMMA SpeedNext == SpeedInv /\ [Next]_vars => SpeedInv'
<1> SUFFICES ASSUME SpeedInv, [Next]_vars PROVE SpeedInv'
  OBVIOUS
<1>1. WalkInv /\ WalkInv'
  BY WalkNext DEF SpeedInv
<1>2. velocity \in [Node -> Int]
  BY <1>1 DEF WalkInv, TypeOK
<1>3. SUFFICES ASSUME NEW n \in Node PROVE Drives(n)'
  BY <1>1 DEF SpeedInv
<1>4. CASE velocity'[n] = velocity[n]
  BY <1>4 DEF SpeedInv, Drives
<1>5. ASSUME NEW m \in Node, NEW p, NEW v, Drive(m, p, v), m /= n
      PROVE  velocity'[n] = velocity[n]
  BY <1>2, <1>5 DEF Drive
<1>6. ASSUME NEW m \in Node, NEW p, NEW v, Drive(m, p, v), m = n
      PROVE  velocity'[n] = v
  BY <1>2, <1>6 DEF Drive
<1>7. ASSUME NEW m \in Node, DoInitialize(m) \/ DoInitializePrivate(m)
      PROVE  Drives(n)'
  <2>1. PICK done : NewWalk(m, done)
    BY <1>7 DEF DoInitialize, DoInitializePrivate
  <2>2. PICK speed \in Speeds, d \in Difference, p \in [x: Int, y: Int] :
          Drive(m, p, speed + d)
    BY <1>1, <2>1, NewWalkSetsOut DEF Difference
  <2>3. velocity'[n] = speed + d \/ velocity'[n] = velocity[n]
    BY <1>5, <1>6, <2>2
  <2> QED
    BY <1>4, <2>3 DEF Drives
<1>8. ASSUME NEW m \in Node, Rebound(m)
      PROVE  Drives(n)'
  <2>1. PICK v \in {velocity[m], -velocity[m]}, p \in [x: Int, y: Int] :
          Drive(m, p, v)
    BY <1>1, <1>8, ReboundSetsOut
  <2>2. velocity'[n] \in {velocity[n], -velocity[n]}
    BY <1>5, <1>6, <2>1
  <2>3. velocity'[n] = -velocity[n] => Drives(n)'
    <3>1. Drives(n) /\ velocity[n] \in Int
      BY <1>2 DEF SpeedInv
    <3>2. Speeds \subseteq Int /\ Difference \subseteq Int
      BY WalkAssumption DEF Difference
    <3> QED
      BY <3>1, <3>2 DEF Drives
  <2> QED
    BY <1>4, <2>2, <2>3
<1>9. ASSUME NEW m \in Node, DoSetPosition(m)
      PROVE  Drives(n)'
  <2>1. PICK p \in Places : Drive(m, p, 0)
    BY <1>9 DEF DoSetPosition
  <2>2. velocity'[n] = 0 \/ velocity'[n] = velocity[n]
    BY <1>5, <1>6, <2>1
  <2> QED
    BY <1>4, <2>2 DEF Drives
<1>10. ASSUME NEW m \in Node, DoGetPosition(m)
       PROVE  Drives(n)'
  <2>1. Drive(m, Confined(m), velocity[m])
    BY <1>10 DEF DoGetPosition
  <2>2. velocity'[n] = velocity[n]
    BY <1>5, <1>6, <2>1
  <2> QED
    BY <1>4, <2>2
<1>11. CASE Tick \/ UNCHANGED vars
  BY <1>4, <1>11 DEF Tick, vars, helper
<1> QED
  BY <1>7, <1>8, <1>9, <1>10, <1>11 DEF Next

\* Vehicles of one mean speed that drive the same way differ by no more than
\* twice the variation, whatever was drawn and however often they turned: the
\* closeness IsStable relies on.
THEOREM SimilarSpeedHolds ==
  ASSUME \A s, t \in Speeds : s = t
  PROVE  Spec => []SimilarSpeed
<1>1. Init => SpeedInv
  <2>1. Init => \A n \in Node : Drives(n)
    BY DEF Init, Drives
  <2> QED
    BY <2>1, WalkInit DEF SpeedInv
<1>2. SpeedInv => SimilarSpeed
  <2> SUFFICES ASSUME SpeedInv, NEW n \in Node, NEW m \in Node,
                      velocity[n] > 0, velocity[m] > 0
               PROVE  Abs(velocity[n] - velocity[m]) <= 2 * SpeedVariation
    BY DEF SimilarSpeed
  <2>1. SpeedVariation \in Nat /\ \A s \in Speeds : s \in Nat /\ s > SpeedVariation
    BY WalkAssumption
  <2>2. \A k \in Node : velocity[k] > 0 =>
          \E s \in Speeds, d \in Difference : velocity[k] = s + d
    BY <2>1 DEF SpeedInv, Drives, Difference
  <2>3. PICK s \in Speeds, d \in Difference : velocity[n] = s + d
    BY <2>2
  <2>4. PICK t \in Speeds, c \in Difference : velocity[m] = t + c
    BY <2>2
  <2>5. s = t
    OBVIOUS
  <2>6. velocity[n] - velocity[m] = d - c
    BY <2>1, <2>3, <2>4, <2>5 DEF Difference
  <2> QED
    BY <2>1, <2>6 DEF Difference, Abs
<1> QED
  BY <1>1, <1>2, SpeedNext, PTL DEF Spec

-----------------------------------------------------------------------------
(***************************************************************************)
(* Ends of walks.  DoInitialize drops the walk that the event of           *)
(* DoSetPosition has begun, for one of the same millisecond: the end stays *)
(* when walks last equally long, as they do in MODE_TIME.                  *)
(***************************************************************************)
EqualWalks == \A s, t \in Speeds : DelayLeft(s) = DelayLeft(t)

\* the walk of a vehicle that has not been initialized is as old as the
\* simulation
FirstWalk(n) ==
    ~ initialized[n] =>
        /\ now = 0
        /\ \A e \in pending[n] : e.type = "Rebound" =>
              \E speed \in Speeds : End(e) = DelayLeft(speed)

EndInv == WalkInv /\ \A n \in Node : FirstWalk(n)

EndsKept(n) ==
    \A e \in pending[n], f \in pending'[n] :
        e.type = "Rebound" /\ moves' = moves => End(f) = End(e)

LEMMA WaitsForOne ==
  ASSUME WalkInv, NEW n \in Node, NEW e \in pending[n], NEW f \in pending[n]
  PROVE  e = f
  BY DEF WalkInv, Walking

LEMMA ReplacedEvent ==
  ASSUME WalkInv, NEW n \in Node, NEW f, Replaces(n, f)
  PROVE  /\ pending'[n] = {f}
         /\ \A m \in Node \ {n} : pending'[m] = pending[m]
  BY DEF WalkInv, TypeOK, Replaces

LEMMA EndNext ==
  ASSUME EndInv, [Next]_vars, EqualWalks
  PROVE  EndInv' /\ \A n \in Node : EndsKept(n)
<1>1. WalkInv /\ WalkInv'
  BY WalkNext DEF EndInv
<1>2. SUFFICES ASSUME NEW n \in Node PROVE FirstWalk(n)' /\ EndsKept(n)
  BY <1>1 DEF EndInv
<1>3. FirstWalk(n) /\ initialized \in [Node -> BOOLEAN]
  BY <1>1 DEF EndInv, WalkInv, TypeOK
\* nothing happens to the walk of n
<1>4. ASSUME pending'[n] = pending[n],
             initialized'[n] \/ (initialized'[n] = initialized[n] /\ now' = now)
      PROVE  FirstWalk(n)' /\ EndsKept(n)
  <2>1. FirstWalk(n)'
    BY <1>3, <1>4 DEF FirstWalk
  <2>2. EndsKept(n)
    BY <1>1, <1>4, WaitsForOne DEF EndsKept
  <2> QED
    BY <2>1, <2>2
<1>5. ASSUME NEW m \in Node, DoInitialize(m)
      PROVE  FirstWalk(n)' /\ EndsKept(n)
  <2>1. NewWalk(m, {}) /\ initialized' = [initialized EXCEPT ![m] = TRUE]
        /\ now' = now /\ ~ initialized[m]
    BY <1>5 DEF DoInitialize
  <2>2. PICK speed \in Speeds, f \in Event :
          Replaces(m, f) /\ End(f) = now + DelayLeft(speed) /\ DelayLeft(speed) \in Nat
    BY <1>1, <2>1, NewWalkSetsOut
  <2>3. CASE m = n
    <3>1. pending'[n] = {f} /\ initialized'[n]
      BY <1>1, <1>3, <2>1, <2>2, <2>3, ReplacedEvent
    <3>2. now = 0
      BY <1>3, <2>1, <2>3 DEF FirstWalk
    <3>3. ASSUME NEW e \in pending[n], e.type = "Rebound" PROVE End(f) = End(e)
      <4>1. PICK s \in Speeds : End(e) = DelayLeft(s)
        BY <1>3, <2>1, <2>3, <3>3 DEF FirstWalk
      <4>2. DelayLeft(s) = DelayLeft(speed)
        BY DEF EqualWalks
      <4> QED
        BY <2>2, <3>2, <4>1, <4>2
    <3> QED
      BY <3>1, <3>3 DEF FirstWalk, EndsKept
  <2>4. CASE m /= n
    BY <1>1, <1>3, <1>4, <2>1, <2>2, <2>4, ReplacedEvent
  <2> QED
    BY <2>3, <2>4
<1>6. ASSUME NEW m \in Node, DoInitializePrivate(m)
      PROVE  FirstWalk(n)' /\ EndsKept(n)
  <2>1. PICK d \in Due(m, "DoInitializePrivate") : NewWalk(m, {d})
    BY <1>6 DEF DoInitializePrivate
  <2>2. now' = now /\ initialized' = initialized
    BY <1>6 DEF DoInitializePrivate
  <2>3. PICK speed \in Speeds, f \in Event :
          Replaces(m, f) /\ End(f) = now + DelayLeft(speed) /\ DelayLeft(speed) \in Nat
    BY <1>1, <2>1, NewWalkSetsOut
  <2>4. CASE m = n
    <3>1. pending'[n] = {f}
      BY <1>1, <2>3, <2>4, ReplacedEvent
    <3>2. \A e \in pending[n] : e.type /= "Rebound"
      BY <1>1, <2>4, WaitsForOne DEF Due
    <3>3. ~ initialized[n] => now = 0 /\ End(f) = DelayLeft(speed)
      BY <1>3, <2>3 DEF FirstWalk
    <3> QED
      BY <2>2, <3>1, <3>2, <3>3 DEF FirstWalk, EndsKept, End
  <2>5. CASE m /= n
    BY <1>1, <1>4, <2>2, <2>3, <2>5, ReplacedEvent
  <2> QED
    BY <2>4, <2>5
<1>7. ASSUME NEW m \in Node, Rebound(m)
      PROVE  FirstWalk(n)' /\ EndsKept(n)
  <2>1. now' = now /\ initialized' = initialized
    BY <1>7 DEF Rebound
  <2>2. PICK f \in Event, e \in pending[m] : Replaces(m, f) /\ End(f) = End(e)
    BY <1>1, <1>7, ReboundSetsOut
  <2>3. CASE m = n
    <3>1. pending'[n] = {f}
      BY <1>1, <2>2, <2>3, ReplacedEvent
    <3>2. \A d \in pending[n] : End(f) = End(d) /\ d.type = "Rebound"
      <4>1. PICK r \in pending[n] : r.type = "Rebound"
        BY <1>7, <2>3 DEF Rebound, Due
      <4> QED
        BY <1>1, <2>2, <2>3, <4>1, WaitsForOne
    <3>3. EndsKept(n)
      BY <3>1, <3>2 DEF EndsKept
    <3>4. e \in pending[n]
      BY <2>3
    <3>5. ~ initialized[n] =>
            now = 0 /\ \E speed \in Speeds : End(f) = DelayLeft(speed)
      BY <1>3, <3>2, <3>4 DEF FirstWalk
    <3>6. FirstWalk(n)'
      BY <2>1, <3>1, <3>5 DEF FirstWalk, End
    <3> QED
      BY <3>3, <3>6
  <2>4. CASE m /= n
    BY <1>1, <1>4, <2>1, <2>2, <2>4, ReplacedEvent
  <2> QED
    BY <2>3, <2>4
<1>8. ASSUME NEW m \in Node, DoSetPosition(m)
      PROVE  FirstWalk(n)' /\ EndsKept(n)
  <2>1. now' = now /\ initialized' = initialized /\ moves' /= moves
    BY <1>1, <1>8 DEF DoSetPosition, WalkInv, TypeOK
  <2>2. /\ TypeOK /\ Walking(m) /\ Superseded(m) \subseteq Superseded(m)
        /\ now \in Nat /\ 0 \in Nat /\ "DoInitializePrivate" \in EventType
    BY <1>1 DEF WalkInv, TypeOK, EventType
  <2>3. Simulate(m, Superseded(m), "DoInitializePrivate", now, 0)
    BY <1>8 DEF DoSetPosition
  <2>4. PICK f \in Event : f.type = "DoInitializePrivate" /\ Replaces(m, f)
    BY <2>2, <2>3, OneEventLeft
  <2>5. CASE m = n
    <3>1. pending'[n] = {f}
      BY <1>1, <2>4, <2>5, ReplacedEvent
    <3> QED
      BY <1>3, <2>1, <2>4, <3>1 DEF FirstWalk, EndsKept
  <2>6. CASE m /= n
    BY <1>1, <1>4, <2>1, <2>4, <2>6, ReplacedEvent
  <2> QED
    BY <2>5, <2>6
<1>9. CASE \/ \E m \in Node : DoGetPosition(m)
           \/ Tick \/ UNCHANGED vars
  <2>1. pending'[n] = pending[n] /\ initialized'[n] = initialized[n]
    BY <1>9 DEF DoGetPosition, Tick, vars
  <2>2. now' = now \/ initialized[n]
    BY <1>9 DEF DoGetPosition, Tick, vars
  <2>3. initialized'[n] \/ (initialized'[n] = initialized[n] /\ now' = now)
    BY <2>1, <2>2
  <2> QED
    BY <1>4, <2>1, <2>3
<1> QED
  BY <1>5, <1>6, <1>7, <1>8, <1>9 DEF Next

\* However often a walk is thrown back at the borders, it ends when it was to
\* end, if all walks last equally long: the time that is left is never lost
\* or gained between two rebounds.
THEOREM WalkKeepsItsEndHolds ==
  ASSUME EqualWalks
  PROVE  Spec => WalkKeepsItsEnd
<1>1. Init => EndInv
  <2>1. Init => \A n \in Node : FirstWalk(n)
    BY DEF Init, FirstWalk
  <2> QED
    BY <2>1, WalkInit DEF EndInv
<1>2. EndInv /\ [Next]_vars => EndInv'
  BY EndNext
<1>3. EndInv /\ [Next]_vars =>
        [\A n \in Node : \A e \in pending[n], f \in pending'[n] :
            e.type = "Rebound" /\ moves' = moves => End(f) = End(e)]_vars
  BY EndNext DEF EndsKept
<1> QED
  BY <1>1, <1>2, <1>3, PTL DEF Spec, WalkKeepsItsEnd

=============================================================================
