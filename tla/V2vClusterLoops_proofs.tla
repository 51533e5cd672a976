----------------------- MODULE V2vClusterLoops_proofs -----------------------
(***************************************************************************)
(* Proofs that the loops compute what V2vClusterMetrics says, for any      *)
(* number of entries, and of what the decisions are for: the time          *)
(* MergeCheck compares is the time two vehicles stay in range, and         *)
(* somebody is always slowest.                                             *)
(***************************************************************************)
EXTENDS V2vClusterLoops, FiniteSetTheorems, TLAPS

\* places and speeds are numbers
Measured ==
    \A n \in Node, t \in Nat :
        PosX(n, t) \in Int /\ PosY(n, t) \in Int /\ VelX(n, t) \in Int

\* what a vehicle knows of itself is about itself
Informed ==
    /\ \A n \in Node : \A info \in OwnInfo(n) \cup PurgedOwnInfo(n) :
          info \in NeighborInfo /\ info.imsi = n
    /\ Heard \cup PurgedHeard \subseteq [ts: Nat, degree: NodeDegree]

\* a list whose entries are those of their keys
KeyedList(list) ==
    /\ list \in NeighborList
    /\ \A k \in Keys(list) : list[k].imsi = k

CallInv ==
    /\ own \in NeighborInfo
    /\ KeyedList(list2) /\ KeyedList(listR)
    /\ own.imsi \notin Keys(list2)

LEMMA ListsKeyed ==
  ASSUME NEW n \in Node, NEW heard, heard \subseteq [ts: Nat, degree: NodeDegree],
         NEW list \in Lists(n, heard)
  PROVE  KeyedList(list)
<1>1. PICK h \in [Node -> heard \cup {Null}] :
         list = [k \in Node |->
                   IF k = n \/ h[k] = Null THEN Null
                   ELSE [imsi |-> k, ts |-> h[k].ts, degree |-> h[k].degree,
                         clusterId |-> k]]
  BY DEF Lists
<1>2. list \in [Node -> {list[k] : k \in Node}]
  BY <1>1
<1>3. ASSUME NEW k \in Keys(list)
      PROVE  list[k] \in NeighborInfo /\ list[k].imsi = k
  <2>1. k \in Node /\ list[k] /= Null
    BY DEF Keys
  <2>2. h[k] \in heard
    BY <1>1, <2>1
  <2>3. h[k].ts \in Nat /\ h[k].degree \in NodeDegree
    BY <2>2
  <2>4. list[k] = [imsi |-> k, ts |-> h[k].ts, degree |-> h[k].degree,
                   clusterId |-> k]
    BY <1>1, <2>1
  <2>5. k \in Nat
    BY <2>1, NodeAssumption
  <2> QED
    BY <2>1, <2>3, <2>4, <2>5 DEF NeighborInfo
<1>4. list \in NeighborList
  <2>1. \A k \in Node : list[k] \in NeighborInfo \cup {Null}
    BY <1>3 DEF Keys
  <2> QED
    BY <1>2, <2>1 DEF NeighborList
<1> QED
  BY <1>3, <1>4 DEF KeyedList

LEMMA ErasedKeyed ==
  ASSUME NEW list, NEW keys, KeyedList(list)
  PROVE  KeyedList(Erase(list, keys))
BY DEF KeyedList, NeighborList, Erase, Keys

LEMMA CallInit == ASSUME Informed PROVE Init => CallInv
<1> SUFFICES ASSUME Init PROVE CallInv
  OBVIOUS
<1>1. PICK n \in Node :
         \/ /\ own \in OwnInfo(n)
            /\ list2 \in Lists(n, Heard)
            /\ listR = list2
         \/ /\ own \in PurgedOwnInfo(n)
            /\ list2 \in Lists(n, PurgedHeard)
            /\ \E keys \in SUBSET Keys(list2) : listR = Erase(list2, keys)
  BY DEF Init
<1>2. Heard \subseteq [ts: Nat, degree: NodeDegree]
      /\ PurgedHeard \subseteq [ts: Nat, degree: NodeDegree]
  BY DEF Informed
<1>3. own \in NeighborInfo
  BY <1>1 DEF Informed
<1>4. KeyedList(list2)
  BY <1>1, <1>2, ListsKeyed
<1>5. KeyedList(listR)
  BY <1>1, <1>4, ErasedKeyed
<1>6. own.imsi = n /\ n \notin Keys(list2)
  BY <1>1 DEF Informed, Lists, Keys
<1> QED
  BY <1>3, <1>4, <1>5, <1>6 DEF CallInv

LEMMA CallNext == CallInv /\ [Next]_vars => CallInv'
BY DEF CallInv, Next, CallMergeCheck, CallIsSlowestNode, CallUpdateNeighborList,
       vars, KeyedList, NeighborList, Keys

-----------------------------------------------------------------------------
(***************************************************************************)
(* Folds.  A fold over a sequence of length n is a function on the sets of *)
(* positions that takes away the last position; it exists, and what holds  *)
(* of the empty set and is kept by every last position holds of 1..n.      *)
(* Sets stand for predicates, and functions for operators.                 *)
(***************************************************************************)
LEMMA LeastExists ==
  ASSUME NEW S \in SUBSET Nat, S /= {}
  PROVE  \E x \in S : \A y \in S : x <= y
<1> DEFINE less == {ss \in Nat \X Nat : ss[1] < ss[2]}
<1>1. OpToRel(<, Nat) = less
  BY DEF OpToRel
<1>2. IsWellFoundedOn(less, Nat)
  BY <1>1, NatLessThanWellFounded
<1> HIDE DEF less
<1>3. PICK x \in S : \A y \in S : ~ (<<y, x>> \in less)
  BY <1>2, WFMin
<1>4. \A y \in S : <<y, x>> \in less <=> y < x
  BY DEF less
<1>5. \A y \in S : ~ (y < x)
  BY <1>3, <1>4
<1>6. \A y \in S : y \in Nat
  OBVIOUS
<1> QED
  BY <1>5, <1>6

LEMMA MaxIsLast ==
  ASSUME NEW n \in Nat, NEW S \in SUBSET (1..n), S /= {}
  PROVE  Max(S) \in S /\ \A x \in S : x <= Max(S)
<1> DEFINE Mirror == {n - x : x \in S}
<1>1. \A x \in S : n - x \in Nat
  OBVIOUS
<1>2. Mirror \in SUBSET Nat /\ Mirror /= {}
  BY <1>1
<1>3. PICK y \in Mirror : \A z \in Mirror : y <= z
  BY <1>2, LeastExists
<1>4. PICK x \in S : y = n - x
  BY <1>3
<1>5. \A z \in S : x >= z
  <2> SUFFICES ASSUME NEW z \in S PROVE x >= z
    OBVIOUS
  <2>1. y <= n - z
    BY <1>3
  <2> QED
    BY <1>4, <2>1
<1>6. \E w \in S : \A z \in S : w >= z
  BY <1>5
<1>7. Max(S) \in S /\ \A z \in S : Max(S) >= z
  BY <1>6 DEF Max
<1>8. \A z \in S : z \in Int
  OBVIOUS
<1> QED
  BY <1>7, <1>8

LEMMA PositionSets ==
  ASSUME NEW n \in Nat, NEW s \in SUBSET (1..n)
  PROVE  /\ IsFiniteSet(s) /\ Cardinality(s) \in 0..n
         /\ s /= {} => /\ Max(s) \in 1..n /\ s \ {Max(s)} \in SUBSET (1..n)
                       /\ Cardinality(s \ {Max(s)}) = Cardinality(s) - 1
<1>1. IsFiniteSet(1..n) /\ Cardinality(1..n) = n
  <2>1. IsFiniteSet(1..n) /\ Cardinality(1..n) = IF 1 > n THEN 0 ELSE n - 1 + 1
    BY FS_Interval
  <2> QED
    BY <2>1
<1>2. IsFiniteSet(s) /\ Cardinality(s) <= Cardinality(1..n)
  BY <1>1, FS_Subset
<1>3. Cardinality(s) \in Nat
  BY <1>2, FS_CardinalityType
<1>4. ASSUME s /= {} PROVE Max(s) \in s
  BY <1>4, MaxIsLast
<1>5. s /= {} => Cardinality(s \ {Max(s)}) = Cardinality(s) - 1
  BY <1>2, <1>4, FS_RemoveElement
<1>6. Cardinality(s) \in 0..n
  BY <1>1, <1>2, <1>3
<1>7. s /= {} => Max(s) \in 1..n /\ s \ {Max(s)} \in SUBSET (1..n)
  BY <1>4
<1> QED
  BY <1>2, <1>5, <1>6, <1>7

LEMMA SubsetInduction ==
  ASSUME NEW n \in Nat, NEW Good, {} \in Good,
         \A s \in SUBSET (1..n) : s /= {} /\ s \ {Max(s)} \in Good => s \in Good
  PROVE  \A s \in SUBSET (1..n) : s \in Good
<1> SUFFICES ASSUME NEW t \in SUBSET (1..n), t \notin Good PROVE FALSE
  OBVIOUS
<1> DEFINE Bad == {s \in SUBSET (1..n) : s \notin Good}
           Sizes == {Cardinality(s) : s \in Bad}
<1>1. \A s \in SUBSET (1..n) : Cardinality(s) \in Nat
  <2>1. \A s \in SUBSET (1..n) : Cardinality(s) \in 0..n
    BY PositionSets
  <2> QED
    BY <2>1
<1>2. Sizes \in SUBSET Nat /\ Sizes /= {}
  BY <1>1
<1>3. PICK c \in Sizes : \A d \in Sizes : c <= d
  BY <1>2, LeastExists
<1>4. PICK s \in Bad : c = Cardinality(s)
  BY <1>3
<1>5. s \in SUBSET (1..n) /\ s /= {}
  OBVIOUS
<1>6. /\ s \ {Max(s)} \in SUBSET (1..n)
      /\ Cardinality(s \ {Max(s)}) = Cardinality(s) - 1
  BY <1>5, PositionSets
<1>7. s \ {Max(s)} \notin Bad
  <2> HIDE DEF Bad
  <2> SUFFICES ASSUME s \ {Max(s)} \in Bad PROVE FALSE
    OBVIOUS
  <2>1. c <= Cardinality(s \ {Max(s)})
    BY <1>3
  <2> QED
    BY <1>1, <1>4, <1>5, <1>6, <2>1
<1> QED
  BY <1>5, <1>6, <1>7

\* g folds the functions of F, from base, over the positions 1..n
Folds(g, n, Val, base, F) ==
    /\ g \in [SUBSET (1..n) -> Val]
    /\ \A s \in SUBSET (1..n) :
          g[s] = IF s = {} THEN base ELSE F[Max(s)][g[s \ {Max(s)}]]

LEMMA FoldExists ==
  ASSUME NEW n \in Nat, NEW Val, NEW base \in Val,
         NEW F \in [1..n -> [Val -> Val]]
  PROVE  \E g : Folds(g, n, Val, base, F)
<1> DEFINE D == SUBSET (1..n)
           Step(g, s) == IF s = {} THEN base ELSE F[Max(s)][g[s \ {Max(s)}]]
           Upto == {c \in Nat : \E g \in [D -> Val] :
                       \A s \in D : Cardinality(s) <= c => g[s] = Step(g, s)}
<1>1. \A s \in D : Cardinality(s) \in 0..n
  BY PositionSets
<1>2. \A s \in D : s /= {} =>
        /\ Max(s) \in 1..n /\ s \ {Max(s)} \in D
        /\ Cardinality(s \ {Max(s)}) = Cardinality(s) - 1
  BY PositionSets
<1>3. ASSUME NEW g \in [D -> Val], NEW s \in D PROVE Step(g, s) \in Val
  <2>1. CASE s = {}
    BY <2>1
  <2>2. CASE s /= {}
    <3>1. F[Max(s)] \in [Val -> Val] /\ g[s \ {Max(s)}] \in Val
      BY <1>2, <2>2
    <3> QED
      BY <2>2, <3>1
  <2> QED
    BY <2>1, <2>2
<1>4. 0 \in Upto
  <2> DEFINE g == [s \in D |-> base]
  <2>1. g \in [D -> Val] /\ \A s \in D : Cardinality(s) <= 0 => g[s] = Step(g, s)
    <3>1. \A s \in D : Cardinality(s) <= 0 => s = {}
      <4> SUFFICES ASSUME NEW s \in D, s /= {} PROVE ~ (Cardinality(s) <= 0)
        OBVIOUS
      <4> DEFINE r == s \ {Max(s)}
      <4>1. r \in D /\ Cardinality(r) = Cardinality(s) - 1
        BY <1>2
      <4>2. Cardinality(r) \in 0..n /\ Cardinality(s) \in 0..n
        BY <1>1, <4>1
      <4> HIDE DEF r, D
      <4> QED
        BY <4>1, <4>2
    <3> QED
      BY <3>1
  <2> HIDE DEF g, Step
  <2> QED
    BY <2>1
<1>5. ASSUME NEW c \in Upto PROVE c + 1 \in Upto
  <2>1. PICK g \in [D -> Val] :
          \A s \in D : Cardinality(s) <= c => g[s] = Step(g, s)
    OBVIOUS
  <2> DEFINE h == [s \in D |-> Step(g, s)]
  <2>2. h \in [D -> Val]
    BY <1>3
  <2>3. ASSUME NEW s \in D, Cardinality(s) <= c + 1 PROVE h[s] = Step(h, s)
    <3>1. CASE s = {}
      BY <3>1
    <3>2. CASE s /= {}
      <4> DEFINE r == s \ {Max(s)}
      <4>1. r \in D /\ Cardinality(r) <= c
        <5>1. /\ r \in D /\ Cardinality(r) = Cardinality(s) - 1
              /\ Cardinality(s) \in 0..n /\ c \in Nat
          BY <1>1, <1>2, <3>2
        <5> HIDE DEF r
        <5> QED
          BY <2>3, <5>1
      <4>2. h[r] = g[r]
        BY <2>1, <4>1
      <4> QED
        BY <3>2, <4>2
    <3> QED
      BY <3>1, <3>2
  <2> HIDE DEF h, Step
  <2>4. \E k \in [D -> Val] : \A s \in D : Cardinality(s) <= c + 1 => k[s] = Step(k, s)
    BY <2>2, <2>3
  <2>5. c + 1 \in Nat
    OBVIOUS
  <2> QED
    BY <2>4, <2>5
<1>6. n \in Upto
  <2> HIDE DEF Upto, D, Step
  <2> DEFINE Missing == {c \in Nat : c \notin Upto}
  <2> SUFFICES ASSUME Missing /= {} PROVE FALSE
    OBVIOUS
  <2>1. PICK c \in Missing : \A d \in Missing : c <= d
    BY LeastExists
  <2>2. c \in Nat /\ c /= 0
    BY <1>4
  <2>3. c - 1 \in Nat /\ (c - 1) + 1 = c
    BY <2>2
  <2>4. c - 1 \in Upto
    BY <2>1, <2>3
  <2> QED
    BY <1>5, <2>3, <2>4
<1> HIDE DEF Step
<1>7. PICK g \in [D -> Val] : \A s \in D : Cardinality(s) <= n => g[s] = Step(g, s)
  BY <1>6
<1>8. \A s \in D : g[s] = Step(g, s)
  BY <1>1, <1>7
<1>9. Folds(g, n, Val, base, F)
  BY <1>7, <1>8 DEF Step, Folds
<1> QED
  BY <1>9

-----------------------------------------------------------------------------
(***************************************************************************)
(* The keys of a list in their order, and in any other.                    *)
(***************************************************************************)
LEMMA OrderCovers ==
  ASSUME NEW K, IsFiniteSet(K), NEW seq \in SetToSeqs(K)
  PROVE  /\ Cardinality(K) \in Nat /\ DOMAIN seq = 1..Cardinality(K)
         /\ seq \in [1..Cardinality(K) -> K]
         /\ \A i, j \in DOMAIN seq : seq[i] = seq[j] => i = j
         /\ \A k \in K : \E i \in DOMAIN seq : seq[i] = k
<1> DEFINE c == Cardinality(K)
<1>1. c \in Nat
  BY FS_CardinalityType
<1>2. seq \in [1..c -> K] /\ \A i, j \in 1..c : i /= j => seq[i] /= seq[j]
  BY DEF SetToSeqs
<1>3. seq \in Injection(1..c, K)
  BY <1>2 DEF Injection, IsInjective
<1>4. IsFiniteSet(1..c) /\ Cardinality(1..c) = c
  <2>1. IsFiniteSet(1..c) /\ Cardinality(1..c) = IF 1 > c THEN 0 ELSE c - 1 + 1
    BY <1>1, FS_Interval
  <2> QED
    BY <1>1, <2>1
<1>5. seq \in Surjection(1..c, K)
  BY <1>3, <1>4, FS_Injection
<1>6. \A k \in K : \E i \in 1..c : seq[i] = k
  BY <1>5 DEF Surjection
<1> QED
  BY <1>1, <1>2, <1>6

LEMMA SortedExists ==
  ASSUME NEW K \in SUBSET Nat, IsFiniteSet(K)
  PROVE  \E seq \in SetToSeqs(K) : \A i, j \in DOMAIN seq : i < j => seq[i] < seq[j]
<1> DEFINE c == Cardinality(K)
           Upto(k) == {j \in K : j <= k}
           rank == [k \in K |-> Cardinality(Upto(k))]
<1>1. c \in Nat
  BY FS_CardinalityType
<1>2. ASSUME NEW k \in K PROVE IsFiniteSet(Upto(k)) /\ rank[k] \in 1..c
  <2>1. IsFiniteSet(Upto(k)) /\ Cardinality(Upto(k)) <= c
    BY FS_Subset
  <2>2. Upto(k) /= {}
    <3>1. k \in Nat
      OBVIOUS
    <3> QED
      BY <3>1
  <2>3. Cardinality(Upto(k)) \in Nat /\ Cardinality(Upto(k)) /= 0
    BY <2>1, <2>2, FS_CardinalityType, FS_EmptySet
  <2> HIDE DEF Upto
  <2> QED
    BY <1>1, <2>1, <2>3
<1>3. ASSUME NEW k \in K, NEW l \in K, k < l PROVE rank[k] < rank[l]
  <2>1. k \in Nat /\ l \in Nat
    OBVIOUS
  <2>2. Upto(k) \in SUBSET Upto(l) /\ Upto(k) /= Upto(l)
    <3>1. \A j \in K : j <= k => j <= l
      <4>1. \A j \in K : j \in Nat
        OBVIOUS
      <4> QED
        BY <1>3, <2>1, <4>1
    <3>2. l \in Upto(l) /\ l \notin Upto(k)
      BY <1>3, <2>1
    <3> QED
      BY <3>1, <3>2
  <2>3. /\ Cardinality(Upto(k)) <= Cardinality(Upto(l))
        /\ Cardinality(Upto(k)) /= Cardinality(Upto(l))
    BY <1>2, <2>2, FS_Subset
  <2>4. rank[k] <= rank[l] /\ rank[k] /= rank[l] /\ rank[k] \in 1..c /\ rank[l] \in 1..c
    BY <1>2, <2>3
  <2> HIDE DEF rank
  <2> QED
    BY <2>4
<1>4. rank \in [K -> 1..c]
  BY <1>2
<1> HIDE DEF rank
<1>5. ASSUME NEW k \in K, NEW l \in K, rank[k] = rank[l] PROVE k = l
  <2>1. k \in Nat /\ l \in Nat /\ rank[k] \in 1..c
    BY <1>4
  <2>2. ~ (k < l) /\ ~ (l < k)
    BY <1>3, <1>5, <2>1
  <2> QED
    BY <2>1, <2>2
<1>6. rank \in Injection(K, 1..c)
  BY <1>4, <1>5 DEF Injection, IsInjective
<1>7. IsFiniteSet(1..c) /\ Cardinality(1..c) = c
  <2>1. IsFiniteSet(1..c) /\ Cardinality(1..c) = IF 1 > c THEN 0 ELSE c - 1 + 1
    BY <1>1, FS_Interval
  <2> QED
    BY <1>1, <2>1
<1>8. rank \in Surjection(K, 1..c)
  BY <1>6, <1>7, FS_Injection
<1>9. \A i \in 1..c : \E k \in K : rank[k] = i
  BY <1>8 DEF Surjection
<1> DEFINE seq == [i \in 1..c |-> CHOOSE k \in K : rank[k] = i]
<1>10. \A i \in 1..c : seq[i] \in K /\ rank[seq[i]] = i
  BY <1>9
<1>11. seq \in [1..c -> K] /\ DOMAIN seq = 1..c
  BY <1>10
<1> HIDE DEF seq
<1>12. \A i, j \in 1..c : i /= j => seq[i] /= seq[j]
  BY <1>10
<1>13. seq \in SetToSeqs(K)
  BY <1>11, <1>12 DEF SetToSeqs
<1>14. ASSUME NEW i \in 1..c, NEW j \in 1..c, i < j PROVE seq[i] < seq[j]
  <2>1. seq[i] \in Nat /\ seq[j] \in Nat /\ seq[i] \in K /\ seq[j] \in K
    BY <1>10
  <2>2. ~ (seq[j] < seq[i])
    <3>1. seq[j] < seq[i] => j < i
      BY <1>3, <1>10, <2>1
    <3> QED
      BY <1>14, <3>1
  <2>3. seq[i] /= seq[j]
    BY <1>12, <1>14
  <2> QED
    BY <2>1, <2>2, <2>3
<1> QED
  BY <1>11, <1>13, <1>14

LEMMA KeysFinite ==
  ASSUME NEW list, DOMAIN list = Node
  PROVE  Keys(list) \in SUBSET Nat /\ IsFiniteSet(Keys(list))
<1>1. Keys(list) \in SUBSET Node
  BY DEF Keys
<1> QED
  BY <1>1, NodeAssumption, FS_Subset

LEMMA InOrderSorted ==
  ASSUME NEW list, DOMAIN list = Node
  PROVE  /\ InOrder(list) \in SetToSeqs(Keys(list))
         /\ \A i, j \in DOMAIN InOrder(list) :
               i < j => InOrder(list)[i] < InOrder(list)[j]
<1>1. Keys(list) \in SUBSET Nat /\ IsFiniteSet(Keys(list))
  BY KeysFinite
<1>2. \E seq \in SetToSeqs(Keys(list)) :
         \A i, j \in DOMAIN seq : i < j => seq[i] < seq[j]
  BY <1>1, SortedExists
<1> QED
  BY <1>2 DEF InOrder

-----------------------------------------------------------------------------
(***************************************************************************)
(* IsSlowestNode.  The first pass ends with the largest distance, or what  *)
(* maxDistance held; the second finds whether anybody beats the vehicle.   *)
(***************************************************************************)
LEMMA NobodyBeatsIs ==
  ASSUME DOMAIN list2 = Node, NEW far
  PROVE  NobodyBeats(far) = (\A k \in Keys(list2) : ~ Beats(far, list2[k]))
<1> DEFINE order == InOrder(list2)
           n == Cardinality(Keys(list2))
<1>0. /\ n \in Nat /\ DOMAIN order = 1..n /\ order \in [1..n -> Keys(list2)]
      /\ \A k \in Keys(list2) : \E i \in 1..n : order[i] = k
  BY KeysFinite, InOrderSorted, OrderCovers
<1> HIDE DEF n, order
<1> DEFINE Bt(i) == Beats(far, list2[order[i]])
           F == [i \in 1..n |-> [v \in BOOLEAN |-> v /\ ~ Bt(i)]]
           IsFold(it) ==
             it = [s \in SUBSET (1..n) |->
                     IF s = {} THEN TRUE
                     ELSE it[s \ {Max(s)}] /\ ~ Bt(Max(s))]
           fold == CHOOSE it : IsFold(it)
<1>1. NobodyBeats(far) = fold[1..n]
  BY <1>0 DEF NobodyBeats, FoldLeft, MapThenFoldSet, order
<1> HIDE DEF Bt
<1>2. \E it : IsFold(it)
  <2>1. F \in [1..n -> [BOOLEAN -> BOOLEAN]]
    OBVIOUS
  <2>2. PICK g : Folds(g, n, BOOLEAN, TRUE, F)
    <3> HIDE DEF F
    <3> QED
      BY <1>0, <2>1, FoldExists
  <2>3. /\ g \in [SUBSET (1..n) -> BOOLEAN]
        /\ \A s \in SUBSET (1..n) :
              g[s] = IF s = {} THEN TRUE ELSE F[Max(s)][g[s \ {Max(s)}]]
    <3> HIDE DEF F
    <3> QED
      BY <2>2 DEF Folds
  <2>4. ASSUME NEW s \in SUBSET (1..n), s /= {}
        PROVE  F[Max(s)][g[s \ {Max(s)}]] = (g[s \ {Max(s)}] /\ ~ Bt(Max(s)))
    <3>1. Max(s) \in 1..n /\ s \ {Max(s)} \in SUBSET (1..n)
      BY <1>0, <2>4, PositionSets
    <3>2. F[Max(s)] = [v \in BOOLEAN |-> v /\ ~ Bt(Max(s))]
      BY <3>1
    <3>3. g[s \ {Max(s)}] \in BOOLEAN
      BY <2>3, <3>1
    <3> QED
      BY <3>2, <3>3
  <2> HIDE DEF F
  <2>5. \A s \in SUBSET (1..n) :
           g[s] = IF s = {} THEN TRUE ELSE g[s \ {Max(s)}] /\ ~ Bt(Max(s))
    BY <2>3, <2>4
  <2>6. IsFold(g)
    BY <2>3, <2>5
  <2> QED
    BY <2>6
<1>3. IsFold(fold)
  <2> HIDE DEF IsFold
  <2> QED
    BY <1>2
<1>4. \A s \in SUBSET (1..n) :
         fold[s] = IF s = {} THEN TRUE ELSE fold[s \ {Max(s)}] /\ ~ Bt(Max(s))
  BY <1>3
<1> HIDE DEF fold, IsFold
<1> DEFINE Good == {s \in SUBSET (1..n) : fold[s] = (\A i \in s : ~ Bt(i))}
<1>5. {} \in Good
  BY <1>4
<1>6. ASSUME NEW s \in SUBSET (1..n), s /= {}, s \ {Max(s)} \in Good
      PROVE  s \in Good
  <2>1. Max(s) \in s
    BY <1>0, <1>6, MaxIsLast
  <2>2. fold[s \ {Max(s)}] = (\A i \in s \ {Max(s)} : ~ Bt(i))
    BY <1>6
  <2>3. fold[s] = (fold[s \ {Max(s)}] /\ ~ Bt(Max(s)))
    BY <1>4, <1>6
  <2>4. fold[s] = (\A i \in s : ~ Bt(i))
    BY <2>1, <2>2, <2>3
  <2> QED
    BY <2>4
<1>7. 1..n \in Good
  <2> HIDE DEF Good
  <2> QED
    BY <1>0, <1>5, <1>6, SubsetInduction
<1>8. fold[1..n] = (\A i \in 1..n : ~ Bt(i))
  BY <1>7
<1>9. (\A i \in 1..n : ~ Beats(far, list2[order[i]]))
        = (\A k \in Keys(list2) : ~ Beats(far, list2[k]))
  BY <1>0
<1> QED
  BY <1>1, <1>8, <1>9 DEF Bt

LEMMA FarthestFound ==
  ASSUME DOMAIN list2 = Node,
         \A k \in Keys(list2) : Distance(own, list2[k]) \in Int,
         NEW g \in Int \cup {NaN}
  PROVE  /\ Farthest(g) \in Int \cup {NaN} /\ (Farthest(g) = NaN <=> g = NaN)
         /\ g /= NaN =>
               /\ Farthest(g) >= g
               /\ \A k \in Keys(list2) : Farthest(g) >= Distance(own, list2[k])
               /\ \/ Farthest(g) = g
                  \/ \E k \in Keys(list2) : Farthest(g) = Distance(own, list2[k])
<1> DEFINE order == InOrder(list2)
           n == Cardinality(Keys(list2))
<1>0. /\ n \in Nat /\ DOMAIN order = 1..n /\ order \in [1..n -> Keys(list2)]
      /\ \A k \in Keys(list2) : \E i \in 1..n : order[i] = k
  BY KeysFinite, InOrderSorted, OrderCovers
<1> HIDE DEF n, order
<1> DEFINE Val == Int \cup {NaN}
           D(i) == Distance(own, list2[order[i]])
           Next1(m, i) == IF m /= NaN /\ D(i) > m THEN D(i) ELSE m
           F == [i \in 1..n |-> [m \in Val |-> Next1(m, i)]]
           IsFold(it) ==
             it = [s \in SUBSET (1..n) |->
                     IF s = {} THEN g ELSE Next1(it[s \ {Max(s)}], Max(s))]
           fold == CHOOSE it : IsFold(it)
<1>1. Farthest(g) = fold[1..n]
  BY <1>0 DEF Farthest, FoldLeft, MapThenFoldSet, Farther, order
<1>2. \A i \in 1..n : D(i) \in Int
  BY <1>0
<1> HIDE DEF D
<1>3. \A i \in 1..n, m \in Val : Next1(m, i) \in Val
  BY <1>2
<1> HIDE DEF Next1, Val
<1>4. \E it : IsFold(it)
  <2>1. F \in [1..n -> [Val -> Val]]
    BY <1>3
  <2>2. PICK h : Folds(h, n, Val, g, F)
    <3>1. g \in Val
      BY DEF Val
    <3> HIDE DEF F
    <3> QED
      BY <1>0, <2>1, <3>1, FoldExists
  <2>3. /\ h \in [SUBSET (1..n) -> Val]
        /\ \A s \in SUBSET (1..n) :
              h[s] = IF s = {} THEN g ELSE F[Max(s)][h[s \ {Max(s)}]]
    <3> HIDE DEF F
    <3> QED
      BY <2>2 DEF Folds
  <2>4. ASSUME NEW s \in SUBSET (1..n), s /= {}
        PROVE  F[Max(s)][h[s \ {Max(s)}]] = Next1(h[s \ {Max(s)}], Max(s))
    <3>1. Max(s) \in 1..n /\ s \ {Max(s)} \in SUBSET (1..n)
      BY <1>0, <2>4, PositionSets
    <3>2. F[Max(s)] = [m \in Val |-> Next1(m, Max(s))]
      BY <3>1
    <3>3. h[s \ {Max(s)}] \in Val
      BY <2>3, <3>1
    <3> QED
      BY <3>2, <3>3
  <2> HIDE DEF F
  <2>5. \A s \in SUBSET (1..n) :
           h[s] = IF s = {} THEN g ELSE Next1(h[s \ {Max(s)}], Max(s))
    BY <2>3, <2>4
  <2>6. IsFold(h)
    BY <2>3, <2>5
  <2> QED
    BY <2>6
<1>5. IsFold(fold)
  <2> HIDE DEF IsFold
  <2> QED
    BY <1>4
<1>6. \A s \in SUBSET (1..n) :
         fold[s] = IF s = {} THEN g ELSE Next1(fold[s \ {Max(s)}], Max(s))
  BY <1>5
<1> HIDE DEF fold, IsFold
<1> DEFINE Far(s, m) ==
             /\ m \in Val /\ (m = NaN <=> g = NaN)
             /\ g /= NaN => /\ m >= g /\ \A i \in s : m >= D(i)
                            /\ m = g \/ \E i \in s : m = D(i)
           Good == {s \in SUBSET (1..n) : Far(s, fold[s])}
<1>7. {} \in Good
  <2>1. fold[{}] = g
    BY <1>6
  <2>2. g \in Val /\ (g /= NaN => g >= g)
    BY DEF Val
  <2> QED
    BY <2>1, <2>2
<1>8. ASSUME NEW s \in SUBSET (1..n), s /= {}, s \ {Max(s)} \in Good
      PROVE  s \in Good
  <2> DEFINE l == Max(s)
             r == s \ {l}
  <2>1. l \in s /\ l \in 1..n /\ s = r \cup {l}
    BY <1>0, <1>8, MaxIsLast
  <2>2. Far(r, fold[r])
    BY <1>8
  <2>3. fold[s] = Next1(fold[r], l)
    BY <1>6, <1>8
  <2> HIDE DEF l, r, Good
  <2>4. D(l) \in Int /\ \A i \in r : D(i) \in Int
    <3>1. \A i \in r : i \in 1..n
      BY <2>1
    <3> QED
      BY <1>2, <2>1, <3>1
  <2>5. CASE g = NaN
    <3>1. fold[r] = NaN
      BY <2>2, <2>5
    <3>2. fold[s] = NaN
      BY <2>3, <3>1 DEF Next1
    <3> QED
      BY <2>2, <2>5, <3>1, <3>2 DEF Good
  <2>6. CASE g /= NaN
    <3>1. fold[r] \in Int /\ g \in Int /\ fold[r] /= NaN
      BY <2>2, <2>6 DEF Val
    <3>2. CASE D(l) > fold[r]
      <4>1. fold[s] = D(l)
        BY <2>3, <3>1, <3>2 DEF Next1
      <4>2. D(l) /= NaN /\ D(l) \in Val
        BY <2>4, DistanceAssumption DEF Val
      <4>3. D(l) >= g /\ \A i \in r : D(l) >= D(i)
        BY <2>2, <2>4, <2>6, <3>1, <3>2
      <4>4. D(l) >= D(l)
        BY <2>4
      <4>5. Far(s, D(l))
        BY <2>1, <2>6, <4>2, <4>3, <4>4
      <4> QED
        BY <4>1, <4>5 DEF Good
    <3>3. CASE ~ (D(l) > fold[r])
      <4>1. fold[s] = fold[r]
        BY <2>3, <3>3 DEF Next1
      <4>2. fold[r] >= D(l)
        BY <2>4, <3>1, <3>3
      <4>3. Far(s, fold[r])
        BY <2>1, <2>2, <2>6, <4>2
      <4> QED
        BY <4>1, <4>3 DEF Good
    <3> QED
      BY <3>2, <3>3
  <2> QED
    BY <2>5, <2>6
<1>9. 1..n \in Good
  <2> HIDE DEF Good
  <2> QED
    BY <1>0, <1>7, <1>8, SubsetInduction
<1>10. Far(1..n, fold[1..n])
  BY <1>9
<1>11. Far(1..n, Farthest(g))
  BY <1>1, <1>10
<1>12. /\ \A i \in 1..n : order[i] \in Keys(list2)
       /\ \A k \in Keys(list2) : \E i \in 1..n : order[i] = k
  BY <1>0
<1> QED
  BY <1>11, <1>12 DEF D, Val

LEMMA SlowestLoopIs ==
  ASSUME Measured, own \in NeighborInfo, KeyedList(list2),
         NEW g \in IndeterminateDistance
  PROVE  SlowestLoop(g) = IsSlowestNode(own, list2, g)
<1> DEFINE far == Farthest(g)
           D(k) == Distance(own, list2[k])
<1>1. DOMAIN list2 = Node
  BY DEF KeyedList, NeighborList
<1>2. \A k \in Keys(list2) : D(k) \in Int
  <2> SUFFICES ASSUME NEW k \in Keys(list2) PROVE D(k) \in Int
    OBVIOUS
  <2>1. /\ list2[k].imsi \in Node /\ list2[k].ts \in Nat
        /\ own.imsi \in Node /\ own.ts \in Nat
    BY DEF KeyedList, Keys, NeighborList, NeighborInfo
  <2>2. X(own) \in Int /\ X(list2[k]) \in Int /\ Y(own) \in Int /\ Y(list2[k]) \in Int
    BY <2>1 DEF Measured, X, Y
  <2> QED
    BY <2>2 DEF Distance, Abs
<1>3. g \in Int \cup {NaN}
  BY DistanceAssumption
<1>4. /\ far \in Int \cup {NaN} /\ (far = NaN <=> g = NaN)
      /\ g /= NaN => /\ far >= g /\ \A k \in Keys(list2) : far >= D(k)
                     /\ far = g \/ \E k \in Keys(list2) : far = D(k)
  BY <1>1, <1>2, <1>3, FarthestFound
<1>5. SlowestLoop(g) = (\A k \in Keys(list2) : ~ Beats(far, list2[k]))
  BY <1>1, NobodyBeatsIs DEF SlowestLoop
<1> HIDE DEF far, D
<1>6. ASSUME NEW k \in Keys(list2)
      PROVE  Beats(far, list2[k]) <=> (k \in Nearby(own, list2, g) /\ Slower(list2[k], own))
  <2> DEFINE near == g /= NaN /\ (2 * D(k) < g \/ \E j \in Keys(list2) : 2 * D(k) < D(j))
  <2>1. k \in Nearby(own, list2, g) <=> near
    BY DEF Nearby, D
  <2>2. (far /= NaN /\ 2 * D(k) < far) <=> near
    <3>1. CASE g = NaN
      BY <1>4, <3>1
    <3>2. CASE g /= NaN
      <4>1. g \in Int /\ far \in Int /\ D(k) \in Int /\ far /= NaN
        BY <1>2, <1>3, <1>4, <3>2
      <4>2. 2 * D(k) < far => near
        BY <1>4, <3>2
      <4>3. near => 2 * D(k) < far
        BY <1>2, <1>4, <3>2, <4>1
      <4> QED
        BY <4>1, <4>2, <4>3
    <3> QED
      BY <3>1, <3>2
  <2>3. Beats(far, list2[k]) <=> (far /= NaN /\ 2 * D(k) < far) /\ Slower(list2[k], own)
    BY DEF Beats, Slower, D
  <2> HIDE DEF near
  <2> QED
    BY <2>1, <2>2, <2>3
<1>7. (\A k \in Keys(list2) : ~ Beats(far, list2[k]))
        <=> IsSlowestNode(own, list2, g)
  <2>1. \A k \in Nearby(own, list2, g) : k \in Keys(list2)
    BY DEF Nearby
  <2> QED
    BY <1>6, <2>1 DEF IsSlowestNode
<1>8. IsSlowestNode(own, list2, g) \in BOOLEAN
  BY DEF IsSlowestNode
<1> QED
  BY <1>5, <1>7, <1>8

-----------------------------------------------------------------------------
(***************************************************************************)
(* UpdateNeighborList.  Whatever has been walked over, the lists and the   *)
(* vehicle are what they become when the stale keys among it are erased at *)
(* once.                                                                   *)
(***************************************************************************)
PurgeStates ==
    [list2: NeighborList, listR: NeighborList, own: NeighborInfo, changes: Nat]

\* the state of the walk after the keys of S have been erased
Purged(S) ==
    [list2 |-> Erase(list2, S),
     listR |-> Erase(listR, S),
     own |-> MobilityAfterUpdate(own, S, listR),
     changes |-> IF BecomesHead(own, S, listR) THEN 1 ELSE 0]

LEMMA ErasedList ==
  ASSUME NEW list \in NeighborList, NEW S
  PROVE  /\ Erase(list, S) \in NeighborList
         /\ Keys(Erase(list, S)) = Keys(list) \ S
         /\ S = {} => Erase(list, S) = list
BY DEF NeighborList, Erase, Keys

LEMMA PurgeBodyType ==
  ASSUME own \in NeighborInfo, NEW s \in PurgeStates, NEW k
  PROVE  PurgeBody(s, k) \in PurgeStates
<1> DEFINE lost == s.list2[k].imsi = s.own.clusterId
           info == IF lost
                   THEN [s.own EXCEPT !.clusterId = 0, !.degree = "STANDALONE"]
                   ELSE s.own
           left == Erase(s.listR, {k})
           head == Keys(left) = {} /\ info.degree /= "CH"
           after == IF head THEN [info EXCEPT !.degree = "CH", !.clusterId = own.imsi]
                    ELSE info
           count == IF head THEN s.changes + 1 ELSE s.changes
<1>1. /\ s.list2 \in NeighborList /\ s.listR \in NeighborList
      /\ s.own \in NeighborInfo /\ s.changes \in Nat
  BY DEF PurgeStates
<1>2. own.imsi \in Nat
  BY NodeAssumption DEF NeighborInfo
<1>3. info \in NeighborInfo
  BY <1>1 DEF NeighborInfo, NodeDegree
<1> HIDE DEF info
<1>4. after \in NeighborInfo
  BY <1>2, <1>3 DEF NeighborInfo, NodeDegree
<1>5. Erase(s.list2, {k}) \in NeighborList /\ left \in NeighborList
  BY <1>1, ErasedList
<1>6. count \in Nat
  BY <1>1
<1> HIDE DEF after, left, head, count
<1>7. PurgeBody(s, k) = IF own.ts - s.list2[k].ts <= 1200 THEN s
                        ELSE [list2 |-> Erase(s.list2, {k}), listR |-> left,
                              own |-> after, changes |-> count]
  BY DEF PurgeBody, after, left, head, count, info
<1> QED
  BY <1>4, <1>5, <1>6, <1>7 DEF PurgeStates

LEMMA PurgeBodyErases ==
  ASSUME own \in NeighborInfo, KeyedList(list2), KeyedList(listR),
         own.imsi \notin Keys(list2),
         NEW S, NEW k \in Keys(list2) \ S
  PROVE  PurgeBody(Purged(S), k) =
            Purged(IF k \in Stale(own, list2) THEN S \cup {k} ELSE S)
<1> DEFINE T == S \cup {k}
           H == [own EXCEPT !.degree = "CH", !.clusterId = own.imsi]
           L == [own EXCEPT !.degree = "STANDALONE", !.clusterId = 0]
           was == MobilityAfterUpdate(own, S, listR)
           lost == k = was.clusterId
           info == IF lost
                   THEN [was EXCEPT !.clusterId = 0, !.degree = "STANDALONE"]
                   ELSE was
           head == Keys(listR) \subseteq T /\ info.degree /= "CH"
           after == IF head THEN [info EXCEPT !.degree = "CH", !.clusterId = own.imsi]
                    ELSE info
           old == IF BecomesHead(own, S, listR) THEN 1 ELSE 0
           count == IF head THEN old + 1 ELSE old
<1>1. /\ list2 \in NeighborList /\ listR \in NeighborList
      /\ list2[k].imsi = k /\ k \in Node /\ list2[k] \in NeighborInfo
  BY DEF KeyedList, Keys, NeighborList
<1>2. Erase(list2, S)[k] = list2[k]
  BY <1>1 DEF Erase
<1>3. Erase(Erase(list2, S), {k}) = Erase(list2, T)
      /\ Erase(Erase(listR, S), {k}) = Erase(listR, T)
      /\ (Keys(Erase(listR, T)) = {} <=> Keys(listR) \subseteq T)
  <2>1. Keys(Erase(listR, T)) = Keys(listR) \ T
    BY <1>1, ErasedList
  <2>2. Erase(Erase(list2, S), {k}) = Erase(list2, T)
    BY DEF Erase
  <2>3. Erase(Erase(listR, S), {k}) = Erase(listR, T)
    BY DEF Erase
  <2> QED
    BY <2>1, <2>2, <2>3
<1>4. k \in Stale(own, list2) <=> ~ (own.ts - list2[k].ts <= 1200)
  <2>1. own.ts \in Nat /\ list2[k].ts \in Nat
    BY <1>1 DEF NeighborInfo
  <2> QED
    BY <2>1 DEF Stale
<1>5. /\ H.degree = "CH" /\ H.clusterId = own.imsi
      /\ L.degree = "STANDALONE" /\ L.clusterId = 0
      /\ [L EXCEPT !.degree = "CH", !.clusterId = own.imsi] = H
      /\ [L EXCEPT !.clusterId = 0, !.degree = "STANDALONE"] = L
      /\ [own EXCEPT !.clusterId = 0, !.degree = "STANDALONE"] = L
      /\ [own EXCEPT !.degree = "CH", !.clusterId = own.imsi] = H
  BY DEF NeighborInfo
<1>6. was = IF BecomesHead(own, S, listR) THEN H
            ELSE IF LostHead(own, S) THEN L ELSE own
  BY DEF MobilityAfterUpdate
<1>7. MobilityAfterUpdate(own, T, listR) =
         IF BecomesHead(own, T, listR) THEN H
         ELSE IF LostHead(own, T) THEN L ELSE own
  BY DEF MobilityAfterUpdate
<1>8. k /= own.imsi
  OBVIOUS
<1>9. BecomesHead(own, T, listR) <=>
         Keys(listR) \subseteq T /\ (own.degree /= "CH" \/ LostHead(own, T))
  BY DEF BecomesHead
<1>10. LostHead(own, T) <=> LostHead(own, S) \/ k = own.clusterId
  BY DEF LostHead
<1>11. after = MobilityAfterUpdate(own, T, listR)
       /\ count = IF BecomesHead(own, T, listR) THEN 1 ELSE 0
  <2> HIDE DEF H, L, was
  <2>1. CASE BecomesHead(own, S, listR)
    <3>1. was = H /\ old = 1 /\ ~ lost /\ info = H /\ ~ head
      BY <1>5, <1>6, <1>8, <2>1
    <3>2. Keys(listR) \subseteq S /\ (own.degree /= "CH" \/ LostHead(own, S))
      BY <2>1 DEF BecomesHead
    <3>3. BecomesHead(own, T, listR)
      BY <1>9, <1>10, <3>2
    <3> HIDE DEF info, head, lost, old
    <3> QED
      BY <1>7, <3>1, <3>3
  <2>2. CASE ~ BecomesHead(own, S, listR) /\ LostHead(own, S)
    <3>1. was = L /\ old = 0
      BY <1>6, <2>2
    <3>2. info = L
      BY <1>5, <3>1
    <3> HIDE DEF info, old
    <3>3. head <=> BecomesHead(own, T, listR)
      BY <1>5, <1>9, <1>10, <2>2, <3>2
    <3>4. LostHead(own, T)
      BY <1>10, <2>2
    <3> HIDE DEF head
    <3> QED
      BY <1>5, <1>7, <3>1, <3>2, <3>3, <3>4
  <2>3. CASE ~ BecomesHead(own, S, listR) /\ ~ LostHead(own, S)
    <3>1. was = own /\ old = 0
      BY <1>6, <2>3
    <3>2. lost <=> LostHead(own, T)
      BY <1>10, <2>3, <3>1
    <3>3. info = IF LostHead(own, T) THEN L ELSE own
      BY <1>5, <3>1, <3>2
    <3> HIDE DEF info, old, lost
    <3>4. head <=> BecomesHead(own, T, listR)
      BY <1>5, <1>9, <3>3
    <3> HIDE DEF head
    <3>5. CASE head
      <4>1. after = H
        BY <1>5, <3>3, <3>5
      <4>2. count = 1
        BY <3>1, <3>5
      <4> HIDE DEF after, count
      <4> QED
        BY <1>7, <3>4, <3>5, <4>1, <4>2
    <3>6. CASE ~ head
      <4>1. after = info /\ count = 0
        BY <3>1, <3>6
      <4> HIDE DEF after, count
      <4> QED
        BY <1>7, <3>3, <3>4, <3>6, <4>1
    <3> QED
      BY <3>5, <3>6
  <2> QED
    BY <2>1, <2>2, <2>3
<1>12. /\ Purged(S).list2 = Erase(list2, S) /\ Purged(S).listR = Erase(listR, S)
       /\ Purged(S).own = was /\ Purged(S).changes = old
  BY DEF Purged
<1>13. Purged(T) = [list2 |-> Erase(list2, T), listR |-> Erase(listR, T),
                    own |-> MobilityAfterUpdate(own, T, listR),
                    changes |-> IF BecomesHead(own, T, listR) THEN 1 ELSE 0]
  BY DEF Purged
<1> HIDE DEF T, H, L, was, old
<1> DEFINE p == Purged(S)
           left == Erase(p.listR, {k})
           empty == Keys(left) = {} /\ info.degree /= "CH"
<1>14. p.list2[k].imsi = p.own.clusterId <=> lost
  BY <1>1, <1>2, <1>12 DEF was
<1>15. left = Erase(listR, T) /\ (empty <=> head)
  BY <1>3, <1>12 DEF T
<1>16. info = IF p.list2[k].imsi = p.own.clusterId
              THEN [p.own EXCEPT !.clusterId = 0, !.degree = "STANDALONE"]
              ELSE p.own
  BY <1>12, <1>14
<1>17. PurgeBody(p, k) =
          IF own.ts - p.list2[k].ts <= 1200 THEN p
          ELSE [list2 |-> Erase(p.list2, {k}), listR |-> left,
                own |-> IF empty THEN [info EXCEPT !.degree = "CH",
                                                   !.clusterId = own.imsi]
                        ELSE info,
                changes |-> IF empty THEN p.changes + 1 ELSE p.changes]
  <2> HIDE DEF p, info, lost
  <2> QED
    BY <1>16 DEF PurgeBody, left, empty
<1> HIDE DEF p, left, empty
<1>18. PurgeBody(p, k) =
          IF own.ts - list2[k].ts <= 1200 THEN p
          ELSE [list2 |-> Erase(list2, T), listR |-> Erase(listR, T),
                own |-> after, changes |-> count]
  <2> HIDE DEF info
  <2>1. p.list2 = Erase(list2, S) /\ p.changes = old /\ p.list2[k] = list2[k]
    BY <1>2, <1>12 DEF p
  <2>2. Erase(p.list2, {k}) = Erase(list2, T)
    BY <1>3, <2>1 DEF T
  <2> HIDE DEF head
  <2> QED
    BY <1>15, <1>17, <2>1, <2>2 DEF after, count
<1> HIDE DEF after, count
<1> QED
  BY <1>4, <1>11, <1>13, <1>18 DEF T, p

LEMMA PurgeLoopIs ==
  ASSUME own \in NeighborInfo, KeyedList(list2), KeyedList(listR),
         own.imsi \notin Keys(list2), NEW order \in SetToSeqs(Keys(list2))
  PROVE  PurgeLoop(order) = Purged(Stale(own, list2))
<1> DEFINE n == Cardinality(Keys(list2))
           base == [list2 |-> list2, listR |-> listR, own |-> own, changes |-> 0]
           F == [i \in 1..n |-> [v \in PurgeStates |-> PurgeBody(v, order[i])]]
           IsFold(it) ==
             it = [s \in SUBSET (1..n) |->
                     IF s = {} THEN base
                     ELSE PurgeBody(it[s \ {Max(s)}], order[Max(s)])]
           fold == CHOOSE it : IsFold(it)
           Walked(s) == Stale(own, list2) \cap {order[i] : i \in s}
<1>1. /\ n \in Nat /\ DOMAIN order = 1..n /\ order \in [1..n -> Keys(list2)]
      /\ \A i, j \in 1..n : order[i] = order[j] => i = j
      /\ \A k \in Keys(list2) : \E i \in 1..n : order[i] = k
  <2>1. DOMAIN list2 = Node
    BY DEF KeyedList, NeighborList
  <2> QED
    BY <2>1, KeysFinite, OrderCovers
<1> HIDE DEF n
<1>2. PurgeLoop(order) = fold[1..n]
  BY <1>1 DEF PurgeLoop, FoldLeft, MapThenFoldSet
<1>3. base = Purged({}) /\ base \in PurgeStates
  <2>1. list2 \in NeighborList /\ listR \in NeighborList
    BY DEF KeyedList
  <2>2. Erase(list2, {}) = list2 /\ Erase(listR, {}) = listR
    BY <2>1, ErasedList
  <2>3. ~ BecomesHead(own, {}, listR) /\ MobilityAfterUpdate(own, {}, listR) = own
    BY DEF BecomesHead, MobilityAfterUpdate, LostHead
  <2> QED
    BY <2>1, <2>2, <2>3 DEF Purged, PurgeStates
<1> HIDE DEF base
<1>4. \E it : IsFold(it)
  <2>1. F \in [1..n -> [PurgeStates -> PurgeStates]]
    BY PurgeBodyType
  <2>2. PICK h : Folds(h, n, PurgeStates, base, F)
    <3> HIDE DEF F
    <3> QED
      BY <1>1, <1>3, <2>1, FoldExists
  <2>3. /\ h \in [SUBSET (1..n) -> PurgeStates]
        /\ \A s \in SUBSET (1..n) :
              h[s] = IF s = {} THEN base ELSE F[Max(s)][h[s \ {Max(s)}]]
    <3> HIDE DEF F
    <3> QED
      BY <2>2 DEF Folds
  <2>4. ASSUME NEW s \in SUBSET (1..n), s /= {}
        PROVE  F[Max(s)][h[s \ {Max(s)}]] = PurgeBody(h[s \ {Max(s)}], order[Max(s)])
    <3>1. Max(s) \in 1..n /\ s \ {Max(s)} \in SUBSET (1..n)
      BY <1>1, <2>4, PositionSets
    <3>2. F[Max(s)] = [v \in PurgeStates |-> PurgeBody(v, order[Max(s)])]
      BY <3>1
    <3>3. h[s \ {Max(s)}] \in PurgeStates
      BY <2>3, <3>1
    <3> QED
      BY <3>2, <3>3
  <2> HIDE DEF F
  <2>5. \A s \in SUBSET (1..n) :
           h[s] = IF s = {} THEN base
                  ELSE PurgeBody(h[s \ {Max(s)}], order[Max(s)])
    BY <2>3, <2>4
  <2>6. IsFold(h)
    BY <2>3, <2>5
  <2> QED
    BY <2>6
<1>5. IsFold(fold)
  <2> HIDE DEF IsFold
  <2> QED
    BY <1>4
<1>6. \A s \in SUBSET (1..n) :
         fold[s] = IF s = {} THEN base
                   ELSE PurgeBody(fold[s \ {Max(s)}], order[Max(s)])
  BY <1>5
<1> HIDE DEF fold, IsFold
<1> DEFINE Good == {s \in SUBSET (1..n) : fold[s] = Purged(Walked(s))}
<1>7. {} \in Good
  <2>1. Walked({}) = {}
    OBVIOUS
  <2>2. fold[{}] = base
    BY <1>6
  <2> QED
    BY <1>3, <2>1, <2>2
<1>8. ASSUME NEW s \in SUBSET (1..n), s /= {}, s \ {Max(s)} \in Good
      PROVE  s \in Good
  <2> DEFINE l == Max(s)
             r == s \ {l}
             k == order[l]
  <2>1. l \in s /\ l \in 1..n /\ s = r \cup {l} /\ l \notin r /\ r \in SUBSET (1..n)
    <3>1. l \in s
      BY <1>1, <1>8, MaxIsLast
    <3> HIDE DEF l
    <3> QED
      BY <1>8, <3>1
  <2>2. fold[r] = Purged(Walked(r))
    BY <1>8
  <2>3. fold[s] = PurgeBody(fold[r], k)
    BY <1>6, <1>8
  <2> HIDE DEF l, r, Good
  <2>4. k \in Keys(list2) /\ k \notin {order[i] : i \in r}
    <3>1. \A i \in r : i \in 1..n /\ i /= l
      BY <2>1
    <3> QED
      BY <1>1, <2>1, <3>1
  <2>5. {order[i] : i \in s} = {order[i] : i \in r} \cup {k}
    BY <2>1
  <2>6. Walked(s) = IF k \in Stale(own, list2) THEN Walked(r) \cup {k} ELSE Walked(r)
    BY <2>5
  <2>7. k \in Keys(list2) \ Walked(r)
    BY <2>4
  <2> HIDE DEF k, Walked
  <2>8. fold[s] = Purged(Walked(s))
    BY <2>2, <2>3, <2>6, <2>7, PurgeBodyErases
  <2> QED
    BY <2>8 DEF Good
<1>9. 1..n \in Good
  <2> HIDE DEF Good
  <2> QED
    BY <1>1, <1>7, <1>8, SubsetInduction
<1>10. Walked(1..n) = Stale(own, list2)
  <2>1. \A k \in Stale(own, list2) : k \in Keys(list2)
    BY DEF Stale
  <2> QED
    BY <1>1, <2>1
<1> QED
  BY <1>2, <1>9, <1>10

-----------------------------------------------------------------------------
(***************************************************************************)
(* MergeCheck.  Of the candidates walked over, boundary is the time of the *)
(* first with the longest; rt, whatever it still holds, is not longer.     *)
(***************************************************************************)
Times == {t \in [length: Int, speed: Int] : t.speed > 0}

TimeOf(k) == [length |-> Span(own, listR[k]), speed |-> Closing(own, listR[k])]

\* one of the conditions of MergeCheck holds
Computed(k) ==
    /\ X(own) /= X(listR[k]) /\ V(own) /= 0
    /\ Abs(V(own)) /= Abs(V(listR[k]))

LEMMA Cancel ==
  ASSUME NEW a \in Int, NEW b \in Int, a > 0
  PROVE  a * b > 0 <=> b > 0
<1>1. CASE b > 0
  BY <1>1
<1>2. CASE b = 0
  BY <1>2
<1>3. CASE b < 0
  BY <1>3
<1> QED
  BY <1>1, <1>2, <1>3

LEMMA Scale ==
  ASSUME NEW a \in Int, NEW b \in Int, NEW c \in Int, a > 0
  PROVE  (a * b > a * c) <=> (b > c)
<1>1. a * b - a * c = a * (b - c)
  OBVIOUS
<1>2. b - c \in Int /\ (a * (b - c) > 0 <=> b - c > 0)
  BY Cancel
<1>3. a * b \in Int /\ a * c \in Int
  OBVIOUS
<1> QED
  BY <1>1, <1>2, <1>3

LEMMA LongerTransitive ==
  ASSUME NEW t \in Times, NEW u \in Times, NEW w \in Times,
         LongerThan(t, u), ~ LongerThan(w, u)
  PROVE  LongerThan(t, w)
<1> DEFINE a == t.length   p == t.speed
           b == u.length   q == u.speed
           c == w.length   r == w.speed
<1>1. /\ a \in Int /\ b \in Int /\ c \in Int /\ p \in Int /\ q \in Int /\ r \in Int
      /\ p > 0 /\ q > 0 /\ r > 0
  BY DEF Times
<1>2. a * q > b * p /\ ~ (c * q > b * r)
  BY DEF LongerThan
<1> HIDE DEF a, b, c, p, q, r
<1>3. r * (a * q) > r * (b * p)
  <2>1. a * q \in Int /\ b * p \in Int
    BY <1>1
  <2> QED
    BY <1>1, <1>2, <2>1, Scale
<1>4. ~ (p * (c * q) > p * (b * r))
  <2>1. c * q \in Int /\ b * r \in Int
    BY <1>1
  <2> QED
    BY <1>1, <1>2, <2>1, Scale
<1>5. r * (b * p) = p * (b * r) /\ r * (a * q) = q * (a * r)
      /\ p * (c * q) = q * (c * p)
  BY <1>1
<1>6. /\ q * (a * r) \in Int /\ q * (c * p) \in Int /\ p * (b * r) \in Int
      /\ a * r \in Int /\ c * p \in Int
  BY <1>1
<1>7. q * (a * r) > q * (c * p)
  BY <1>3, <1>4, <1>5, <1>6
<1>8. a * r > c * p
  BY <1>1, <1>6, <1>7, Scale
<1> QED
  BY <1>8 DEF LongerThan, a, c, p, r

LEMMA LongerAsymmetric ==
  ASSUME NEW t \in Times, NEW u \in Times, LongerThan(t, u)
  PROVE  ~ LongerThan(u, t)
<1>1. t.length * u.speed \in Int /\ u.length * t.speed \in Int
  BY DEF Times
<1> QED
  BY <1>1 DEF LongerThan

LEMMA LongerThanNone ==
  ASSUME NEW t \in Times, NEW u \in Times, u.length >= 0
  PROVE  /\ LongerThan(t, u) => t.length > 0
         /\ LongerThan(t, NoTime) <=> t.length > 0
<1> DEFINE a == t.length   p == t.speed
           b == u.length   q == u.speed
<1>1. a \in Int /\ p \in Int /\ p > 0 /\ b \in Int /\ b >= 0 /\ q \in Int /\ q > 0
  BY DEF Times
<1>2. LongerThan(t, NoTime) <=> a > 0
  <2>1. LongerThan(t, NoTime) <=> a * 1 > 0 * p
    BY DEF LongerThan, NoTime
  <2> QED
    BY <1>1, <2>1
<1>3. ASSUME LongerThan(t, u) PROVE a > 0
  <2>1. a * q > b * p
    BY <1>3 DEF LongerThan
  <2> HIDE DEF a, b, p, q
  <2>2. b * p >= 0 /\ a * q \in Int /\ b * p \in Int
    BY <1>1
  <2>3. q * a > 0
    <3>1. a * q = q * a
      BY <1>1
    <3> QED
      BY <2>1, <2>2, <3>1
  <2> QED
    BY <1>1, <2>3, Cancel
<1> QED
  BY <1>2, <1>3

LEMMA TimeComputed ==
  ASSUME Measured, own \in NeighborInfo, KeyedList(listR), NEW k \in Keys(listR)
  PROVE  /\ TimeOf(k).length \in Int /\ TimeOf(k).speed \in Int
         /\ Computed(k) => TimeOf(k) \in Times
         /\ \A rt : RemainingTime(rt, listR[k]) = IF Computed(k) THEN TimeOf(k) ELSE rt
<1> DEFINE x == X(own)   z == X(listR[k])
           v == V(own)   w == V(listR[k])
           av == Abs(v)  aw == Abs(w)
<1>1. x \in Int /\ z \in Int /\ v \in Int /\ w \in Int
  <2>1. /\ listR[k].imsi \in Node /\ listR[k].ts \in Nat
        /\ own.imsi \in Node /\ own.ts \in Nat
    BY DEF KeyedList, Keys, NeighborList, NeighborInfo
  <2> QED
    BY <2>1 DEF Measured, X, V
<1>2. av \in Int /\ aw \in Int
  BY <1>1 DEF Abs
<1>3. /\ TimeOf(k).length = (IF DriftApart(own, listR[k]) THEN 80000 - Abs(x - z)
                                                         ELSE 80000 + Abs(x - z))
      /\ TimeOf(k).speed = Abs(v - w)
  BY DEF TimeOf, Span, Closing
<1>4. Computed(k) <=> x /= z /\ v /= 0 /\ av /= aw
  BY DEF Computed
<1>5. DriftApart(own, listR[k]) <=> ((x < z) <=> ((v > 0) <=> (av < aw)))
  BY DEF DriftApart
<1>6. FarAndFar(listR[k]) <=>
         \/ x < z /\ v > 0 /\ av < aw
         \/ x < z /\ v < 0 /\ av > aw
         \/ x > z /\ v > 0 /\ av > aw
         \/ x > z /\ v < 0 /\ av < aw
  BY DEF FarAndFar
<1>7. CloserAndCloser(listR[k]) <=>
         \/ x < z /\ v > 0 /\ av > aw
         \/ x < z /\ v < 0 /\ av < aw
         \/ x > z /\ v > 0 /\ av < aw
         \/ x > z /\ v < 0 /\ av > aw
  BY DEF CloserAndCloser
<1>8. Abs(x - z) \in Int /\ Abs(v - w) \in Int /\ (av /= aw => Abs(v - w) > 0)
  BY <1>1 DEF Abs
<1>9. \A rt : RemainingTime(rt, listR[k]) =
         IF FarAndFar(listR[k]) THEN [length |-> 80000 - Abs(x - z), speed |-> Abs(v - w)]
         ELSE IF CloserAndCloser(listR[k])
              THEN [length |-> 80000 + Abs(x - z), speed |-> Abs(v - w)]
              ELSE rt
  BY DEF RemainingTime
<1> HIDE DEF x, z, v, w, av, aw
<1>10. /\ FarAndFar(listR[k]) <=> Computed(k) /\ DriftApart(own, listR[k])
       /\ CloserAndCloser(listR[k]) <=> Computed(k) /\ ~ DriftApart(own, listR[k])
  BY <1>1, <1>2, <1>4, <1>5, <1>6, <1>7
<1>11. TimeOf(k).length \in Int /\ TimeOf(k).speed \in Int
  BY <1>3, <1>8
<1>12. TimeOf(k) = [length |-> TimeOf(k).length, speed |-> TimeOf(k).speed]
  BY DEF TimeOf
<1>13. Computed(k) => TimeOf(k) \in Times
  BY <1>3, <1>4, <1>8, <1>11, <1>12 DEF Times
<1>14. \A rt : RemainingTime(rt, listR[k]) = IF Computed(k) THEN TimeOf(k) ELSE rt
  BY <1>3, <1>9, <1>10, <1>12
<1> QED
  BY <1>11, <1>13, <1>14

MergeStates == [id: Nat, rt: Times, boundary: Times]

Candidates == MergeCandidates(own, listR)

\* found is what the loop has found among the candidates C
FirstOfLongest(found, C) ==
    /\ found \in MergeStates
    /\ ~ LongerThan(found.rt, found.boundary) /\ found.boundary.length >= 0
    /\ C = {} => found.id = 0 /\ found.boundary = NoTime
    /\ C /= {} => /\ found.id \in C /\ found.boundary = TimeOf(found.id)
                  /\ \A j \in C :
                        /\ ~ LongerThan(TimeOf(j), found.boundary)
                        /\ j < found.id => LongerThan(found.boundary, TimeOf(j))

LEMMA CandidateIs ==
  ASSUME Measured, own \in NeighborInfo, KeyedList(listR), NEW k \in Keys(listR)
  PROVE  k \in Candidates <=> /\ listR[k].degree = "CH" /\ Computed(k)
                              /\ TimeOf(k).length > 0
BY DEF Candidates, MergeCandidates, Computed, TimeOf

LEMMA MergeBodyIs ==
  ASSUME Measured, own \in NeighborInfo, KeyedList(listR),
         NEW found \in MergeStates, NEW k \in Keys(listR)
  PROVE  LET rt == IF Computed(k) THEN TimeOf(k) ELSE found.rt
         IN  /\ rt \in Times
             /\ MergeBody(found, listR[k]) =
                  IF listR[k].degree /= "CH" THEN found
                  ELSE IF LongerThan(rt, found.boundary)
                       THEN [id |-> k, rt |-> rt, boundary |-> rt]
                       ELSE [found EXCEPT !.rt = rt]
             /\ MergeBody(found, listR[k]) \in MergeStates
<1> DEFINE rt == IF Computed(k) THEN TimeOf(k) ELSE found.rt
<1>1. found.id \in Nat /\ found.rt \in Times /\ found.boundary \in Times
  BY DEF MergeStates
<1>2. rt \in Times
  BY <1>1, TimeComputed
<1>3. RemainingTime(found.rt, listR[k]) = rt
  BY TimeComputed
<1>4. listR[k].imsi = k /\ k \in Nat
  BY NodeAssumption DEF KeyedList, Keys
<1> HIDE DEF rt
<1>5. MergeBody(found, listR[k]) =
        IF listR[k].degree /= "CH" THEN found
        ELSE IF LongerThan(rt, found.boundary)
             THEN [id |-> k, rt |-> rt, boundary |-> rt]
             ELSE [found EXCEPT !.rt = rt]
  BY <1>3, <1>4 DEF MergeBody
<1>6. [found EXCEPT !.rt = rt] \in MergeStates
      /\ [id |-> k, rt |-> rt, boundary |-> rt] \in MergeStates
  BY <1>2, <1>4 DEF MergeStates
<1>7. MergeBody(found, listR[k]) \in MergeStates
  BY <1>5, <1>6
<1> QED
  BY <1>2, <1>5, <1>7 DEF rt

LEMMA MergeBodyFinds ==
  ASSUME Measured, own \in NeighborInfo, KeyedList(listR),
         NEW C \in SUBSET Candidates, NEW found, FirstOfLongest(found, C),
         NEW k \in Keys(listR), \A j \in C : j < k
  PROVE  FirstOfLongest(MergeBody(found, listR[k]),
                        IF k \in Candidates THEN C \cup {k} ELSE C)
<1> DEFINE rt == IF Computed(k) THEN TimeOf(k) ELSE found.rt
           next == MergeBody(found, listR[k])
           b == found.boundary
<1>1. found \in MergeStates /\ b \in Times /\ found.rt \in Times /\ b.length >= 0
  BY DEF FirstOfLongest, MergeStates
<1>2. rt \in Times /\ next \in MergeStates
  BY <1>1, MergeBodyIs
<1>3. next = IF listR[k].degree /= "CH" THEN found
             ELSE IF LongerThan(rt, b) THEN [id |-> k, rt |-> rt, boundary |-> rt]
                  ELSE [found EXCEPT !.rt = rt]
  BY <1>1, MergeBodyIs
<1>4. \A j \in C : TimeOf(j) \in Times /\ j < k /\ j \in Nat
  <2> SUFFICES ASSUME NEW j \in C PROVE TimeOf(j) \in Times /\ j < k /\ j \in Nat
    OBVIOUS
  <2>1. j \in Keys(listR)
    BY DEF Candidates, MergeCandidates
  <2>2. Computed(j)
    BY <2>1, CandidateIs
  <2>3. j \in Nat
    BY <2>1, NodeAssumption DEF Keys
  <2> QED
    BY <2>1, <2>2, <2>3, TimeComputed
<1>5. k \in Nat
  BY NodeAssumption DEF Keys
<1>6. k \in Candidates <=> /\ listR[k].degree = "CH" /\ Computed(k)
                           /\ TimeOf(k).length > 0
  BY CandidateIs
<1>7. CASE listR[k].degree /= "CH"
  BY <1>3, <1>6, <1>7
<1>8. CASE listR[k].degree = "CH" /\ LongerThan(rt, b)
  <2>1. next.id = k /\ next.rt = rt /\ next.boundary = rt
    BY <1>3, <1>8
  <2>2. Computed(k) /\ rt = TimeOf(k)
    BY <1>8 DEF FirstOfLongest
  <2>3. rt.length > 0
    BY <1>1, <1>2, <1>8, LongerThanNone
  <2>4. k \in Candidates
    BY <1>6, <1>8, <2>2, <2>3
  <2>5. ~ LongerThan(rt, rt)
    BY <1>2, LongerAsymmetric
  <2>6. \A j \in C : LongerThan(rt, TimeOf(j)) /\ ~ LongerThan(TimeOf(j), rt)
    <3> SUFFICES ASSUME NEW j \in C
                 PROVE  LongerThan(rt, TimeOf(j)) /\ ~ LongerThan(TimeOf(j), rt)
      OBVIOUS
    <3>1. ~ LongerThan(TimeOf(j), b)
      BY DEF FirstOfLongest
    <3>2. LongerThan(rt, TimeOf(j))
      BY <1>1, <1>2, <1>4, <1>8, <3>1, LongerTransitive
    <3> HIDE DEF rt
    <3> QED
      BY <1>2, <1>4, <3>2, LongerAsymmetric
  <2>7. rt.length \in Int
    BY <1>2 DEF Times
  <2> HIDE DEF rt, next
  <2>8. FirstOfLongest(next, C \cup {k})
    BY <1>2, <1>5, <2>1, <2>2, <2>3, <2>5, <2>6, <2>7 DEF FirstOfLongest
  <2> QED
    BY <2>4, <2>8 DEF next
<1>9. CASE listR[k].degree = "CH" /\ ~ LongerThan(rt, b)
  <2>1. next = [found EXCEPT !.rt = rt]
    BY <1>3, <1>9
  <2>2. next.id = found.id /\ next.rt = rt /\ next.boundary = b
    BY <1>1, <2>1 DEF MergeStates
  <2>3. CASE k \notin Candidates
    <3> HIDE DEF next, rt
    <3>1. FirstOfLongest(next, C)
      BY <1>2, <1>9, <2>2 DEF FirstOfLongest
    <3> QED
      BY <2>3, <3>1 DEF next
  <2>4. CASE k \in Candidates
    <3>1. rt = TimeOf(k) /\ rt.length > 0
      BY <1>6, <2>4
    <3> HIDE DEF next, rt
    <3>2. C /= {}
      <4>1. LongerThan(rt, NoTime)
        BY <1>1, <1>2, <3>1, LongerThanNone
      <4> QED
        BY <1>9, <4>1 DEF FirstOfLongest
    <3>3. found.id \in C /\ found.id < k /\ found.id \in Nat
      BY <1>4, <3>2 DEF FirstOfLongest
    <3>4. ~ (k < found.id)
      BY <1>5, <3>3
    <3>5. FirstOfLongest(next, C \cup {k})
      BY <1>2, <1>9, <2>2, <3>1, <3>2, <3>3, <3>4 DEF FirstOfLongest
    <3> QED
      BY <2>4, <3>5 DEF next
  <2> QED
    BY <2>3, <2>4
<1> QED
  BY <1>7, <1>8, <1>9

LEMMA MergeLoopFinds ==
  ASSUME Measured, own \in NeighborInfo, KeyedList(listR)
  PROVE  \E found : MergeLoop = found.id /\ FirstOfLongest(found, Candidates)
<1> DEFINE order == InOrder(listR)
           n == Cardinality(Keys(listR))
           base == [id |-> 0, rt |-> NoTime, boundary |-> NoTime]
           F == [i \in 1..n |-> [v \in MergeStates |-> MergeBody(v, listR[order[i]])]]
           IsFold(it) ==
             it = [s \in SUBSET (1..n) |->
                     IF s = {} THEN base
                     ELSE MergeBody(it[s \ {Max(s)}], listR[order[Max(s)]])]
           fold == CHOOSE it : IsFold(it)
           Walked(s) == Candidates \cap {order[i] : i \in s}
<1>1. /\ n \in Nat /\ DOMAIN order = 1..n /\ order \in [1..n -> Keys(listR)]
      /\ \A k \in Keys(listR) : \E i \in 1..n : order[i] = k
      /\ \A i, j \in 1..n : i < j => order[i] < order[j]
  <2>1. DOMAIN listR = Node
    BY DEF KeyedList, NeighborList
  <2> HIDE DEF n
  <2>2. /\ n \in Nat /\ DOMAIN order = 1..n /\ order \in [1..n -> Keys(listR)]
        /\ \A k \in Keys(listR) : \E i \in 1..n : order[i] = k
    BY <2>1, KeysFinite, InOrderSorted, OrderCovers DEF n
  <2>3. \A i, j \in DOMAIN order : i < j => order[i] < order[j]
    BY <2>1, InOrderSorted
  <2> QED
    BY <2>2, <2>3
<1> HIDE DEF n
<1>2. MergeLoop = fold[1..n].id
  BY <1>1 DEF MergeLoop, FoldLeft, MapThenFoldSet
<1> HIDE DEF order
<1>3. FirstOfLongest(base, {}) /\ base \in MergeStates
  <2>1. NoTime \in Times /\ NoTime.length = 0
    BY DEF NoTime, Times
  <2>2. ~ LongerThan(NoTime, NoTime)
    BY <2>1, LongerAsymmetric
  <2>3. base \in MergeStates
    BY <2>1 DEF MergeStates
  <2> QED
    BY <2>1, <2>2, <2>3 DEF FirstOfLongest
<1> HIDE DEF base
<1>4. \E it : IsFold(it)
  <2>1. F \in [1..n -> [MergeStates -> MergeStates]]
    BY <1>1, MergeBodyIs
  <2>2. PICK h : Folds(h, n, MergeStates, base, F)
    <3> HIDE DEF F
    <3> QED
      BY <1>1, <1>3, <2>1, FoldExists
  <2>3. /\ h \in [SUBSET (1..n) -> MergeStates]
        /\ \A s \in SUBSET (1..n) :
              h[s] = IF s = {} THEN base ELSE F[Max(s)][h[s \ {Max(s)}]]
    <3> HIDE DEF F
    <3> QED
      BY <2>2 DEF Folds
  <2>4. ASSUME NEW s \in SUBSET (1..n), s /= {}
        PROVE  F[Max(s)][h[s \ {Max(s)}]]
                 = MergeBody(h[s \ {Max(s)}], listR[order[Max(s)]])
    <3>1. Max(s) \in 1..n /\ s \ {Max(s)} \in SUBSET (1..n)
      BY <1>1, <2>4, PositionSets
    <3>2. F[Max(s)] = [v \in MergeStates |-> MergeBody(v, listR[order[Max(s)]])]
      BY <3>1
    <3>3. h[s \ {Max(s)}] \in MergeStates
      BY <2>3, <3>1
    <3> QED
      BY <3>2, <3>3
  <2> HIDE DEF F
  <2>5. \A s \in SUBSET (1..n) :
           h[s] = IF s = {} THEN base
                  ELSE MergeBody(h[s \ {Max(s)}], listR[order[Max(s)]])
    BY <2>3, <2>4
  <2>6. IsFold(h)
    BY <2>3, <2>5
  <2> QED
    BY <2>6
<1>5. IsFold(fold)
  <2> HIDE DEF IsFold
  <2> QED
    BY <1>4
<1>6. \A s \in SUBSET (1..n) :
         fold[s] = IF s = {} THEN base
                   ELSE MergeBody(fold[s \ {Max(s)}], listR[order[Max(s)]])
  BY <1>5
<1> HIDE DEF fold, IsFold
<1> DEFINE Good == {s \in SUBSET (1..n) : FirstOfLongest(fold[s], Walked(s))}
<1>7. {} \in Good
  <2>1. Walked({}) = {}
    OBVIOUS
  <2>2. fold[{}] = base
    BY <1>6
  <2> QED
    BY <1>3, <2>1, <2>2
<1>8. ASSUME NEW s \in SUBSET (1..n), s /= {}, s \ {Max(s)} \in Good
      PROVE  s \in Good
  <2> DEFINE l == Max(s)
             r == s \ {l}
             k == order[l]
  <2>1. l \in s /\ \A i \in s : i <= l
    BY <1>1, <1>8, MaxIsLast
  <2>2. FirstOfLongest(fold[r], Walked(r))
    BY <1>8
  <2>3. fold[s] = MergeBody(fold[r], listR[k])
    BY <1>6, <1>8
  <2> HIDE DEF l
  <2>4. l \in 1..n /\ s = r \cup {l} /\ \A i \in r : i \in 1..n /\ i < l
    <3>1. \A i \in s : i \in 1..n
      BY <1>8
    <3>2. l \in 1..n /\ s = r \cup {l}
      BY <2>1, <3>1
    <3>3. ASSUME NEW i \in r PROVE i \in 1..n /\ i < l
      <4>1. i \in 1..n /\ i <= l /\ i /= l
        BY <2>1, <3>1
      <4> HIDE DEF r
      <4> QED
        BY <1>1, <3>2, <4>1
    <3> QED
      BY <3>2, <3>3
  <2> HIDE DEF r, Good
  <2>5. k \in Keys(listR)
    BY <1>1, <2>4
  <2>6. {order[i] : i \in s} = {order[i] : i \in r} \cup {k}
    BY <2>4
  <2>7. Walked(s) = IF k \in Candidates THEN Walked(r) \cup {k} ELSE Walked(r)
    BY <2>6
  <2>8. \A j \in Walked(r) : j < k
    BY <1>1, <2>4
  <2>9. Walked(r) \in SUBSET Candidates
    OBVIOUS
  <2> HIDE DEF k, Walked
  <2>10. FirstOfLongest(fold[s], Walked(s))
    BY <2>2, <2>3, <2>5, <2>7, <2>8, <2>9, MergeBodyFinds
  <2> QED
    BY <2>10 DEF Good
<1>9. 1..n \in Good
  <2> HIDE DEF Good
  <2> QED
    BY <1>1, <1>7, <1>8, SubsetInduction
<1>10. Walked(1..n) = Candidates
  <2>1. \A k \in Candidates : k \in Keys(listR)
    BY DEF Candidates, MergeCandidates
  <2> QED
    BY <1>1, <2>1
<1> QED
  BY <1>2, <1>9, <1>10

LEMMA MergeLoopIs ==
  ASSUME Measured, own \in NeighborInfo, KeyedList(listR)
  PROVE  MergeLoop = MergeCheck(own, listR)
<1>1. PICK found : MergeLoop = found.id /\ FirstOfLongest(found, Candidates)
  BY MergeLoopFinds
<1> DEFINE Cross(j, k) == Span(own, listR[j]) * Closing(own, listR[k])
           Best(k) == \A j \in Candidates :
                         \/ Cross(k, j) > Cross(j, k)
                         \/ Cross(k, j) = Cross(j, k) /\ k <= j
<1>2. MergeCheck(own, listR) =
         IF Candidates = {} THEN 0 ELSE CHOOSE k \in Candidates : Best(k)
  BY DEF MergeCheck, Candidates
<1>3. \A j, k : LongerThan(TimeOf(j), TimeOf(k)) <=> Cross(j, k) > Cross(k, j)
  BY DEF LongerThan, TimeOf
<1>4. \A k \in Candidates : k \in Keys(listR) /\ k \in Nat
  BY NodeAssumption DEF Candidates, MergeCandidates, Keys
<1>5. ASSUME NEW j \in Candidates, NEW k \in Candidates
      PROVE  Cross(j, k) \in Int
  <2>1. TimeOf(j).length \in Int /\ TimeOf(k).speed \in Int
    BY <1>4, TimeComputed
  <2> QED
    BY <2>1 DEF TimeOf
<1> HIDE DEF Cross
<1>6. CASE Candidates = {}
  BY <1>1, <1>2, <1>6 DEF FirstOfLongest
<1>7. CASE Candidates /= {}
  <2> DEFINE f == found.id
  <2>1. /\ f \in Candidates
        /\ \A j \in Candidates : /\ ~ LongerThan(TimeOf(j), TimeOf(f))
                                 /\ j < f => LongerThan(TimeOf(f), TimeOf(j))
    BY <1>1, <1>7 DEF FirstOfLongest
  <2> HIDE DEF f
  <2>2. Best(f)
    <3> SUFFICES ASSUME NEW j \in Candidates
                 PROVE  \/ Cross(f, j) > Cross(j, f)
                        \/ Cross(f, j) = Cross(j, f) /\ f <= j
      OBVIOUS
    <3>1. /\ ~ (Cross(j, f) > Cross(f, j))
          /\ j < f => Cross(f, j) > Cross(j, f)
      BY <1>3, <2>1
    <3>2. Cross(j, f) \in Int /\ Cross(f, j) \in Int /\ j \in Nat /\ f \in Nat
      BY <1>4, <1>5, <2>1
    <3> QED
      BY <3>1, <3>2
  <2>3. ASSUME NEW k \in Candidates, Best(k) PROVE k = f
    <3>1. Cross(k, f) \in Int /\ Cross(f, k) \in Int /\ k \in Nat /\ f \in Nat
      BY <1>4, <1>5, <2>1
    <3>2. /\ Cross(k, f) > Cross(f, k) \/ (Cross(k, f) = Cross(f, k) /\ k <= f)
          /\ Cross(f, k) > Cross(k, f) \/ (Cross(f, k) = Cross(k, f) /\ f <= k)
      BY <2>1, <2>2, <2>3
    <3> QED
      BY <3>1, <3>2
  <2> HIDE DEF Best
  <2>4. (CHOOSE k \in Candidates : Best(k)) = f
    BY <2>1, <2>2, <2>3
  <2> QED
    BY <1>1, <1>2, <1>7, <2>4 DEF f
<1> QED
  BY <1>6, <1>7

-----------------------------------------------------------------------------
(***************************************************************************)
(* The time of MergeCheck.  Span is counted from the place of the other    *)
(* vehicle, ahead or behind, whichever border of the range comes first.    *)
(***************************************************************************)
LEMMA SameSign ==
  ASSUME NEW v \in Int, NEW w \in Int, v * w > 0
  PROVE  (v > 0 /\ w > 0) \/ (v < 0 /\ w < 0)
<1>1. CASE v > 0 /\ w < 0
  BY <1>1
<1>2. CASE v < 0 /\ w > 0
  BY <1>2
<1>3. CASE v = 0 \/ w = 0
  BY <1>3
<1> QED
  BY <1>1, <1>2, <1>3

LEMMA SpanLinear ==
  ASSUME Measured, NEW one \in NeighborInfo, NEW other \in NeighborInfo,
         V(one) * V(other) > 0, X(one) /= X(other), Abs(V(one)) /= Abs(V(other))
  PROVE  /\ V(one) > V(other) => Span(one, other) = 80000 - (X(one) - X(other))
         /\ V(one) < V(other) => Span(one, other) = 80000 + (X(one) - X(other))
<1>1. X(one) \in Int /\ X(other) \in Int /\ V(one) \in Int /\ V(other) \in Int
  BY DEF Measured, X, V, NeighborInfo
<1> DEFINE x == X(one)
           z == X(other)
           v == V(one)
           w == V(other)
<1>2. (v > 0 /\ w > 0) \/ (v < 0 /\ w < 0)
  BY <1>1, SameSign
<1>3. DriftApart(one, other) <=> ((x < z) <=> ((v > 0) <=> (Abs(v) < Abs(w))))
  BY DEF DriftApart
<1>4. Span(one, other) = IF DriftApart(one, other) THEN 80000 - Abs(x - z)
                                                   ELSE 80000 + Abs(x - z)
  BY DEF Span
<1>5. x /= z
  OBVIOUS
<1> HIDE DEF x, z, v, w
<1>6. CASE v > 0 /\ w > 0
  <2>1. DriftApart(one, other) <=> ((x < z) <=> (v < w))
    BY <1>1, <1>3, <1>6 DEF Abs, v, w
  <2> QED
    BY <1>1, <1>4, <1>5, <2>1 DEF Abs, x, z, v, w
<1>7. CASE v < 0 /\ w < 0
  <2>1. DriftApart(one, other) <=> ((x < z) <=> ~ (w < v))
    BY <1>1, <1>3, <1>7 DEF Abs, v, w
  <2> QED
    BY <1>1, <1>4, <1>5, <2>1 DEF Abs, x, z, v, w
<1> QED
  BY <1>2, <1>6, <1>7

LEMMA SpanExact ==
  ASSUME Measured, NEW one \in NeighborInfo, NEW other \in NeighborInfo,
         V(one) * V(other) > 0, X(one) /= X(other), Abs(V(one)) /= Abs(V(other))
  PROVE  Abs((X(one) - X(other)) * Closing(one, other)
               + (V(one) - V(other)) * Span(one, other))
           = 80000 * Closing(one, other)
<1>1. X(one) \in Int /\ X(other) \in Int /\ V(one) \in Int /\ V(other) \in Int
  BY DEF Measured, X, V, NeighborInfo
<1> DEFINE d == X(one) - X(other)
           u == V(one) - V(other)
<1>2. d \in Int /\ u \in Int
  BY <1>1
<1>3. /\ u > 0 => Span(one, other) = 80000 - d
      /\ u < 0 => Span(one, other) = 80000 + d
  BY <1>1, SpanLinear
<1>4. Closing(one, other) = Abs(u)
  BY DEF Closing
<1>5. u /= 0
  BY <1>1
<1> HIDE DEF d, u
<1>6. CASE u > 0
  <2>1. d * u + u * (80000 - d) = 80000 * u
    BY <1>2
  <2>2. Abs(80000 * u) = 80000 * u /\ Abs(u) = u
    BY <1>2, <1>6 DEF Abs
  <2> QED
    BY <1>3, <1>4, <1>6, <2>1, <2>2 DEF d, u
<1>7. CASE u < 0
  <2>1. d * (-u) + u * (80000 + d) = 80000 * u
    BY <1>2
  <2>2. Abs(80000 * u) = 80000 * (-u) /\ Abs(u) = -u
    BY <1>2, <1>7 DEF Abs
  <2> QED
    BY <1>3, <1>4, <1>7, <2>1, <2>2 DEF d, u
<1> QED
  BY <1>2, <1>5, <1>6, <1>7

-----------------------------------------------------------------------------
(***************************************************************************)
(* The slowest of all: the least identity among those of the least speed.  *)
(***************************************************************************)
LEMMA SlowestExists ==
  ASSUME Measured, NEW list, KeyedList(list), Keys(list) /= {}
  PROVE  \E k \in Keys(list) : \A j \in Keys(list) \ {k} : ~ Slower(list[j], list[k])
<1> DEFINE Speed(k) == Abs(V(list[k]))
           Speeds == {Speed(k) : k \in Keys(list)}
<1>1. \A k \in Keys(list) : Speed(k) \in Nat /\ k \in Nat /\ list[k].imsi = k
  <2> SUFFICES ASSUME NEW k \in Keys(list)
               PROVE  Speed(k) \in Nat /\ k \in Nat /\ list[k].imsi = k
    OBVIOUS
  <2>1. list[k].imsi \in Node /\ list[k].ts \in Nat /\ list[k].imsi = k
    BY DEF KeyedList, Keys, NeighborList, NeighborInfo
  <2>2. V(list[k]) \in Int
    BY <2>1 DEF Measured, V
  <2>3. Speed(k) \in Nat
    BY <2>2 DEF Abs
  <2>4. k \in Nat
    BY <2>1, NodeAssumption
  <2> QED
    BY <2>1, <2>3, <2>4
<1>2. Speeds \in SUBSET Nat /\ Speeds /= {}
  BY <1>1
<1> HIDE DEF Speed
<1>3. PICK v \in Speeds : \A w \in Speeds : v <= w
  BY <1>2, LeastExists
<1> DEFINE Slowest == {k \in Keys(list) : Speed(k) = v}
<1>4. Slowest \in SUBSET Nat /\ Slowest /= {}
  BY <1>1
<1>5. PICK k \in Slowest : \A j \in Slowest : k <= j
  BY <1>4, LeastExists
<1>6. ASSUME NEW j \in Keys(list)
      PROVE  ~ Slower(list[j], list[k])
  <2>1. Speed(k) <= Speed(j) /\ (Speed(j) = Speed(k) => k <= j)
    BY <1>3, <1>5
  <2>2. k \in Keys(list)
    BY <1>5
  <2>3. Speed(k) \in Nat /\ Speed(j) \in Nat /\ k \in Nat /\ j \in Nat
    BY <1>1, <2>2
  <2>4. Slower(list[j], list[k]) <=>
          (Speed(j) < Speed(k) \/ (Speed(j) = Speed(k) /\ j < k))
    BY <1>1, <2>2 DEF Slower, Speed
  <2> QED
    BY <2>1, <2>3, <2>4
<1> QED
  BY <1>5, <1>6

-----------------------------------------------------------------------------
(***************************************************************************)
(* What a call has returned.                                               *)
(***************************************************************************)
ResultInv ==
    /\ MergeCheckAgrees
    /\ IsSlowestNodeAgrees
    /\ Returned("UpdateNeighborList") => result.purged = Purged(Stale(own, list2))

LEMMA ResultInit == Init => ResultInv
BY DEF Init, ResultInv, MergeCheckAgrees, IsSlowestNodeAgrees, Returned

LEMMA ResultNext ==
  ASSUME Measured, CallInv, ResultInv, [Next]_vars
  PROVE  ResultInv'
<1>1. own \in NeighborInfo /\ own.imsi \notin Keys(list2)
      /\ KeyedList(list2) /\ KeyedList(listR)
  BY DEF CallInv
<1>2. CASE CallMergeCheck
  <2>1. MergeLoop = MergeCheck(own, listR)
    BY <1>1, MergeLoopIs
  <2>2. result' = [of |-> "MergeCheck", id |-> MergeCheck(own, listR)]
        /\ own' = own /\ listR' = listR
    BY <1>2, <2>1 DEF CallMergeCheck
  <2> QED
    BY <2>2 DEF ResultInv, MergeCheckAgrees, IsSlowestNodeAgrees, Returned
<1>3. CASE CallIsSlowestNode
  <2>1. PICK g \in IndeterminateDistance :
           result' = [of |-> "IsSlowestNode", maxDistance |-> g,
                      slowest |-> SlowestLoop(g)]
    BY <1>3 DEF CallIsSlowestNode
  <2>2. SlowestLoop(g) = IsSlowestNode(own, list2, g)
    BY <1>1, SlowestLoopIs
  <2>3. result'.of = "IsSlowestNode" /\ result'.maxDistance = g
        /\ result'.slowest = IsSlowestNode(own, list2, g)
    BY <2>1, <2>2
  <2>4. own' = own /\ list2' = list2
    BY <1>3 DEF CallIsSlowestNode
  <2> QED
    BY <2>3, <2>4 DEF ResultInv, MergeCheckAgrees, IsSlowestNodeAgrees, Returned
<1>4. CASE CallUpdateNeighborList
  <2>1. InOrder(list2) \in SetToSeqs(Keys(list2))
    BY <1>1, InOrderSorted DEF KeyedList, NeighborList
  <2>2. PurgeLoop(InOrder(list2)) = Purged(Stale(own, list2))
    BY <1>1, <2>1, PurgeLoopIs
  <2>3. result'.of = "UpdateNeighborList"
        /\ result'.purged = Purged(Stale(own, list2))
    BY <1>4, <2>2 DEF CallUpdateNeighborList
  <2>4. own' = own /\ list2' = list2 /\ listR' = listR
    BY <1>4 DEF CallUpdateNeighborList
  <2> QED
    BY <2>3, <2>4 DEF ResultInv, MergeCheckAgrees, IsSlowestNodeAgrees, Returned,
                      Purged
<1>5. CASE UNCHANGED vars
  BY <1>5 DEF vars, ResultInv, MergeCheckAgrees, IsSlowestNodeAgrees, Returned,
              Purged
<1> QED
  BY <1>2, <1>3, <1>4, <1>5 DEF Next

LEMMA ResultHolds == ASSUME Measured, Informed PROVE Spec => [](CallInv /\ ResultInv)
<1>1. Init => CallInv /\ ResultInv
  BY CallInit, ResultInit
<1>2. CallInv /\ ResultInv /\ [Next]_vars => CallInv' /\ ResultInv'
  BY CallNext, ResultNext
<1> QED
  BY <1>1, <1>2, PTL DEF Spec

-----------------------------------------------------------------------------
(***************************************************************************)
(* MergeCheck returns the first head of those with the longest time, for   *)
(* any list: the boundary it keeps is their time, and the time of the      *)
(* entry before, with which it goes on when it computes none, never passes *)
(* it (637-669).                                                           *)
(***************************************************************************)
THEOREM MergeCheckAgreesHolds ==
  ASSUME Measured, Informed PROVE Spec => []MergeCheckAgrees
<1>1. ResultInv => MergeCheckAgrees
  BY DEF ResultInv
<1> QED
  BY <1>1, ResultHolds, PTL

(***************************************************************************)
(* The two passes of IsSlowestNode (1055-1078) compare the vehicle with    *)
(* those nearby, for any list and whatever maxDistance held, NaN included. *)
(***************************************************************************)
THEOREM IsSlowestNodeAgreesHolds ==
  ASSUME Measured, Informed PROVE Spec => []IsSlowestNodeAgrees
<1>1. ResultInv => IsSlowestNodeAgrees
  BY DEF ResultInv
<1> QED
  BY <1>1, ResultHolds, PTL

(***************************************************************************)
(* UpdateNeighborList, which erases, changes degree and cluster and        *)
(* compares the later entries with what it has changed, comes to the       *)
(* outcome of erasing the stale entries at once, in any order of the keys, *)
(* and counts at most one change of state (1096-1135).                     *)
(***************************************************************************)
THEOREM UpdateNeighborListAgreesHolds ==
  ASSUME Measured, Informed PROVE Spec => []UpdateNeighborListAgrees
<1>1. CallInv /\ ResultInv => UpdateNeighborListAgrees
  <2> SUFFICES ASSUME CallInv, ResultInv, Returned("UpdateNeighborList")
               PROVE  /\ result.purged = Purged(Stale(own, list2))
                      /\ \A order \in SetToSeqs(Keys(list2)) :
                            PurgeLoop(order) = result.purged
    BY DEF UpdateNeighborListAgrees, Purged
  <2>1. result.purged = Purged(Stale(own, list2))
    BY DEF ResultInv
  <2>2. \A order \in SetToSeqs(Keys(list2)) :
           PurgeLoop(order) = Purged(Stale(own, list2))
    BY PurgeLoopIs DEF CallInv
  <2> QED
    BY <2>1, <2>2
<1> QED
  BY <1>1, ResultHolds, PTL

(***************************************************************************)
(* For two vehicles that drive the same way, the time MergeCheck compares  *)
(* is the time until they are 80 m apart (640-657), wherever they are and  *)
(* whichever is faster.                                                    *)
(***************************************************************************)
THEOREM SpanIsExactHolds ==
  ASSUME Measured, Informed PROVE Spec => []SpanIsExact
<1>1. CallInv => SpanIsExact
  <2> SUFFICES ASSUME CallInv, NEW k \in MergeCandidates(own, listR),
                      V(own) * V(listR[k]) > 0
               PROVE  Abs((X(own) - X(listR[k])) * Closing(own, listR[k])
                            + (V(own) - V(listR[k])) * Span(own, listR[k]))
                        = 80000 * Closing(own, listR[k])
    BY DEF SpanIsExact
  <2>1. own \in NeighborInfo /\ listR[k] \in NeighborInfo
    BY DEF CallInv, KeyedList, MergeCandidates, Keys, NeighborList
  <2>2. X(own) /= X(listR[k]) /\ Abs(V(own)) /= Abs(V(listR[k]))
    BY DEF MergeCandidates
  <2> QED
    BY <2>1, <2>2, SpanExact
<1> QED
  BY <1>1, CallInit, CallNext, PTL DEF Spec

(***************************************************************************)
(* Among vehicles that all know each other there is one for which          *)
(* IsSlowestNode is true (1050), whatever maxDistance held: equal speeds   *)
(* and the distances that are left out do not make everybody give way.     *)
(***************************************************************************)
THEOREM SomebodyIsSlowestHolds ==
  ASSUME Measured, Informed PROVE Spec => []SomebodyIsSlowest
<1>1. CallInv => SomebodyIsSlowest
  <2> SUFFICES ASSUME CallInv PROVE SomebodyIsSlowest
    OBVIOUS
  <2> DEFINE all == Insert(list2, own)
  <2>1. own \in NeighborInfo /\ own.imsi \in Node /\ own /= Null
    BY NullAssumption DEF CallInv, NeighborInfo
  <2>2. all \in NeighborList /\ all[own.imsi] = own
        /\ \A k \in Node : k /= own.imsi => all[k] = list2[k]
    BY <2>1 DEF CallInv, KeyedList, NeighborList, Insert
  <2> HIDE DEF all
  <2>3. own.imsi \in Keys(all)
    BY <2>1, <2>2 DEF Keys
  <2>4. KeyedList(all)
    BY <2>1, <2>2 DEF CallInv, KeyedList, Keys
  <2>5. PICK k \in Keys(all) : \A j \in Keys(all) \ {k} : ~ Slower(all[j], all[k])
    BY <2>3, <2>4, SlowestExists
  <2>6. ASSUME NEW g \in IndeterminateDistance
        PROVE  IsSlowestNode(all[k], Erase(all, {k}), g)
    <3> SUFFICES ASSUME NEW j \in Nearby(all[k], Erase(all, {k}), g)
                 PROVE  ~ Slower(Erase(all, {k})[j], all[k])
      BY DEF IsSlowestNode
    <3>1. j \in Keys(Erase(all, {k}))
      BY DEF Nearby
    <3>2. j \in Keys(all) \ {k} /\ Erase(all, {k})[j] = all[j]
      BY <3>1 DEF Keys, Erase
    <3> QED
      BY <2>5, <3>2
  <2> QED
    BY <2>5, <2>6 DEF SomebodyIsSlowest, all
<1> QED
  BY <1>1, CallInit, CallNext, PTL DEF Spec

=============================================================================
