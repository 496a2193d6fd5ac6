-------------------------- MODULE IVFSearchProofs --------------------------
(***************************************************************************)
(* What the search returns, for every index, query, scan and every number  *)
(* of neighbours, probes and clusters.                                     *)
(***************************************************************************)
EXTENDS IVFSearch, FiniteSetTheorems, WellFoundedInduction, TLAPS

(* Induction over naturals is the least number principle for a set.        *)
LEMMA Least ==
    ASSUME NEW T, T \subseteq Nat, T # {}
    PROVE  \E x \in T : \A y \in T : x <= y
<1>1. PICK x \in T : \A y \in T : ~(<<y, x>> \in OpToRel(<, Nat))
  BY NatLessThanWellFounded, WFMin
<1>2. \A y \in T : ~(y < x)
  BY <1>1 DEF OpToRel
<1> QED
  BY <1>2
-----------------------------------------------------------------------------
(* The running sums.                                                       *)
Size == Len(ScanOrder)
Vector(v) == \A k \in Coordinate : v[k] \in Int
Step(q, v, n) == Square(q[ScanOrder[n]] - v[ScanOrder[n]])
IsSum(q, v, n, s) ==
    s = [i \in 0 .. n |-> IF i = 0 THEN 0 ELSE s[i - 1] + Step(q, v, i)]

LEMMA SizeType == Size \in Nat /\ \A n \in 1 .. Size : ScanOrder[n] \in Coordinate
BY QueriesAssumption DEF Size, Coordinate

LEMMA SquareType == \A x \in Int : Square(x) \in Nat
BY DEF Square

LEMMA SumsExist ==
    ASSUME NEW q, NEW v, NEW n \in Nat
    PROVE  \E s : IsSum(q, v, n, s)
<1> DEFINE T == {m \in Nat : ~\E s : IsSum(q, v, m, s)}
<1>1. SUFFICES ASSUME T # {} PROVE FALSE
  OBVIOUS
<1>2. PICK m \in T : \A l \in T : m <= l
  BY <1>1, Least
<1>3. m # 0
  <2>1. IsSum(q, v, 0, [i \in 0 .. 0 |-> 0])
    BY DEF IsSum
  <2> QED
    BY <2>1
<1>4. m - 1 \in Nat /\ m - 1 \notin T
  BY <1>2, <1>3
<1>5. PICK s : IsSum(q, v, m - 1, s)
  BY <1>4
<1> DEFINE t == [i \in 0 .. m |-> IF i = m THEN s[m - 1] + Step(q, v, m) ELSE s[i]]
<1>6. \A i \in 0 .. m : t[i] = IF i = 0 THEN 0 ELSE t[i - 1] + Step(q, v, i)
  <2> TAKE i \in 0 .. m
  <2>1. CASE i = m
    BY <1>3, <1>4, <2>1
  <2>2. CASE i # m
    <3>1. i \in 0 .. m - 1
      BY <2>2
    <3>2. s[i] = IF i = 0 THEN 0 ELSE s[i - 1] + Step(q, v, i)
      BY <1>5, <3>1 DEF IsSum
    <3>3. t[i] = s[i] /\ (i # 0 => t[i - 1] = s[i - 1])
      BY <2>2, <3>1
    <3> QED
      BY <3>2, <3>3
  <2> QED
    BY <2>1, <2>2
<1>7. IsSum(q, v, m, t)
  BY <1>6 DEF IsSum
<1> QED
  BY <1>2, <1>7

LEMMA SumsAre ==
    ASSUME NEW q, NEW v
    PROVE  IsSum(q, v, Size, PartialSums(q, v))
<1>1. PICK s : IsSum(q, v, Size, s)
  BY SumsExist, SizeType
<1>2. \E t : t = [i \in 0 .. Len(ScanOrder) |->
                    IF i = 0 THEN 0
                    ELSE t[i - 1] + Square(q[ScanOrder[i]] - v[ScanOrder[i]])]
  BY <1>1 DEF IsSum, Step, Size
<1> QED
  BY <1>2 DEF PartialSums, IsSum, Step, Size

LEMMA SumSteps ==
    ASSUME NEW q, NEW v
    PROVE  /\ PartialSums(q, v)[0] = 0
           /\ \A n \in 1 .. Size :
                PartialSums(q, v)[n] = PartialSums(q, v)[n - 1] + Step(q, v, n)
<1> DEFINE s == PartialSums(q, v)
<1>1. s = [i \in 0 .. Size |-> IF i = 0 THEN 0 ELSE s[i - 1] + Step(q, v, i)]
  BY SumsAre DEF IsSum
<1> HIDE DEF s
<1>2. s[0] = 0 /\ \A n \in 1 .. Size : s[n] = s[n - 1] + Step(q, v, n)
  BY <1>1, SizeType
<1> QED
  BY <1>2 DEF s

\* Sums of squares of integers are naturals and do not decrease.
LEMMA StepType ==
    ASSUME NEW q, NEW v, Vector(q), Vector(v), NEW n \in 1 .. Size
    PROVE  Step(q, v, n) \in Nat
<1>1. q[ScanOrder[n]] \in Int /\ v[ScanOrder[n]] \in Int
  BY SizeType DEF Vector
<1> QED
  BY <1>1, SquareType DEF Step

LEMMA SumType ==
    ASSUME NEW q, NEW v, Vector(q), Vector(v), NEW n \in 0 .. Size
    PROVE  PartialSums(q, v)[n] \in Nat
<1> DEFINE s == PartialSums(q, v)
           T == {m \in 0 .. Size : s[m] \notin Nat}
<1>1. s[0] = 0 /\ \A m \in 1 .. Size : s[m] = s[m - 1] + Step(q, v, m)
  BY SumSteps
<1> HIDE DEF s
<1>2. SUFFICES ASSUME T # {} PROVE FALSE
  BY DEF s
<1>3. PICK m \in T : \A l \in T : m <= l
  <2>1. T \subseteq Nat
    BY SizeType
  <2> QED
    BY <1>2, <2>1, Least
<1>4. m \in 1 .. Size
  BY <1>1, SizeType
<1>5. m - 1 \in 0 .. Size /\ m - 1 \notin T
  BY <1>3, <1>4, SizeType
<1>6. s[m - 1] \in Nat /\ Step(q, v, m) \in Nat
  BY <1>4, <1>5, StepType
<1> QED
  BY <1>1, <1>4, <1>6

LEMMA DistanceType ==
    ASSUME NEW q, NEW v, Vector(q), Vector(v)
    PROVE  Distance(q, v) \in Nat
BY SumType, SizeType DEF Distance, Size

LEMMA SumsGrow ==
    ASSUME NEW q, NEW v, Vector(q), Vector(v), NEW n \in 0 .. Size
    PROVE  PartialSums(q, v)[n] <= Distance(q, v)
<1> DEFINE s == PartialSums(q, v)
           T == {k \in Nat : k <= Size /\ ~(s[Size - k] <= s[Size])}
<1>1. \A m \in 1 .. Size : s[m] = s[m - 1] + Step(q, v, m)
  BY SumSteps
<1>2. \A m \in 0 .. Size : s[m] \in Nat
  BY SumType
<1>3. Distance(q, v) = s[Size]
  BY DEF Distance, Size
<1> HIDE DEF s
<1>4. SUFFICES ASSUME T # {} PROVE FALSE
  <2>1. Size - n \in Nat /\ Size - (Size - n) = n /\ Size - n <= Size
    BY SizeType
  <2>2. Size - n \notin T
    BY <2>1
  <2>3. s[n] <= s[Size]
    BY <2>1, <2>2
  <2> QED
    BY <1>3, <2>3 DEF s
<1>5. PICK k \in T : \A l \in T : k <= l
  BY <1>4, Least
<1>6. k # 0
  BY <1>2, SizeType
<1>7. k - 1 \in Nat /\ k - 1 \notin T /\ Size - (k - 1) \in 1 .. Size
      /\ Size - (k - 1) - 1 = Size - k /\ Size - k \in 0 .. Size
  BY <1>5, <1>6, SizeType
<1> DEFINE m == Size - (k - 1)
<1>8. s[m] <= s[Size]
  <2>1. k - 1 <= Size
    BY <1>5, SizeType
  <2> QED
    BY <1>7, <2>1
<1>9. s[m] = s[Size - k] + Step(q, v, m) /\ Step(q, v, m) \in Nat
  BY <1>1, <1>7, StepType
<1>10. s[m] \in Nat /\ s[Size - k] \in Nat /\ s[Size] \in Nat
  BY <1>2, <1>7, SizeType
<1>11. s[Size - k] <= s[Size]
  <2> HIDE DEF m
  <2> QED
    BY <1>8, <1>9, <1>10
<1> QED
  BY <1>5, <1>11

\* The scalar scan: a distance below the limit is exact, another stays at or
\* above the limit.
LEMMA CutDistances ==
    ASSUME NEW q, NEW v, Vector(q), Vector(v), NEW limit \in Nat
    PROVE  LET d == CutDistance(q, v, limit)
           IN  /\ d \in Nat /\ d <= Distance(q, v)
               /\ d = Distance(q, v) \/ d >= limit
<1> DEFINE s == PartialSums(q, v)
           reached == {n \in 1 .. Len(ScanOrder) : s[n] >= limit}
<1>1. \A m \in 0 .. Size : s[m] \in Nat /\ s[m] <= Distance(q, v)
  BY SumType, SumsGrow
<1>2. Distance(q, v) \in Nat
  BY DistanceType
<1>3. CASE reached = {}
  BY <1>2, <1>3 DEF CutDistance
<1>4. CASE reached # {}
  <2>1. \E n \in reached : \A m \in reached : n <= m
    <3>1. reached \subseteq Nat
      OBVIOUS
    <3> HIDE DEF reached
    <3> QED
      BY <1>4, <3>1, Least
  <2> DEFINE n == CHOOSE n \in reached : \A m \in reached : n <= m
  <2>2. n \in reached
    BY <2>1
  <2>3. CutDistance(q, v, limit) = s[n]
    BY <1>4 DEF CutDistance
  <2> QED
    BY <1>1, <2>2, <2>3 DEF Size
<1> QED
  BY <1>3, <1>4

\* A box is never farther than what is in it.
LEMMA SquaresGrow ==
    ASSUME NEW x \in Int, NEW y \in Int, 0 <= x, x <= y \/ x <= -y
    PROVE  Square(x) <= Square(y)
<1>1. CASE x <= y
  <2>1. x * x <= x * y
    BY <1>1
  <2>2. x * y <= y * y
    BY <1>1
  <2> QED
    BY <2>1, <2>2 DEF Square
<1>2. CASE x <= -y
  <2>1. x * x <= x * (-y)
    BY <1>2
  <2>2. x * (-y) <= (-y) * (-y)
    BY <1>2
  <2>3. (-y) * (-y) = y * y
    OBVIOUS
  <2> QED
    BY <2>1, <2>2, <2>3 DEF Square
<1> QED
  BY <1>1, <1>2

LEMMA GapType ==
    ASSUME NEW x \in Int, NEW low \in Int, NEW high \in Int, NEW y \in Int,
           low <= y, y <= high
    PROVE  /\ Gap(x, low, high) \in Int /\ Square(Gap(x, low, high) - 0) \in Nat
           /\ Square(Gap(x, low, high) - 0) <= Square(x - y)
<1> DEFINE g == Gap(x, low, high)
<1>1. g \in Int /\ 0 <= g /\ (g <= x - y \/ g <= -(x - y)) /\ g - 0 = g
  BY DEF Gap
<1>2. Square(g) <= Square(x - y)
  <2> HIDE DEF g
  <2> QED
    BY <1>1, SquaresGrow
<1>3. Square(g) \in Nat
  BY <1>1, SquareType
<1> QED
  BY <1>1, <1>2, <1>3

LEMMA SmallerSteps ==
    ASSUME NEW p, NEW o, NEW q, NEW v,
           Vector(p), Vector(o), Vector(q), Vector(v),
           \A n \in 1 .. Size : Step(p, o, n) <= Step(q, v, n)
    PROVE  Distance(p, o) <= Distance(q, v)
<1> DEFINE s == PartialSums(p, o)
           u == PartialSums(q, v)
           T == {n \in 0 .. Size : ~(s[n] <= u[n])}
<1>1. /\ s[0] = 0 /\ \A m \in 1 .. Size : s[m] = s[m - 1] + Step(p, o, m)
      /\ u[0] = 0 /\ \A m \in 1 .. Size : u[m] = u[m - 1] + Step(q, v, m)
  BY SumSteps
<1>2. \A m \in 0 .. Size : s[m] \in Nat /\ u[m] \in Nat
  BY SumType
<1>3. Distance(p, o) = s[Size] /\ Distance(q, v) = u[Size]
  BY DEF Distance, Size
<1> HIDE DEF s, u
<1>4. SUFFICES ASSUME T # {} PROVE FALSE
  BY <1>3, SizeType
<1>5. PICK m \in T : \A l \in T : m <= l
  <2>1. T \subseteq Nat
    BY SizeType
  <2> QED
    BY <1>4, <2>1, Least
<1>6. m \in 1 .. Size
  BY <1>1, SizeType
<1>7. m - 1 \in 0 .. Size /\ m - 1 \notin T /\ m \in 0 .. Size
  BY <1>5, <1>6, SizeType
<1>8. s[m - 1] <= u[m - 1]
  BY <1>7
<1>9. Step(p, o, m) \in Nat /\ Step(q, v, m) \in Nat /\ Step(p, o, m) <= Step(q, v, m)
  BY <1>6, StepType
<1>10. s[m] <= u[m]
  BY <1>1, <1>2, <1>6, <1>7, <1>8, <1>9
<1> QED
  BY <1>5, <1>10

LEMMA BoxIsNearer ==
    ASSUME NEW q, NEW box, NEW v, Vector(q), Vector(v), DOMAIN q = Coordinate,
           \A k \in Coordinate : /\ box.low[k] \in Int /\ box.high[k] \in Int
                                 /\ box.low[k] <= v[k] /\ v[k] <= box.high[k]
    PROVE  /\ BBoxDistance(q, box) \in Nat
           /\ BBoxDistance(q, box) <= Distance(q, v)
<1> DEFINE p == [d \in DOMAIN q |-> Gap(q[d], box.low[d], box.high[d])]
           o == [d \in DOMAIN q |-> 0]
<1>1. \A k \in Coordinate :
        /\ p[k] \in Int /\ o[k] = 0 /\ Square(p[k] - o[k]) <= Square(q[k] - v[k])
  <2> TAKE k \in Coordinate
  <2>1. q[k] \in Int /\ v[k] \in Int
    BY DEF Vector
  <2> QED
    BY <2>1, GapType
<1>2. Vector(p) /\ Vector(o)
  BY <1>1 DEF Vector
<1>3. BBoxDistance(q, box) = Distance(p, o)
  BY DEF BBoxDistance
<1> HIDE DEF p, o
<1>4. \A n \in 1 .. Size : Step(p, o, n) <= Step(q, v, n)
  BY <1>1, SizeType DEF Step
<1> QED
  BY <1>2, <1>3, <1>4, SmallerSteps, DistanceType
-----------------------------------------------------------------------------
(* Entries and their ranks in a set.                                       *)
EntryType == [dist : Nat, id : Nat, fraud : BOOLEAN]

EntrySet(T) ==
    /\ T \subseteq EntryType
    /\ IsFiniteSet(T)
    /\ \A e \in T : e.dist < Infinity
    /\ \A e, f \in T : e.id = f.id => e = f

Below(T, e) == {f \in T : Less(f, e)}
RankIn(T, e) == Cardinality(Below(T, e)) + 1

LEMMA SentinelType == Sentinel \in EntryType /\ Sentinel.dist = Infinity /\ Sentinel.id = NoID
BY SentinelAssumption DEF Sentinel, EntryType

LEMMA LessOrder ==
    /\ \A e, f, g \in EntryType : Less(e, f) /\ Less(f, g) => Less(e, g)
    /\ \A e, f \in EntryType : ~(Less(e, f) /\ Less(f, e))
    /\ \A e, f, g \in EntryType : Less(e, f) /\ ~Less(g, f) => Less(e, g)
    /\ \A e, f, g \in EntryType : ~Less(f, e) /\ ~Less(g, f) => ~Less(g, e)
BY DEF Less, EntryType

LEMMA RankType ==
    ASSUME NEW T, EntrySet(T), NEW e
    PROVE  /\ IsFiniteSet(Below(T, e)) /\ Cardinality(Below(T, e)) \in Nat
           /\ RankIn(T, e) \in Nat \ {0}
           /\ e \in T => RankIn(T, e) <= Cardinality(T)
<1>1. Below(T, e) \in SUBSET T /\ IsFiniteSet(T)
  BY DEF Below, EntrySet
<1>2. /\ IsFiniteSet(Below(T, e)) /\ Cardinality(Below(T, e)) <= Cardinality(T)
      /\ Cardinality(T) = Cardinality(Below(T, e)) => T = Below(T, e)
  BY <1>1, FS_Subset
<1>3. Cardinality(Below(T, e)) \in Nat /\ Cardinality(T) \in Nat
  BY <1>1, <1>2, FS_CardinalityType
<1>4. e \in T => e \notin Below(T, e)
  BY LessOrder DEF Below, EntrySet
<1> QED
  BY <1>2, <1>3, <1>4 DEF RankIn

LEMMA RankOrder ==
    ASSUME NEW T, EntrySet(T), NEW e \in T, NEW f \in T, Less(e, f)
    PROVE  RankIn(T, e) < RankIn(T, f)
<1>1. Below(T, e) \in SUBSET Below(T, f)
  BY LessOrder DEF Below, EntrySet
<1>2. e \in Below(T, f) /\ e \notin Below(T, e)
  BY LessOrder DEF Below, EntrySet
<1>3. IsFiniteSet(Below(T, f)) /\ Cardinality(Below(T, f)) \in Nat
      /\ Cardinality(Below(T, e)) \in Nat
  BY RankType
<1>4. /\ Cardinality(Below(T, e)) <= Cardinality(Below(T, f))
      /\ Cardinality(Below(T, f)) = Cardinality(Below(T, e)) => Below(T, f) = Below(T, e)
  BY <1>1, <1>3, FS_Subset
<1> QED
  BY <1>2, <1>3, <1>4 DEF RankIn

LEMMA RankUnique ==
    ASSUME NEW T, EntrySet(T), NEW e \in T, NEW f \in T, RankIn(T, e) = RankIn(T, f)
    PROVE  e = f
<1>1. ~Less(e, f) /\ ~Less(f, e)
  BY RankOrder, RankType
<1>2. e.id = f.id
  BY <1>1 DEF Less, EntrySet, EntryType
<1> QED
  BY <1>2 DEF EntrySet

LEMMA RankExists ==
    ASSUME NEW T, EntrySet(T), NEW i \in 1 .. Cardinality(T)
    PROVE  \E e \in T : RankIn(T, e) = i
<1> DEFINE n == Cardinality(T)
           rank == [e \in T |-> RankIn(T, e)]
<1>1. IsFiniteSet(T) /\ n \in Nat
  BY FS_CardinalityType DEF EntrySet
<1>2. rank \in [T -> 1 .. n]
  BY <1>1, RankType
<1>3. rank \in Injection(T, 1 .. n)
  BY <1>2, RankUnique DEF Injection, IsInjective
<1>4. IsFiniteSet(1 .. n) /\ Cardinality(1 .. n) = n
  BY <1>1, FS_Interval
<1> HIDE DEF rank
<1>5. rank \in Surjection(T, 1 .. n)
  BY <1>3, <1>4, FS_Injection
<1>6. \E e \in T : rank[e] = i
  BY <1>5 DEF Surjection
<1> QED
  BY <1>6 DEF rank

\* The reference definition, by ranks.
NearestIn(T) ==
    [i \in 1 .. K |-> IF \E e \in T : RankIn(T, e) = i
                        THEN CHOOSE e \in T : RankIn(T, e) = i
                        ELSE Sentinel]

LEMMA NearestOfRank ==
    ASSUME NEW T, EntrySet(T), NEW i \in 1 .. K, NEW e \in T, RankIn(T, e) = i
    PROVE  NearestIn(T)[i] = e
BY RankUnique DEF NearestIn
-----------------------------------------------------------------------------
(* The slots.                                                              *)
Sorted(b) ==
    /\ b \in [1 .. K -> EntryType]
    /\ \A i, j \in 1 .. K : i < j => ~Less(b[j], b[i])

\* If everything below a slot is in the slots and these are apart, the slot's
\* number is its rank.
LEMMA SlotRank ==
    ASSUME NEW T, EntrySet(T), NEW b, Sorted(b), NEW i \in 1 .. K,
           \A j \in 1 .. i : b[j] \in T,
           \A j, k \in 1 .. i : b[j] = b[k] => j = k,
           \A f \in T : Less(f, b[i]) => \E j \in 1 .. K : b[j] = f
    PROVE  RankIn(T, b[i]) = i
<1> DEFINE S == Below(T, b[i])
           g == [j \in 1 .. i - 1 |-> b[j]]
<1>0. K \in Nat /\ i \in Nat /\ i - 1 \in Nat
  BY CountAssumption
<1>1. \A j \in 1 .. i - 1 : j \in 1 .. i /\ j \in 1 .. K /\ j < i /\ b[j] \in EntryType
  BY <1>0 DEF Sorted
<1>2. b[i] \in EntryType /\ b[i] \in T
  BY <1>0 DEF Sorted
<1>3. \A j \in 1 .. i - 1 : b[j] \in S
  <2> TAKE j \in 1 .. i - 1
  <2>1. ~Less(b[i], b[j]) /\ b[j] # b[i] /\ b[j] \in T
    BY <1>0, <1>1 DEF Sorted
  <2>2. b[j].id # b[i].id
    BY <1>2, <2>1 DEF EntrySet
  <2>3. Less(b[j], b[i])
    BY <1>1, <1>2, <2>1, <2>2 DEF Less, EntryType
  <2> QED
    BY <2>1, <2>3 DEF Below
<1>4. \A f \in S : \E j \in 1 .. i - 1 : b[j] = f
  <2> TAKE f \in S
  <2>1. f \in T /\ Less(f, b[i]) /\ f \in EntryType
    BY DEF Below, EntrySet
  <2>2. PICK j \in 1 .. K : b[j] = f
    BY <2>1
  <2>3. ~(i < j) /\ i # j
    BY <1>2, <2>1, <2>2, LessOrder DEF Sorted
  <2> QED
    BY <1>0, <2>2, <2>3
<1> HIDE DEF S
<1>5. g \in Bijection(1 .. i - 1, S)
  <2>1. g \in [1 .. i - 1 -> S]
    BY <1>3
  <2>2. \A j, k \in 1 .. i - 1 : g[j] = g[k] => j = k
    BY <1>1
  <2>3. \A f \in S : \E j \in 1 .. i - 1 : g[j] = f
    BY <1>4
  <2> QED
    BY <2>1, <2>2, <2>3 DEF Bijection, Injection, Surjection, IsInjective
<1>6. Cardinality(S) = i - 1
  BY <1>0, <1>5, FS_CountingElements DEF ExistsBijection
<1> QED
  BY <1>0, <1>6 DEF RankIn, S

\* The slots of exact distances.
ExactSlots(b, T) ==
    /\ Sorted(b)
    /\ \A i \in 1 .. K : b[i] \in T \cup {Sentinel}
    /\ \A i, j \in 1 .. K : b[i] = b[j] => i = j \/ b[i] = Sentinel
    /\ \A e \in T : ~Less(e, b[K]) \/ \E i \in 1 .. K : b[i] = e

LEMMA SentinelIsLast ==
    ASSUME NEW T, EntrySet(T), NEW e \in T
    PROVE  e \in EntryType /\ Less(e, Sentinel) /\ ~Less(Sentinel, e) /\ e # Sentinel
BY SentinelType, SentinelAssumption DEF EntrySet, EntryType, Less

LEMMA ExactSlotsAreNearest ==
    ASSUME NEW T, EntrySet(T), NEW b, ExactSlots(b, T)
    PROVE  b = NearestIn(T)
<1>0. K \in Nat /\ K \in 1 .. K
  BY CountAssumption
<1>1. \A i, j \in 1 .. K : i < j /\ b[j] \in T => b[i] \in T
  <2> SUFFICES ASSUME NEW i \in 1 .. K, NEW j \in 1 .. K, i < j, b[j] \in T,
                      b[i] = Sentinel
               PROVE  FALSE
    BY DEF ExactSlots
  <2> QED
    BY SentinelIsLast DEF ExactSlots, Sorted
<1>2. ASSUME NEW i \in 1 .. K, b[i] \in T
      PROVE  RankIn(T, b[i]) = i
  <2>1. \A j \in 1 .. i : j \in 1 .. K /\ b[j] \in T
    BY <1>0, <1>1, <1>2
  <2>2. \A j, k \in 1 .. i : b[j] = b[k] => j = k
    BY <2>1, SentinelIsLast DEF ExactSlots
  <2>3. ASSUME NEW f \in T, Less(f, b[i])
        PROVE  \E j \in 1 .. K : b[j] = f
    <3>1. b[K] \in EntryType /\ b[i] \in EntryType /\ f \in EntryType
      BY <1>0 DEF ExactSlots, Sorted, EntrySet
    <3>2. i = K \/ ~Less(b[K], b[i])
      BY <1>0 DEF ExactSlots, Sorted
    <3>3. Less(f, b[K])
      BY <2>3, <3>1, <3>2, LessOrder
    <3> QED
      BY <3>3 DEF ExactSlots
  <2> QED
    BY <2>1, <2>2, <2>3, SlotRank DEF ExactSlots
<1>3. ASSUME NEW i \in 1 .. K, b[i] \notin T, NEW e \in T
      PROVE  RankIn(T, e) # i
  <2>1. b[i] = Sentinel
    BY <1>3 DEF ExactSlots
  <2>2. b[K] = Sentinel
    <3>1. b[K] \notin T
      BY <1>0, <1>1, <1>3
    <3> QED
      BY <1>0, <3>1 DEF ExactSlots
  <2>3. PICK j \in 1 .. K : b[j] = e
    BY <2>2, SentinelIsLast DEF ExactSlots
  <2> QED
    BY <1>2, <1>3, <2>3
<1>4. \A i \in 1 .. K : b[i] = NearestIn(T)[i]
  <2> TAKE i \in 1 .. K
  <2>1. CASE b[i] \in T
    BY <1>2, <2>1, NearestOfRank
  <2>2. CASE b[i] \notin T
    BY <1>3, <2>2 DEF NearestIn, ExactSlots
  <2> QED
    BY <2>1, <2>2
<1>5. b = [i \in 1 .. K |-> b[i]] /\ NearestIn(T) = [i \in 1 .. K |-> NearestIn(T)[i]]
  BY DEF ExactSlots, Sorted, NearestIn
<1> QED
  BY <1>4, <1>5

\* The slots of either scan: below the last distance they are exact, and there
\* are enough entries up to it.
UpTo(T, d) == {e \in T : e.dist <= d}

NearSlots(b, T) ==
    /\ Sorted(b)
    /\ \A i \in 1 .. K : b[i].dist <= Infinity
    /\ \A i \in 1 .. K : b[i].dist < b[K].dist => b[i] \in T
    /\ \A i, j \in 1 .. K : b[i] = b[j] => i = j \/ b[i].dist = b[K].dist
    /\ \A e \in T : e.dist < b[K].dist => \E i \in 1 .. K : b[i] = e
    /\ b[K].dist < Infinity => K <= Cardinality(UpTo(T, b[K].dist))

LEMMA DistancesSorted ==
    ASSUME NEW b, Sorted(b), NEW i \in 1 .. K, NEW j \in 1 .. K, i <= j
    PROVE  b[i].dist \in Nat /\ b[i].dist <= b[j].dist
<1>1. b[i] \in EntryType /\ b[j] \in EntryType
  BY DEF Sorted
<1>2. i = j \/ ~Less(b[j], b[i])
  BY CountAssumption DEF Sorted
<1> QED
  BY <1>1, <1>2 DEF Less, EntryType

LEMMA NearSlotRank ==
    ASSUME NEW T, EntrySet(T), NEW b, NearSlots(b, T), NEW i \in 1 .. K,
           b[i].dist < b[K].dist
    PROVE  b[i] \in T /\ RankIn(T, b[i]) = i
<1>0. K \in Nat /\ K \in 1 .. K
  BY CountAssumption
<1>1. \A j \in 1 .. i : j \in 1 .. K /\ b[j].dist < b[K].dist /\ b[j] \in T
  <2> TAKE j \in 1 .. i
  <2>1. j \in 1 .. K /\ j <= i
    BY <1>0
  <2>2. b[j].dist \in Nat /\ b[i].dist \in Nat /\ b[K].dist \in Nat
        /\ b[j].dist <= b[i].dist
    BY <1>0, <2>1, DistancesSorted DEF NearSlots
  <2> QED
    BY <2>1, <2>2 DEF NearSlots
<1>2. \A j, k \in 1 .. i : b[j] = b[k] => j = k
  <2> SUFFICES ASSUME NEW j \in 1 .. i, NEW k \in 1 .. i, b[j] = b[k], j # k
               PROVE  FALSE
    OBVIOUS
  <2>1. b[j].dist = b[K].dist
    BY <1>1 DEF NearSlots
  <2>2. b[K].dist \in Nat
    BY <1>0, DistancesSorted DEF NearSlots
  <2> QED
    BY <1>1, <2>1, <2>2
<1>3. ASSUME NEW f \in T, Less(f, b[i])
      PROVE  \E j \in 1 .. K : b[j] = f
  <2>1. b[i] \in EntryType /\ f \in EntryType /\ b[K] \in EntryType
    BY <1>0 DEF NearSlots, Sorted, EntrySet
  <2>2. f.dist < b[K].dist
    BY <1>3, <2>1 DEF Less, EntryType
  <2> QED
    BY <2>2 DEF NearSlots
<1>4. b[i] \in T
  BY <1>0, <1>1
<1> QED
  BY <1>1, <1>2, <1>3, <1>4, SlotRank DEF NearSlots

LEMMA NearSlotsAreNearest ==
    ASSUME NEW T, EntrySet(T), NEW b, NearSlots(b, T)
    PROVE  DistancesOf(b) = DistancesOf(NearestIn(T))
<1> DEFINE d == b[K].dist
           U == UpTo(T, d)
<1>0. K \in Nat /\ K \in 1 .. K /\ d \in Nat /\ d <= Infinity /\ Infinity \in Nat
  BY CountAssumption, SentinelAssumption, DistancesSorted DEF NearSlots
<1>1. IsFiniteSet(T) /\ Cardinality(T) \in Nat /\ T \subseteq EntryType
  BY FS_CardinalityType DEF EntrySet
<1>2. U \in SUBSET T
  BY DEF UpTo
<1> HIDE DEF U
<1>3. IsFiniteSet(U) /\ Cardinality(U) \in Nat /\ Cardinality(U) <= Cardinality(T)
  BY <1>1, <1>2, FS_Subset, FS_CardinalityType
\* An entry below the last distance sits at its rank.
<1>4. ASSUME NEW e \in T, e.dist < d
      PROVE  \E j \in 1 .. K : b[j] = e /\ RankIn(T, e) = j
  <2>1. PICK j \in 1 .. K : b[j] = e
    BY <1>4 DEF NearSlots
  <2> QED
    BY <1>4, <2>1, NearSlotRank
<1>5. ASSUME NEW i \in 1 .. K
      PROVE  b[i].dist = NearestIn(T)[i].dist
  <2>0. b[i].dist \in Nat /\ b[i].dist <= d
    BY <1>0, <1>5, DistancesSorted DEF NearSlots
  <2>1. CASE b[i].dist < d
    BY <2>1, NearSlotRank, NearestOfRank
  <2>2. CASE b[i].dist = d /\ d < Infinity
    <3>1. K <= Cardinality(U)
      BY <2>2 DEF NearSlots, U
    <3>2. i \in 1 .. Cardinality(T)
      BY <1>0, <1>1, <1>3, <3>1
    <3>3. PICK e \in T : RankIn(T, e) = i
      BY <3>2, RankExists
    <3>4. e.dist \in Nat
      BY <1>1 DEF EntryType
    <3>5. ~(e.dist < d)
      BY <1>0, <1>4, <2>2, <3>3
    <3>6. ASSUME d < e.dist PROVE FALSE
      <4>1. U \in SUBSET Below(T, e)
        BY <1>0, <1>1, <3>4, <3>6 DEF U, UpTo, Below, Less, EntryType
      <4>2. Cardinality(U) <= Cardinality(Below(T, e)) /\ Cardinality(Below(T, e)) \in Nat
        BY <4>1, RankType, FS_Subset
      <4> QED
        BY <1>0, <1>3, <3>1, <3>3, <4>2 DEF RankIn
    <3>7. e.dist = d
      BY <1>0, <3>4, <3>5, <3>6
    <3> QED
      BY <2>2, <3>3, <3>7, NearestOfRank
  <2>3. CASE b[i].dist = d /\ d = Infinity
    <3>1. ASSUME NEW e \in T, RankIn(T, e) = i PROVE FALSE
      <4>1. e.dist < d
        BY <2>3 DEF EntrySet
      <4> QED
        BY <1>0, <1>4, <2>3, <3>1, <4>1
    <3>2. NearestIn(T)[i] = Sentinel
      BY <3>1 DEF NearestIn
    <3> QED
      BY <2>3, <3>2, SentinelType
  <2> QED
    BY <1>0, <2>0, <2>1, <2>2, <2>3
<1> QED
  BY <1>5 DEF DistancesOf

\* insert: where the entry goes, and what moves.
LEMMA InsertAt ==
    ASSUME NEW b, Sorted(b), NEW x \in EntryType, Less(x, b[K])
    PROVE  \E p \in 1 .. K :
            /\ \A i \in 1 .. p - 1 : ~Less(x, b[i])
            /\ \A i \in p .. K : Less(x, b[i])
            /\ Insert(b, x) = [i \in 1 .. K |-> IF i < p THEN b[i]
                                                ELSE IF i = p THEN x ELSE b[i - 1]]
<1> DEFINE S == {i \in 1 .. K : Less(x, b[i])}
<1>0. K \in Nat /\ K \in 1 .. K
  BY CountAssumption
<1>1. PICK p \in S : \A i \in S : p <= i
  <2>1. S \subseteq Nat /\ K \in S
    BY <1>0
  <2> HIDE DEF S
  <2> QED
    BY <2>1, Least
<1>2. p \in 1 .. K /\ Less(x, b[p])
  OBVIOUS
<1>3. \A i \in 1 .. p - 1 : i \in 1 .. K /\ ~Less(x, b[i])
  BY <1>0, <1>1, <1>2
<1>4. \A i \in p .. K : Less(x, b[i])
  <2> TAKE i \in p .. K
  <2>1. i \in 1 .. K /\ (i = p \/ p < i)
    BY <1>0, <1>2
  <2>2. b[i] \in EntryType /\ b[p] \in EntryType /\ (i = p \/ ~Less(b[i], b[p]))
    BY <1>2, <2>1 DEF Sorted
  <2> QED
    BY <1>2, <2>1, <2>2, LessOrder
<1>5. Insert(b, x) = [i \in 1 .. K |-> IF i < p THEN b[i]
                                       ELSE IF i = p THEN x ELSE b[i - 1]]
  <2>1. ASSUME NEW i \in 1 .. K
        PROVE  (IF \A j \in 1 .. i : ~Less(x, b[j]) THEN b[i]
                ELSE IF \A j \in 1 .. i - 1 : ~Less(x, b[j]) THEN x
                ELSE b[i - 1])
               = IF i < p THEN b[i] ELSE IF i = p THEN x ELSE b[i - 1]
    <3>1. CASE i < p
      <4>1. \A j \in 1 .. i : j \in 1 .. p - 1
        BY <1>0, <1>2, <2>1, <3>1
      <4> QED
        BY <1>3, <3>1, <4>1
    <3>2. CASE i = p
      <4>1. i \in 1 .. i /\ Less(x, b[i])
        BY <1>0, <1>2, <3>2
      <4> QED
        BY <1>3, <3>2, <4>1
    <3>3. CASE p < i
      <4>1. p \in 1 .. i - 1 /\ p \in 1 .. i /\ ~(i < p) /\ i # p
        BY <1>0, <1>2, <2>1, <3>3
      <4> QED
        BY <1>2, <4>1
    <3> QED
      BY <1>0, <1>2, <2>1, <3>1, <3>2, <3>3
  <2> QED
    BY <2>1 DEF Insert
<1> QED
  BY <1>2, <1>3, <1>4, <1>5

\* The slots stay sorted, and the last one only comes nearer.
LEMMA OfferSorted ==
    ASSUME NEW b, Sorted(b), NEW x \in EntryType
    PROVE  Sorted(Offer(b, x)) /\ ~Less(b[K], Offer(b, x)[K])
<1>0. K \in Nat /\ K \in 1 .. K /\ b[K] \in EntryType
  BY CountAssumption DEF Sorted
<1>1. CASE ~Less(x, b[K])
  BY <1>0, <1>1, LessOrder DEF Offer
<1>2. CASE Less(x, b[K])
  <2> DEFINE c == Insert(b, x)
  <2>1. PICK p \in 1 .. K :
            /\ \A i \in 1 .. p - 1 : ~Less(x, b[i])
            /\ \A i \in p .. K : Less(x, b[i])
            /\ c = [i \in 1 .. K |-> IF i < p THEN b[i]
                                     ELSE IF i = p THEN x ELSE b[i - 1]]
    BY <1>2, InsertAt
  <2> HIDE DEF c
  <2>2. \A i \in 1 .. K : /\ i < p => i \in 1 .. p - 1
                          /\ p <= i => i \in p .. K
                          /\ p < i => i - 1 \in p .. K /\ i - 1 \in 1 .. K
    BY <1>0, <2>1
  <2>3. c \in [1 .. K -> EntryType]
    BY <2>1, <2>2 DEF Sorted
  <2>4. ASSUME NEW i \in 1 .. K, NEW j \in 1 .. K, i < j
        PROVE  ~Less(c[j], c[i])
    <3>1. CASE j < p
      <4>1. c[i] = b[i] /\ c[j] = b[j]
        BY <1>0, <2>1, <2>4, <3>1
      <4> QED
        BY <2>4, <4>1 DEF Sorted
    <3>2. CASE j = p
      <4>1. c[i] = b[i] /\ c[j] = x /\ i \in 1 .. p - 1
        BY <1>0, <2>1, <2>4, <3>2
      <4> QED
        BY <2>1, <4>1
    <3>3. CASE p < j /\ i < p
      <4>1. c[i] = b[i] /\ c[j] = b[j - 1] /\ i < j - 1 /\ j - 1 \in 1 .. K
        BY <1>0, <2>1, <2>2, <2>4, <3>3
      <4> QED
        BY <4>1 DEF Sorted
    <3>4. CASE p < j /\ i = p
      <4>1. c[i] = x /\ c[j] = b[j - 1] /\ j - 1 \in p .. K /\ j - 1 \in 1 .. K
        BY <1>0, <2>1, <2>2, <2>4, <3>4
      <4>2. Less(x, b[j - 1]) /\ b[j - 1] \in EntryType
        BY <2>1, <4>1 DEF Sorted
      <4> QED
        BY <4>1, <4>2, LessOrder
    <3>5. CASE p < i
      <4>1. c[i] = b[i - 1] /\ c[j] = b[j - 1] /\ i - 1 < j - 1
            /\ i - 1 \in 1 .. K /\ j - 1 \in 1 .. K
        BY <1>0, <2>1, <2>2, <2>4, <3>5
      <4> QED
        BY <4>1 DEF Sorted
    <3> QED
      BY <1>0, <2>1, <2>4, <3>1, <3>2, <3>3, <3>4, <3>5
  <2>5. ~Less(b[K], c[K])
    <3>1. CASE p = K
      BY <1>0, <1>2, <2>1, <3>1, LessOrder
    <3>2. CASE p < K
      <4>1. c[K] = b[K - 1] /\ K - 1 \in 1 .. K /\ K - 1 < K
        BY <1>0, <2>1, <2>2, <3>2
      <4> QED
        BY <1>0, <4>1 DEF Sorted
    <3> QED
      BY <1>0, <2>1, <3>1, <3>2
  <2> QED
    BY <1>2, <2>3, <2>4, <2>5 DEF Sorted, Offer, c
<1> QED
  BY <1>1, <1>2

\* What is in the slots afterwards.
LEMMA OfferContents ==
    ASSUME NEW b, Sorted(b), NEW x \in EntryType, Less(x, b[K]),
           \A i \in 1 .. K : b[i] # x
    PROVE  LET c == Offer(b, x)
           IN  /\ \E i \in 1 .. K : c[i] = x
               /\ \A i \in 1 .. K : c[i] = x \/ \E j \in 1 .. K : c[i] = b[j]
               /\ \A i \in 1 .. K : b[i] # b[K] => \E j \in 1 .. K : c[j] = b[i]
               /\ \A i, j \in 1 .. K : c[i] = c[j] /\ i # j =>
                    \E k, l \in 1 .. K : k # l /\ b[k] = b[l] /\ c[i] = b[k]
<1> DEFINE c == Offer(b, x)
<1>0. K \in Nat /\ K \in 1 .. K
  BY CountAssumption
<1>1. PICK p \in 1 .. K :
            c = [i \in 1 .. K |-> IF i < p THEN b[i]
                                  ELSE IF i = p THEN x ELSE b[i - 1]]
  BY InsertAt DEF Offer
<1> HIDE DEF c
<1>2. \A i \in 1 .. K : p < i => i - 1 \in 1 .. K /\ ~(i < p) /\ i # p
  BY <1>0, <1>1
<1>3. c[p] = x
  BY <1>1
<1>4. \A i \in 1 .. K : c[i] = x \/ \E j \in 1 .. K : c[i] = b[j]
  BY <1>0, <1>1, <1>2
<1>5. ASSUME NEW i \in 1 .. K, b[i] # b[K]
      PROVE  \E j \in 1 .. K : c[j] = b[i]
  <2>1. CASE i < p
    BY <1>1, <2>1
  <2>2. CASE ~(i < p)
    <3>1. i + 1 \in 1 .. K /\ ~(i + 1 < p) /\ i + 1 # p /\ (i + 1) - 1 = i
      BY <1>0, <1>1, <1>5, <2>2
    <3>2. c[i + 1] = b[i]
      BY <1>1, <3>1
    <3> QED
      BY <3>1, <3>2
  <2> QED
    BY <2>1, <2>2
<1>6. ASSUME NEW i \in 1 .. K, NEW j \in 1 .. K, c[i] = c[j], i # j
      PROVE  \E k, l \in 1 .. K : k # l /\ b[k] = b[l] /\ c[i] = b[k]
  <2>1. ASSUME NEW m \in 1 .. K, m # p
        PROVE  \E k \in 1 .. K : c[m] = b[k] /\ k = IF m < p THEN m ELSE m - 1
    BY <1>0, <1>1, <1>2, <2>1
  <2>2. i # p /\ j # p
    <3>1. \A m \in 1 .. K : m # p => c[m] # x
      BY <2>1
    <3> QED
      BY <1>3, <1>6, <3>1
  <2>3. PICK k \in 1 .. K : c[i] = b[k] /\ k = IF i < p THEN i ELSE i - 1
    BY <2>1, <2>2
  <2>4. PICK l \in 1 .. K : c[j] = b[l] /\ l = IF j < p THEN j ELSE j - 1
    BY <2>1, <2>2
  <2>5. k # l
    BY <1>0, <1>1, <1>6, <2>2, <2>3, <2>4
  <2> QED
    BY <1>6, <2>3, <2>4, <2>5
<1> QED
  BY <1>3, <1>4, <1>5, <1>6 DEF c

\* One more row, with an id of its own.
NewEntry(T, e) ==
    e \in EntryType /\ e.dist < Infinity /\ \A f \in T : f.id # e.id

LEMMA OneMoreEntry ==
    ASSUME NEW T, EntrySet(T), NEW e, NewEntry(T, e)
    PROVE  EntrySet(T \cup {e})
<1>1. IsFiniteSet(T \cup {e})
  BY FS_AddElement DEF EntrySet
<1> QED
  BY <1>1 DEF EntrySet, NewEntry

LEMMA OfferExact ==
    ASSUME NEW T, EntrySet(T), NEW e, NewEntry(T, e), NEW b, ExactSlots(b, T)
    PROVE  ExactSlots(Offer(b, e), T \cup {e})
<1>0. K \in 1 .. K /\ Sorted(b) /\ e \in EntryType
  BY CountAssumption DEF ExactSlots, NewEntry
<1>1. CASE ~Less(e, b[K])
  BY <1>0, <1>1 DEF Offer, ExactSlots
<1>2. CASE Less(e, b[K])
  <2> DEFINE c == Offer(b, e)
  <2>1. \A i \in 1 .. K : b[i] # e
    <3>1. e \notin T /\ e # Sentinel
      BY SentinelType, SentinelAssumption DEF NewEntry, EntryType
    <3> QED
      BY <3>1 DEF ExactSlots
  <2>2. Sorted(c) /\ ~Less(b[K], c[K])
    BY <1>0, OfferSorted
  <2>3. /\ \E i \in 1 .. K : c[i] = e
        /\ \A i \in 1 .. K : c[i] = e \/ \E j \in 1 .. K : c[i] = b[j]
        /\ \A i \in 1 .. K : b[i] # b[K] => \E j \in 1 .. K : c[j] = b[i]
        /\ \A i, j \in 1 .. K : c[i] = c[j] /\ i # j =>
            \E k, l \in 1 .. K : k # l /\ b[k] = b[l] /\ c[i] = b[k]
    BY <1>0, <1>2, <2>1, OfferContents
  <2> HIDE DEF c
  <2>4. \A i \in 1 .. K : c[i] \in T \cup {e} \cup {Sentinel}
    BY <2>3 DEF ExactSlots
  <2>5. \A i, j \in 1 .. K : c[i] = c[j] => i = j \/ c[i] = Sentinel
    BY <2>3 DEF ExactSlots
  <2>6. ASSUME NEW f \in T
        PROVE  ~Less(f, c[K]) \/ \E i \in 1 .. K : c[i] = f
    <3>1. f \in EntryType /\ b[K] \in EntryType /\ c[K] \in EntryType
      BY <1>0, <2>2 DEF EntrySet, Sorted
    <3>2. CASE ~Less(f, b[K])
      BY <2>2, <3>1, <3>2, LessOrder
    <3>3. CASE f = b[K]
      BY <2>2, <3>3
    <3>4. CASE f # b[K] /\ \E i \in 1 .. K : b[i] = f
      BY <2>3, <3>4
    <3> QED
      BY <3>2, <3>3, <3>4 DEF ExactSlots
  <2> QED
    BY <2>2, <2>3, <2>4, <2>5, <2>6 DEF ExactSlots, c
<1> QED
  BY <1>1, <1>2

LEMMA UpToGrows ==
    ASSUME NEW T, NEW S, EntrySet(S), T \subseteq S, NEW d
    PROVE  /\ IsFiniteSet(UpTo(S, d)) /\ Cardinality(UpTo(S, d)) \in Nat
           /\ Cardinality(UpTo(T, d)) \in Nat
           /\ Cardinality(UpTo(T, d)) <= Cardinality(UpTo(S, d))
<1>1. UpTo(S, d) \in SUBSET S /\ UpTo(T, d) \in SUBSET UpTo(S, d) /\ IsFiniteSet(S)
  BY DEF UpTo, EntrySet
<1>2. IsFiniteSet(UpTo(S, d))
  BY <1>1, FS_Subset
<1> QED
  BY <1>1, <1>2, FS_Subset, FS_CardinalityType

\* An entry whose distance was cut short ties with the last slot.
CutEntry(x, e, limit) ==
    /\ x \in EntryType /\ x.dist < Infinity
    /\ x = e \/ (x.dist >= limit /\ e.dist >= limit)

LEMMA OfferNear ==
    ASSUME NEW T, EntrySet(T), NEW e, NewEntry(T, e), NEW b, NearSlots(b, T),
           NEW x, CutEntry(x, e, b[K].dist)
    PROVE  NearSlots(Offer(b, x), T \cup {e})
<1> DEFINE S == T \cup {e}
           c == Offer(b, x)
           d == b[K].dist
<1>0. /\ K \in Nat /\ K \in 1 .. K /\ Sorted(b)
      /\ x \in EntryType /\ e \in EntryType /\ b[K] \in EntryType
      /\ d \in Nat /\ x.dist \in Nat /\ e.dist \in Nat /\ Infinity \in Nat
      /\ x.dist < Infinity /\ d <= Infinity
  BY CountAssumption, SentinelAssumption
  DEF NearSlots, Sorted, NewEntry, CutEntry, EntryType
<1>1. EntrySet(S) /\ T \subseteq S
  BY OneMoreEntry
<1>2. \A k \in Nat : /\ Cardinality(UpTo(T, k)) \in Nat /\ Cardinality(UpTo(S, k)) \in Nat
                     /\ Cardinality(UpTo(T, k)) <= Cardinality(UpTo(S, k))
  BY <1>1, UpToGrows
<1> HIDE DEF S
<1>3. ASSUME d < Infinity PROVE K <= Cardinality(UpTo(S, d))
  <2>1. K <= Cardinality(UpTo(T, d))
    BY <1>3 DEF NearSlots
  <2>2. /\ Cardinality(UpTo(T, d)) \in Nat /\ Cardinality(UpTo(S, d)) \in Nat
        /\ Cardinality(UpTo(T, d)) <= Cardinality(UpTo(S, d))
    BY <1>0, <1>2
  <2> QED
    BY <1>0, <2>1, <2>2
<1>4. CASE ~Less(x, b[K])
  <2>1. ~(e.dist < d)
    <3>1. ~(x.dist < d)
      BY <1>4 DEF Less
    <3>2. x = e \/ e.dist >= d
      BY DEF CutEntry
    <3> QED
      BY <1>0, <3>1, <3>2
  <2> QED
    BY <1>0, <1>3, <1>4, <2>1 DEF Offer, NearSlots, S
<1>5. CASE Less(x, b[K]) /\ x.dist = d
  <2>1. PICK p \in 1 .. K :
            /\ \A i \in p .. K : Less(x, b[i])
            /\ c = [i \in 1 .. K |-> IF i < p THEN b[i]
                                     ELSE IF i = p THEN x ELSE b[i - 1]]
    BY <1>0, <1>5, InsertAt DEF Offer
  <2>2. Sorted(c)
    BY <1>0, OfferSorted
  <2> HIDE DEF c
  <2>3. \A i \in 1 .. K : b[i] \in EntryType /\ b[i].dist \in Nat /\ b[i].dist <= d
    BY <1>0, DistancesSorted DEF Sorted
  <2>4. ASSUME NEW i \in 1 .. K
        PROVE  c[i].dist = b[i].dist /\ (c[i].dist < d => c[i] = b[i])
    <3>1. CASE i < p
      BY <2>1, <3>1
    <3>2. ASSUME NEW j \in p .. K PROVE j \in 1 .. K /\ b[j].dist = d
      <4>1. j \in 1 .. K /\ Less(x, b[j])
        BY <1>0, <2>1
      <4>2. x.dist <= b[j].dist
        BY <1>0, <2>3, <4>1 DEF Less
      <4> QED
        BY <1>0, <1>5, <2>3, <4>1, <4>2
    <3>3. CASE ~(i < p)
      <4>1. i \in p .. K /\ (i # p => i - 1 \in p .. K)
        BY <1>0, <2>1, <3>3
      <4>2. c[i] = x \/ (c[i] = b[i - 1] /\ i # p)
        BY <2>1, <3>3
      <4> QED
        BY <1>0, <1>5, <3>2, <4>1, <4>2
    <3> QED
      BY <3>1, <3>3
  <2>5. c[K].dist = d
    BY <1>0, <2>4
  <2>6. \A i \in 1 .. K : c[i].dist <= Infinity
    BY <2>4 DEF NearSlots
  <2>7. \A i \in 1 .. K : c[i].dist < d => c[i] \in S
    BY <2>4 DEF NearSlots, S
  <2>8. \A i, j \in 1 .. K : c[i] = c[j] => i = j \/ c[i].dist = d
    <3> SUFFICES ASSUME NEW i \in 1 .. K, NEW j \in 1 .. K, c[i] = c[j], c[i].dist # d
                 PROVE  i = j
      OBVIOUS
    <3>1. c[i].dist < d /\ c[j].dist < d
      BY <1>0, <2>3, <2>4
    <3>2. b[i] = b[j] /\ b[i].dist # d
      BY <2>4, <3>1
    <3> QED
      BY <3>2 DEF NearSlots
  <2>9. \A f \in S : f.dist < d => \E i \in 1 .. K : c[i] = f
    <3> SUFFICES ASSUME NEW f \in S, f.dist < d
                 PROVE  \E i \in 1 .. K : c[i] = f
      OBVIOUS
    <3>1. f \in T
      BY <1>0, <1>5 DEF S, CutEntry
    <3>2. PICK i \in 1 .. K : b[i] = f
      BY <3>1 DEF NearSlots
    <3>3. \A j \in 1 .. p - 1 : j \in 1 .. K /\ c[j] = b[j]
      BY <1>0, <2>1
    <3>4. i \in 1 .. p - 1
      <4> SUFFICES ASSUME i \in p .. K PROVE FALSE
        BY <1>0, <2>1
      <4>1. Less(x, b[i]) /\ b[i].dist \in Nat
        BY <2>1, <2>3
      <4> QED
        BY <1>0, <1>5, <3>2, <4>1 DEF Less
    <3> QED
      BY <3>2, <3>3, <3>4
  <2> QED
    BY <1>3, <2>2, <2>5, <2>6, <2>7, <2>8, <2>9 DEF NearSlots, S, c
<1>6. CASE Less(x, b[K]) /\ x.dist < d
  <2>1. x = e
    BY <1>0, <1>6 DEF CutEntry
  <2>2. \A i \in 1 .. K : b[i] # x
    <3>1. x \notin T
      BY <2>1 DEF NewEntry
    <3> QED
      BY <1>6, <3>1 DEF NearSlots
  <2>3. Sorted(c) /\ ~Less(b[K], c[K])
    BY <1>0, OfferSorted
  <2>4. /\ \E i \in 1 .. K : c[i] = x
        /\ \A i \in 1 .. K : c[i] = x \/ \E j \in 1 .. K : c[i] = b[j]
        /\ \A i \in 1 .. K : b[i] # b[K] => \E j \in 1 .. K : c[j] = b[i]
        /\ \A i, j \in 1 .. K : c[i] = c[j] /\ i # j =>
            \E k, l \in 1 .. K : k # l /\ b[k] = b[l] /\ c[i] = b[k]
    BY <1>0, <1>6, <2>2, OfferContents
  <2> HIDE DEF c
  <2> DEFINE l == c[K].dist
  <2>5. l \in Nat /\ l <= d
    BY <1>0, <2>3 DEF Sorted, EntryType, Less
  <2>6. \A i \in 1 .. K : c[i] \in EntryType /\ c[i].dist \in Nat /\ c[i].dist <= l
    BY <1>0, <2>3, DistancesSorted DEF Sorted
  <2>7. \A i \in 1 .. K : c[i].dist < d => c[i] \in S
    BY <2>1, <2>4 DEF NearSlots, S
  <2>8. ASSUME NEW i \in 1 .. K, NEW j \in 1 .. K, c[i] = c[j], i # j
        PROVE  c[i].dist = d /\ l = d
    <3>1. c[i].dist = d
      BY <2>4, <2>8 DEF NearSlots
    <3> QED
      BY <1>0, <2>5, <2>6, <3>1
  <2>9. ASSUME NEW f \in S, f.dist < l
        PROVE  \E i \in 1 .. K : c[i] = f
    <3>1. CASE f = e
      BY <2>1, <2>4, <3>1
    <3>2. CASE f \in T
      <4>0. f.dist \in Nat
        BY <3>2 DEF EntrySet, EntryType
      <4>1. f.dist < d
        BY <1>0, <2>5, <2>9, <4>0
      <4>2. PICK i \in 1 .. K : b[i] = f
        BY <3>2, <4>1 DEF NearSlots
      <4>3. b[i] # b[K]
        BY <1>0, <4>1, <4>2
      <4> QED
        BY <2>4, <4>2, <4>3
    <3> QED
      BY <3>1, <3>2 DEF S
  <2>10. ASSUME l < Infinity
         PROVE  K <= Cardinality(UpTo(S, l))
    <3>1. CASE l = d
      BY <1>3, <2>10, <3>1
    <3>2. CASE l < d
      <4> DEFINE g == [i \in 1 .. K |-> c[i]]
      <4>1. \A i \in 1 .. K : c[i] \in UpTo(S, l)
        BY <1>0, <2>5, <2>6, <2>7, <3>2 DEF UpTo
      <4>2. \A i, j \in 1 .. K : c[i] = c[j] => i = j
        BY <2>5, <2>8, <3>2
      <4>3. g \in Injection(1 .. K, UpTo(S, l))
        BY <4>1, <4>2 DEF Injection, IsInjective
      <4>4. IsFiniteSet(UpTo(S, l))
        BY <1>1, UpToGrows
      <4>5. Cardinality(1 .. K) <= Cardinality(UpTo(S, l))
        BY <4>3, <4>4, FS_Injection
      <4>6. Cardinality(1 .. K) = K
        <5>1. 1 \in Int /\ K \in Int /\ ~(1 > K) /\ K - 1 + 1 = K
          BY <1>0
        <5> QED
          BY <5>1, FS_Interval
      <4> QED
        BY <4>5, <4>6
    <3> QED
      BY <1>0, <2>5, <3>1, <3>2
  <2>11. \A i \in 1 .. K : c[i].dist <= Infinity /\ (c[i].dist < l => c[i] \in S)
    BY <1>0, <2>5, <2>6, <2>7
  <2>12. \A i, j \in 1 .. K : c[i] = c[j] => i = j \/ c[i].dist = l
    BY <2>8
  <2> QED
    BY <2>3, <2>9, <2>10, <2>11, <2>12 DEF NearSlots, S, c
<1> QED
  BY <1>0, <1>4, <1>5, <1>6 DEF Less

\* Entries beyond the last slot change nothing.
LEMMA FarEntries ==
    ASSUME NEW T, NEW S, EntrySet(S), T \subseteq S, NEW b, NearSlots(b, T),
           \A e \in S \ T : b[K].dist < e.dist
    PROVE  /\ NearSlots(b, S)
           /\ ExactSlots(b, T) => ExactSlots(b, S)
<1>0. K \in Nat /\ K \in 1 .. K /\ Sorted(b) /\ b[K] \in EntryType
      /\ b[K].dist \in Nat /\ Infinity \in Nat
  BY CountAssumption, SentinelAssumption DEF NearSlots, Sorted, EntryType
<1>1. \A e \in S : e \in EntryType /\ e.dist \in Nat
  BY DEF EntrySet, EntryType
<1>2. \A e \in S : e.dist < b[K].dist => e \in T
  BY <1>0, <1>1
<1>3. \A e \in S \ T : ~Less(e, b[K])
  BY <1>0, <1>1 DEF Less
<1>4. ASSUME b[K].dist < Infinity PROVE K <= Cardinality(UpTo(S, b[K].dist))
  <2>1. K <= Cardinality(UpTo(T, b[K].dist))
    BY <1>4 DEF NearSlots
  <2>2. /\ Cardinality(UpTo(T, b[K].dist)) \in Nat
        /\ Cardinality(UpTo(S, b[K].dist)) \in Nat
        /\ Cardinality(UpTo(T, b[K].dist)) <= Cardinality(UpTo(S, b[K].dist))
    BY UpToGrows
  <2> QED
    BY <1>0, <2>1, <2>2
<1>5. NearSlots(b, S)
  BY <1>2, <1>4 DEF NearSlots
<1>6. ExactSlots(b, T) => ExactSlots(b, S)
  BY <1>3 DEF ExactSlots
<1> QED
  BY <1>5, <1>6
-----------------------------------------------------------------------------
(* Rows and their entries.                                                 *)
Elems(s) == {s[i] : i \in DOMAIN s}
Distinct(s) == \A i, j \in DOMAIN s : s[i] = s[j] => i = j
ListRow(ix, c) == Elems(ix.list[c])
ExactOf(q, set) == {Entry(r, Distance(q, r.vec)) : r \in set}

LEMMA FirstOfRest ==
    ASSUME NEW S, NEW s \in Seq(S), s # << >>
    PROVE  /\ Head(s) \in S /\ Tail(s) \in Seq(S)
           /\ Elems(s) = Elems(Tail(s)) \cup {Head(s)}
           /\ Distinct(s) => Distinct(Tail(s)) /\ Head(s) \notin Elems(Tail(s))
<1>1. /\ Len(s) \in Nat \ {0} /\ DOMAIN s = 1 .. Len(s) /\ Head(s) = s[1]
      /\ Tail(s) \in Seq(S) /\ DOMAIN Tail(s) = 1 .. Len(s) - 1
      /\ \A i \in 1 .. Len(s) - 1 : Tail(s)[i] = s[i + 1]
  OBVIOUS
<1>2. Elems(s) = Elems(Tail(s)) \cup {Head(s)}
  <2>1. ASSUME NEW i \in 1 .. Len(s) PROVE s[i] \in Elems(Tail(s)) \cup {s[1]}
    <3>1. CASE i # 1
      <4>1. i - 1 \in 1 .. Len(s) - 1 /\ Tail(s)[i - 1] = s[i]
        BY <1>1, <3>1
      <4> QED
        BY <1>1, <4>1 DEF Elems
    <3> QED
      BY <3>1
  <2>2. ASSUME NEW i \in 1 .. Len(s) - 1 PROVE Tail(s)[i] \in Elems(s)
    <3>1. i + 1 \in 1 .. Len(s) /\ Tail(s)[i] = s[i + 1]
      BY <1>1
    <3> QED
      BY <1>1, <3>1 DEF Elems
  <2>3. s[1] \in Elems(s)
    BY <1>1 DEF Elems
  <2> QED
    BY <1>1, <2>1, <2>2, <2>3 DEF Elems
<1>3. ASSUME Distinct(s)
      PROVE  Distinct(Tail(s)) /\ Head(s) \notin Elems(Tail(s))
  <2>1. \A i \in 1 .. Len(s) - 1 : i + 1 \in 1 .. Len(s) /\ i + 1 # 1
                                   /\ Tail(s)[i] = s[i + 1]
    BY <1>1
  <2>2. \A i, j \in 1 .. Len(s) - 1 : Tail(s)[i] = Tail(s)[j] => i = j
    <3> TAKE i, j \in 1 .. Len(s) - 1
    <3>1. s[i + 1] = s[j + 1] => i + 1 = j + 1
      BY <1>1, <1>3, <2>1 DEF Distinct
    <3> QED
      BY <2>1, <3>1
  <2>3. \A i \in 1 .. Len(s) - 1 : Tail(s)[i] # s[1]
    BY <1>1, <1>3, <2>1 DEF Distinct
  <2> QED
    BY <1>1, <2>2, <2>3 DEF Distinct, Elems
<1>4. s[1] \in S
  BY <1>1
<1> QED
  BY <1>1, <1>2, <1>3, <1>4

LEMMA ListFacts ==
    ASSUME NEW ix \in Indexes
    PROVE  /\ Row(ix) = UNION {ListRow(ix, c) : c \in Cluster(ix)}
           /\ \A c \in Cluster(ix) :
                /\ ix.list[c] \in Seq(Row(ix)) /\ Distinct(ix.list[c])
                /\ \A d \in Cluster(ix) : c # d =>
                     ListRow(ix, c) \cap ListRow(ix, d) = {}
<1>1. Row(ix) = UNION {ListRow(ix, c) : c \in Cluster(ix)}
  BY DEF Row, ListRow, Elems
<1>2. ASSUME NEW c \in Cluster(ix)
      PROVE  /\ ix.list[c] \in Seq(Row(ix)) /\ Distinct(ix.list[c])
             /\ \A d \in Cluster(ix) : c # d => ListRow(ix, c) \cap ListRow(ix, d) = {}
  BY ListsAssumption DEF Distinct, ListRow, Elems
<1> QED
  BY <1>1, <1>2

LEMMA VectorFacts ==
    ASSUME NEW ix \in Indexes, NEW q \in Queries
    PROVE  /\ Vector(q) /\ DOMAIN q = Coordinate
           /\ \A c \in Cluster(ix) : /\ Vector(ix.centroid[c])
                                     /\ \A r \in ListRow(ix, c) : Vector(r.vec)
           /\ \A r \in Row(ix) : Vector(r.vec)
<1>1. q \in [Coordinate -> Int]
  BY QueriesAssumption
<1>2. \A c \in Cluster(ix) : /\ Vector(ix.centroid[c])
                             /\ \A r \in ListRow(ix, c) : Vector(r.vec)
  BY VectorsAssumption DEF Vector, ListRow, Elems
<1>3. \A r \in Row(ix) : Vector(r.vec)
  BY <1>2, ListFacts
<1> QED
  BY <1>1, <1>2, <1>3 DEF Vector

LEMMA RowEntry ==
    ASSUME NEW ix \in Indexes, NEW q \in Queries, NEW r \in Row(ix), NEW d \in Nat
    PROVE  /\ Entry(r, d) \in EntryType /\ Entry(r, d).dist = d
           /\ Entry(r, d).id = r.id
           /\ Distance(q, r.vec) \in Nat /\ Distance(q, r.vec) < Infinity
<1>1. r.id \in Nat /\ r.fraud \in BOOLEAN /\ Distance(q, r.vec) < Infinity
  BY RowsAssumption, SentinelAssumption
<1>2. Distance(q, r.vec) \in Nat
  BY VectorFacts, DistanceType
<1> QED
  BY <1>1, <1>2 DEF Entry, EntryType

LEMMA RowsAreFinite ==
    ASSUME NEW ix \in Indexes
    PROVE  IsFiniteSet(Row(ix))
<1> DEFINE lists == [c \in Cluster(ix) |-> ListRow(ix, c)]
           S == {ListRow(ix, c) : c \in Cluster(ix)}
<1>1. IsFiniteSet(Cluster(ix))
  BY SettingsAssumption, FS_Interval DEF Cluster
<1>2. lists \in Surjection(Cluster(ix), S)
  BY DEF Surjection
<1>3. IsFiniteSet(S)
  BY <1>1, <1>2, FS_Surjection
<1>4. ASSUME NEW c \in Cluster(ix) PROVE IsFiniteSet(ListRow(ix, c))
  <2> DEFINE l == ix.list[c]
  <2>1. l \in Seq(Row(ix))
    BY ListFacts
  <2> HIDE DEF l
  <2>2. l \in Surjection(1 .. Len(l), Elems(l)) /\ IsFiniteSet(1 .. Len(l))
    <3>1. DOMAIN l = 1 .. Len(l) /\ l = [i \in 1 .. Len(l) |-> l[i]] /\ Len(l) \in Int
      BY <2>1
    <3>2. l \in [1 .. Len(l) -> Elems(l)]
      BY <3>1 DEF Elems
    <3> QED
      BY <3>1, <3>2, FS_Interval DEF Surjection, Elems
  <2> QED
    BY <2>2, FS_Surjection DEF l, ListRow
<1>5. \A L \in S : IsFiniteSet(L)
  BY <1>4
<1> HIDE DEF S
<1>6. IsFiniteSet(UNION S)
  BY <1>3, <1>5, FS_UNION
<1> QED
  BY <1>6, ListFacts DEF S

LEMMA EntriesOfRows ==
    ASSUME NEW ix \in Indexes, NEW q \in Queries, NEW R, R \subseteq Row(ix)
    PROVE  EntrySet(ExactOf(q, R))
<1> DEFINE T == ExactOf(q, R)
           g == [r \in R |-> Entry(r, Distance(q, r.vec))]
<1>1. IsFiniteSet(R)
  BY RowsAreFinite, FS_Subset
<1>2. g \in Surjection(R, T)
  BY DEF Surjection, ExactOf
<1>3. IsFiniteSet(T)
  BY <1>1, <1>2, FS_Surjection
<1>4. \A r \in R : LET e == Entry(r, Distance(q, r.vec))
                   IN e \in EntryType /\ e.dist < Infinity /\ e.id = r.id
  BY RowEntry
<1>5. \A r, s \in R : r.id = s.id => r = s
  BY RowsAssumption
<1>6. T \subseteq EntryType /\ \A e \in T : e.dist < Infinity
  BY <1>4 DEF ExactOf
<1>7. \A e, f \in T : e.id = f.id => e = f
  <2> TAKE e, f \in T
  <2>1. PICK r \in R : e = Entry(r, Distance(q, r.vec))
    BY DEF ExactOf
  <2>2. PICK s \in R : f = Entry(s, Distance(q, s.vec))
    BY DEF ExactOf
  <2> QED
    BY <1>4, <1>5, <2>1, <2>2
<1> QED
  BY <1>3, <1>6, <1>7 DEF EntrySet

LEMMA NearestIs ==
    ASSUME NEW set
    PROVE  Nearest(set) = NearestIn(ExactOf(query, set))
BY DEF Nearest, Exact, NearestIn, ExactOf, RankIn, Below
-----------------------------------------------------------------------------
(* The types of the variables, and what a position of the search says of   *)
(* its stage.                                                              *)
SearchTypes ==
    /\ index \in Indexes /\ query \in Queries /\ scan \in {"avx2", "scalar"}
    /\ pc \in {"rank", "probe", "repair", "done"}
    /\ stage \in {"base", "wide", "approve", "deny"}
    /\ cursor \in 0 .. index.clusters
    /\ ranked \in Seq(Cluster(index)) /\ todo \in Seq(Cluster(index))
    /\ rows \in Seq(Row(index))
    /\ probed \subseteq Cluster(index) /\ offered \subseteq Row(index)
    /\ Sorted(best)
    /\ cutoff \in Nat
    /\ repaired \in BOOLEAN
    /\ pc \in {"rank", "done"} => rows = << >>
    /\ pc = "repair" => stage \in {"base", "wide"} /\ ~repaired
    /\ repaired => pc = "done" \/ stage \in {"approve", "deny"}

LEMMA InsertCentroidType ==
    ASSUME NEW C, NEW list \in Seq(C), NEW c \in C
    PROVE  /\ InsertCentroid(list, c) \in Seq(C)
           /\ Len(InsertCentroid(list, c)) = Len(list) + 1
<1>1. /\ Len(list) \in Nat /\ \A i \in 1 .. Len(list) : list[i] \in C
      /\ \A i \in 1 .. Len(list) + 1 : i <= Len(list) => i \in 1 .. Len(list)
      /\ \A i \in 1 .. Len(list) + 1 : i # 1 => i - 1 \in 1 .. Len(list)
  OBVIOUS
<1>2. InsertCentroid(list, c) \in [1 .. Len(list) + 1 -> C]
  BY <1>1 DEF InsertCentroid
<1> QED
  BY <1>1, <1>2

LEMMA ProbesType ==
    ASSUME SearchTypes
    PROVE  /\ Probes \in Nat /\ Probes <= index.clusters /\ index.clusters \in Nat
           /\ index.clusters > 0 => Probes > 0
           /\ stage \in {"approve", "deny"} =>
                Probes = Smaller(MaxIVFProbe, index.clusters)
<1>1. /\ index.clusters \in Nat /\ index.nprobe \in Nat \ {0}
      /\ index.ambiguous \in Nat \ {0} /\ MaxIVFProbe \in Nat \ {0}
  BY SettingsAssumption, ProbeAssumption DEF SearchTypes
<1>2. stage \in {"base", "wide", "approve", "deny"}
  BY DEF SearchTypes
<1> QED
  BY <1>1, <1>2 DEF Probes, Smaller

LEMMA LastSlot ==
    ASSUME NEW b, Sorted(b)
    PROVE  K \in 1 .. K /\ b[K] \in EntryType /\ b[K].dist \in Nat
BY CountAssumption DEF Sorted, EntryType

\* What is offered for a row: its entry, cut short or not.
LEMMA ScanEntry ==
    ASSUME SearchTypes, NEW row \in Row(index), NEW limit \in Nat
    PROVE  LET x == Entry(row, ScanDistance(query, row, limit))
               e == Entry(row, Distance(query, row.vec))
           IN  /\ CutEntry(x, e, limit)
               /\ scan = "avx2" => x = e
<1> DEFINE d == Distance(query, row.vec)
           s == ScanDistance(query, row, limit)
<1>1. Vector(query) /\ Vector(row.vec)
  BY VectorFacts DEF SearchTypes
<1>2. d \in Nat /\ d < Infinity /\ Entry(row, d) \in EntryType /\ Entry(row, d).dist = d
  BY DistanceType, <1>1, RowEntry DEF SearchTypes
<1>3. s \in Nat /\ s <= d /\ (s = d \/ s >= limit) /\ (scan = "avx2" => s = d)
  <2>1. CASE scan = "avx2"
    BY <1>2, <2>1 DEF ScanDistance
  <2>2. CASE scan # "avx2"
    <3>1. s = CutDistance(query, row.vec, limit)
      BY <2>2 DEF ScanDistance
    <3> QED
      BY <1>1, <2>2, <3>1, CutDistances
  <2> QED
    BY <2>1, <2>2
<1> HIDE DEF d, s
<1>4. Entry(row, s) \in EntryType /\ Entry(row, s).dist = s
  BY <1>3, RowEntry DEF SearchTypes
<1>5. s < Infinity /\ (s >= limit => d >= limit)
  BY <1>2, <1>3, SentinelAssumption
<1> QED
  BY <1>2, <1>3, <1>4, <1>5 DEF CutEntry, s, d

LEMMA InitTypes == Init => SearchTypes
<1> SUFFICES ASSUME Init PROVE SearchTypes
  OBVIOUS
<1>1. index \in Indexes /\ query \in Queries /\ scan \in {"avx2", "scalar"}
      /\ index.clusters \in Nat /\ cutoff \in Nat
  BY ScansAssumption, SettingsAssumption, SentinelAssumption DEF Init
<1>2. Sorted(best)
  BY SentinelType, LessOrder DEF Init, Sorted
<1>3. 0 \in 0 .. index.clusters
  BY <1>1
<1>4. /\ ranked \in Seq(Cluster(index)) /\ todo \in Seq(Cluster(index))
      /\ rows \in Seq(Row(index))
  BY DEF Init
<1> QED
  BY <1>1, <1>2, <1>3, <1>4 DEF Init, SearchTypes

LEMMA RankTypes == SearchTypes /\ (Rank \/ RankEnd) => SearchTypes'
<1> SUFFICES ASSUME SearchTypes, Rank \/ RankEnd PROVE SearchTypes'
  OBVIOUS
<1>1. CASE Rank
  <2>1. cursor + 1 \in 0 .. index.clusters /\ cursor \in Cluster(index)
    BY <1>1, ProbesType DEF Rank, SearchTypes, Cluster
  <2>2. ranked \in Seq(Cluster(index)) /\ Probes \in Nat /\ Len(ranked) \in Nat
    BY ProbesType DEF SearchTypes
  <2> DEFINE p == Probes
             C == Cluster(index)
  <2> HIDE DEF p, C
  <2>3. ASSUME p <= Len(ranked) PROVE SubSeq(ranked, 1, p - 1) \in Seq(C)
    BY <2>2, <2>3 DEF p, C
  <2>4. ranked' \in Seq(C)
    <3>1. CASE Len(ranked) < p
      BY <1>1, <2>1, <2>2, <3>1, InsertCentroidType DEF Rank, p, C
    <3>2. CASE p <= Len(ranked)
      <4>1. \/ ranked' = ranked
            \/ ranked' = InsertCentroid(SubSeq(ranked, 1, p - 1), cursor)
        BY <1>1, <2>2, <3>2 DEF Rank, p
      <4> QED
        BY <2>1, <2>2, <2>3, <3>2, <4>1, InsertCentroidType DEF C
    <3> QED
      BY <2>2, <3>1, <3>2 DEF p
  <2> QED
    BY <1>1, <2>1, <2>4 DEF Rank, SearchTypes, inputs, C
<1>2. CASE RankEnd
  BY <1>2 DEF RankEnd, SearchTypes, inputs
<1> QED
  BY <1>1, <1>2

LEMMA ScanRowTypes == SearchTypes /\ ScanRow => SearchTypes'
<1> SUFFICES ASSUME SearchTypes, ScanRow PROVE SearchTypes'
  OBVIOUS
<1> DEFINE row == Head(rows)
           x == Entry(row, ScanDistance(query, row, best[K].dist))
<1>1. row \in Row(index) /\ Tail(rows) \in Seq(Row(index)) /\ rows # << >>
  BY FirstOfRest DEF SearchTypes, ScanRow
<1>2. x \in EntryType
  BY <1>1, LastSlot, ScanEntry DEF SearchTypes, CutEntry
<1>3. best' = Offer(best, x) /\ offered' = offered \cup {row} /\ rows' = Tail(rows)
  BY DEF ScanRow
<1> HIDE DEF x, row
<1>4. Sorted(best)'
  <2>1. Sorted(Offer(best, x))
    BY <1>2, OfferSorted DEF SearchTypes
  <2> QED
    BY <1>3, <2>1 DEF Sorted
<1> QED
  BY <1>1, <1>3, <1>4 DEF ScanRow, SearchTypes, inputs

LEMMA ProbeTypes == SearchTypes /\ ProbeNext => SearchTypes'
<1> SUFFICES ASSUME SearchTypes, ProbeNext PROVE SearchTypes'
  OBVIOUS
<1>1. Head(todo) \in Cluster(index) /\ Tail(todo) \in Seq(Cluster(index))
  BY FirstOfRest DEF SearchTypes, ProbeNext
<1>2. index.list[Head(todo)] \in Seq(Row(index))
  BY <1>1, ListFacts DEF SearchTypes
<1>3. rows' \in Seq(Row(index)) /\ probed' \subseteq Cluster(index)
  BY <1>1, <1>2 DEF ProbeNext, SearchTypes
<1> QED
  BY <1>1, <1>3 DEF ProbeNext, SearchTypes, Sorted, inputs

\* What a decision can do, whichever it is.
Decided ==
    /\ stage' \in {"base", "wide", "approve", "deny"}
    /\ \/ /\ pc' = "rank" /\ cursor' = 0 /\ ranked' = << >>
          /\ UNCHANGED <<cutoff, verdict>>
          /\ stage' \in {"wide", "approve", "deny"}
          /\ stage' = "wide" => stage = "base" /\ pc = "probe"
       \/ /\ pc' = "repair" /\ cursor' = 0 /\ cutoff' = best[K].dist
          /\ stage \in {"base", "wide"} /\ pc = "probe"
          /\ UNCHANGED <<stage, ranked, verdict>>
       \/ /\ pc' = "done"
          /\ UNCHANGED <<stage, cursor, ranked, cutoff>>
          /\ stage \in {"base", "wide"} =>
               /\ verdict' = CountFrauds(best)
               /\ index.repair => /\ ~(verdict' < DenyAt /\ class.approval)
                                  /\ ~(verdict' >= DenyAt /\ class.denial)

LEMMA ConcludeDecides ==
    ASSUME SearchTypes, NEW frauds, frauds = CountFrauds(best), Conclude(frauds)
    PROVE  Decided
<1>1. stage \in {"base", "wide", "approve", "deny"}
  BY DEF SearchTypes
<1>2. \/ Expand("approve") \/ Expand("deny")
      \/ /\ Return(frauds)
         /\ index.repair => /\ ~(frauds < DenyAt /\ class.approval)
                            /\ ~(frauds >= DenyAt /\ class.denial)
  BY DEF Conclude
<1>3. ASSUME Expand("approve") PROVE Decided
  BY <1>1, <1>3 DEF Expand, Decided
<1>4. ASSUME Expand("deny") PROVE Decided
  BY <1>1, <1>4 DEF Expand, Decided
<1>5. ASSUME Return(frauds),
             index.repair => /\ ~(frauds < DenyAt /\ class.approval)
                             /\ ~(frauds >= DenyAt /\ class.denial)
      PROVE  Decided
  BY <1>1, <1>5 DEF Return, Decided
<1> QED
  BY <1>2, <1>3, <1>4, <1>5

LEMMA ProbeEndDecides ==
    ASSUME SearchTypes, ProbeEnd
    PROVE  Decided
<1> DEFINE frauds == CountFrauds(best)
           late == IF frauds < DenyAt /\ class.late THEN DenyAt ELSE frauds
<1>1. pc = "probe" /\ stage \in {"base", "wide", "approve", "deny"}
  BY DEF SearchTypes, ProbeEnd
<1>2. \/ stage = "base" /\ (Expand("wide") \/ BeginRepair \/ Conclude(frauds))
      \/ stage = "wide" /\ (BeginRepair \/ Conclude(frauds))
      \/ stage = "approve" /\ Return(late)
      \/ stage = "deny" /\ Return(frauds)
  BY <1>1 DEF ProbeEnd
<1> HIDE DEF late
<1>3. ASSUME Conclude(frauds) PROVE Decided
  BY <1>3, ConcludeDecides
<1> HIDE DEF frauds
<1>4. ASSUME stage = "base", Expand("wide") PROVE Decided
  BY <1>1, <1>4 DEF Expand, Decided
<1>5. ASSUME stage \in {"base", "wide"}, BeginRepair PROVE Decided
  BY <1>1, <1>5 DEF BeginRepair, Decided
<1>6. ASSUME stage \in {"approve", "deny"}, Return(late) \/ Return(frauds) PROVE Decided
  BY <1>1, <1>6 DEF Return, Decided
<1> QED
  BY <1>2, <1>3, <1>4, <1>5, <1>6

LEMMA DecisionTypes ==
    ASSUME SearchTypes
    PROVE  /\ ProbeEnd => SearchTypes'
           /\ RepairEnd => SearchTypes'
<1>1. best[K].dist \in Nat /\ index.clusters \in Nat
  BY LastSlot, SettingsAssumption DEF SearchTypes
<1>2. 0 \in 0 .. index.clusters /\ << >> \in Seq(Cluster(index))
  BY <1>1
<1>3. ASSUME UNCHANGED <<inputs, todo, rows, best, probed, offered>>,
             rows = << >>, Decided, repaired' \in BOOLEAN,
             pc = "probe" => repaired' = repaired
      PROVE  SearchTypes'
  <2>1. /\ index' = index /\ query' = query /\ scan' = scan /\ rows' = rows
        /\ todo' = todo /\ best' = best /\ probed' = probed /\ offered' = offered
    BY <1>3 DEF inputs
  <2>2. Sorted(best)'
    BY <2>1 DEF SearchTypes, Sorted
  <2>3. /\ pc' \in {"rank", "probe", "repair", "done"}
        /\ stage' \in {"base", "wide", "approve", "deny"}
        /\ cursor' \in 0 .. index.clusters /\ ranked' \in Seq(Cluster(index))
        /\ cutoff' \in Nat
    BY <1>1, <1>2, <1>3 DEF Decided, SearchTypes
  <2>4. pc' = "repair" => stage' \in {"base", "wide"} /\ ~repaired'
    BY <1>3 DEF Decided, SearchTypes
  <2>5. repaired' => pc' = "done" \/ stage' \in {"approve", "deny"}
    BY <1>3 DEF Decided, SearchTypes
  <2> QED
    BY <1>3, <2>1, <2>2, <2>3, <2>4, <2>5 DEF SearchTypes
<1>4. ASSUME ProbeEnd PROVE SearchTypes'
  <2>1. UNCHANGED <<inputs, todo, rows, best, probed, offered>> /\ rows = << >>
        /\ repaired' = repaired /\ repaired \in BOOLEAN
    BY <1>4 DEF ProbeEnd, SearchTypes
  <2> QED
    BY <1>3, <1>4, <2>1, ProbeEndDecides
<1>5. ASSUME RepairEnd PROVE SearchTypes'
  <2>1. UNCHANGED <<inputs, todo, rows, best, probed, offered>> /\ rows = << >>
        /\ repaired' \in BOOLEAN /\ pc = "repair" /\ Conclude(CountFrauds(best))
    BY <1>5 DEF RepairEnd
  <2>2. Decided
    BY <2>1, ConcludeDecides
  <2> QED
    BY <1>3, <2>1, <2>2
<1> QED
  BY <1>4, <1>5

LEMMA RepairTypes == SearchTypes /\ RepairNext => SearchTypes'
<1> SUFFICES ASSUME SearchTypes, RepairNext PROVE SearchTypes'
  OBVIOUS
<1>1. cursor \in Cluster(index) /\ cursor + 1 \in 0 .. index.clusters
  BY SettingsAssumption DEF SearchTypes, RepairNext, Cluster
<1>2. rows' \in Seq(Row(index))
  BY <1>1, ListFacts DEF RepairNext, SearchTypes
<1>3. index' = index /\ query' = query /\ scan' = scan /\ Sorted(best)'
  BY DEF RepairNext, SearchTypes, Sorted, inputs
<1>4. /\ cursor' \in 0 .. index.clusters /\ pc = "repair" /\ pc' = pc
      /\ UNCHANGED <<stage, ranked, todo, probed, cutoff, offered, repaired>>
  BY <1>1 DEF RepairNext
<1> QED
  BY <1>2, <1>3, <1>4 DEF SearchTypes

LEMMA NextTypes == SearchTypes /\ [Next]_vars => SearchTypes'
<1>1. SearchTypes /\ UNCHANGED vars => SearchTypes'
  BY DEF SearchTypes, vars, inputs, Sorted
<1> QED
  BY <1>1, RankTypes, ScanRowTypes, ProbeTypes, DecisionTypes, RepairTypes DEF Next
-----------------------------------------------------------------------------
(* The scans.  A cluster is covered once its list is scanned or about to   *)
(* be: when it is probed, or when the repair has passed it and its box is  *)
(* within the cutoff.                                                      *)
Repairing == pc = "repair" \/ (pc = "done" /\ repaired)
Covered ==
    {c \in Cluster(index) :
        c \in probed \/ (Repairing /\ c < cursor /\ WithinCutoff(c))}

\* No row is offered twice, so that the slots hold the nearest of the rows.
ScanInv ==
    /\ Distinct(rows) /\ Elems(rows) \cap offered = {}
    /\ offered \cup Elems(rows) = UNION {ListRow(index, c) : c \in Covered}
    /\ NearSlots(best, ExactOf(query, offered))
    /\ scan = "avx2" => ExactSlots(best, ExactOf(query, offered))
    /\ Repairing => best[K].dist <= cutoff
    /\ pc = "repair" /\ cutoff = Infinity => cursor = 0
    /\ pc = "done" /\ repaired =>
         cursor = index.clusters /\ verdict = CountFrauds(best)

SearchInv == SearchTypes /\ (~Rescanning => ScanInv)

LEMMA CoveredIs ==
    ASSUME SearchTypes
    PROVE  Covered \subseteq Cluster(index)
           /\ UNION {ListRow(index, c) : c \in Covered} \subseteq Row(index)
BY ListFacts DEF SearchTypes, Covered

\* A list that is not covered yet has only rows that were not offered.
LEMMA NewList ==
    ASSUME SearchTypes, NEW set, set \subseteq Cluster(index),
           offered = UNION {ListRow(index, c) : c \in set},
           NEW c \in Cluster(index), c \notin set
    PROVE  /\ Distinct(index.list[c]) /\ ListRow(index, c) \cap offered = {}
           /\ offered \cup ListRow(index, c)
                = UNION {ListRow(index, d) : d \in set \cup {c}}
BY ListFacts DEF SearchTypes

LEMMA InitScan == Init => ScanInv
<1> SUFFICES ASSUME Init PROVE ScanInv
  OBVIOUS
<1>1. /\ pc = "rank" /\ rows = << >> /\ offered = {} /\ probed = {} /\ ~Repairing
      /\ best = [i \in 1 .. K |-> Sentinel]
  BY DEF Init, Repairing
<1>2. Distinct(rows) /\ Elems(rows) = {} /\ Covered = {} /\ ExactOf(query, offered) = {}
  BY <1>1 DEF Distinct, Elems, Covered, ExactOf
<1>3. Sorted(best) /\ K \in 1 .. K
  BY InitTypes, CountAssumption DEF SearchTypes
<1>4. ExactSlots(best, {}) /\ NearSlots(best, {})
  BY <1>1, <1>3, SentinelType, SentinelAssumption DEF ExactSlots, NearSlots
<1> QED
  BY <1>1, <1>2, <1>4 DEF ScanInv

LEMMA ScanRowScans == SearchInv /\ ScanRow => SearchInv'
<1> SUFFICES ASSUME SearchInv, ScanRow, ~Rescanning'
             PROVE  ScanInv'
  BY ScanRowTypes DEF SearchInv
<1> DEFINE row == Head(rows)
           x == Entry(row, ScanDistance(query, row, best[K].dist))
           e == Entry(row, Distance(query, row.vec))
           T == ExactOf(query, offered)
<1>0. /\ SearchTypes /\ SearchTypes' /\ ~Rescanning /\ ScanInv
      /\ UNCHANGED <<index, query, scan, pc, stage, cursor, probed, cutoff,
                     verdict, repaired>>
  BY ScanRowTypes DEF SearchInv, ScanRow, inputs, Rescanning
<1>1. /\ row \in Row(index) /\ rows # << >> /\ rows' = Tail(rows)
      /\ offered' = offered \cup {row} /\ best' = Offer(best, x)
      /\ Elems(rows) = Elems(Tail(rows)) \cup {row}
      /\ Distinct(Tail(rows)) /\ row \notin Elems(Tail(rows))
  BY <1>0, FirstOfRest DEF SearchTypes, ScanRow, ScanInv
<1>2. row \notin offered /\ offered \subseteq Row(index)
  BY <1>0, <1>1 DEF ScanInv, SearchTypes
<1>3. best[K].dist \in Nat /\ best'[K].dist \in Nat
  <2>1. Sorted(best) /\ Sorted(best')
    BY <1>0 DEF SearchTypes, Sorted
  <2> QED
    BY <2>1, LastSlot
<1>4. CutEntry(x, e, best[K].dist) /\ (scan = "avx2" => x = e)
  BY <1>0, <1>1, <1>3, ScanEntry
<1>5. /\ EntrySet(T) /\ T \cup {e} = ExactOf(query, offered \cup {row})
  BY <1>0, <1>2, EntriesOfRows DEF ExactOf, SearchTypes
<1>6. NewEntry(T, e)
  <2>1. \A r \in Row(index) : Entry(r, Distance(query, r.vec)).id = r.id
    BY <1>0, RowEntry DEF SearchTypes
  <2>2. e \in EntryType /\ e.dist < Infinity /\ e.id = row.id
    BY <1>0, <1>1, RowEntry DEF SearchTypes
  <2>3. \A r \in offered : r.id # row.id
    BY <1>0, <1>1, <1>2, RowsAssumption DEF SearchTypes
  <2> QED
    BY <1>2, <2>1, <2>2, <2>3 DEF NewEntry, ExactOf
<1> HIDE DEF T, e, x, row
<1>7. NearSlots(best', T \cup {e})
  BY <1>0, <1>1, <1>4, <1>5, <1>6, OfferNear DEF ScanInv, T
<1>8. scan = "avx2" => ExactSlots(best', T \cup {e})
  BY <1>0, <1>1, <1>4, <1>5, <1>6, OfferExact DEF ScanInv, T
<1>9. best'[K].dist <= best[K].dist
  BY <1>0, <1>1, <1>3, <1>4, OfferSorted DEF CutEntry, SearchTypes, Less
<1>10. Repairing' = Repairing /\ Covered' = Covered
  BY <1>0 DEF Repairing, Covered, WithinCutoff
<1>11. /\ Distinct(rows') /\ Elems(rows') \cap offered' = {}
       /\ offered' \cup Elems(rows') = UNION {ListRow(index', c) : c \in Covered'}
  BY <1>0, <1>1, <1>2, <1>10 DEF ScanInv
<1>12. Repairing' => best'[K].dist <= cutoff'
  BY <1>0, <1>3, <1>9, <1>10 DEF ScanInv, SearchTypes
<1>13. pc # "done"
  BY <1>0, <1>1 DEF SearchTypes
<1> QED
  BY <1>0, <1>1, <1>5, <1>7, <1>8, <1>11, <1>12, <1>13 DEF ScanInv

\* What the scans are about stays the same.
LEMMA SameScan ==
    ASSUME ScanInv, Covered' = Covered,
           UNCHANGED <<query, index, scan, rows, best, offered>>,
           Repairing' => best[K].dist <= cutoff',
           (pc = "repair" /\ cutoff = Infinity => cursor = 0)',
           (pc = "done" /\ repaired =>
              cursor = index.clusters /\ verdict = CountFrauds(best))'
    PROVE  ScanInv'
BY DEF ScanInv

LEMMA RankScans == SearchInv /\ (Rank \/ RankEnd) => SearchInv'
<1> SUFFICES ASSUME SearchInv, Rank \/ RankEnd, ~Rescanning'
             PROVE  ScanInv'
  BY RankTypes DEF SearchInv
<1>1. /\ UNCHANGED <<query, index, scan, rows, best, offered, stage, repaired, probed>>
      /\ pc = "rank" /\ pc' \in {"rank", "probe"}
  BY DEF Rank, RankEnd, inputs
<1>2. ScanInv /\ Covered' = Covered /\ ~Repairing'
  BY <1>1 DEF SearchInv, Rescanning, Covered, Repairing
<1> QED
  BY <1>1, <1>2, SameScan

LEMMA ProbeScans == SearchInv /\ ProbeNext => SearchInv'
<1> SUFFICES ASSUME SearchInv, ProbeNext, ~Rescanning'
             PROVE  ScanInv'
  BY ProbeTypes DEF SearchInv
<1> DEFINE c == Head(todo)
<1>1. /\ UNCHANGED <<query, index, scan, best, offered, stage, repaired, cutoff>>
      /\ pc = "probe" /\ pc' = "probe" /\ rows = << >> /\ probed' = probed \cup {c}
      /\ rows' = IF c \in probed THEN << >> ELSE index.list[c]
  BY DEF ProbeNext, inputs
<1>2. /\ ScanInv /\ SearchTypes /\ Covered = probed /\ Covered' = probed \cup {c}
      /\ ~Repairing /\ ~Repairing' /\ c \in Cluster(index)
  <2>1. c \in Cluster(index)
    BY FirstOfRest DEF SearchInv, SearchTypes, ProbeNext
  <2> QED
    BY <1>1, <2>1 DEF SearchInv, SearchTypes, Rescanning, Covered, Repairing
<1> HIDE DEF c
<1>3. Elems(<< >>) = {} /\ Distinct(<< >>)
  BY DEF Elems, Distinct
<1>4. offered = UNION {ListRow(index, d) : d \in probed}
  BY <1>1, <1>2, <1>3 DEF ScanInv
<1>5. /\ Distinct(rows') /\ Elems(rows') \cap offered = {}
      /\ offered \cup Elems(rows') = UNION {ListRow(index, d) : d \in probed \cup {c}}
  <2>1. CASE c \in probed
    <3>1. probed \cup {c} = probed /\ rows' = << >>
      BY <1>1, <2>1
    <3> QED
      BY <1>3, <1>4, <3>1
  <2>2. CASE c \notin probed
    BY <1>1, <1>2, <1>4, <2>2, NewList DEF SearchTypes, ListRow
  <2> QED
    BY <2>1, <2>2
<1> QED
  BY <1>1, <1>2, <1>5 DEF ScanInv

LEMMA ProbeEndScans == SearchInv /\ ProbeEnd => SearchInv'
<1> SUFFICES ASSUME SearchInv, ProbeEnd, ~Rescanning'
             PROVE  ScanInv'
  BY DecisionTypes DEF SearchInv
<1>1. /\ UNCHANGED <<query, index, scan, rows, best, offered, repaired, probed>>
      /\ pc = "probe"
  BY DEF ProbeEnd, inputs
<1>2. SearchTypes /\ Decided
  BY ProbeEndDecides DEF SearchInv
<1>3. \/ pc' = "rank"
      \/ pc' = "repair" /\ cursor' = 0 /\ cutoff' = best[K].dist
      \/ pc' = "done" /\ stage' = stage
  BY <1>2 DEF Decided
<1>4. ~Rescanning /\ ~repaired
  BY <1>1, <1>2, <1>3 DEF Rescanning, SearchTypes, Decided
<1>5. ScanInv /\ best[K].dist \in Nat
  BY <1>2, <1>4, LastSlot DEF SearchInv, SearchTypes
<1>6. Covered' = Covered
  <2>1. Covered = {d \in Cluster(index) : d \in probed}
    BY <1>1 DEF Covered, Repairing
  <2>2. \A d \in Cluster(index) : ~(Repairing' /\ d < cursor')
    BY <1>1, <1>3, <1>4, SettingsAssumption DEF Repairing, Cluster
  <2>3. Covered' = {d \in Cluster(index) : d \in probed}
    BY <1>1, <2>2 DEF Covered
  <2> QED
    BY <2>1, <2>3
<1> QED
  BY <1>1, <1>3, <1>4, <1>5, <1>6, SameScan DEF Repairing

LEMMA RepairScans == SearchInv /\ RepairNext => SearchInv'
<1> SUFFICES ASSUME SearchInv, RepairNext, ~Rescanning'
             PROVE  ScanInv'
  BY RepairTypes DEF SearchInv
<1>1. /\ UNCHANGED <<query, index, scan, best, offered, stage, repaired, cutoff, probed>>
      /\ pc = "repair" /\ pc' = "repair" /\ rows = << >> /\ cutoff # Infinity
      /\ cursor < index.clusters /\ cursor' = cursor + 1
      /\ rows' = IF cursor \notin probed /\ WithinCutoff(cursor)
                   THEN index.list[cursor] ELSE << >>
  BY DEF RepairNext, inputs
<1>2. SearchTypes /\ ScanInv /\ Repairing /\ Repairing' /\ cursor \in Cluster(index)
      /\ Cluster(index) \subseteq Int /\ cursor \in Int
  BY <1>1, SettingsAssumption DEF SearchInv, SearchTypes, Rescanning, Repairing, Cluster
<1>3. Elems(<< >>) = {} /\ Distinct(<< >>)
  BY DEF Elems, Distinct
<1>4. offered = UNION {ListRow(index, d) : d \in Covered} /\ Covered \subseteq Cluster(index)
  BY <1>1, <1>2, <1>3, CoveredIs DEF ScanInv
<1>5. cursor \in Covered <=> cursor \in probed
  BY <1>2 DEF Covered
<1>6. Covered' = IF WithinCutoff(cursor) THEN Covered \cup {cursor} ELSE Covered
  <2>1. \A d \in Cluster(index) : d < cursor + 1 <=> d < cursor \/ d = cursor
    BY <1>2
  <2>2. \A d : WithinCutoff(d)' <=> WithinCutoff(d)
    BY <1>1 DEF WithinCutoff
  <2>3. Covered' = {d \in Cluster(index) :
                      d \in probed \/ (d < cursor + 1 /\ WithinCutoff(d))}
    BY <1>1, <1>2, <2>2 DEF Covered
  <2>4. Covered = {d \in Cluster(index) :
                      d \in probed \/ (d < cursor /\ WithinCutoff(d))}
    BY <1>1, <1>2 DEF Covered
  <2> QED
    BY <1>2, <2>1, <2>3, <2>4
<1>7. /\ Distinct(rows') /\ Elems(rows') \cap offered = {}
      /\ offered \cup Elems(rows') = UNION {ListRow(index, d) : d \in Covered'}
  <2>1. CASE cursor \in probed \/ ~WithinCutoff(cursor)
    <3>1. Covered' = Covered /\ rows' = << >>
      BY <1>1, <1>5, <1>6, <2>1
    <3> QED
      BY <1>3, <1>4, <3>1
  <2>2. CASE cursor \notin probed /\ WithinCutoff(cursor)
    BY <1>1, <1>2, <1>4, <1>5, <1>6, <2>2, NewList DEF ListRow
  <2> QED
    BY <2>1, <2>2
<1> QED
  BY <1>1, <1>2, <1>7 DEF ScanInv

LEMMA RepairEndScans == SearchInv /\ RepairEnd => SearchInv'
<1> SUFFICES ASSUME SearchInv, RepairEnd, ~Rescanning'
             PROVE  ScanInv'
  BY DecisionTypes DEF SearchInv
<1>1. /\ UNCHANGED <<query, index, scan, rows, best, offered, probed>>
      /\ pc = "repair" /\ repaired' = (cutoff # Infinity)
      /\ cutoff = Infinity \/ cursor = index.clusters
  BY DEF RepairEnd, inputs
<1>2. SearchTypes /\ Decided
  BY ConcludeDecides DEF RepairEnd, SearchInv
<1>3. /\ stage \in {"base", "wide"} /\ ~repaired /\ ~Rescanning /\ ScanInv
      /\ Repairing
  BY <1>1, <1>2 DEF SearchTypes, Rescanning, SearchInv, Repairing
<1>4. \/ pc' = "rank" /\ stage' \in {"approve", "deny"} /\ UNCHANGED <<cutoff, verdict>>
      \/ pc' = "done" /\ UNCHANGED <<cursor, cutoff>> /\ verdict' = CountFrauds(best)
  BY <1>1, <1>2, <1>3 DEF Decided
<1>5. pc' = "rank" => cutoff = Infinity
  BY <1>1, <1>4 DEF Rescanning
<1>6. cutoff = Infinity => cursor = 0 /\ Cluster(index) \subseteq Nat
  BY <1>1, <1>2, <1>3, SettingsAssumption DEF ScanInv, SearchTypes, Cluster
<1>7. Covered' = Covered
  <2>1. CASE cutoff = Infinity
    <3>1. Covered = {d \in Cluster(index) : d \in probed} 
      BY <1>6, <2>1 DEF Covered
    <3>2. ~Repairing'
      BY <1>1, <1>4, <2>1 DEF Repairing
    <3> QED
      BY <1>1, <3>1, <3>2 DEF Covered
  <2>2. CASE cutoff # Infinity
    <3>1. pc' = "done" /\ cursor' = cursor /\ cutoff' = cutoff /\ Repairing'
      BY <1>1, <1>4, <1>5, <2>2 DEF Repairing
    <3>2. \A d : WithinCutoff(d)' <=> WithinCutoff(d)
      BY <1>1, <3>1 DEF WithinCutoff
    <3> QED
      BY <1>1, <1>3, <3>1, <3>2 DEF Covered
  <2> QED
    BY <2>1, <2>2
<1>8. Repairing' => best[K].dist <= cutoff'
  BY <1>1, <1>3, <1>4 DEF Repairing, ScanInv
<1>9. (pc = "done" /\ repaired =>
         cursor = index.clusters /\ verdict = CountFrauds(best))'
  <2>1. CountFrauds(best)' = CountFrauds(best)
    BY <1>1 DEF CountFrauds
  <2> QED
    BY <1>1, <1>4, <2>1
<1> QED
  BY <1>1, <1>3, <1>4, <1>7, <1>8, <1>9, SameScan

\* The inductive invariant of the scans.
LEMMA SearchInvariant == Spec => []SearchInv
<1>1. Init => SearchInv
  BY InitTypes, InitScan DEF SearchInv
<1>2. SearchInv /\ [Next]_vars => SearchInv'
  <2>1. SearchInv /\ UNCHANGED vars => SearchInv'
    BY DEF SearchInv, SearchTypes, ScanInv, Rescanning, Repairing, Covered,
           WithinCutoff, CountFrauds, Sorted, vars, inputs
  <2> QED
    BY <2>1, RankScans, ScanRowScans, ProbeScans, ProbeEndScans, RepairScans,
       RepairEndScans DEF Next
<1> QED
  BY <1>1, <1>2, PTL DEF Spec
-----------------------------------------------------------------------------
\* Until a repaired search scans again, the slots of the AVX2 scan are the K
\* nearest of the rows offered, in the order of distance and original id.
THEOREM SlotsAreNearestOffered == Spec => []BestOfOffered
<1>1. SearchInv => BestOfOffered
  <2> SUFFICES ASSUME SearchInv, scan = "avx2", ~Rescanning
               PROVE  best = Nearest(offered)
    BY DEF BestOfOffered
  <2>1. SearchTypes /\ ExactSlots(best, ExactOf(query, offered))
    BY DEF SearchInv, ScanInv
  <2>2. EntrySet(ExactOf(query, offered))
    BY <2>1, EntriesOfRows DEF SearchTypes
  <2> QED
    BY <2>1, <2>2, ExactSlotsAreNearest, NearestIs
<1> QED
  BY <1>1, SearchInvariant, PTL

\* The same of the distances, with the scalar scan and its partial sums too.
THEOREM DistancesAreNearestOffered == Spec => []DistancesOfOffered
<1>1. SearchInv => DistancesOfOffered
  <2> SUFFICES ASSUME SearchInv, ~Rescanning
               PROVE  DistancesOf(best) = DistancesOf(Nearest(offered))
    BY DEF DistancesOfOffered
  <2>1. SearchTypes /\ NearSlots(best, ExactOf(query, offered))
    BY DEF SearchInv, ScanInv
  <2>2. EntrySet(ExactOf(query, offered))
    BY <2>1, EntriesOfRows DEF SearchTypes
  <2>3. DistancesOf(best) = DistancesOf(NearestIn(ExactOf(query, offered)))
    BY <2>1, <2>2, NearSlotsAreNearest
  <2> QED
    BY <2>3, NearestIs
<1> QED
  BY <1>1, SearchInvariant, PTL

\* A row that a repaired search has not offered is farther than every slot.
LEMMA UnofferedIsFar ==
    ASSUME SearchTypes, ScanInv, pc = "done", repaired,
           NEW r \in Row(index), r \notin offered
    PROVE  best[K].dist < Distance(query, r.vec)
<1>1. offered = UNION {ListRow(index, c) : c \in Covered}
  BY DEF ScanInv, SearchTypes, Elems
<1>2. PICK c \in Cluster(index) : r \in ListRow(index, c)
  BY ListFacts DEF SearchTypes
<1>3. c \notin Covered /\ c < cursor
  BY <1>1, <1>2, SettingsAssumption DEF ScanInv, SearchTypes, Cluster
<1>4. ~WithinCutoff(c)
  BY <1>3 DEF Covered, Repairing
<1>5. best[K].dist <= cutoff /\ best[K].dist \in Nat /\ cutoff \in Nat
  BY LastSlot DEF ScanInv, SearchTypes, Repairing
<1>6. /\ BBoxDistance(query, index.box[c]) \in Nat
      /\ BBoxDistance(query, index.box[c]) <= Distance(query, r.vec)
  <2>1. Vector(query) /\ DOMAIN query = Coordinate /\ Vector(r.vec)
    BY VectorFacts DEF SearchTypes
  <2>2. \A k \in Coordinate :
          /\ index.box[c].low[k] \in Int /\ index.box[c].high[k] \in Int
          /\ index.box[c].low[k] <= r.vec[k] /\ r.vec[k] <= index.box[c].high[k]
    BY <1>2, VectorsAssumption DEF SearchTypes, ListRow, Elems
  <2> QED
    BY <2>1, <2>2, BoxIsNearer
<1>7. Distance(query, r.vec) \in Nat
  BY RowEntry, SentinelAssumption DEF SearchTypes
<1> QED
  BY <1>4, <1>5, <1>6, <1>7 DEF WithinCutoff

\* A repair from K rows makes the search exact, although it passes over the
\* clusters whose box is beyond the K-th distance of before the repair.
THEOREM RepairFindsNearest == Spec => []RepairIsExact
<1>1. SearchInv => RepairIsExact
  <2> DEFINE T == ExactOf(query, offered)
             S == ExactOf(query, Row(index))
  <2> SUFFICES ASSUME SearchInv, pc = "done", repaired, ~Rescanning
               PROVE  /\ DistancesOf(best) = DistancesOf(Nearest(Row(index)))
                      /\ scan = "avx2" =>
                           /\ best = Nearest(Row(index))
                           /\ verdict = CountFrauds(Nearest(Row(index)))
    BY DEF RepairIsExact
  <2>1. /\ SearchTypes /\ ScanInv /\ NearSlots(best, T)
        /\ scan = "avx2" => ExactSlots(best, T)
        /\ verdict = CountFrauds(best)
    BY DEF SearchInv, ScanInv
  <2>2. EntrySet(S) /\ T \subseteq S
    BY <2>1, EntriesOfRows DEF SearchTypes, ExactOf
  <2>3. ASSUME NEW e \in S \ T PROVE best[K].dist < e.dist
    <3>1. PICK r \in Row(index) : e = Entry(r, Distance(query, r.vec))
      BY <2>3 DEF ExactOf
    <3>2. r \notin offered /\ e.dist = Distance(query, r.vec)
      BY <2>3, <3>1 DEF ExactOf, Entry
    <3> QED
      BY <2>1, <3>2, UnofferedIsFar
  <2> HIDE DEF S, T
  <2>4. NearSlots(best, S) /\ (scan = "avx2" => ExactSlots(best, S))
    BY <2>1, <2>2, <2>3, FarEntries
  <2>5. Nearest(Row(index)) = NearestIn(S)
    BY NearestIs DEF S
  <2>6. scan = "avx2" => best = Nearest(Row(index))
    BY <2>2, <2>4, <2>5, ExactSlotsAreNearest
  <2>7. DistancesOf(best) = DistancesOf(Nearest(Row(index)))
    BY <2>2, <2>4, <2>5, NearSlotsAreNearest
  <2> QED
    BY <2>1, <2>6, <2>7
<1> QED
  BY <1>1, SearchInvariant, PTL
-----------------------------------------------------------------------------
(* The ranking: the nearest p centroids of a set, nearest first.           *)
Nearer(c, d) ==
    \/ CentroidDistance(c) < CentroidDistance(d)
    \/ CentroidDistance(c) = CentroidDistance(d) /\ c < d

InOrder(list) == \A i, j \in 1 .. Len(list) : i < j => Nearer(list[i], list[j])

NearestFirst(list, set, p) ==
    /\ list \in Seq(set) /\ Len(list) <= p
    /\ InOrder(list)
    /\ \A c \in set :
         \/ c \in Elems(list)
         \/ Len(list) = p /\ \A i \in 1 .. Len(list) : Nearer(list[i], c)

LEMMA CentroidDistances ==
    ASSUME SearchTypes
    PROVE  /\ \A c \in Cluster(index) : CentroidDistance(c) \in Nat /\ c \in Nat
           /\ index.clusters \in Nat /\ Cluster(index) = 0 .. index.clusters - 1
<1>1. index.clusters \in Nat /\ Cluster(index) = 0 .. index.clusters - 1
  BY SettingsAssumption DEF SearchTypes, Cluster
<1>2. \A c \in Cluster(index) : CentroidDistance(c) \in Nat
  BY VectorFacts, DistanceType DEF SearchTypes, CentroidDistance
<1> QED
  BY <1>1, <1>2

LEMMA NearerOrder ==
    ASSUME SearchTypes, NEW c \in Cluster(index), NEW d \in Cluster(index),
           NEW e \in Cluster(index)
    PROVE  /\ Nearer(c, d) /\ Nearer(d, e) => Nearer(c, e)
           /\ ~Nearer(c, c)
           /\ CentroidDistance(c) <= CentroidDistance(d) /\ c < d => Nearer(c, d)
           /\ CentroidDistance(c) < CentroidDistance(d) => Nearer(c, d)
           /\ Nearer(c, d) => CentroidDistance(c) <= CentroidDistance(d)
BY CentroidDistances DEF Nearer

\* Inserting a centroid whose number is above all others keeps the order.
LEMMA InsertInOrder ==
    ASSUME SearchTypes, NEW n \in Cluster(index), NEW list \in Seq(0 .. n - 1),
           InOrder(list)
    PROVE  LET new == InsertCentroid(list, n)
           IN  /\ new \in Seq(0 .. n) /\ Len(new) = Len(list) + 1
               /\ InOrder(new)
               /\ Elems(new) = Elems(list) \cup {n}
<1> DEFINE new == InsertCentroid(list, n)
           L == Len(list)
           Stays(i) == i <= L /\ CentroidDistance(list[i]) <= CentroidDistance(n)
           leave == {i \in 1 .. L + 1 : ~Stays(i)}
<1>0. new \in Seq(0 .. n) /\ Len(new) = L + 1
  <2>1. n \in Nat
    BY CentroidDistances
  <2>2. list \in Seq(0 .. n) /\ n \in 0 .. n
    BY <2>1
  <2> QED
    BY <2>2, InsertCentroidType
<1>1. /\ n \in Nat /\ 0 .. n - 1 \subseteq Cluster(index) /\ L \in Nat
      /\ DOMAIN list = 1 .. L
      /\ \A i \in 1 .. L : list[i] \in 0 .. n - 1 /\ list[i] \in Cluster(index)
                           /\ list[i] < n
  <2>1. n \in Nat /\ 0 .. n - 1 \subseteq Cluster(index)
    BY CentroidDistances
  <2> QED
    BY <2>1
<1>2. new = [i \in 1 .. L + 1 |->
               IF Stays(i) THEN list[i]
               ELSE IF i = 1 \/ Stays(i - 1) THEN n ELSE list[i - 1]]
  BY DEF InsertCentroid
<1>3. PICK m \in 1 .. L + 1 :
        /\ ~Stays(m) /\ \A i \in 1 .. L + 1 : Stays(i) <=> i < m
  <2>1. L + 1 \in leave /\ leave \subseteq Nat
    BY <1>1
  <2>2. PICK m \in leave : \A i \in leave : m <= i
    BY <2>1, Least
  <2>3. ASSUME NEW i \in 1 .. L + 1, m <= i PROVE ~Stays(i)
    <3>1. CASE i <= L
      <4>1. m \in 1 .. L /\ i \in 1 .. L /\ m \in 1 .. L + 1 /\ ~Stays(m)
        BY <1>1, <2>2, <2>3, <3>1
      <4>2. CentroidDistance(list[m]) <= CentroidDistance(list[i])
        <5>1. m = i \/ Nearer(list[m], list[i])
          BY <2>3, <4>1 DEF InOrder
        <5>2. list[m] \in Cluster(index) /\ list[i] \in Cluster(index)
          BY <1>1, <4>1
        <5> HIDE DEF leave, Stays, new
        <5>3. CASE m = i
          <6>1. CentroidDistance(list[i]) \in Nat
            BY ONLY SearchTypes, SettingsAssumption, <5>2, CentroidDistances
          <6> QED
            BY ONLY <5>3, <6>1
        <5>4. CASE Nearer(list[m], list[i])
          BY ONLY SearchTypes, <5>2, <5>4, NearerOrder
        <5> QED
          BY <5>1, <5>3, <5>4
      <4>3. ~(CentroidDistance(list[m]) <= CentroidDistance(n))
        BY <4>1
      <4>4. /\ CentroidDistance(list[m]) \in Nat /\ CentroidDistance(list[i]) \in Nat
            /\ CentroidDistance(n) \in Nat
        BY <1>1, <4>1, CentroidDistances
      <4> QED
        BY <4>2, <4>3, <4>4
    <3> QED
      BY <1>1, <3>1
  <2>4. ASSUME NEW i \in 1 .. L + 1, i < m PROVE Stays(i)
    BY <1>1, <2>2, <2>4
  <2>5. m \in 1 .. L + 1 /\ ~Stays(m)
    BY <2>2
  <2> QED
    BY <1>1, <2>3, <2>4, <2>5
<1>4. /\ \A i \in 1 .. L : i < m => Nearer(list[i], n)
      /\ \A i \in 1 .. L : i >= m => Nearer(n, list[i])
  <2>1. ASSUME NEW i \in 1 .. L, i < m PROVE Nearer(list[i], n)
    <3>1. CentroidDistance(list[i]) <= CentroidDistance(n)
      BY <1>1, <1>3, <2>1
    <3> QED
      BY <1>1, <3>1, NearerOrder
  <2>2. ASSUME NEW i \in 1 .. L, i >= m PROVE Nearer(n, list[i])
    <3>1. i \in 1 .. L + 1 /\ i <= L /\ ~(i < m)
      BY <1>1, <1>3, <2>2
    <3>2. ~Stays(i)
      BY <1>3, <3>1
    <3>3. ~(CentroidDistance(list[i]) <= CentroidDistance(n))
      BY <3>1, <3>2
    <3> QED
      BY <1>1, <3>3, NearerOrder, CentroidDistances
  <2> QED
    BY <2>1, <2>2
<1> HIDE DEF Stays, leave
<1>5. new = [i \in 1 .. L + 1 |-> IF i < m THEN list[i]
                                   ELSE IF i = m THEN n ELSE list[i - 1]]
  <2>1. ASSUME NEW i \in 1 .. L + 1
        PROVE  (IF Stays(i) THEN list[i]
                ELSE IF i = 1 \/ Stays(i - 1) THEN n ELSE list[i - 1])
               = IF i < m THEN list[i] ELSE IF i = m THEN n ELSE list[i - 1]
    <3>1. CASE i < m
      BY <1>3, <3>1
    <3>2. CASE i >= m
      <4>1. ~Stays(i)
        BY <1>1, <1>3, <3>2
      <4>2. i = 1 \/ Stays(i - 1) <=> i = m
        <5>1. i = 1 => i = m
          BY <1>1, <3>2
        <5>2. i # 1 => i - 1 \in 1 .. L + 1
          BY <1>1
        <5>3. i # 1 => (Stays(i - 1) <=> i - 1 < m)
          BY <1>3, <5>2
        <5> QED
          BY <1>1, <3>2, <5>1, <5>3
      <4> QED
        BY <3>2, <4>1, <4>2
    <3> QED
      BY <1>1, <3>1, <3>2
  <2> QED
    BY <1>2, <2>1
<1> HIDE DEF new
<1>6. ASSUME NEW i \in 1 .. L + 1
      PROVE  /\ i < m => i \in 1 .. L /\ new[i] = list[i]
             /\ i = m => new[i] = n
             /\ i > m => i - 1 \in 1 .. L /\ i - 1 >= m /\ new[i] = list[i - 1]
  BY <1>1, <1>5
<1>7. ASSUME NEW i \in 1 .. L + 1, NEW j \in 1 .. L + 1, i < j
      PROVE  Nearer(new[i], new[j])
  <2>1. CASE j < m
    BY <1>1, <1>6, <1>7, <2>1 DEF InOrder
  <2>2. CASE j = m
    BY <1>1, <1>4, <1>6, <1>7, <2>2
  <2>3. CASE i = m
    BY <1>1, <1>4, <1>6, <1>7, <2>3
  <2>4. CASE i > m
    <3>1. /\ i - 1 \in 1 .. L /\ new[i] = list[i - 1]
          /\ j - 1 \in 1 .. L /\ new[j] = list[j - 1] /\ i - 1 < j - 1
      BY <1>6, <1>7, <2>4
    <3> QED
      BY <3>1 DEF InOrder
  <2>5. CASE i < m /\ j > m
    <3>1. Nearer(list[i], n) /\ Nearer(n, list[j - 1])
      BY <1>4, <1>6, <2>5
    <3> QED
      BY <1>1, <1>6, <2>5, <3>1, NearerOrder
  <2> QED
    BY <1>1, <1>7, <2>1, <2>2, <2>3, <2>4, <2>5
<1>8. Elems(new) = Elems(list) \cup {n}
  <2>1. DOMAIN new = 1 .. L + 1 /\ DOMAIN list = 1 .. L
    BY <1>1, <1>5
  <2>2. ASSUME NEW i \in 1 .. L + 1 PROVE new[i] \in Elems(list) \cup {n}
    <3>1. \/ i \in 1 .. L /\ new[i] = list[i]
          \/ new[i] = n
          \/ i - 1 \in 1 .. L /\ new[i] = list[i - 1]
      BY <1>1, <1>6
    <3> HIDE DEF L
    <3> QED
      BY <2>1, <3>1 DEF Elems
  <2>3. ASSUME NEW i \in 1 .. L PROVE list[i] \in Elems(new)
    <3>1. CASE i < m
      <4>1. i \in 1 .. L + 1 /\ new[i] = list[i]
        BY <1>1, <1>6, <3>1
      <4> QED
        BY <2>1, <4>1 DEF Elems
    <3>2. CASE i >= m
      <4>1. i + 1 \in 1 .. L + 1 /\ new[i + 1] = list[i]
        BY <1>1, <1>6, <3>2
      <4> QED
        BY <2>1, <4>1 DEF Elems
    <3> QED
      BY <1>1, <3>1, <3>2
  <2>4. n \in Elems(new)
    BY <1>6, <2>1 DEF Elems
  <2> QED
    BY <2>1, <2>2, <2>3, <2>4 DEF Elems
<1>9. InOrder(new)
  BY <1>0, <1>7 DEF InOrder
<1> QED
  BY <1>0, <1>8, <1>9 DEF new

\* One more centroid ranked.
LEMMA RankOne ==
    ASSUME SearchTypes, Rank, NearestFirst(ranked, 0 .. cursor - 1, Probes)
    PROVE  NearestFirst(ranked', 0 .. cursor, Probes)
<1> DEFINE p == Probes
           n == cursor
           L == Len(ranked)
           C == Cluster(index)
<1>1. /\ n \in C /\ n \in Nat /\ p \in Nat /\ p > 0 /\ 0 .. n - 1 \subseteq C
      /\ n \notin 0 .. n - 1 /\ 0 .. n = (0 .. n - 1) \cup {n}
  BY ProbesType, CentroidDistances DEF Rank, SearchTypes
<1>2. /\ ranked' = IF L < p THEN InsertCentroid(ranked, n)
                   ELSE IF CentroidDistance(n) < CentroidDistance(ranked[p])
                     THEN InsertCentroid(SubSeq(ranked, 1, p - 1), n)
                   ELSE ranked
  BY DEF Rank
<1> HIDE DEF p, n, C
<1>3. ranked \in Seq(0 .. n - 1)
  BY DEF NearestFirst, n
<1>4. /\ ranked \in Seq(0 .. n - 1) /\ L \in Nat /\ L <= p /\ InOrder(ranked)
      /\ DOMAIN ranked = 1 .. L
      /\ \A i \in 1 .. L : ranked[i] \in 0 .. n - 1
      /\ \A c \in 0 .. n - 1 :
           \/ c \in Elems(ranked)
           \/ L = p /\ \A i \in 1 .. L : Nearer(ranked[i], c)
  <2>1. /\ L \in Nat /\ DOMAIN ranked = 1 .. L
        /\ \A i \in 1 .. L : ranked[i] \in 0 .. n - 1
    <3> DEFINE S == 0 .. n - 1
    <3>1. ranked \in Seq(S)
      BY <1>3
    <3> HIDE DEF S
    <3>2. /\ L \in Nat /\ DOMAIN ranked = 1 .. L
          /\ \A i \in 1 .. L : ranked[i] \in S
      BY <3>1
    <3> QED
      BY <3>2 DEF S
  <2> QED
    BY <1>3, <2>1 DEF NearestFirst, n, p
<1> HIDE DEF L
<1>5. CASE L < p
  <2> DEFINE new == InsertCentroid(ranked, n)
  <2>1. /\ new \in Seq(0 .. n) /\ Len(new) = L + 1 /\ InOrder(new)
        /\ Elems(new) = Elems(ranked) \cup {n}
    BY <1>1, <1>4, InsertInOrder DEF C, L
  <2>2. ranked' = new
    BY <1>2, <1>5
  <2> HIDE DEF new
  <2>3. \A c \in 0 .. n : c \in Elems(new)
    BY <1>1, <1>4, <1>5, <2>1
  <2>4. Len(new) <= p
    BY <1>1, <1>4, <1>5, <2>1
  <2> QED
    BY <2>1, <2>2, <2>3, <2>4 DEF NearestFirst, n, p
<1>6. CASE L = p /\ CentroidDistance(n) < CentroidDistance(ranked[p])
  <2> DEFINE rest == SubSeq(ranked, 1, p - 1)
             new == InsertCentroid(rest, n)
             last == ranked[p]
  <2>1. /\ rest \in Seq(0 .. n - 1) /\ Len(rest) = p - 1 /\ DOMAIN rest = 1 .. p - 1
        /\ \A i \in 1 .. p - 1 : i \in 1 .. L /\ rest[i] = ranked[i]
        /\ p \in 1 .. L
    BY <1>1, <1>4, <1>6 DEF L
  <2>2. InOrder(rest)
    <3> HIDE DEF rest
    <3> SUFFICES ASSUME NEW i \in 1 .. Len(rest), NEW j \in 1 .. Len(rest), i < j
                 PROVE  Nearer(rest[i], rest[j])
      BY DEF InOrder
    <3>1. /\ i \in 1 .. L /\ j \in 1 .. L
          /\ rest[i] = ranked[i] /\ rest[j] = ranked[j]
      BY <2>1
    <3> QED
      BY <1>4, <3>1 DEF InOrder, L
  <2>3. /\ new \in Seq(0 .. n) /\ Len(new) = p - 1 + 1 /\ InOrder(new)
        /\ Elems(new) = Elems(rest) \cup {n}
    BY <1>1, <2>1, <2>2, InsertInOrder DEF C
  <2>4. ranked' = new
    BY <1>2, <1>4, <1>6
  <2>5. /\ Nearer(n, last) /\ last \in 0 .. n - 1 /\ last \in C
        /\ \A i \in 1 .. p - 1 : Nearer(rest[i], last) /\ rest[i] \in C
    <3>1. \A i \in 1 .. p - 1 : Nearer(rest[i], last) /\ rest[i] \in C
      <4> TAKE i \in 1 .. p - 1
      <4>1. i \in 1 .. L /\ rest[i] = ranked[i] /\ i < p
        BY <1>1, <2>1
      <4> QED
        BY <1>1, <1>4, <2>1, <4>1 DEF InOrder, L
    <3>2. last \in 0 .. n - 1 /\ last \in C
      BY <1>1, <1>4, <2>1
    <3> QED
      BY <1>1, <1>6, <3>1, <3>2, NearerOrder DEF C
  <2> HIDE DEF new, rest
  <2>6. \A i \in 1 .. Len(new) : Nearer(new[i], last) /\ new[i] \in C
    <3> TAKE i \in 1 .. Len(new)
    <3>1. new[i] \in Elems(rest) \cup {n}
      <4>1. DOMAIN new = 1 .. Len(new)
        BY <2>3
      <4> QED
        BY <2>3, <4>1 DEF Elems
    <3> QED
      BY <1>1, <2>1, <2>5, <3>1 DEF Elems
  <2> HIDE DEF last
  <2>7. \A c \in 0 .. n - 1 : \/ c \in Elems(rest) \/ c = last
                              \/ Nearer(last, c)
    <3> TAKE c \in 0 .. n - 1
    <3>1. CASE c \in Elems(ranked)
      <4>1. PICK i \in 1 .. L : c = ranked[i]
        BY <1>4, <3>1 DEF Elems
      <4>2. i = p \/ i \in 1 .. p - 1
        BY <1>4, <1>6, <4>1
      <4> QED
        BY <2>1, <4>1, <4>2 DEF Elems, last
    <3>2. CASE \A i \in 1 .. L : Nearer(ranked[i], c)
      BY <2>1, <3>2 DEF last
    <3> QED
      BY <1>4, <3>1, <3>2
  <2>8. ASSUME NEW c \in 0 .. n
        PROVE  c \in Elems(new) \/ \A i \in 1 .. Len(new) : Nearer(new[i], c)
    <3>1. CASE c \in Elems(rest) \/ c = n
      BY <2>3, <3>1
    <3>2. CASE c = last
      BY <2>6, <3>2
    <3>3. CASE c \in 0 .. n - 1 /\ Nearer(last, c)
      <4>1. c \in C
        BY <1>1, <3>3
      <4> QED
        BY <2>5, <2>6, <3>3, <4>1, NearerOrder DEF C
    <3> QED
      BY <1>1, <2>7, <3>1, <3>2, <3>3
  <2>9. Len(new) = p
    BY <1>1, <2>3
  <2> QED
    BY <1>1, <2>3, <2>4, <2>8, <2>9 DEF NearestFirst, n, p
<1>7. CASE L = p /\ ~(CentroidDistance(n) < CentroidDistance(ranked[p]))
  <2>1. ranked' = ranked /\ p \in 1 .. L
    BY <1>1, <1>2, <1>4, <1>7
  <2>2. ASSUME NEW i \in 1 .. L PROVE Nearer(ranked[i], n)
    <3>1. /\ ranked[i] \in C /\ ranked[p] \in C /\ ranked[i] < n
          /\ i = p \/ Nearer(ranked[i], ranked[p])
      BY <1>1, <1>4, <1>7, <2>1 DEF InOrder, L
    <3>2. CentroidDistance(ranked[i]) <= CentroidDistance(ranked[p])
      <4>1. CASE i = p
        BY <3>1, <4>1, CentroidDistances DEF C
      <4>2. CASE i # p
        BY <3>1, <4>2, NearerOrder DEF C
      <4> QED
        BY <4>1, <4>2
    <3>3. /\ CentroidDistance(ranked[i]) \in Nat /\ CentroidDistance(ranked[p]) \in Nat
          /\ CentroidDistance(n) \in Nat
      BY <1>1, <3>1, CentroidDistances DEF C
    <3>4. CentroidDistance(ranked[i]) <= CentroidDistance(n)
      BY <1>7, <3>2, <3>3
    <3> QED
      BY <1>1, <3>1, <3>4, NearerOrder DEF C
  <2>3. ranked \in Seq(0 .. n)
    BY <1>1, <1>4
  <2> QED
    BY <1>1, <1>4, <1>7, <2>1, <2>2, <2>3 DEF NearestFirst, n, p, L
<1> QED
  <2>1. L < p \/ L = p
    BY <1>1, <1>4
  <2> QED
    BY <1>5, <1>6, <1>7, <2>1

\* The probes follow the ranking: what is left to probe is its tail.
TailOf(rest, list) ==
    /\ rest \in Seq(Cluster(index)) /\ Len(rest) <= Len(list)
    /\ \A i \in 1 .. Len(rest) : rest[i] = list[Len(list) - Len(rest) + i]
    /\ \A i \in 1 .. Len(list) - Len(rest) : list[i] \in probed

RankInv ==
    /\ pc = "rank" => NearestFirst(ranked, 0 .. cursor - 1, Probes)
    /\ pc = "probe" =>
         NearestFirst(ranked, Cluster(index), Probes) /\ TailOf(todo, ranked)
    /\ ProbedAreNearest
    /\ pc = "done" /\ stage \in {"approve", "deny"} =>
         Cardinality(probed) >= Smaller(MaxIVFProbe, index.clusters)
    /\ pc = "done" /\ stage \in {"base", "wide"} /\ index.repair =>
         ~(verdict < DenyAt /\ class.approval) /\ ~(verdict >= DenyAt /\ class.denial)

DecisionInv == SearchTypes /\ RankInv

LEMMA SameProbed ==
    ASSUME ProbedAreNearest, UNCHANGED <<query, index, probed>>
    PROVE  ProbedAreNearest'
BY DEF ProbedAreNearest, CentroidDistance

LEMMA EmptyRanking ==
    ASSUME NEW p \in Nat
    PROVE  NearestFirst(<< >>, 0 .. 0 - 1, p)
<1>1. 0 .. 0 - 1 = {}
  OBVIOUS
<1>2. << >> \in Seq({}) /\ Len(<< >>) = 0 /\ 1 .. 0 = {}
  OBVIOUS
<1> QED
  BY <1>1, <1>2 DEF NearestFirst, InOrder

LEMMA RankRanks == DecisionInv /\ Rank => DecisionInv'
<1> SUFFICES ASSUME DecisionInv, Rank PROVE RankInv'
  BY RankTypes DEF DecisionInv
<1>1. /\ UNCHANGED <<query, index, probed, stage>>
      /\ pc = "rank" /\ pc' = "rank" /\ cursor' = cursor + 1
  BY DEF Rank, inputs
<1>2. NearestFirst(ranked', 0 .. cursor, Probes)
  BY <1>1, RankOne DEF DecisionInv, RankInv
<1>3. Probes' = Probes /\ cursor' - 1 = cursor
  BY <1>1 DEF Probes, DecisionInv, SearchTypes
<1>4. NearestFirst(ranked, 0 .. cursor - 1, Probes)'
  BY <1>1, <1>2, <1>3 DEF NearestFirst, InOrder, Nearer, CentroidDistance
<1> QED
  BY <1>1, <1>4, SameProbed DEF DecisionInv, RankInv

LEMMA RankEndRanks == DecisionInv /\ RankEnd => DecisionInv'
<1> SUFFICES ASSUME DecisionInv, RankEnd PROVE RankInv'
  BY RankTypes DEF DecisionInv
<1>1. /\ UNCHANGED <<query, index, probed, stage, ranked>>
      /\ pc = "rank" /\ pc' = "probe" /\ cursor = index.clusters /\ todo' = ranked
  BY DEF RankEnd, inputs
<1>2. Probes' = Probes /\ 0 .. cursor - 1 = Cluster(index)
  BY <1>1 DEF Probes, Cluster
<1>3. NearestFirst(ranked, Cluster(index), Probes)
  BY <1>1, <1>2 DEF DecisionInv, RankInv
<1>4. NearestFirst(ranked, Cluster(index), Probes)'
  BY <1>1, <1>2, <1>3 DEF NearestFirst, InOrder, Nearer, CentroidDistance
<1>5. TailOf(todo, ranked)'
  <2>1. ranked \in Seq(Cluster(index)) /\ Len(ranked) \in Nat
    BY DEF DecisionInv, SearchTypes
  <2>2. \A i \in 1 .. Len(ranked) : Len(ranked) - Len(ranked) + i = i
    BY <2>1
  <2>3. 1 .. Len(ranked) - Len(ranked) = {}
    BY <2>1
  <2> QED
    BY <1>1, <2>1, <2>2, <2>3 DEF TailOf
<1> QED
  BY <1>1, <1>4, <1>5, SameProbed DEF DecisionInv, RankInv

LEMMA ScanRowRanks == DecisionInv /\ ScanRow => DecisionInv'
<1> SUFFICES ASSUME DecisionInv, ScanRow PROVE RankInv'
  BY ScanRowTypes DEF DecisionInv
<1>1. /\ UNCHANGED <<query, index, probed, stage, ranked, todo, pc, cursor, verdict>>
      /\ rows # << >>
  BY DEF ScanRow, inputs
<1>2. pc \in {"probe", "repair"}
  BY <1>1 DEF DecisionInv, SearchTypes
<1>3. pc = "probe" => (NearestFirst(ranked, Cluster(index), Probes) /\ TailOf(todo, ranked))'
  BY <1>1 DEF DecisionInv, RankInv, NearestFirst, InOrder, Nearer, CentroidDistance,
              Probes, TailOf
<1> QED
  BY <1>1, <1>2, <1>3, SameProbed DEF DecisionInv, RankInv

\* The next cluster probed is the nearest of those not probed.
LEMMA ProbeRanks == DecisionInv /\ ProbeNext => DecisionInv'
<1> SUFFICES ASSUME DecisionInv, ProbeNext PROVE RankInv'
  BY ProbeTypes DEF DecisionInv
<1> DEFINE c == Head(todo)
           C == Cluster(index)
           L == Len(ranked)
           k == L - Len(todo) + 1
<1>1. /\ UNCHANGED <<query, index, stage, ranked>> /\ pc = "probe" /\ pc' = "probe"
      /\ todo # << >> /\ todo' = Tail(todo) /\ probed' = probed \cup {c}
  BY DEF ProbeNext, inputs
<1>2. /\ SearchTypes /\ NearestFirst(ranked, C, Probes) /\ TailOf(todo, ranked)
      /\ ProbedAreNearest
  BY <1>1 DEF DecisionInv, RankInv
<1>3. /\ c \in C /\ Tail(todo) \in Seq(C) /\ c = todo[1]
      /\ Len(todo) \in Nat \ {0} /\ L \in Nat /\ Len(todo) <= L
      /\ Len(Tail(todo)) = Len(todo) - 1
      /\ \A i \in 1 .. Len(todo) - 1 : Tail(todo)[i] = todo[i + 1]
  <2>1. todo \in Seq(C) /\ ranked \in Seq(C) /\ Len(todo) <= L
    BY <1>2 DEF SearchTypes, TailOf
  <2> HIDE DEF C
  <2> QED
    BY <1>1, <2>1
<1>4. /\ k \in 1 .. L /\ c = ranked[k] /\ \A i \in 1 .. k - 1 : ranked[i] \in probed
      /\ \A i \in 1 .. Len(todo) : todo[i] = ranked[k - 1 + i]
  BY <1>2, <1>3 DEF TailOf
<1>5. TailOf(todo, ranked)'
  <2> DEFINE t == Tail(todo)
  <2>1. /\ t \in Seq(C) /\ Len(t) <= L /\ L - Len(t) = k
        /\ \A i \in 1 .. Len(t) : t[i] = ranked[k + i]
    <3>1. \A i \in 1 .. Len(t) : i + 1 \in 1 .. Len(todo) /\ k - 1 + (i + 1) = k + i
      BY <1>3
    <3> QED
      BY <1>3, <1>4, <3>1
  <2> HIDE DEF t
  <2>2. \A i \in 1 .. k : ranked[i] \in probed'
    <3>1. \A i \in 1 .. k : i = k \/ i \in 1 .. k - 1
      BY <1>3
    <3> QED
      BY <1>1, <1>4, <3>1
  <2>3. todo' = t
    BY <1>1 DEF t
  <2> QED
    BY <1>1, <2>1, <2>2, <2>3 DEF TailOf
<1>6. NearestFirst(ranked, Cluster(index), Probes)'
  BY <1>1, <1>2 DEF NearestFirst, InOrder, Nearer, CentroidDistance, Probes
<1>7. ASSUME NEW d \in C, d \notin probed, d # c PROVE Nearer(c, d)
  <2>1. CASE d \in Elems(ranked)
    <3>1. PICK i \in 1 .. L : d = ranked[i]
      <4>1. DOMAIN ranked = 1 .. L
        BY <1>2 DEF NearestFirst
      <4> QED
        BY <2>1, <4>1 DEF Elems
    <3>2. i > k
      BY <1>3, <1>4, <1>7, <3>1
    <3> QED
      BY <1>2, <1>4, <3>1, <3>2 DEF NearestFirst, InOrder
  <2>2. CASE d \notin Elems(ranked)
    BY <1>2, <1>4, <2>2 DEF NearestFirst
  <2> QED
    BY <2>1, <2>2
<1>8. ProbedAreNearest'
  <2>1. \A b \in probed \cup {c}, d \in C \ (probed \cup {c}) : Nearer(b, d)
    BY <1>2, <1>7 DEF ProbedAreNearest, Nearer
  <2> QED
    BY <1>1, <2>1 DEF ProbedAreNearest, Nearer, CentroidDistance
<1> QED
  BY <1>1, <1>5, <1>6, <1>8 DEF RankInv

LEMMA RepairRanks == DecisionInv /\ RepairNext => DecisionInv'
<1> SUFFICES ASSUME DecisionInv, RepairNext PROVE RankInv'
  BY RepairTypes DEF DecisionInv
<1>1. UNCHANGED <<query, index, probed>> /\ pc' = "repair"
  BY DEF RepairNext, inputs
<1> QED
  BY <1>1, SameProbed DEF DecisionInv, RankInv

\* When the deepest expansion ends, its whole ranking is probed.
LEMMA DeepestIsProbed ==
    ASSUME DecisionInv, pc = "probe", todo = << >>, stage \in {"approve", "deny"}
    PROVE  Cardinality(probed) >= Smaller(MaxIVFProbe, index.clusters)
<1> DEFINE C == Cluster(index)
           L == Len(ranked)
<1>1. /\ SearchTypes /\ NearestFirst(ranked, C, Probes) /\ TailOf(todo, ranked)
  BY DEF DecisionInv, RankInv
<1>2. ranked \in Seq(C) /\ probed \subseteq C /\ C = 0 .. index.clusters - 1
      /\ index.clusters \in Nat
  BY <1>1, CentroidDistances DEF SearchTypes
<1>3. IsFiniteSet(C) /\ IsFiniteSet(probed) /\ Cardinality(C) = index.clusters
      /\ Cardinality(probed) \in Nat
  <2>1. IsFiniteSet(C) /\ Cardinality(C) = index.clusters
    <3>1. 0 \in Int /\ index.clusters - 1 \in Int
      BY <1>2
    <3> DEFINE last == index.clusters - 1
    <3>2. /\ IsFiniteSet(0 .. last)
          /\ Cardinality(0 .. last) = IF 0 > last THEN 0 ELSE last - 0 + 1
      BY <3>1, FS_Interval
    <3> QED
      BY <1>2, <3>1, <3>2
  <2>2. IsFiniteSet(probed)
    BY <1>2, <2>1, FS_Subset
  <2> QED
    BY <2>1, <2>2, FS_CardinalityType
<1>4. L \in Nat /\ DOMAIN ranked = 1 .. L /\ \A i \in 1 .. L : ranked[i] \in C
  <2> HIDE DEF C
  <2> QED
    BY <1>2
<1>5. \A i \in 1 .. L : ranked[i] \in probed
  <2>1. L - Len(todo) = L
    BY <1>4
  <2> QED
    BY <1>1, <2>1 DEF TailOf
<1>6. MaxIVFProbe \in Nat /\ Probes = Smaller(MaxIVFProbe, index.clusters)
      /\ Smaller(MaxIVFProbe, index.clusters) \in Nat
      /\ Smaller(MaxIVFProbe, index.clusters) <= index.clusters
  BY <1>1, <1>2, ProbesType, ProbeAssumption DEF Smaller
<1>7. CASE L = Probes
  <2> DEFINE S == 1 .. L
  <2>1. IsFiniteSet(S) /\ Cardinality(S) = L
    BY <1>4, FS_Interval
  <2>2. \A i, j \in S : ranked[i] = ranked[j] => i = j
    <3> SUFFICES ASSUME NEW i \in S, NEW j \in S, ranked[i] = ranked[j], i < j
                 PROVE  FALSE
      BY <1>4
    <3>1. Nearer(ranked[i], ranked[j])
      BY <1>1 DEF NearestFirst, InOrder
    <3> QED
      BY <1>1, <1>4, <3>1, NearerOrder
  <2>3. [i \in S |-> ranked[i]] \in Injection(S, probed)
    BY <1>5, <2>2 DEF Injection, IsInjective
  <2>4. Cardinality(S) <= Cardinality(probed)
    BY <1>3, <2>1, <2>3, FS_Injection
  <2> QED
    BY <1>3, <1>4, <1>6, <1>7, <2>1, <2>4
<1>8. CASE L # Probes
  <2>1. C \subseteq probed
    <3>1. \A c \in C : c \in Elems(ranked)
      BY <1>1, <1>8 DEF NearestFirst
    <3> QED
      BY <1>4, <1>5, <3>1 DEF Elems
  <2>2. probed = C
    BY <1>2, <2>1
  <2> QED
    BY <1>2, <1>3, <1>6, <2>2
<1> QED
  BY <1>7, <1>8

LEMMA DecisionRanks ==
    ASSUME DecisionInv
    PROVE  /\ ProbeEnd => DecisionInv'
           /\ RepairEnd => DecisionInv'
<1>1. ASSUME UNCHANGED <<inputs, probed>>, Decided,
             pc = "probe" => todo = << >>, pc \in {"probe", "repair"}
      PROVE  RankInv'
  <2>1. UNCHANGED <<query, index, class, scan, probed>>
    BY <1>1 DEF inputs
  <2>2. ProbedAreNearest'
    BY <2>1, SameProbed DEF DecisionInv, RankInv
  <2>3. CASE pc' = "rank"
    <3>1. ranked' = << >> /\ cursor' = 0 /\ stage' \in {"base", "wide", "approve", "deny"}
      BY <1>1, <2>3 DEF Decided
    <3>2. Probes' \in Nat
      BY <2>1, <3>1, SettingsAssumption, ProbeAssumption
      DEF DecisionInv, SearchTypes, Probes, Smaller
    <3>3. NearestFirst(ranked, 0 .. cursor - 1, Probes)'
      <4>1. 0 .. 0 - 1 = {} /\ 1 .. 0 = {} /\ << >> \in Seq({}) /\ Len(<< >>) = 0
        OBVIOUS
      <4> QED
        BY <3>1, <3>2, <4>1 DEF NearestFirst, InOrder
    <3> QED
      BY <2>2, <2>3, <3>3 DEF RankInv
  <2>4. CASE pc' = "repair"
    BY <2>2, <2>4 DEF RankInv
  <2>5. CASE pc' = "done"
    <3>1. /\ stage' = stage
          /\ stage \in {"base", "wide"} /\ index.repair =>
               /\ ~(verdict' < DenyAt /\ class.approval)
               /\ ~(verdict' >= DenyAt /\ class.denial)
      BY <1>1, <2>5 DEF Decided
    <3>2. stage \in {"approve", "deny"} =>
            Cardinality(probed) >= Smaller(MaxIVFProbe, index.clusters)
      BY <1>1, DeepestIsProbed DEF DecisionInv, SearchTypes
    <3> QED
      BY <2>1, <2>2, <2>5, <3>1, <3>2 DEF RankInv
  <2> QED
    BY <1>1, <2>3, <2>4, <2>5 DEF Decided
<1>2. ASSUME ProbeEnd PROVE DecisionInv'
  <2>1. Decided /\ SearchTypes'
    BY <1>2, ProbeEndDecides, DecisionTypes DEF DecisionInv
  <2> QED
    BY <1>1, <1>2, <2>1 DEF ProbeEnd, DecisionInv
<1>3. ASSUME RepairEnd PROVE DecisionInv'
  <2>1. Decided /\ SearchTypes'
    BY <1>3, ConcludeDecides, DecisionTypes DEF DecisionInv, RepairEnd
  <2> QED
    BY <1>1, <1>3, <2>1 DEF RepairEnd, DecisionInv
<1> QED
  BY <1>2, <1>3

LEMMA DecisionInvariant == Spec => []DecisionInv
<1>1. Init => DecisionInv
  <2> SUFFICES ASSUME Init PROVE RankInv
    BY InitTypes DEF DecisionInv
  <2>1. Probes \in Nat
    BY InitTypes, ProbesType
  <2> QED
    BY <2>1, EmptyRanking DEF Init, RankInv, ProbedAreNearest
<1>2. DecisionInv /\ [Next]_vars => DecisionInv'
  <2>1. DecisionInv /\ UNCHANGED vars => DecisionInv'
    BY NextTypes
    DEF DecisionInv, RankInv, NearestFirst, InOrder, Nearer, CentroidDistance,
        TailOf, Probes, ProbedAreNearest, vars, inputs
  <2> QED
    BY <2>1, RankRanks, RankEndRanks, ScanRowRanks, ProbeRanks, RepairRanks,
       DecisionRanks DEF Next
<1> QED
  BY <1>1, <1>2, PTL DEF Spec

\* Through every widening the clusters probed are the nearest ones.
THEOREM ProbesNearestFirst == Spec => []ProbedAreNearest
<1>1. DecisionInv => ProbedAreNearest
  BY DEF DecisionInv, RankInv
<1> QED
  BY <1>1, DecisionInvariant, PTL

\* An approval of the approval-repair class, and a denial of the denial-repair
\* class, are given after the deepest expansion.
THEOREM RepairClassesAreDecidedDeep == Spec => []DecidedDeep
<1>1. DecisionInv => DecidedDeep
  BY DEF DecisionInv, RankInv, SearchTypes, DecidedDeep
<1> QED
  BY <1>1, DecisionInvariant, PTL
=============================================================================
