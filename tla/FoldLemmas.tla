----------------------------- MODULE FoldLemmas -----------------------------
(***************************************************************************)
(* Induction over the natural numbers, and the folds of sequences.  The    *)
(* loops of the code are folds in the models; what they compute for every  *)
(* input follows by induction from the fact that every set of natural      *)
(* numbers has a least element.                                            *)
(***************************************************************************)
EXTENDS Integers, Sequences, SequencesExt, FiniteSetsExt, WellFoundedInduction,
        TLAPS

\* Every set of natural numbers has a least element.
LEMMA Least ==
    ASSUME NEW T, T \subseteq Nat, T # {}
    PROVE  \E n \in T : \A m \in T : n <= m
<1> DEFINE R == OpToRel(<, Nat)
<1>1. \A a, b \in Nat : a < b => <<a, b>> \in R
  BY DEF OpToRel
<1>2. IsWellFoundedOn(R, Nat)
  BY NatLessThanWellFounded
<1> HIDE DEF R
<1>3. PICK n \in T : \A m \in T : ~ (<<m, n>> \in R)
  BY <1>2, WFMin
<1>4. ASSUME NEW m \in T PROVE n <= m
  <2>1. m \in Nat /\ n \in Nat /\ ~ (<<m, n>> \in R)
    BY <1>3
  <2>2. ~ (m < n)
    BY <1>1, <2>1
  <2> QED
    BY <2>1, <2>2
<1> QED
  BY <1>4

\* Induction: a set of numbers that has 0 and the successors of its members.
LEMMA Induction ==
    ASSUME NEW S, 0 \in S, \A n \in Nat : n \in S => n + 1 \in S
    PROVE  Nat \subseteq S
<1> DEFINE T == Nat \ S
<1>1. SUFFICES ASSUME T # {} PROVE FALSE
  OBVIOUS
<1>2. T \subseteq Nat
  OBVIOUS
<1>3. \E n \in T : \A m \in T : n <= m
  <2> HIDE DEF T
  <2> QED
    BY <1>1, <1>2, Least
<1>4. PICK n \in T : \A m \in T : n <= m
  BY <1>3
<1>5. n \in Nat \ {0} /\ n - 1 \in Nat /\ ~ (n <= n - 1)
  BY <1>4
<1>6. n - 1 \in S
  BY <1>4, <1>5
<1> QED
  BY <1>4, <1>5, <1>6

\* Integer division, as far as it is needed.
LEMMA Division ==
    ASSUME NEW a \in Nat, NEW d \in Nat \ {0}
    PROVE  /\ a \div d \in Nat
           /\ (a \div d) * d <= a
           /\ a < (a \div d) * d + d
OBVIOUS

\* Min is that element.
LEMMA MinOf ==
    ASSUME NEW T, T \subseteq Nat, T # {}
    PROVE  Min(T) \in T /\ \A m \in T : Min(T) <= m
BY Least DEF Min

LEMMA MinIs ==
    ASSUME NEW T, T \subseteq Nat, NEW n \in T, \A m \in T : n <= m
    PROVE  Min(T) = n
<1>1. Min(T) \in T /\ \A m \in T : Min(T) <= m
  BY MinOf
<1>2. Min(T) \in Nat /\ n \in Nat /\ Min(T) <= n /\ n <= Min(T)
  BY <1>1
<1> QED
  BY <1>2

LEMMA MaxIs ==
    ASSUME NEW T, T \subseteq Nat, NEW n \in T, \A m \in T : m <= n
    PROVE  Max(T) = n
<1>1. \E t \in T : \A m \in T : t >= m
  OBVIOUS
<1>2. Max(T) \in T /\ \A m \in T : Max(T) >= m
  BY <1>1 DEF Max
<1>3. Max(T) \in Nat /\ n \in Nat /\ Max(T) >= n /\ Max(T) <= n
  BY <1>2
<1> QED
  BY <1>3

\* A set of bounded numbers has a greatest one.
LEMMA Greatest ==
    ASSUME NEW n \in Nat, NEW T, T \subseteq 0 .. n, T # {}
    PROVE  \E t \in T : \A m \in T : t >= m
<1> DEFINE U == {b \in Nat : \A m \in T : m <= b}
<1>1. n \in U /\ U \subseteq Nat
  OBVIOUS
<1>2. PICK b \in U : \A c \in U : b <= c
  <2> HIDE DEF U
  <2> QED
    BY <1>1, Least
<1>3. b \in Nat /\ \A m \in T : m \in Nat /\ m <= b
  BY <1>2
<1>4. b \in T
  <2> SUFFICES ASSUME b \notin T PROVE FALSE
    OBVIOUS
  <2>1. ASSUME NEW m \in T PROVE m \in Nat /\ m <= b /\ m # b
    BY <1>3
  <2>2. b # 0
    <3>1. PICK m \in T : TRUE
      OBVIOUS
    <3>2. m \in Nat /\ m <= b /\ m # b
      BY <2>1
    <3> QED
      BY <1>3, <3>2
  <2>3. ASSUME NEW m \in T PROVE m <= b - 1
    <3>1. m \in Nat /\ m <= b /\ m # b
      BY <2>1
    <3> QED
      BY <1>3, <3>1
  <2>4. b - 1 \in U
    <3>1. b - 1 \in Nat
      BY <1>3, <2>2
    <3> QED
      BY <2>3, <3>1
  <2>5. b <= b - 1
    <3> HIDE DEF U
    <3> QED
      BY <1>2, <2>4
  <2> QED
    BY <1>3, <2>5
<1>5. ASSUME NEW m \in T PROVE b >= m
  <2>1. m \in Nat /\ m <= b
    BY <1>3
  <2> QED
    BY <1>3, <2>1
<1> QED
  BY <1>4, <1>5

\* Max is the greatest of some positions.
LEMMA MaxOf ==
    ASSUME NEW n \in Nat, NEW T, T \subseteq 1 .. n, T # {}
    PROVE  Max(T) \in T /\ \A m \in T : m <= Max(T)
<1>1. T \subseteq 0 .. n /\ T \subseteq Nat
  OBVIOUS
<1>2. PICK t \in T : \A m \in T : t >= m
  BY <1>1, Greatest
<1>3. ASSUME NEW m \in T PROVE m <= t
  <2>1. t >= m /\ t \in Nat /\ m \in Nat
    BY <1>1, <1>2
  <2> QED
    BY <2>1
<1>4. Max(T) = t
  BY <1>1, <1>3, MaxIs
<1> QED
  BY <1>3, <1>4

\* FoldLeft as a function on the sets of positions, of which only the initial
\* segments matter.
Folds(f, base, step, v, n) ==
    \A s \in SUBSET (1 .. n) :
        f[s] = IF s = {} THEN base ELSE step[f[s \ {Max(s)}]][v[Max(s)]]

\* There is such a function, for any step from a value and an element to a value.
LEMMA FoldExists ==
    ASSUME NEW A, NEW B, NEW base \in A, NEW step \in [A -> [B -> A]],
           NEW v \in Seq(B)
    PROVE  \E f \in [SUBSET (1 .. Len(v)) -> A] : Folds(f, base, step, v, Len(v))
<1> DEFINE Sets(k) == SUBSET (1 .. k)
<1> DEFINE Has(k) == \E f \in [Sets(k) -> A] : Folds(f, base, step, v, k)
<1> DEFINE S == {k \in Nat : k <= Len(v) => Has(k)}
<1>1. 0 \in S
  <2> DEFINE f == [s \in Sets(0) |-> base]
  <2>1. Sets(0) = {{}}
    OBVIOUS
  <2>2. f \in [Sets(0) -> A] /\ Folds(f, base, step, v, 0)
    BY <2>1 DEF Folds
  <2> HIDE DEF f
  <2> QED
    BY <2>2
<1>2. ASSUME NEW k \in Nat, k \in S PROVE k + 1 \in S
  <2> SUFFICES ASSUME k + 1 <= Len(v) PROVE Has(k + 1)
    <3> HIDE DEF Has
    <3> QED
      OBVIOUS
  <2>1. k <= Len(v) /\ k + 1 \in 1 .. Len(v) /\ v[k + 1] \in B
    OBVIOUS
  <2>2. PICK g \in [Sets(k) -> A] : Folds(g, base, step, v, k)
    BY <1>2, <2>1
  <2> DEFINE f == [s \in Sets(k + 1) |->
                    IF k + 1 \in s THEN step[g[s \ {k + 1}]][v[k + 1]] ELSE g[s]]
  <2>3. ASSUME NEW s \in Sets(k + 1)
        PROVE  /\ s \ {k + 1} \in Sets(k) /\ (k + 1 \notin s => s \in Sets(k))
               /\ k + 1 \in s => Max(s) = k + 1
    <3>1. \A m \in 1 .. k + 1 : m # k + 1 => m \in 1 .. k
      OBVIOUS
    <3>2. s \subseteq Nat /\ \A m \in s : m <= k + 1
      OBVIOUS
    <3>3. k + 1 \in s => Max(s) = k + 1
      BY <3>2, MaxIs
    <3> QED
      BY <3>1, <3>3
  <2>4. f \in [Sets(k + 1) -> A]
    <3>1. ASSUME NEW s \in Sets(k + 1)
          PROVE  (IF k + 1 \in s THEN step[g[s \ {k + 1}]][v[k + 1]] ELSE g[s]) \in A
      <4>1. s \ {k + 1} \in Sets(k) /\ (k + 1 \notin s => s \in Sets(k))
        BY <2>3
      <4> HIDE DEF Sets
      <4> QED
        BY <2>1, <4>1
    <3> QED
      BY <3>1
  <2>5. ASSUME NEW s \in Sets(k + 1)
        PROVE  f[s] = IF s = {} THEN base ELSE step[f[s \ {Max(s)}]][v[Max(s)]]
    <3>1. CASE k + 1 \in s
      <4>1. /\ s \ {k + 1} \in Sets(k) /\ s \ {k + 1} \in Sets(k + 1)
            /\ Max(s) = k + 1 /\ s # {} /\ k + 1 \notin s \ {k + 1}
        BY <2>3, <3>1
      <4>2. f[s \ {k + 1}] = g[s \ {k + 1}]
        BY <4>1
      <4> QED
        BY <3>1, <4>1, <4>2
    <3>2. CASE k + 1 \notin s
      <4>1. s \in Sets(k) /\ f[s] = g[s]
        BY <2>3, <3>2
      <4>2. g[s] = IF s = {} THEN base ELSE step[g[s \ {Max(s)}]][v[Max(s)]]
        BY <2>2, <4>1 DEF Folds
      <4>3. s \ {Max(s)} \in Sets(k) /\ s \ {Max(s)} \in Sets(k + 1)
            /\ k + 1 \notin s \ {Max(s)}
        BY <3>2, <4>1
      <4>4. f[s \ {Max(s)}] = g[s \ {Max(s)}]
        BY <4>3
      <4> QED
        BY <4>1, <4>2, <4>4
    <3> QED
      BY <3>1, <3>2
  <2>6. Folds(f, base, step, v, k + 1)
    BY <2>5 DEF Folds
  <2> HIDE DEF f
  <2> QED
    BY <2>4, <2>6
<1>3. Len(v) \in S
  <2>1. Len(v) \in Nat
    OBVIOUS
  <2> HIDE DEF S
  <2> QED
    BY <1>1, <1>2, <2>1, Induction
<1>4. Has(Len(v))
  <2>1. Len(v) \in Nat /\ Len(v) <= Len(v)
    OBVIOUS
  <2> HIDE DEF Has
  <2> QED
    BY <1>3, <2>1
<1> QED
  BY <1>4

LEMMA Segment ==
    ASSUME NEW n \in Nat, NEW k \in 1 .. n
    PROVE  /\ 1 .. k \in SUBSET (1 .. n) /\ 1 .. k # {}
           /\ (1 .. k) \ {k} = 1 .. (k - 1) /\ Max(1 .. k) = k
<1>1. /\ 1 .. k \subseteq 1 .. n /\ k \in 1 .. k
      /\ 1 .. k \subseteq Nat /\ \A m \in 1 .. k : m <= k
  OBVIOUS
<1>2. Max(1 .. k) = k
  BY <1>1, MaxIs
<1>3. (1 .. k) \ {k} = 1 .. (k - 1)
  OBVIOUS
<1> QED
  BY <1>1, <1>2, <1>3

SumOf(v) == FoldLeft(+, 0, v)

\* A sum of numbers, element by element.
LEMMA SumByElement ==
    ASSUME NEW v \in Seq(Nat)
    PROVE  \E P \in [0 .. Len(v) -> Nat] :
              /\ P[0] = 0 /\ SumOf(v) = P[Len(v)]
              /\ \A k \in 1 .. Len(v) : P[k] = P[k - 1] + v[k]
<1> DEFINE step == [n \in Nat |-> [m \in Nat |-> n + m]]
<1> DEFINE Sets == SUBSET (1 .. Len(v))
<1> DEFINE Is(f) == f = [s \in SUBSET DOMAIN v |->
                IF s = {} THEN 0 ELSE f[s \ {Max(s)}] + v[Max(s)]]
<1>1. DOMAIN v = 1 .. Len(v) /\ Len(v) \in Nat /\ \A k \in 1 .. Len(v) : v[k] \in Nat
  OBVIOUS
<1>2. SumOf(v) = (CHOOSE f : Is(f))[1 .. Len(v)]
  BY <1>1 DEF SumOf, FoldLeft, MapThenFoldSet
<1>3. PICK f \in [Sets -> Nat] : Folds(f, 0, step, v, Len(v))
  <2>1. step \in [Nat -> [Nat -> Nat]]
    OBVIOUS
  <2> HIDE DEF step
  <2> QED
    BY <2>1, FoldExists
<1>4. Is(f)
  <2>1. ASSUME NEW s \in Sets
        PROVE  f[s] = IF s = {} THEN 0 ELSE f[s \ {Max(s)}] + v[Max(s)]
    <3>1. CASE s # {}
      <4>1. Max(s) \in s
        BY <1>1, <3>1, MaxOf
      <4>2. v[Max(s)] \in Nat /\ s \ {Max(s)} \in Sets /\ f[s \ {Max(s)}] \in Nat
        BY <1>1, <4>1
      <4>3. f[s] = step[f[s \ {Max(s)}]][v[Max(s)]]
        BY <1>3, <3>1 DEF Folds
      <4> QED
        BY <3>1, <4>2, <4>3
    <3> QED
      BY <1>3, <3>1 DEF Folds
  <2> QED
    BY <1>1, <1>3, <2>1
<1> DEFINE g == CHOOSE h : Is(h)
<1>5. Is(g)
  <2> HIDE DEF Is
  <2> QED
    BY <1>4
<1> HIDE DEF g
<1>6. \A s \in Sets : g[s] = IF s = {} THEN 0 ELSE g[s \ {Max(s)}] + v[Max(s)]
  <2>1. \A s \in SUBSET DOMAIN v :
          g[s] = IF s = {} THEN 0 ELSE g[s \ {Max(s)}] + v[Max(s)]
    BY <1>5
  <2> QED
    BY <1>1, <2>1
<1>7. g[1 .. 0] = 0
  <2>1. 1 .. 0 = {} /\ {} \in Sets
    OBVIOUS
  <2> QED
    BY <1>6, <2>1
<1>8. ASSUME NEW k \in 1 .. Len(v) PROVE g[1 .. k] = g[1 .. (k - 1)] + v[k]
  BY <1>1, <1>6, Segment
<1> DEFINE S == {k \in Nat : k <= Len(v) => g[1 .. k] \in Nat}
<1>9. Nat \subseteq S
  <2>1. 0 \in S
    BY <1>7
  <2>2. ASSUME NEW k \in Nat, k \in S PROVE k + 1 \in S
    <3> SUFFICES ASSUME k + 1 <= Len(v) PROVE g[1 .. (k + 1)] \in Nat
      OBVIOUS
    <3>1. k + 1 \in 1 .. Len(v) /\ k + 1 - 1 = k /\ k <= Len(v)
      BY <1>1
    <3>2. g[1 .. k] \in Nat /\ v[k + 1] \in Nat
      BY <1>1, <2>2, <3>1
    <3>3. g[1 .. (k + 1)] = g[1 .. k] + v[k + 1]
      BY <1>8, <3>1
    <3> QED
      BY <3>2, <3>3
  <2> HIDE DEF S
  <2> QED
    BY <2>1, <2>2, Induction
<1> DEFINE P == [k \in 0 .. Len(v) |-> g[1 .. k]]
<1>10. P \in [0 .. Len(v) -> Nat]
  BY <1>1, <1>9
<1>11. /\ P[0] = 0 /\ SumOf(v) = P[Len(v)]
       /\ \A k \in 1 .. Len(v) : P[k] = P[k - 1] + v[k]
  <2>1. P[0] = 0
    BY <1>1, <1>7
  <2>2. SumOf(v) = P[Len(v)]
    BY <1>1, <1>2 DEF g
  <2>3. ASSUME NEW k \in 1 .. Len(v) PROVE P[k] = P[k - 1] + v[k]
    <3>1. k \in 0 .. Len(v) /\ k - 1 \in 0 .. Len(v)
      BY <1>1
    <3> QED
      BY <1>8, <3>1
  <2> QED
    BY <2>1, <2>2, <2>3
<1> HIDE DEF P
<1> QED
  BY <1>10, <1>11

\* The sums of the first elements: none is 0, one more adds it.
LEMMA PartialSums ==
    ASSUME NEW v \in Seq(Nat)
    PROVE  /\ \A k \in 0 .. Len(v) : SumOf(SubSeq(v, 1, k)) \in Nat
           /\ SumOf(SubSeq(v, 1, 0)) = 0
           /\ \A k \in 1 .. Len(v) :
                SumOf(SubSeq(v, 1, k)) = SumOf(SubSeq(v, 1, k - 1)) + v[k]
<1>1. PICK P \in [0 .. Len(v) -> Nat] :
        P[0] = 0 /\ \A k \in 1 .. Len(v) : P[k] = P[k - 1] + v[k]
  BY SumByElement
<1>2. Len(v) \in Nat /\ \A k \in 1 .. Len(v) : v[k] \in Nat
  OBVIOUS
<1>3. ASSUME NEW k \in 0 .. Len(v) PROVE SumOf(SubSeq(v, 1, k)) = P[k]
  <2> DEFINE w == SubSeq(v, 1, k)
  <2>1. w \in Seq(Nat) /\ Len(w) = k /\ \A i \in 1 .. k : w[i] = v[i]
    BY <1>2
  <2> HIDE DEF w
  <2>2. PICK Q \in [0 .. k -> Nat] :
          /\ Q[0] = 0 /\ SumOf(w) = Q[k]
          /\ \A i \in 1 .. k : Q[i] = Q[i - 1] + w[i]
    BY <2>1, SumByElement
  <2> DEFINE S == {n \in Nat : n <= k => Q[n] = P[n]}
  <2>3. 0 \in S
    BY <1>1, <2>2
  <2>4. ASSUME NEW n \in Nat, n \in S PROVE n + 1 \in S
    <3> SUFFICES ASSUME n + 1 <= k PROVE Q[n + 1] = P[n + 1]
      OBVIOUS
    <3>1. n + 1 \in 1 .. k /\ n + 1 \in 1 .. Len(v) /\ n + 1 - 1 = n /\ n <= k
      BY <1>2
    <3>2. Q[n] = P[n]
      BY <2>4, <3>1
    <3>3. Q[n + 1] = Q[n] + w[n + 1] /\ P[n + 1] = P[n] + v[n + 1]
      <4>1. Q[n + 1] = Q[n + 1 - 1] + w[n + 1]
        BY ONLY <2>2, <3>1
      <4>2. P[n + 1] = P[n + 1 - 1] + v[n + 1]
        BY ONLY <1>1, <3>1
      <4> QED
        BY ONLY <3>1, <4>1, <4>2
    <3>4. w[n + 1] = v[n + 1]
      BY <2>1, <3>1
    <3> QED
      BY <3>2, <3>3, <3>4
  <2>5. k \in S
    <3>1. k \in Nat
      BY <1>2
    <3> HIDE DEF S
    <3> QED
      BY <2>3, <2>4, <3>1, Induction
  <2>6. Q[k] = P[k]
    BY <1>2, <2>5
  <2> QED
    BY <2>2, <2>6 DEF w
<1>4. 0 \in 0 .. Len(v)
  BY <1>2
<1>5. ASSUME NEW k \in 1 .. Len(v)
      PROVE  k \in 0 .. Len(v) /\ k - 1 \in 0 .. Len(v)
  BY <1>2
<1> QED
  BY <1>1, <1>3, <1>4, <1>5

\* What next makes of a, up to d times.
Iterates(f, a, next, d) == f[0] = a /\ \A n \in 1 .. d : f[n] = next[f[n - 1]]

\* A definition by recursion has a value.
LEMMA Recursion ==
    ASSUME NEW A, NEW a \in A, NEW next \in [A -> A], NEW d \in Nat
    PROVE  \E f \in [0 .. d -> A] : Iterates(f, a, next, d)
<1> DEFINE Has(k) == \E f \in [0 .. k -> A] : Iterates(f, a, next, k)
<1> DEFINE S == {k \in Nat : Has(k)}
<1>1. 0 \in S
  <2> DEFINE f == [n \in 0 .. 0 |-> a]
  <2>1. f \in [0 .. 0 -> A] /\ Iterates(f, a, next, 0)
    BY DEF Iterates
  <2> HIDE DEF f
  <2> QED
    BY <2>1
<1>2. ASSUME NEW k \in Nat, k \in S PROVE k + 1 \in S
  <2>1. PICK g \in [0 .. k -> A] :
          g[0] = a /\ \A n \in 1 .. k : g[n] = next[g[n - 1]]
    BY <1>2 DEF Iterates
  <2> DEFINE f == [n \in 0 .. k + 1 |-> IF n = k + 1 THEN next[g[k]] ELSE g[n]]
  <2>2. /\ 0 \in 0 .. k /\ k \in 0 .. k /\ 0 # k + 1
        /\ \A n \in 0 .. k + 1 : n # k + 1 => n \in 0 .. k
        /\ \A n \in 0 .. k : n \in 0 .. k + 1 /\ n # k + 1
        /\ \A n \in 1 .. k + 1 : /\ n # k + 1 => n \in 1 .. k
                                 /\ n - 1 \in 0 .. k
                                 /\ n = k + 1 => n - 1 = k
        /\ k + 1 \in 0 .. k + 1
    OBVIOUS
  <2>3. f \in [0 .. k + 1 -> A]
    BY <2>1, <2>2
  <2>4. \A n \in 0 .. k : f[n] = g[n]
    BY <2>2
  <2>5. f[k + 1] = next[g[k]]
    BY <2>2
  <2> HIDE DEF f
  <2>6. f[0] = a
    BY <2>1, <2>2, <2>4
  <2>7. ASSUME NEW n \in 1 .. k + 1 PROVE f[n] = next[f[n - 1]]
    <3>1. CASE n = k + 1
      BY <2>2, <2>4, <2>5, <3>1
    <3>2. CASE n # k + 1
      <4>1. n \in 1 .. k /\ n \in 0 .. k /\ n - 1 \in 0 .. k
        BY <2>2, <3>2
      <4> QED
        BY <2>1, <2>4, <4>1
    <3> QED
      BY <3>1, <3>2
  <2>8. Has(k + 1)
    BY <2>3, <2>6, <2>7 DEF Iterates
  <2> HIDE DEF Has
  <2> QED
    BY <2>8
<1>3. d \in S
  <2> HIDE DEF S
  <2> QED
    BY <1>1, <1>2, Induction
<1> QED
  BY <1>3
-----------------------------------------------------------------------------
(* Sequences joined into one.                                              *)

\* FlattenSeq as a function of how many of the sequences are joined.
Joins(f, xs) ==
    \A i \in 1 .. Len(xs) : f[i] = IF i = 1 THEN xs[i] ELSE f[i - 1] \o xs[i]

LEMMA JoinsExist ==
    ASSUME NEW xs, Len(xs) \in Nat
    PROVE  \E f : Joins(f, xs)
<1> DEFINE Has(k) == \E f : \A i \in 1 .. k :
                        f[i] = IF i = 1 THEN xs[i] ELSE f[i - 1] \o xs[i]
<1> DEFINE S == {k \in Nat : Has(k)}
<1>1. 0 \in S
  OBVIOUS
<1>2. ASSUME NEW k \in Nat, k \in S PROVE k + 1 \in S
  <2>1. PICK f : \A i \in 1 .. k :
                  f[i] = IF i = 1 THEN xs[i] ELSE f[i - 1] \o xs[i]
    BY <1>2
  <2> DEFINE g == [i \in 1 .. k + 1 |->
                    IF i <= k THEN f[i]
                    ELSE IF i = 1 THEN xs[i] ELSE f[i - 1] \o xs[i]]
  <2>2. ASSUME NEW i \in 1 .. k + 1
        PROVE  g[i] = IF i = 1 THEN xs[i] ELSE g[i - 1] \o xs[i]
    <3>1. i # 1 => i - 1 \in 1 .. k + 1 /\ i - 1 <= k
      OBVIOUS
    <3>2. i # 1 => g[i - 1] = f[i - 1]
      BY <3>1
    <3>3. CASE i <= k
      <4>1. i \in 1 .. k /\ g[i] = f[i]
        BY <3>3
      <4> HIDE DEF g
      <4> QED
        BY <2>1, <3>2, <4>1
    <3>4. CASE ~ (i <= k)
      <4>1. g[i] = IF i = 1 THEN xs[i] ELSE f[i - 1] \o xs[i]
        BY <3>4
      <4> HIDE DEF g
      <4> QED
        BY <3>2, <4>1
    <3> QED
      BY <3>3, <3>4
  <2> HIDE DEF g
  <2>3. Has(k + 1)
    BY <2>2
  <2> QED
    BY <2>3
<1>3. Len(xs) \in S
  <2> HIDE DEF S
  <2> QED
    BY <1>1, <1>2, Induction
<1> QED
  BY <1>3 DEF Joins

LEMMA FlattenIs ==
    ASSUME NEW xs, Len(xs) \in Nat \ {0}, NEW f, Joins(f, xs)
    PROVE  FlattenSeq(xs) = f[Len(xs)]
<1> DEFINE n == Len(xs)
<1> DEFINE Is(h) == h = [i \in 1 .. n |-> IF i = 1 THEN xs[i] ELSE h[i - 1] \o xs[i]]
<1> DEFINE g == CHOOSE h : Is(h)
<1>1. FlattenSeq(xs) = g[n]
  BY DEF FlattenSeq
<1>2. Is([i \in 1 .. n |-> f[i]])
  <2> DEFINE h == [i \in 1 .. n |-> f[i]]
  <2>1. ASSUME NEW i \in 1 .. n
        PROVE  h[i] = IF i = 1 THEN xs[i] ELSE h[i - 1] \o xs[i]
    <3>1. i # 1 => i - 1 \in 1 .. n
      OBVIOUS
    <3> QED
      BY <3>1 DEF Joins
  <2>2. h = [i \in 1 .. n |-> h[i]]
    OBVIOUS
  <2> HIDE DEF h, n
  <2>3. [i \in 1 .. n |-> h[i]]
          = [i \in 1 .. n |-> IF i = 1 THEN xs[i] ELSE h[i - 1] \o xs[i]]
    BY <2>1
  <2> QED
    BY <2>2, <2>3 DEF h
<1>3. Is(g)
  <2> HIDE DEF Is
  <2> QED
    BY <1>2
<1> HIDE DEF g
<1>4. \A i \in 1 .. n : g[i] = IF i = 1 THEN xs[i] ELSE g[i - 1] \o xs[i]
  BY <1>3
<1> DEFINE S == {k \in Nat : k \in 1 .. n => g[k] = f[k]}
<1>5. n \in S
  <2>1. 0 \in S
    OBVIOUS
  <2>2. ASSUME NEW k \in Nat, k \in S PROVE k + 1 \in S
    <3> SUFFICES ASSUME k + 1 \in 1 .. n PROVE g[k + 1] = f[k + 1]
      OBVIOUS
    <3>1. k + 1 # 1 => k \in 1 .. n /\ k + 1 - 1 = k
      OBVIOUS
    <3>2. k + 1 # 1 => g[k + 1 - 1] = f[k + 1 - 1]
      BY <2>2, <3>1
    <3> QED
      BY <1>4, <3>2 DEF Joins
  <2>3. n \in Nat
    OBVIOUS
  <2> HIDE DEF S, n
  <2> QED
    BY <2>1, <2>2, <2>3, Induction
<1>6. n \in 1 .. n
  OBVIOUS
<1> QED
  BY <1>1, <1>5, <1>6

LEMMA FlattenNothing == FlattenSeq(<< >>) = << >>
BY DEF FlattenSeq

\* Where each of the sequences begins in the one they are joined into.
Places(o, xs, joined) ==
    /\ o \in [1 .. Len(xs) -> Nat]
    /\ \A i \in 1 .. Len(xs) : \A k \in 1 .. Len(xs[i]) :
        o[i] + k \in 1 .. Len(joined) /\ joined[o[i] + k] = xs[i][k]
    /\ \A p \in 1 .. Len(joined) :
        \E i \in 1 .. Len(xs) : \E k \in 1 .. Len(xs[i]) : p = o[i] + k
    /\ \A i, j \in 1 .. Len(xs) : i < j => o[i] + Len(xs[i]) <= o[j]

\* What has been joined of the first m of them.
Start(f, i) == IF i = 1 THEN 0 ELSE Len(f[i - 1])
JoinedSoFar(f, xs, S, m) ==
    /\ f[m] \in Seq(S) /\ Len(f[m]) = Start(f, m) + Len(xs[m])
    /\ \A i \in 1 .. m :
        Start(f, i) \in Nat /\ Start(f, i) + Len(xs[i]) <= Len(f[m])
    /\ \A i \in 1 .. m : \A k \in 1 .. Len(xs[i]) : f[m][Start(f, i) + k] = xs[i][k]
    /\ \A p \in 1 .. Len(f[m]) :
        \E i \in 1 .. m : \E k \in 1 .. Len(xs[i]) : p = Start(f, i) + k

LEMMA Inside ==
    ASSUME NEW a \in Nat, NEW b \in Nat, NEW l \in Nat, a + b <= l
    PROVE  /\ \A k \in 1 .. b : a + k \in 1 .. l
           /\ \A c \in Nat : a + b <= l + c
OBVIOUS

LEMMA JoinOneMore ==
    ASSUME NEW S, NEW xs \in Seq(Seq(S)), NEW f, Joins(f, xs),
           NEW m \in 1 .. Len(xs), m + 1 \in 1 .. Len(xs), JoinedSoFar(f, xs, S, m)
    PROVE  JoinedSoFar(f, xs, S, m + 1)
<1> DEFINE x == xs[m + 1]
<1>1. /\ m \in Nat \ {0} /\ m + 1 # 1 /\ m + 1 - 1 = m
      /\ x \in Seq(S) /\ Len(x) \in Nat
      /\ \A i \in 1 .. m : Len(xs[i]) \in Nat
      /\ \A i \in 1 .. m + 1 : i \in 1 .. m \/ i = m + 1
  OBVIOUS
<1>2. f[m + 1] = f[m] \o x
  <2>1. ASSUME NEW i \in 1 .. Len(xs), i = m + 1 PROVE f[i] = f[i - 1] \o xs[i]
    <3>1. f[i] = IF i = 1 THEN xs[i] ELSE f[i - 1] \o xs[i]
      BY DEF Joins
    <3>2. i # 1
      BY <1>1, <2>1
    <3> QED
      BY <3>1, <3>2
  <2>2. \A i \in 1 .. Len(xs) : i = m + 1 => f[i] = f[i - 1] \o xs[i]
    BY <2>1
  <2>3. PICK i \in 1 .. Len(xs) : i = m + 1
    OBVIOUS
  <2>4. f[i] = f[i - 1] \o xs[i]
    BY ONLY <2>2, <2>3
  <2>5. i - 1 = m
    BY <1>1, <2>3
  <2>6. f[i] = f[m] \o xs[i]
    BY ONLY <2>4, <2>5
  <2> QED
    BY <2>3, <2>6
<1>3. Start(f, m + 1) = Len(f[m])
  BY <1>1 DEF Start
<1>4. f[m] \in Seq(S) /\ Len(f[m]) \in Nat
  BY DEF JoinedSoFar
<1> HIDE DEF x
<1>5. /\ f[m + 1] \in Seq(S) /\ Len(f[m + 1]) = Len(f[m]) + Len(x)
      /\ \A p \in 1 .. Len(f[m]) : f[m + 1][p] = f[m][p]
      /\ \A k \in 1 .. Len(x) : f[m + 1][Len(f[m]) + k] = x[k]
  BY <1>1, <1>2, <1>4
<1>6. ASSUME NEW i \in 1 .. m + 1
      PROVE  Start(f, i) \in Nat /\ Start(f, i) + Len(xs[i]) <= Len(f[m + 1])
  <2>1. CASE i \in 1 .. m
    <3>1. Start(f, i) \in Nat /\ Start(f, i) + Len(xs[i]) <= Len(f[m])
      BY <2>1 DEF JoinedSoFar
    <3>2. Len(xs[i]) \in Nat /\ Len(f[m]) \in Nat /\ Len(x) \in Nat
      BY <1>1, <1>4, <2>1
    <3>3. Start(f, i) + Len(xs[i]) <= Len(f[m]) + Len(x)
      BY ONLY <3>1, <3>2, Inside
    <3> QED
      BY <1>5, <3>1, <3>3
  <2>2. CASE i = m + 1
    <3>1. Start(f, i) = Len(f[m]) /\ xs[i] = x
      BY <1>3, <2>2 DEF x
    <3> QED
      BY <1>1, <1>4, <1>5, <3>1
  <2> QED
    BY <1>1, <2>1, <2>2
<1>7. ASSUME NEW i \in 1 .. m + 1, NEW k \in 1 .. Len(xs[i])
      PROVE  f[m + 1][Start(f, i) + k] = xs[i][k]
  <2>1. CASE i \in 1 .. m
    <3>1. /\ Start(f, i) \in Nat /\ Start(f, i) + Len(xs[i]) <= Len(f[m])
          /\ f[m][Start(f, i) + k] = xs[i][k]
      BY <2>1 DEF JoinedSoFar
    <3>2. Len(xs[i]) \in Nat /\ Len(f[m]) \in Nat
      BY <1>1, <1>4, <2>1
    <3>3. Start(f, i) + k \in 1 .. Len(f[m])
      BY ONLY <3>1, <3>2, k \in 1 .. Len(xs[i]), Inside
    <3> QED
      BY <1>5, <3>1, <3>3
  <2>2. CASE i = m + 1
    BY <1>3, <1>5, <2>2 DEF x
  <2> QED
    BY <1>1, <2>1, <2>2
<1>8. ASSUME NEW p \in 1 .. Len(f[m + 1])
      PROVE  \E i \in 1 .. m + 1 : \E k \in 1 .. Len(xs[i]) : p = Start(f, i) + k
  <2>1. CASE p <= Len(f[m])
    <3>1. p \in 1 .. Len(f[m])
      BY <1>4, <1>5, <2>1
    <3>2. PICK i \in 1 .. m : \E k \in 1 .. Len(xs[i]) : p = Start(f, i) + k
      BY <3>1 DEF JoinedSoFar
    <3>3. i \in 1 .. m + 1
      BY <1>1
    <3> QED
      BY <3>2, <3>3
  <2>2. CASE ~(p <= Len(f[m]))
    <3> DEFINE k == p - Len(f[m])
    <3>1. k \in 1 .. Len(x) /\ p = Len(f[m]) + k
      BY <1>1, <1>4, <1>5, <2>2
    <3>2. m + 1 \in 1 .. m + 1
      BY <1>1
    <3> HIDE DEF k
    <3> QED
      BY <1>3, <3>1, <3>2 DEF x
  <2> QED
    BY <2>1, <2>2
<1> QED
  BY <1>3, <1>5, <1>6, <1>7, <1>8 DEF JoinedSoFar, x

LEMMA FlattenPlaces ==
    ASSUME NEW S, NEW xs \in Seq(Seq(S))
    PROVE  FlattenSeq(xs) \in Seq(S) /\ \E o : Places(o, xs, FlattenSeq(xs))
<1> DEFINE n == Len(xs)
<1>1. n \in Nat /\ \A i \in 1 .. n : xs[i] \in Seq(S) /\ Len(xs[i]) \in Nat
  OBVIOUS
<1>2. CASE n = 0
  <2>1. xs = << >> /\ FlattenSeq(xs) = << >>
    BY <1>2, FlattenNothing
  <2> DEFINE o == [i \in 1 .. n |-> 0]
  <2>2. o \in [1 .. Len(xs) -> Nat] /\ 1 .. Len(xs) = {} /\ Len(<< >>) = 0
    BY <1>2
  <2> HIDE DEF o, n
  <2>3. Places(o, xs, << >>)
    <3>1. \A i \in 1 .. Len(xs) : FALSE
      BY <2>2
    <3>2. \A p \in 1 .. Len(<< >>) : FALSE
      BY <2>2
    <3> QED
      BY <2>2, <3>1, <3>2 DEF Places
  <2>4. << >> \in Seq(S)
    OBVIOUS
  <2> QED
    BY <2>1, <2>3, <2>4
<1>3. CASE n # 0
  <2>1. PICK f : Joins(f, xs)
    BY <1>1, JoinsExist
  <2>2. JoinedSoFar(f, xs, S, 1)
    <3>1. 1 \in 1 .. n /\ Start(f, 1) = 0 /\ xs[1] \in Seq(S)
      BY <1>1, <1>3 DEF Start
    <3>2. f[1] = xs[1]
      BY <2>1, <3>1 DEF Joins
    <3>3. Len(xs[1]) \in Nat /\ \A i \in 1 .. 1 : i = 1
      BY <3>1
    <3> HIDE DEF n
    <3>4. \A i \in 1 .. 1 : Start(f, i) = 0 /\ xs[i] = xs[1]
      BY <3>1, <3>3
    <3>5. \A p \in 1 .. Len(xs[1]) :
            \E i \in 1 .. 1 : \E k \in 1 .. Len(xs[i]) : p = Start(f, i) + k
      <4>1. ASSUME NEW p \in 1 .. Len(xs[1]) PROVE p = Start(f, 1) + p
        BY <3>1
      <4>2. 1 \in 1 .. 1
        OBVIOUS
      <4> QED
        BY <4>1, <4>2
    <3>6. ASSUME NEW i \in 1 .. 1, NEW k \in 1 .. Len(xs[i])
          PROVE  f[1][Start(f, i) + k] = xs[i][k]
      BY <3>2, <3>3, <3>4
    <3>7. \A i \in 1 .. 1 : Start(f, i) \in Nat /\ Start(f, i) + Len(xs[i]) <= Len(f[1])
      BY <3>2, <3>3, <3>4
    <3> QED
      BY <3>1, <3>2, <3>3, <3>5, <3>6, <3>7 DEF JoinedSoFar
  <2> DEFINE T == {m \in Nat : m \in 1 .. n => JoinedSoFar(f, xs, S, m)}
  <2>3. \A m \in Nat : m \in T
    <3>1. 0 \in T
      OBVIOUS
    <3>2. ASSUME NEW m \in Nat, m \in T PROVE m + 1 \in T
      <4> SUFFICES ASSUME m + 1 \in 1 .. n PROVE JoinedSoFar(f, xs, S, m + 1)
        OBVIOUS
      <4>1. m = 0 \/ m \in 1 .. n
        BY <1>1
      <4>2. CASE m = 0
        <5>1. m + 1 = 1
          BY <4>2
        <5> QED
          BY <2>2, <5>1
      <4>3. CASE m \in 1 .. n
        <5>1. JoinedSoFar(f, xs, S, m)
          BY <3>2, <4>3
        <5> QED
          BY <2>1, <4>3, <5>1, JoinOneMore
      <4> QED
        BY <4>1, <4>2, <4>3
    <3> HIDE DEF T
    <3> QED
      BY <3>1, <3>2, Induction
  <2>4. \A m \in 1 .. n : JoinedSoFar(f, xs, S, m)
    <3>1. \A m \in 1 .. n : m \in Nat
      BY <1>1
    <3> QED
      BY <2>3, <3>1
  <2>5. FlattenSeq(xs) = f[n] /\ n \in 1 .. n /\ JoinedSoFar(f, xs, S, n)
    BY <1>1, <1>3, <2>1, <2>4, FlattenIs
  <2>6. f[n] \in Seq(S) /\ Len(f[n]) \in Nat
    BY <2>5 DEF JoinedSoFar
  <2> DEFINE o == [i \in 1 .. n |-> Start(f, i)]
  <2>7. ASSUME NEW i \in 1 .. n
        PROVE  /\ o[i] = Start(f, i) /\ o[i] \in Nat /\ Len(xs[i]) \in Nat
               /\ o[i] + Len(xs[i]) <= Len(f[n])
    BY <1>1, <2>5 DEF JoinedSoFar
  <2>8. o \in [1 .. n -> Nat]
    BY <2>7
  <2>9. ASSUME NEW i \in 1 .. n, NEW j \in 1 .. n, i < j
        PROVE  o[i] + Len(xs[i]) <= o[j]
    <3>1. j - 1 \in 1 .. n /\ i \in 1 .. j - 1 /\ o[j] = Len(f[j - 1])
      BY <1>1, <2>9 DEF Start
    <3>2. Start(f, i) + Len(xs[i]) <= Len(f[j - 1])
      BY <2>4, <3>1 DEF JoinedSoFar
    <3> QED
      BY <2>7, <3>1, <3>2
  <2>10. ASSUME NEW i \in 1 .. n, NEW k \in 1 .. Len(xs[i])
         PROVE  o[i] + k \in 1 .. Len(f[n]) /\ f[n][o[i] + k] = xs[i][k]
    <3>1. f[n][Start(f, i) + k] = xs[i][k]
      BY <2>5 DEF JoinedSoFar
    <3> HIDE DEF o
    <3>2. /\ o[i] = Start(f, i) /\ o[i] \in Nat /\ Len(xs[i]) \in Nat
          /\ Len(f[n]) \in Nat /\ o[i] + Len(xs[i]) <= Len(f[n])
      BY <2>6, <2>7
    <3>3. o[i] + k \in 1 .. Len(f[n])
      BY ONLY <3>2, k \in 1 .. Len(xs[i]), Inside
    <3> QED
      BY <3>1, <3>2, <3>3
  <2>11. ASSUME NEW p \in 1 .. Len(f[n])
         PROVE  \E i \in 1 .. n : \E k \in 1 .. Len(xs[i]) : p = o[i] + k
    <3>1. PICK i \in 1 .. n : \E k \in 1 .. Len(xs[i]) : p = Start(f, i) + k
      BY <2>5 DEF JoinedSoFar
    <3>2. o[i] = Start(f, i)
      OBVIOUS
    <3> HIDE DEF o
    <3> QED
      BY <3>1, <3>2
  <2> HIDE DEF o
  <2>12. Places(o, xs, f[n])
    BY <2>8, <2>9, <2>10, <2>11 DEF Places
  <2> QED
    BY <2>5, <2>6, <2>12
<1> QED
  BY <1>2, <1>3
=============================================================================
