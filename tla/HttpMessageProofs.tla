-------------------------- MODULE HttpMessageProofs ---------------------------
(***************************************************************************)
(* What HttpMessage makes of the bytes of a message, for every value of a  *)
(* length field and every sequence of messages.                            *)
(***************************************************************************)
EXTENDS HttpMessage, FoldLemmas, SequenceTheorems, FiniteSetTheorems

\* The value of a sequence of digits, and what parse_usize makes of it, after
\* each digit.
LEMMA MeaningByDigit ==
    ASSUME NEW v \in Seq(Nat)
    PROVE  \E M \in [0 .. Len(v) -> Nat] :
              /\ M[0] = 0 /\ Meaning(v) = M[Len(v)]
              /\ \A k \in 1 .. Len(v) : M[k] = 10 * M[k - 1] + v[k]
<1> DEFINE step == [n \in Nat |-> [d \in Nat |-> 10 * n + d]]
<1> DEFINE Sets == SUBSET (1 .. Len(v))
<1> DEFINE Is(f) == f = [s \in SUBSET DOMAIN v |->
                IF s = {} THEN 0 ELSE 10 * f[s \ {Max(s)}] + v[Max(s)]]
<1>1. DOMAIN v = 1 .. Len(v) /\ Len(v) \in Nat /\ \A k \in 1 .. Len(v) : v[k] \in Nat
  OBVIOUS
<1>2. Meaning(v) = (CHOOSE f : Is(f))[1 .. Len(v)]
  BY <1>1 DEF Meaning, FoldLeft, MapThenFoldSet
<1>3. PICK f \in [Sets -> Nat] : Folds(f, 0, step, v, Len(v))
  <2>1. step \in [Nat -> [Nat -> Nat]]
    OBVIOUS
  <2> HIDE DEF step
  <2> QED
    BY <2>1, FoldExists
<1>4. Is(f)
  <2>1. ASSUME NEW s \in Sets
        PROVE  f[s] = IF s = {} THEN 0 ELSE 10 * f[s \ {Max(s)}] + v[Max(s)]
    <3>1. CASE s # {}
      <4>1. Max(s) \in s
        BY <1>1, <3>1, MaxOf
      <4>2. v[Max(s)] \in Nat /\ s \ {Max(s)} \in Sets /\ f[s \ {Max(s)}] \in Nat
        BY <1>1, <4>1
      <4>3. f[s] = step[f[s \ {Max(s)}]][v[Max(s)]]
        BY <1>3, <3>1 DEF Folds
      <4> QED
        BY <3>1, <4>2, <4>3
    <3> QED
      BY <1>3, <3>1 DEF Folds
  <2> QED
    BY <1>1, <1>3, <2>1
<1> DEFINE g == CHOOSE h : Is(h)
<1>5. Is(g)
  <2> HIDE DEF Is
  <2> QED
    BY <1>4
<1> HIDE DEF g
<1>6. \A s \in Sets :
        g[s] = IF s = {} THEN 0 ELSE 10 * g[s \ {Max(s)}] + v[Max(s)]
  <2>1. \A s \in SUBSET DOMAIN v :
          g[s] = IF s = {} THEN 0 ELSE 10 * g[s \ {Max(s)}] + v[Max(s)]
    BY <1>5
  <2> QED
    BY <1>1, <2>1
<1>7. g[1 .. 0] = 0
  <2>1. 1 .. 0 = {} /\ {} \in Sets
    OBVIOUS
  <2> QED
    BY <1>6, <2>1
<1>8. ASSUME NEW k \in 1 .. Len(v) PROVE g[1 .. k] = 10 * g[1 .. (k - 1)] + v[k]
  BY <1>1, <1>6, Segment
<1> DEFINE S == {k \in Nat : k <= Len(v) => g[1 .. k] \in Nat}
<1>9. Nat \subseteq S
  <2>1. 0 \in S
    BY <1>7
  <2>2. ASSUME NEW k \in Nat, k \in S PROVE k + 1 \in S
    <3> SUFFICES ASSUME k + 1 <= Len(v) PROVE g[1 .. (k + 1)] \in Nat
      OBVIOUS
    <3>1. k + 1 \in 1 .. Len(v) /\ k + 1 - 1 = k /\ k <= Len(v)
      BY <1>1
    <3>2. g[1 .. k] \in Nat /\ v[k + 1] \in Nat
      BY <1>1, <2>2, <3>1
    <3>3. g[1 .. (k + 1)] = 10 * g[1 .. k] + v[k + 1]
      BY <1>8, <3>1
    <3> QED
      BY <3>2, <3>3
  <2> HIDE DEF S
  <2> QED
    BY <2>1, <2>2, Induction
<1> DEFINE M == [k \in 0 .. Len(v) |-> g[1 .. k]]
<1>10. M \in [0 .. Len(v) -> Nat]
  BY <1>1, <1>9
<1>11. /\ M[0] = 0 /\ Meaning(v) = M[Len(v)]
       /\ \A k \in 1 .. Len(v) : M[k] = 10 * M[k - 1] + v[k]
  <2>1. M[0] = 0
    BY <1>1, <1>7
  <2>2. Meaning(v) = M[Len(v)]
    BY <1>1, <1>2 DEF g
  <2>3. ASSUME NEW k \in 1 .. Len(v) PROVE M[k] = 10 * M[k - 1] + v[k]
    <3>1. k \in 0 .. Len(v) /\ k - 1 \in 0 .. Len(v)
      BY <1>1
    <3> QED
      BY <1>8, <3>1
  <2> QED
    BY <2>1, <2>2, <2>3
<1> HIDE DEF M
<1> QED
  BY <1>10, <1>11

LEMMA AllDigits ==
    ASSUME NEW v \in Seq(Nat), Numeric(v)
    PROVE  \A i \in 1 .. Len(v) : v[i] \in Digit
BY DEF Numeric, ToSet

LEMMA ParseByDigit ==
    ASSUME NEW v \in Seq(Nat), Numeric(v)
    PROVE  \E M \in [0 .. Len(v) -> Nat] :
              /\ M[0] = 0 /\ ParseUsize(v) = M[Len(v)]
              /\ \A k \in 1 .. Len(v) : M[k] = Saturated(Saturated(10 * M[k - 1]) + v[k])
<1> DEFINE step == [n \in Nat |-> [d \in Nat |-> Saturated(Saturated(10 * n) + d)]]
<1> DEFINE Sets == SUBSET (1 .. Len(v))
<1> DEFINE Is(f) == f = [s \in SUBSET DOMAIN v |->
                IF s = {} THEN 0 ELSE Saturated(Saturated(10 * f[s \ {Max(s)}]) + v[Max(s)])]
<1>1. DOMAIN v = 1 .. Len(v) /\ Len(v) \in Nat /\ \A k \in 1 .. Len(v) : v[k] \in Nat
  OBVIOUS
<1>2. ParseUsize(v) = (CHOOSE f : Is(f))[1 .. Len(v)]
  BY <1>1, AllDigits DEF ParseUsize, FoldLeft, MapThenFoldSet
<1>3. PICK f \in [Sets -> Nat] : Folds(f, 0, step, v, Len(v))
  <2>1. step \in [Nat -> [Nat -> Nat]]
    BY MaxUsizeAssumption DEF Saturated
  <2> HIDE DEF step
  <2> QED
    BY <2>1, FoldExists
<1>4. Is(f)
  <2>1. ASSUME NEW s \in Sets
        PROVE  f[s] = IF s = {} THEN 0 ELSE Saturated(Saturated(10 * f[s \ {Max(s)}]) + v[Max(s)])
    <3>1. CASE s # {}
      <4>1. Max(s) \in s
        BY <1>1, <3>1, MaxOf
      <4>2. v[Max(s)] \in Nat /\ s \ {Max(s)} \in Sets /\ f[s \ {Max(s)}] \in Nat
        BY <1>1, <4>1
      <4>3. f[s] = step[f[s \ {Max(s)}]][v[Max(s)]]
        BY <1>3, <3>1 DEF Folds
      <4> QED
        BY <3>1, <4>2, <4>3
    <3> QED
      BY <1>3, <3>1 DEF Folds
  <2> QED
    BY <1>1, <1>3, <2>1
<1> DEFINE g == CHOOSE h : Is(h)
<1>5. Is(g)
  <2> HIDE DEF Is
  <2> QED
    BY <1>4
<1> HIDE DEF g
<1>6. \A s \in Sets :
        g[s] = IF s = {} THEN 0 ELSE Saturated(Saturated(10 * g[s \ {Max(s)}]) + v[Max(s)])
  <2>1. \A s \in SUBSET DOMAIN v :
          g[s] = IF s = {} THEN 0 ELSE Saturated(Saturated(10 * g[s \ {Max(s)}]) + v[Max(s)])
    BY <1>5
  <2> QED
    BY <1>1, <2>1
<1>7. g[1 .. 0] = 0
  <2>1. 1 .. 0 = {} /\ {} \in Sets
    OBVIOUS
  <2> QED
    BY <1>6, <2>1
<1>8. ASSUME NEW k \in 1 .. Len(v) PROVE g[1 .. k] = Saturated(Saturated(10 * g[1 .. (k - 1)]) + v[k])
  BY <1>1, <1>6, Segment
<1> DEFINE S == {k \in Nat : k <= Len(v) => g[1 .. k] \in Nat}
<1>9. Nat \subseteq S
  <2>1. 0 \in S
    BY <1>7
  <2>2. ASSUME NEW k \in Nat, k \in S PROVE k + 1 \in S
    <3> SUFFICES ASSUME k + 1 <= Len(v) PROVE g[1 .. (k + 1)] \in Nat
      OBVIOUS
    <3>1. k + 1 \in 1 .. Len(v) /\ k + 1 - 1 = k /\ k <= Len(v)
      BY <1>1
    <3>2. g[1 .. k] \in Nat /\ v[k + 1] \in Nat
      BY <1>1, <2>2, <3>1
    <3>3. g[1 .. (k + 1)] = Saturated(Saturated(10 * g[1 .. k]) + v[k + 1])
      BY <1>8, <3>1
    <3> QED
      BY <3>2, <3>3, MaxUsizeAssumption DEF Saturated
  <2> HIDE DEF S
  <2> QED
    BY <2>1, <2>2, Induction
<1> DEFINE M == [k \in 0 .. Len(v) |-> g[1 .. k]]
<1>10. M \in [0 .. Len(v) -> Nat]
  BY <1>1, <1>9
<1>11. /\ M[0] = 0 /\ ParseUsize(v) = M[Len(v)]
       /\ \A k \in 1 .. Len(v) : M[k] = Saturated(Saturated(10 * M[k - 1]) + v[k])
  <2>1. M[0] = 0
    BY <1>1, <1>7
  <2>2. ParseUsize(v) = M[Len(v)]
    BY <1>1, <1>2 DEF g
  <2>3. ASSUME NEW k \in 1 .. Len(v) PROVE M[k] = Saturated(Saturated(10 * M[k - 1]) + v[k])
    <3>1. k \in 0 .. Len(v) /\ k - 1 \in 0 .. Len(v)
      BY <1>1
    <3> QED
      BY <1>8, <3>1
  <2> QED
    BY <2>1, <2>2, <2>3
<1> HIDE DEF M
<1> QED
  BY <1>10, <1>11

\* parse_usize is right, or the largest number there is.
LEMMA ParseSaturates ==
    ASSUME NEW v \in Seq(Nat), Numeric(v)
    PROVE  /\ Meaning(v) \in Nat
           /\ ParseUsize(v) = Saturated(Meaning(v))
<1>1. PICK M \in [0 .. Len(v) -> Nat] :
        /\ M[0] = 0 /\ Meaning(v) = M[Len(v)]
        /\ \A k \in 1 .. Len(v) : M[k] = 10 * M[k - 1] + v[k]
  BY MeaningByDigit
<1>2. PICK P \in [0 .. Len(v) -> Nat] :
        /\ P[0] = 0 /\ ParseUsize(v) = P[Len(v)]
        /\ \A k \in 1 .. Len(v) : P[k] = Saturated(Saturated(10 * P[k - 1]) + v[k])
  BY ParseByDigit
<1>3. Len(v) \in Nat /\ \A k \in 1 .. Len(v) : v[k] \in Nat
  OBVIOUS
<1>4. ASSUME NEW m \in Nat, NEW d \in Nat
      PROVE  Saturated(Saturated(10 * Saturated(m)) + d) = Saturated(10 * m + d)
  BY MaxUsizeAssumption DEF Saturated
<1> DEFINE S == {k \in Nat : k <= Len(v) => P[k] = Saturated(M[k])}
<1>5. 0 \in S
  BY <1>1, <1>2, MaxUsizeAssumption DEF Saturated
<1>6. ASSUME NEW k \in Nat, k \in S PROVE k + 1 \in S
  <2> SUFFICES ASSUME k + 1 <= Len(v) PROVE P[k + 1] = Saturated(M[k + 1])
    OBVIOUS
  <2>1. k + 1 \in 1 .. Len(v) /\ k + 1 - 1 = k /\ k \in 0 .. Len(v)
    BY <1>3
  <2>2. P[k] = Saturated(M[k]) /\ M[k] \in Nat /\ v[k + 1] \in Nat
    BY <1>3, <1>6, <2>1
  <2>3. /\ M[k + 1] = 10 * M[k] + v[k + 1]
        /\ P[k + 1] = Saturated(Saturated(10 * P[k]) + v[k + 1])
    BY <1>1, <1>2, <2>1
  <2> QED
    BY <1>4, <2>2, <2>3
<1>7. Len(v) \in S
  <2> HIDE DEF S
  <2> QED
    BY <1>3, <1>5, <1>6, Induction
<1> QED
  BY <1>1, <1>2, <1>3, <1>7

-----------------------------------------------------------------------------
(* Bytes, and the bytes of a message.                                      *)
Kinds == {"line", "length", "cr", "lf", "body"}
Byte == [of : Nat, kind : Kinds, value : Seq(Nat)]
Bytes == Seq(Byte)

\* Bytes, or anything else, one after the other.
LEMMA Joined ==
    ASSUME NEW S, NEW s \in Seq(S), NEW t \in Seq(S)
    PROVE  /\ s \o t \in Seq(S) /\ Len(s \o t) = Len(s) + Len(t)
           /\ \A i \in 1 .. Len(s) + Len(t) :
                (s \o t)[i] = IF i <= Len(s) THEN s[i] ELSE t[i - Len(s)]
OBVIOUS

\* Position i of a message.
UnitAt(id, shape, i) ==
    LET L == Len(shape.lengths)
    IN IF i = 1 THEN Unit(id, "line", << >>)
       ELSE IF i <= L + 1 THEN Unit(id, "length", shape.lengths[i - 1])
       ELSE IF i = L + 2 THEN Unit(id, "cr", << >>)
       ELSE IF i = L + 3 THEN Unit(id, "lf", << >>)
       ELSE Unit(id, "body", << >>)

LEMMA ShapeTypes ==
    ASSUME NEW shape \in Shape
    PROVE  /\ shape.body \in Nat /\ shape.lengths \in Seq(Seq(Nat))
           /\ Len(shape.lengths) \in Nat
           /\ \A i \in 1 .. Len(shape.lengths) : shape.lengths[i] \in Seq(Nat)
<1>1. shape.body \in Nat /\ shape.lengths \in Seq(Seq(Nat))
  BY DEF Shape
<1> QED
  BY <1>1

LEMMA UnitTypes ==
    ASSUME NEW id \in Nat, NEW kind \in Kinds, NEW value \in Seq(Nat)
    PROVE  /\ Unit(id, kind, value) \in Byte /\ Unit(id, kind, value).of = id
           /\ Unit(id, kind, value).kind = kind
           /\ Unit(id, kind, value).value = value
BY DEF Unit, Byte

\* A message is its units, one by one.
LEMMA MessageUnits ==
    ASSUME NEW id \in Nat, NEW shape \in Shape
    PROVE  LET m == Message(id, shape)
               L == Len(shape.lengths)
           IN  /\ m \in Bytes /\ Len(m) = L + 3 + shape.body
               /\ \A i \in 1 .. Len(m) : m[i] = UnitAt(id, shape, i)
<1> DEFINE L == Len(shape.lengths)
<1> DEFINE b == shape.body
<1> DEFINE head == <<Unit(id, "line", << >>)>>
<1> DEFINE lines == [i \in 1 .. L |-> Unit(id, "length", shape.lengths[i])]
<1> DEFINE blank == <<Unit(id, "cr", << >>), Unit(id, "lf", << >>)>>
<1> DEFINE rest == [i \in 1 .. b |-> Unit(id, "body", << >>)]
<1>1. /\ b \in Nat /\ L \in Nat
      /\ \A i \in 1 .. L : shape.lengths[i] \in Seq(Nat)
  BY ShapeTypes
<1>2. \A kind \in Kinds : Unit(id, kind, << >>) \in Byte
  <2>1. << >> \in Seq(Nat)
    OBVIOUS
  <2> QED
    BY <2>1, UnitTypes
<1>3. head \in Bytes /\ Len(head) = 1 /\ head[1] = Unit(id, "line", << >>)
  BY <1>2 DEF Bytes, Kinds
<1>4. /\ lines \in Bytes /\ Len(lines) = L
      /\ \A i \in 1 .. L : lines[i] = Unit(id, "length", shape.lengths[i])
  <2>1. \A i \in 1 .. L : Unit(id, "length", shape.lengths[i]) \in Byte
    BY <1>1, UnitTypes DEF Kinds
  <2> QED
    BY <1>1, <2>1 DEF Bytes
<1>5. /\ blank \in Bytes /\ Len(blank) = 2
      /\ blank[1] = Unit(id, "cr", << >>) /\ blank[2] = Unit(id, "lf", << >>)
  BY <1>2 DEF Bytes, Kinds
<1>6. /\ rest \in Bytes /\ Len(rest) = b
      /\ \A i \in 1 .. b : rest[i] = Unit(id, "body", << >>)
  BY <1>1, <1>2 DEF Bytes, Kinds
<1>7. Message(id, shape) = head \o lines \o blank \o rest
  BY DEF Message
<1> HIDE DEF head, lines, blank, rest
<1> DEFINE upto == head \o lines
<1> DEFINE header == upto \o blank
<1> DEFINE m == header \o rest
<1>8. /\ upto \in Bytes /\ Len(upto) = L + 1
      /\ \A i \in 1 .. L + 1 : upto[i] = IF i <= 1 THEN head[i]
                                           ELSE lines[i - (1)]
  <2>1. /\ head \in Seq(Byte) /\ lines \in Seq(Byte)
        /\ Len(head) = 1 /\ Len(head) + Len(lines) = L + 1
    BY <1>1, <1>3, <1>4 DEF Bytes
  <2>2. /\ upto \in Seq(Byte) /\ Len(upto) = Len(head) + Len(lines)
        /\ \A i \in 1 .. Len(head) + Len(lines) :
            upto[i] = IF i <= Len(head) THEN head[i] ELSE lines[i - Len(head)]
    BY ONLY <2>1, Joined
  <2> HIDE DEF upto
  <2> QED
    BY <2>1, <2>2 DEF Bytes
<1>9. /\ header \in Bytes /\ Len(header) = L + 3
      /\ \A i \in 1 .. L + 3 : header[i] = IF i <= L + 1 THEN upto[i]
                                           ELSE blank[i - (L + 1)]
  <2> HIDE DEF upto
  <2>1. /\ upto \in Seq(Byte) /\ blank \in Seq(Byte)
        /\ Len(upto) = L + 1 /\ Len(upto) + Len(blank) = L + 3
    BY <1>1, <1>5, <1>8 DEF Bytes
  <2>2. /\ header \in Seq(Byte) /\ Len(header) = Len(upto) + Len(blank)
        /\ \A i \in 1 .. Len(upto) + Len(blank) :
            header[i] = IF i <= Len(upto) THEN upto[i] ELSE blank[i - Len(upto)]
    BY ONLY <2>1, Joined
  <2> HIDE DEF header
  <2> QED
    BY <2>1, <2>2 DEF Bytes
<1>10. /\ m \in Bytes /\ Len(m) = L + 3 + b
      /\ \A i \in 1 .. L + 3 + b : m[i] = IF i <= L + 3 THEN header[i]
                                           ELSE rest[i - (L + 3)]
  <2> HIDE DEF header
  <2>1. /\ header \in Seq(Byte) /\ rest \in Seq(Byte)
        /\ Len(header) = L + 3 /\ Len(header) + Len(rest) = L + 3 + b
    BY <1>1, <1>6, <1>9 DEF Bytes
  <2>2. /\ m \in Seq(Byte) /\ Len(m) = Len(header) + Len(rest)
        /\ \A i \in 1 .. Len(header) + Len(rest) :
            m[i] = IF i <= Len(header) THEN header[i] ELSE rest[i - Len(header)]
    BY ONLY <2>1, Joined
  <2> HIDE DEF m
  <2> QED
    BY <2>1, <2>2 DEF Bytes
<1>11. Message(id, shape) = m
  BY <1>7
<1> HIDE DEF upto, header, m
<1>12. ASSUME NEW i \in 1 .. L + 3 + b PROVE m[i] = UnitAt(id, shape, i)
  <2>1. CASE i = 1
    <3>1. i \in 1 .. L + 3 /\ i \in 1 .. L + 1
      BY <1>1, <2>1
    <3> QED
      BY <1>1, <1>3, <1>8, <1>9, <1>10, <2>1, <3>1 DEF UnitAt
  <2>2. CASE i \in 2 .. L + 1
    <3>1. i \in 1 .. L + 3 /\ i \in 1 .. L + 1 /\ i - 1 \in 1 .. L /\ i # 1
      BY <1>1, <2>2
    <3>2. m[i] = lines[i - 1]
      BY <1>1, <1>8, <1>9, <1>10, <3>1
    <3> QED
      BY <1>1, <1>4, <3>1, <3>2 DEF UnitAt
  <2>3. CASE i = L + 2
    <3>1. i \in 1 .. L + 3 /\ ~ (i <= L + 1) /\ i - (L + 1) = 1 /\ i # 1
      BY <1>1, <2>3
    <3> QED
      BY <1>1, <1>5, <1>9, <1>10, <2>3, <3>1 DEF UnitAt
  <2>4. CASE i = L + 3
    <3>1. /\ i \in 1 .. L + 3 /\ i <= L + 3 /\ ~ (i <= L + 1)
          /\ i - (L + 1) = 2 /\ i # 1 /\ i # L + 2
      BY <1>1, <2>4
    <3>2. m[i] = blank[2]
      BY <1>9, <1>10, <3>1
    <3> QED
      BY <1>5, <2>4, <3>1, <3>2 DEF UnitAt
  <2>5. CASE i > L + 3
    <3>1. /\ ~ (i <= L + 3) /\ i - (L + 3) \in 1 .. b /\ i # 1
          /\ ~ (i <= L + 1) /\ i # L + 2 /\ i # L + 3
      BY <1>1, <2>5
    <3> QED
      BY <1>1, <1>6, <1>10, <3>1 DEF UnitAt
  <2> QED
    BY <1>1, <2>1, <2>2, <2>3, <2>4, <2>5
<1> QED
  BY <1>10, <1>11, <1>12

\* The bytes p are those message id begins with.
Length(shape) == Len(shape.lengths) + 3 + shape.body
Begins(p, id, shape) ==
    /\ p \in Bytes /\ Len(p) <= Length(shape)
    /\ \A i \in 1 .. Len(p) : p[i] = UnitAt(id, shape, i)

\* What a unit of a message is says where it stands.
LEMMA UnitKinds ==
    ASSUME NEW id \in Nat, NEW shape \in Shape, NEW i \in Nat \ {0}
    PROVE  LET L == Len(shape.lengths)
               u == UnitAt(id, shape, i)
           IN  /\ u.of = id /\ (u.kind = "line" <=> i = 1)
               /\ u.kind = "length" <=> i \in 2 .. L + 1
               /\ i \in 2 .. L + 1 => u.value = shape.lengths[i - 1]
               /\ u.kind = "cr" <=> i = L + 2
               /\ u.kind = "lf" <=> i = L + 3
<1> DEFINE L == Len(shape.lengths)
<1>1. L \in Nat
  BY ShapeTypes
<1>2. i = 1 \/ i \in 2 .. L + 1 \/ i = L + 2 \/ i = L + 3 \/ i > L + 3
  BY <1>1
<1>3. CASE i = 1
  BY <1>1, <1>3 DEF UnitAt, Unit
<1>4. CASE i \in 2 .. L + 1
  BY <1>1, <1>4 DEF UnitAt, Unit
<1>5. CASE i = L + 2
  BY <1>1, <1>5 DEF UnitAt, Unit
<1>6. CASE i = L + 3
  BY <1>1, <1>6 DEF UnitAt, Unit
<1>7. CASE i > L + 3
  BY <1>1, <1>7 DEF UnitAt, Unit
<1> QED
  BY <1>2, <1>3, <1>4, <1>5, <1>6, <1>7

LEMMA MessageBegins ==
    ASSUME NEW id \in Nat, NEW shape \in Shape
    PROVE  /\ Begins(Message(id, shape), id, shape)
           /\ Len(Message(id, shape)) = Length(shape) /\ Length(shape) \in Nat \ {0}
           /\ Message(id, shape) \in Bytes /\ Message(id, shape) # << >>
<1>1. Length(shape) \in Nat \ {0}
  BY ShapeTypes DEF Length
<1>2. /\ Message(id, shape) \in Bytes /\ Len(Message(id, shape)) = Length(shape)
      /\ \A i \in 1 .. Len(Message(id, shape)) : Message(id, shape)[i] = UnitAt(id, shape, i)
  BY MessageUnits DEF Length
<1> QED
  BY <1>1, <1>2 DEF Begins

LEMMA WholeMessage ==
    ASSUME NEW id \in Nat, NEW shape \in Shape, NEW p, Begins(p, id, shape),
           Len(p) >= Length(shape)
    PROVE  p = Message(id, shape)
<1> DEFINE m == Message(id, shape)
<1>1. m \in Bytes /\ Len(m) = Length(shape) /\ Begins(m, id, shape)
  BY MessageBegins
<1>2. p \in Bytes /\ Len(p) <= Length(shape) /\ Len(p) \in Nat /\ Length(shape) \in Nat
  BY MessageBegins DEF Begins, Bytes
<1>3. Len(p) = Len(m)
  BY <1>1, <1>2
<1>4. \A i \in 1 .. Len(p) : p[i] = m[i]
  BY <1>1, <1>3 DEF Begins
<1> HIDE DEF m
<1>5. p \in Seq(Byte) /\ m \in Seq(Byte)
  BY <1>1, <1>2 DEF Bytes
<1>6. p = m
  BY <1>3, <1>4, <1>5, SeqEqual
<1> QED
  BY <1>6 DEF m

\* The header of a message ends at its own empty line, once that has arrived ...
LEMMA HeaderSeen ==
    ASSUME NEW id \in Nat, NEW shape \in Shape, NEW p, Begins(p, id, shape)
    PROVE  BodyStarts(p) = IF Len(p) >= Len(shape.lengths) + 3
                           THEN {Len(shape.lengths) + 3} ELSE {}
<1> DEFINE L == Len(shape.lengths)
<1>1. L \in Nat /\ Len(p) \in Nat
  BY ShapeTypes DEF Begins, Bytes
<1>2. ASSUME NEW i \in 2 .. Len(p)
      PROVE  (p[i].kind = "lf" /\ p[i - 1].kind = "cr") <=> i = L + 3
  <2>1. /\ i \in Nat \ {0} /\ i - 1 \in Nat \ {0}
        /\ i \in 1 .. Len(p) /\ i - 1 \in 1 .. Len(p)
    BY <1>1
  <2>2. p[i] = UnitAt(id, shape, i) /\ p[i - 1] = UnitAt(id, shape, i - 1)
    BY <2>1 DEF Begins
  <2>3. /\ p[i].kind = "lf" <=> i = L + 3
        /\ p[i - 1].kind = "cr" <=> i - 1 = L + 2
    BY <2>1, <2>2, UnitKinds
  <2> QED
    BY <1>1, <2>1, <2>3
<1>3. L + 3 \in 2 .. Len(p) <=> Len(p) >= L + 3
  BY <1>1
<1>4. BodyStarts(p) = {i \in 2 .. Len(p) : i = L + 3}
  BY <1>2 DEF BodyStarts
<1> HIDE DEF L
<1>5. BodyStarts(p) = IF Len(p) >= L + 3 THEN {L + 3} ELSE {}
  BY <1>3, <1>4
<1> QED
  BY <1>5 DEF L

\* ... and then its length lines are those the sender wrote.
LEMMA HeaderRead ==
    ASSUME NEW id \in Nat, NEW shape \in Shape, NEW p, Begins(p, id, shape),
           Len(p) >= Len(shape.lengths) + 3
    PROVE  LET L == Len(shape.lengths)
               header == SubSeq(p, 1, BodyStart(p))
           IN  /\ HasHeader(p) /\ BodyStart(p) = L + 3
               /\ LengthLines(header) = 2 .. L + 1
               /\ \A i \in 2 .. L + 1 : header[i].value = shape.lengths[i - 1]
<1> DEFINE L == Len(shape.lengths)
<1> DEFINE header == SubSeq(p, 1, L + 3)
<1>1. L \in Nat /\ Len(p) \in Nat /\ p \in Seq(Byte)
  BY ShapeTypes DEF Begins, Bytes
<1>2. BodyStarts(p) = {L + 3}
  BY HeaderSeen
<1>3. HasHeader(p) /\ BodyStart(p) = L + 3
  <2> DEFINE n == L + 3
  <2>1. n \in Nat /\ BodyStarts(p) = {n}
    BY <1>1, <1>2
  <2> HIDE DEF n
  <2> DEFINE T == {n}
  <2>2. T \subseteq Nat /\ n \in T /\ \A i \in T : n <= i
    BY <2>1
  <2>3. Min(T) = n
    <3> HIDE DEF T
    <3> QED
      BY <2>2, MinIs
  <2> QED
    BY <2>1, <2>3 DEF HasHeader, BodyStart, n
<1>4. Len(header) = L + 3 /\ \A i \in 1 .. L + 3 : header[i] = p[i]
  BY <1>1
<1>5. ASSUME NEW i \in 1 .. L + 3
      PROVE  /\ header[i].kind = "length" <=> i \in 2 .. L + 1
             /\ i \in 2 .. L + 1 => header[i].value = shape.lengths[i - 1]
  <2>1. i \in 1 .. Len(p) /\ i \in Nat \ {0}
    BY <1>1
  <2>2. header[i] = UnitAt(id, shape, i)
    BY <1>4, <2>1 DEF Begins
  <2> QED
    BY <2>1, <2>2, UnitKinds
<1> HIDE DEF header
<1>6. 2 .. L + 1 \subseteq 1 .. L + 3
  BY <1>1
<1>7. LengthLines(header) = 2 .. L + 1
  BY <1>4, <1>5, <1>6 DEF LengthLines
<1>8. \A i \in 2 .. L + 1 : header[i].value = shape.lengths[i - 1]
  BY <1>5, <1>6
<1> QED
  BY <1>3, <1>7, <1>8 DEF header

\* A framed message is complete with its last byte and not before.
LEMMA FramedLength ==
    ASSUME NEW shape \in Shape, Framed(shape), NEW header,
           LengthLines(header) = 2 .. Len(shape.lengths) + 1,
           \A i \in 2 .. Len(shape.lengths) + 1 : header[i].value = shape.lengths[i - 1],
           shape.body <= MaxUsize
    PROVE  ContentLength(header) = shape.body
<1> DEFINE L == Len(shape.lengths)
<1>1. /\ L \in Nat /\ shape.body \in Nat
      /\ \A i \in 1 .. L : shape.lengths[i] \in Seq(Nat)
  BY ShapeTypes
<1>2. CASE L = 0
  <2>1. shape.body = 0
    <3>1. shape.lengths = << >>
      BY <1>2, ShapeTypes
    <3> QED
      BY <3>1 DEF Framed
  <2>2. LengthLines(header) = {}
    BY <1>2
  <2> QED
    BY <2>1, <2>2 DEF ContentLength
<1>3. CASE L > 0
  <2>1. 2 .. L + 1 \subseteq Nat /\ 2 \in 2 .. L + 1 /\ \A i \in 2 .. L + 1 : 2 <= i
    BY <1>1, <1>3
  <2>2. Min(2 .. L + 1) = 2
    BY <2>1, MinIs
  <2>3. Announced(header) = shape.lengths[1]
    BY <2>1, <2>2 DEF Announced
  <2>4. 1 \in 1 .. L
    BY <1>1, <1>3
  <2> DEFINE v == shape.lengths[1]
  <2>5. v \in Seq(Nat) /\ Numeric(v) /\ Meaning(v) = shape.body
    BY <1>1, <2>4 DEF Framed
  <2>6. ParseUsize(v) = Saturated(shape.body)
    <3> HIDE DEF v
    <3> QED
      BY <2>5, ParseSaturates
  <2>7. Saturated(shape.body) = shape.body
    BY <1>1, MaxUsizeAssumption DEF Saturated
  <2> QED
    BY <2>1, <2>3, <2>6, <2>7 DEF ContentLength
<1> QED
  BY <1>1, <1>2, <1>3

LEMMA CompleteAtTheEnd ==
    ASSUME NEW id \in Nat, NEW shape \in Shape, Framed(shape),
           shape.body <= MaxUsize, NEW p, Begins(p, id, shape)
    PROVE  Complete(p) <=> Len(p) = Length(shape)
<1> DEFINE L == Len(shape.lengths)
<1>1. L \in Nat /\ shape.body \in Nat /\ Len(p) \in Nat
  BY ShapeTypes DEF Begins, Bytes
<1>2. CASE Len(p) < L + 3
  <2>1. ~HasHeader(p)
    BY <1>1, <1>2, HeaderSeen DEF HasHeader
  <2> QED
    BY <1>1, <1>2, <2>1 DEF Complete, Length
<1>3. CASE Len(p) >= L + 3
  <2>1. HasHeader(p) /\ BodyStart(p) = L + 3
    BY <1>3, HeaderRead
  <2>2. ContentLength(SubSeq(p, 1, BodyStart(p))) = shape.body
    BY <1>3, HeaderRead, FramedLength
  <2>3. Complete(p) <=> Len(p) - (L + 3) >= shape.body
    BY <2>1, <2>2 DEF Complete
  <2>4. Len(p) <= L + 3 + shape.body
    BY DEF Begins, Length
  <2> QED
    BY <1>1, <2>3, <2>4 DEF Length
<1> QED
  BY <1>1, <1>2, <1>3
=============================================================================
