-------------------------- MODULE VectorizeProofs ---------------------------
(***************************************************************************)
(* Proofs about Vectorize: the calendar, for every day it goes on; and the *)
(* scanner, for every request of ordinary texts, whatever the order of its *)
(* objects, the length of its list and the numbers in it.                  *)
(***************************************************************************)
EXTENDS Vectorize, FoldLemmas
Date == {t \in [y : Nat, m : 1 .. 12, d : 1 .. 31] : t.d <= DaysIn(t.y, t.m)}
Epoch == [y |-> 1970, m |-> 1, d |-> 1]
SinceEpoch == {t \in Date : t.y >= 1970}

-----------------------------------------------------------------------------
(* The eras begin in March: a date is so many days after the first of the  *)
(* March before it.                                                        *)
March(date) == IF date.m <= 2 THEN date.y - 1 ELSE date.y
SinceMarch(date) ==
    (153 * (IF date.m > 2 THEN date.m - 3 ELSE date.m + 9) + 2) \div 5 + date.d - 1
Firsts(y) == (y \div 400) * 146097 + DayOfEra(y - (y \div 400) * 400, 0)

LEMMA CountFromMarch ==
    ASSUME NEW t \in Date
    PROVE  /\ Firsts(March(t)) \in Int /\ SinceMarch(t) \in Nat
           /\ DaysFromCivil(t) = Firsts(March(t)) + SinceMarch(t) - 719468
<1>1. t.y \in Nat /\ t.m \in 1 .. 12 /\ t.d \in 1 .. 31
  BY DEF Date
<1>2. SinceMarch(t) \in Nat
  BY <1>1 DEF SinceMarch
<1>3. March(t) \in Int
  BY <1>1 DEF March
<1>4. \A y \in Int, n \in Int :
        LET era == y \div 400
        IN  DayOfEra(y - era * 400, n) = DayOfEra(y - era * 400, 0) + n
            /\ DayOfEra(y - era * 400, 0) \in Int
  BY DEF DayOfEra
<1>5. DaysFromCivil(t) =
        (March(t) \div 400) * 146097
          + DayOfEra(March(t) - (March(t) \div 400) * 400, SinceMarch(t)) - 719468
  BY DEF DaysFromCivil, March, SinceMarch
<1>6. (March(t) \div 400) * 146097 \in Int
  BY <1>3
<1> QED
  BY <1>2, <1>3, <1>4, <1>5, <1>6 DEF Firsts

\* A year from March to March has a day more if it ends in a leap year's.
LEMMA YearLength ==
    ASSUME NEW y \in Int
    PROVE  Firsts(y + 1) = Firsts(y) + IF IsLeap(y + 1) THEN 366 ELSE 365
<1> DEFINE e == y \div 400
           k == y - e * 400
<1>1. e \in Int /\ k \in 0 .. 399 /\ y = e * 400 + k
  OBVIOUS
<1>2. Firsts(y) = e * 146097 + (k * 365 + k \div 4 - k \div 100)
  BY <1>1 DEF Firsts, DayOfEra
<1>3. IsLeap(y + 1) <=> ((k + 1) % 4 = 0 /\ (k + 1) % 100 # 0) \/ k = 399
  <2>1. (y + 1) % 4 = (k + 1) % 4
    BY <1>1
  <2>2. (y + 1) % 100 = (k + 1) % 100
    BY <1>1
  <2>3. (y + 1) % 400 = 0 <=> k = 399
    BY <1>1
  <2> QED
    BY <2>1, <2>2, <2>3 DEF IsLeap
<1>4. CASE k < 399
  <2>1. (y + 1) \div 400 = e
    BY <1>1, <1>4
  <2>2. Firsts(y + 1) = e * 146097 + ((k + 1) * 365 + (k + 1) \div 4 - (k + 1) \div 100)
    <3>1. y + 1 - e * 400 = k + 1
      BY <1>1
    <3> HIDE DEF e, k
    <3>2. (k + 1) * 365 + (k + 1) \div 4 - (k + 1) \div 100 + 0
            = (k + 1) * 365 + (k + 1) \div 4 - (k + 1) \div 100
      BY <1>1
    <3> QED
      BY <2>1, <3>1, <3>2 DEF Firsts, DayOfEra
  <2> HIDE DEF e, k
  <2>3. (k + 1) \div 4 = k \div 4 + IF (k + 1) % 4 = 0 THEN 1 ELSE 0
    BY <1>1
  <2>4. (k + 1) \div 100 = k \div 100 + IF (k + 1) % 100 = 0 THEN 1 ELSE 0
    BY <1>1
  <2>5. (k + 1) % 100 = 0 => (k + 1) % 4 = 0
    BY <1>1
  <2> QED
    BY <1>1, <1>2, <1>3, <1>4, <2>2, <2>3, <2>4, <2>5
<1>5. CASE k = 399
  <2>1. (y + 1) \div 400 = e + 1
    BY <1>1, <1>5
  <2>2. Firsts(y + 1) = (e + 1) * 146097
    <3>1. y + 1 - (e + 1) * 400 = 0
      BY <1>1, <1>5
    <3> HIDE DEF e, k
    <3> QED
      BY <1>1, <2>1, <3>1 DEF Firsts, DayOfEra
  <2> HIDE DEF e, k
  <2>3. Firsts(y) = e * 146097 + 145731
    BY <1>1, <1>2, <1>5
  <2> QED
    BY <1>1, <1>3, <1>5, <2>2, <2>3
<1> QED
  BY <1>1, <1>4, <1>5

-----------------------------------------------------------------------------
\* The day after a date is a date, one day later.
LEMMA FollowingDate ==
    ASSUME NEW t \in Date
    PROVE  Following(t) \in Date
<1>1. /\ t \in [y : Nat, m : 1 .. 12, d : 1 .. 31] /\ t.d <= DaysIn(t.y, t.m)
  BY DEF Date
<1>2. \A y \in Nat, m \in 1 .. 12 : DaysIn(y, m) \in 28 .. 31
  BY DEF DaysIn
<1>3. CASE t.d < DaysIn(t.y, t.m)
  BY <1>1, <1>2, <1>3 DEF Following, Date
<1>4. CASE ~(t.d < DaysIn(t.y, t.m)) /\ t.m < 12
  BY <1>1, <1>2, <1>4 DEF Following, Date
<1>5. CASE ~(t.d < DaysIn(t.y, t.m)) /\ ~(t.m < 12)
  BY <1>1, <1>2, <1>5 DEF Following, Date
<1> QED
  BY <1>3, <1>4, <1>5

LEMMA FollowingCounted ==
    ASSUME NEW t \in Date
    PROVE  DaysFromCivil(Following(t)) = DaysFromCivil(t) + 1
<1> DEFINE u == Following(t)
<1>1. u \in Date /\ t.y \in Nat /\ t.m \in 1 .. 12 /\ t.d \in 1 .. 31
      /\ t.d <= DaysIn(t.y, t.m)
  BY FollowingDate DEF Date
<1>2. SUFFICES Firsts(March(u)) + SinceMarch(u) = Firsts(March(t)) + SinceMarch(t) + 1
  <2> HIDE DEF u
  <2> SUFFICES DaysFromCivil(u) = DaysFromCivil(t) + 1
    BY DEF u
  <2> QED
    BY <1>1, <1>2, CountFromMarch
<1>3. CASE t.d < DaysIn(t.y, t.m)
  <2>1. u = [t EXCEPT !.d = @ + 1]
    BY <1>3 DEF Following
  <2>2. u.y = t.y /\ u.m = t.m /\ u.d = t.d + 1
    BY <1>1, <2>1 DEF Date
  <2> HIDE DEF u
  <2>3. March(u) = March(t) /\ SinceMarch(u) = SinceMarch(t) + 1
    BY <1>1, <2>2 DEF March, SinceMarch
  <2> QED
    BY <1>1, <2>3, CountFromMarch
<1>4. CASE ~(t.d < DaysIn(t.y, t.m)) /\ t.m < 12
  <2>1. u = [y |-> t.y, m |-> t.m + 1, d |-> 1]
    BY <1>4 DEF Following
  <2>2. u.y = t.y /\ u.m = t.m + 1 /\ u.d = 1
    BY <2>1
  <2>3. t.d = DaysIn(t.y, t.m) /\ DaysIn(t.y, t.m) \in 28 .. 31
    BY <1>1, <1>4 DEF DaysIn
  <2> HIDE DEF u
  <2>4. CASE t.m = 2
    <3>1. March(t) + 1 = t.y /\ March(u) = t.y /\ March(t) \in Int
      BY <1>1, <2>2, <2>4 DEF March
    <3>2. SinceMarch(u) = 0
      BY <2>2, <2>4 DEF SinceMarch
    <3>3. SinceMarch(t) = IF IsLeap(t.y) THEN 365 ELSE 364
      BY <2>3, <2>4 DEF SinceMarch, DaysIn
    <3>4. Firsts(t.y) = Firsts(March(t)) + IF IsLeap(t.y) THEN 366 ELSE 365
      BY <3>1, YearLength
    <3> QED
      BY <1>1, <3>1, <3>2, <3>3, <3>4, CountFromMarch
  <2>5. CASE t.m # 2
    <3>1. March(u) = March(t)
      BY <1>1, <1>4, <2>2, <2>5 DEF March
    <3>2. SinceMarch(u) = SinceMarch(t) + 1
      BY <1>1, <1>4, <2>2, <2>3, <2>5 DEF SinceMarch, DaysIn
    <3> QED
      BY <1>1, <3>1, <3>2, CountFromMarch
  <2> QED
    BY <2>4, <2>5
<1>5. CASE ~(t.d < DaysIn(t.y, t.m)) /\ ~(t.m < 12)
  <2>1. u = [y |-> t.y + 1, m |-> 1, d |-> 1]
    BY <1>5 DEF Following
  <2>2. u.y = t.y + 1 /\ u.m = 1 /\ u.d = 1
    BY <2>1
  <2>3. t.m = 12 /\ t.d = 31
    BY <1>1, <1>5 DEF DaysIn
  <2> HIDE DEF u
  <2>4. March(u) = t.y /\ March(t) = t.y
    BY <1>1, <2>2, <2>3 DEF March
  <2>5. SinceMarch(u) = 306 /\ SinceMarch(t) = 305
    BY <2>2, <2>3 DEF SinceMarch
  <2> QED
    BY <1>1, <2>4, <2>5, CountFromMarch
<1> QED
  BY <1>3, <1>4, <1>5

\* b comes n days after a, counted one by one.
DaysLater(a, b, n) ==
    /\ n \in Nat
    /\ \E f \in [0 .. n -> Date] :
        /\ f[0] = a /\ f[n] = b
        /\ \A k \in 0 .. n - 1 : f[k + 1] = Following(f[k])

LEMMA LaterCounted ==
    ASSUME NEW a, NEW b, NEW n, DaysLater(a, b, n)
    PROVE  /\ a \in Date /\ b \in Date /\ n \in Nat
           /\ DaysFromCivil(a) \in Int /\ DaysFromCivil(b) = DaysFromCivil(a) + n
<1>1. PICK f \in [0 .. n -> Date] :
        /\ n \in Nat /\ f[0] = a /\ f[n] = b
        /\ \A k \in 0 .. n - 1 : f[k + 1] = Following(f[k])
  BY DEF DaysLater
<1>2. a \in Date /\ b \in Date
  BY <1>1
<1>3. DaysFromCivil(a) \in Int
  <2>1. DaysFromCivil(a) = Firsts(March(a)) + SinceMarch(a) - 719468
        /\ Firsts(March(a)) \in Int /\ SinceMarch(a) \in Nat
    BY <1>2, CountFromMarch
  <2> QED
    BY ONLY <2>1
<1> DEFINE S == {m \in Nat : m \in 0 .. n => DaysFromCivil(f[m]) = DaysFromCivil(a) + m}
<1>4. 0 \in S
  BY <1>1, <1>3
<1>5. ASSUME NEW m \in Nat, m \in S PROVE m + 1 \in S
  <2> SUFFICES ASSUME m + 1 \in 0 .. n
               PROVE  DaysFromCivil(f[m + 1]) = DaysFromCivil(a) + (m + 1)
    OBVIOUS
  <2>1. m \in 0 .. n - 1 /\ m \in 0 .. n
    BY <1>1
  <2>2. f[m] \in Date /\ f[m + 1] = Following(f[m])
    BY <1>1, <2>1
  <2>3. DaysFromCivil(f[m + 1]) = DaysFromCivil(f[m]) + 1
    BY <2>2, FollowingCounted
  <2>4. DaysFromCivil(f[m]) = DaysFromCivil(a) + m
    BY <1>5, <2>1
  <2> QED
    BY ONLY <1>3, <2>3, <2>4, m \in Nat
<1> HIDE DEF S
<1>6. n \in S
  BY <1>1, <1>4, <1>5, Induction
<1>7. DaysFromCivil(f[n]) = DaysFromCivil(a) + n
  BY <1>1, <1>6 DEF S
<1> QED
  BY <1>1, <1>2, <1>3, <1>7

LEMMA FollowingYear ==
    ASSUME NEW t \in SinceEpoch
    PROVE  Following(t) \in SinceEpoch
<1>1. t \in Date /\ t.y \in Nat /\ t.y >= 1970
  BY DEF SinceEpoch, Date
<1>2. Following(t) \in Date
  BY <1>1, FollowingDate
<1>3. Following(t).y = t.y \/ Following(t).y = t.y + 1
  BY <1>1 DEF Following, Date
<1> QED
  BY <1>1, <1>2, <1>3 DEF SinceEpoch

LEMMA LaterSinceEpoch ==
    ASSUME NEW a \in SinceEpoch, NEW b, NEW n, DaysLater(a, b, n)
    PROVE  b \in SinceEpoch
<1>1. PICK f \in [0 .. n -> Date] :
        /\ n \in Nat /\ f[0] = a /\ f[n] = b
        /\ \A k \in 0 .. n - 1 : f[k + 1] = Following(f[k])
  BY DEF DaysLater
<1> DEFINE S == {m \in Nat : m \in 0 .. n => f[m] \in SinceEpoch}
<1>2. 0 \in S
  BY <1>1
<1>3. ASSUME NEW m \in Nat, m \in S PROVE m + 1 \in S
  <2> SUFFICES ASSUME m + 1 \in 0 .. n PROVE f[m + 1] \in SinceEpoch
    OBVIOUS
  <2>1. m \in 0 .. n - 1 /\ m \in 0 .. n
    BY <1>1
  <2>2. f[m] \in SinceEpoch /\ f[m + 1] = Following(f[m])
    BY <1>1, <1>3, <2>1
  <2> QED
    BY <2>2, FollowingYear
<1> HIDE DEF S
<1>4. n \in S
  BY <1>1, <1>2, <1>3, Induction
<1> QED
  BY <1>1, <1>4 DEF S

\* The date and its number, whatever day of the calendar one begins with.
Beginning == \A first \in FirstDays : DaysLater(Epoch, first[1], first[2])
Counting == today \in SinceEpoch /\ days = DaysFromCivil(today)

LEMMA EpochIsZero == Epoch \in SinceEpoch /\ DaysFromCivil(Epoch) = 0
<1>1. Epoch \in Date /\ Epoch \in SinceEpoch
  BY DEF Epoch, Date, SinceEpoch, DaysIn
<1>2. Epoch.y = 1970 /\ Epoch.m = 1 /\ Epoch.d = 1
  BY DEF Epoch
<1>3. March(Epoch) = 1969 /\ SinceMarch(Epoch) = 306
  BY <1>2 DEF March, SinceMarch
<1>4. Firsts(1969) = 719162
  BY DEF Firsts, DayOfEra
<1> QED
  BY <1>1, <1>3, <1>4, CountFromMarch

LEMMA AlwaysCounting ==
    ASSUME Beginning
    PROVE  Spec => []Counting
<1>1. Init => Counting
  <2> SUFFICES ASSUME Init PROVE Counting
    OBVIOUS
  <2>1. PICK first \in FirstDays : today = first[1] /\ days = first[2]
    BY DEF Init
  <2>2. DaysLater(Epoch, first[1], first[2])
    BY DEF Beginning
  <2>3. first[1] \in SinceEpoch /\ first[2] \in Nat
        /\ DaysFromCivil(first[1]) = DaysFromCivil(Epoch) + first[2]
    BY <2>2, EpochIsZero, LaterCounted, LaterSinceEpoch
  <2>4. DaysFromCivil(first[1]) = first[2]
    BY <2>3, EpochIsZero
  <2> QED
    BY <2>1, <2>3, <2>4 DEF Counting
<1>2. Counting /\ [Next]_vars => Counting'
  <2> SUFFICES ASSUME Counting, [Next]_vars PROVE Counting'
    OBVIOUS
  <2>1. CASE NextDay
    <3>1. today' = Following(today) /\ days' = days + 1
      BY <2>1 DEF NextDay
    <3>2. Following(today) \in SinceEpoch
      BY FollowingYear DEF Counting
    <3>3. DaysFromCivil(Following(today)) = days + 1
      BY FollowingCounted DEF Counting, SinceEpoch
    <3> QED
      BY <3>1, <3>2, <3>3 DEF Counting
  <2>2. CASE Arrive \/ UNCHANGED vars
    BY <2>2 DEF Arrive, vars, Counting
  <2> QED
    BY <2>1, <2>2 DEF Next
<1> QED
  BY <1>1, <1>2, PTL DEF Spec

\* daysFromCivil counts what the calendar counts day by day, for as long as it
\* goes on: no leap year, century or era breaks it (vectorize_json.go:403-425).
THEOREM CalendarIsCounted ==
    ASSUME Beginning
    PROVE  Spec => []DaysAreCounted
<1>1. Counting => DaysAreCounted
  BY DEF Counting, DaysAreCounted
<1> QED
  BY <1>1, AlwaysCounting, PTL
-----------------------------------------------------------------------------
(* The search in the text of the list.                                     *)
Marks == {"quote", "comma", "colon", "[", "]"}
Symbol(Char) == Char \cup Marks \cup {"known_merchants"}

IsList(list, Char) == list \in Seq(Seq(Char))
Around(name) == <<"quote">> \o name \o <<"quote", "comma">>

IsTuple(w) == Len(w) \in Nat /\ w = [k \in 1 .. Len(w) |-> w[k]]

LEMMA AsSequence ==
    ASSUME NEW w, IsTuple(w), NEW S, \A k \in 1 .. Len(w) : w[k] \in S
    PROVE  w \in Seq(S)
BY DEF IsTuple

LEMMA AsTuple ==
    ASSUME NEW S, NEW w \in Seq(S)
    PROVE  IsTuple(w)
BY DEF IsTuple

LEMMA Joined ==
    ASSUME NEW S, NEW s \in Seq(S), NEW t \in Seq(S)
    PROVE  /\ s \o t \in Seq(S) /\ Len(s \o t) = Len(s) + Len(t)
           /\ Len(s) \in Nat /\ Len(t) \in Nat
           /\ \A k \in 1 .. Len(s) : (s \o t)[k] = s[k]
           /\ \A k \in 1 .. Len(t) : (s \o t)[Len(s) + k] = t[k]
OBVIOUS

LEMMA AroundIs ==
    ASSUME NEW Char, NEW name \in Seq(Char)
    PROVE  /\ Around(name) \in Seq(Symbol(Char)) /\ Len(name) \in Nat
           /\ Len(Around(name)) = Len(name) + 3
           /\ Around(name)[1] = "quote"
           /\ Around(name)[Len(name) + 2] = "quote"
           /\ Around(name)[Len(name) + 3] = "comma"
           /\ \A k \in 1 .. Len(name) :
                Around(name)[k + 1] = name[k] /\ name[k] \in Char
<1> DEFINE a == <<"quote">>
           b == <<"quote", "comma">>
           n == Len(name)
<1>1. "quote" \in Symbol(Char) /\ "comma" \in Symbol(Char)
  BY DEF Symbol, Marks
<1>2. a \in Seq(Symbol(Char)) /\ Len(a) = 1 /\ a[1] = "quote"
  BY <1>1
<1>3. b \in Seq(Symbol(Char)) /\ Len(b) = 2 /\ b[1] = "quote" /\ b[2] = "comma"
  BY <1>1
<1>4. name \in Seq(Symbol(Char)) /\ n \in Nat /\ \A k \in 1 .. n : name[k] \in Char
  <2>1. \A k \in 1 .. Len(name) : name[k] \in Char
    OBVIOUS
  <2>2. \A k \in 1 .. Len(name) : name[k] \in Symbol(Char)
    BY <2>1 DEF Symbol
  <2>3. name = [k \in 1 .. Len(name) |-> name[k]] /\ Len(name) \in Nat
    OBVIOUS
  <2> QED
    BY <2>1, <2>2, <2>3
<1> DEFINE c == a \o name
           d == c \o b
<1> HIDE DEF a, b, n
<1>5. /\ c \in Seq(Symbol(Char)) /\ Len(c) = Len(a) + n
      /\ \A k \in 1 .. Len(a) : c[k] = a[k]
      /\ \A k \in 1 .. n : c[Len(a) + k] = name[k]
  <2>1. a \in Seq(Symbol(Char)) /\ name \in Seq(Symbol(Char))
    BY <1>2, <1>4
  <2>2. /\ c \in Seq(Symbol(Char)) /\ Len(c) = Len(a) + Len(name)
        /\ \A k \in 1 .. Len(a) : c[k] = a[k]
        /\ \A k \in 1 .. Len(name) : c[Len(a) + k] = name[k]
    BY ONLY <2>1, Joined
  <2> QED
    BY ONLY <2>2 DEF n
<1> HIDE DEF c
<1>6. /\ d \in Seq(Symbol(Char)) /\ Len(d) = Len(c) + Len(b)
      /\ \A k \in 1 .. Len(c) : d[k] = c[k]
      /\ \A k \in 1 .. Len(b) : d[Len(c) + k] = b[k]
  <2>1. c \in Seq(Symbol(Char)) /\ b \in Seq(Symbol(Char))
    BY <1>3, <1>5
  <2> QED
    BY ONLY <2>1, Joined
<1> HIDE DEF d
<1>7. Len(d) = n + 3
  BY <1>2, <1>3, <1>4, <1>5, <1>6
<1>8. d[1] = "quote"
  <2>1. 1 \in 1 .. Len(a) /\ 1 \in 1 .. Len(c)
    BY <1>2, <1>4, <1>5
  <2> QED
    BY <1>2, <1>5, <1>6, <2>1
<1>9. d[n + 2] = "quote" /\ d[n + 3] = "comma"
  <2>1. 1 \in 1 .. Len(b) /\ 2 \in 1 .. Len(b)
    BY <1>3
  <2>2. d[Len(c) + 1] = b[1] /\ d[Len(c) + 2] = b[2]
    BY <1>6, <2>1
  <2>3. Len(c) + 1 = n + 2 /\ Len(c) + 2 = n + 3
    BY <1>2, <1>4, <1>5
  <2> QED
    BY <1>3, <2>2, <2>3
<1>10. ASSUME NEW k \in 1 .. n PROVE d[k + 1] = name[k]
  <2>1. k + 1 \in 1 .. Len(c) /\ k + 1 = Len(a) + k
    BY <1>2, <1>4, <1>5
  <2>2. c[Len(a) + k] = name[k]
    BY <1>5
  <2> QED
    BY <1>6, <2>1, <2>2
<1>11. Around(name) = d
  BY DEF Around, a, b, c, d
<1> QED
  BY <1>4, <1>6, <1>7, <1>8, <1>9, <1>10, <1>11 DEF n

\* The first of the pieces' texts, the key's.
Opening == <<"quote">> \o <<"known_merchants">> \o <<"quote", "colon">>

LEMMA OpeningIs ==
    ASSUME NEW Char
    PROVE  /\ Chars(Key("known_merchants")) = Opening
           /\ Opening \in Seq(Symbol(Char)) /\ Len(Opening) = 4
           /\ Opening[1] = "quote" /\ Opening[2] = "known_merchants"
           /\ Opening[3] = "quote" /\ Opening[4] = "colon"
<1> DEFINE a == <<"quote">>
           b == <<"known_merchants">>
           c == <<"quote", "colon">>
           d == a \o b
           e == d \o c
           S == Symbol(Char)
<1>1. "quote" \in S /\ "known_merchants" \in S /\ "colon" \in S
  BY DEF Symbol, Marks
<1> HIDE DEF S
<1>2. /\ a \in Seq(S) /\ b \in Seq(S) /\ c \in Seq(S) /\ Len(a) = 1 /\ Len(b) = 1 /\ Len(c) = 2
      /\ a[1] = "quote" /\ b[1] = "known_merchants" /\ c[1] = "quote" /\ c[2] = "colon"
  BY <1>1
<1>3. Chars(Key("known_merchants")) = e
  BY DEF Chars, Key, Value
<1>4. Opening = e
  BY DEF Opening
<1> HIDE DEF a, b, c, e
<1>5. /\ d \in Seq(S) /\ Len(d) = Len(a) + Len(b)
      /\ \A k \in 1 .. Len(a) : d[k] = a[k]
      /\ \A k \in 1 .. Len(b) : d[Len(a) + k] = b[k]
  BY ONLY <1>2, Joined
<1> HIDE DEF d
<1>6. Len(d) = 2 /\ d[1] = "quote" /\ d[2] = "known_merchants"
  <2>1. 1 \in 1 .. Len(a) /\ 1 \in 1 .. Len(b) /\ Len(a) + 1 = 2 /\ Len(a) + Len(b) = 2
    BY ONLY <1>2
  <2>2. d[1] = a[1] /\ d[Len(a) + 1] = b[1]
    BY ONLY <1>5, <2>1
  <2> QED
    BY ONLY <1>2, <1>5, <2>1, <2>2
<1>7. /\ e \in Seq(S) /\ Len(e) = Len(d) + Len(c)
      /\ \A k \in 1 .. Len(d) : e[k] = d[k]
      /\ \A k \in 1 .. Len(c) : e[Len(d) + k] = c[k]
  BY ONLY <1>2, <1>5, Joined DEF e
<1>8. /\ Len(e) = 4 /\ e[1] = "quote" /\ e[2] = "known_merchants"
      /\ e[3] = "quote" /\ e[4] = "colon"
  <2>1. /\ 1 \in 1 .. Len(d) /\ 2 \in 1 .. Len(d) /\ 1 \in 1 .. Len(c) /\ 2 \in 1 .. Len(c)
        /\ Len(d) + 1 = 3 /\ Len(d) + 2 = 4 /\ Len(d) + Len(c) = 4
    BY ONLY <1>2, <1>6
  <2>2. e[1] = d[1] /\ e[2] = d[2] /\ e[Len(d) + 1] = c[1] /\ e[Len(d) + 2] = c[2]
    BY ONLY <1>7, <2>1
  <2> QED
    BY ONLY <1>2, <1>6, <1>7, <2>1, <2>2
<1> QED
  BY ONLY <1>3, <1>4, <1>7, <1>8 DEF S

LEMMA CharsAre ==
    /\ \A v : Chars(Value("str", v)) = Around(v)
    /\ Chars(Value("[", 0)) = <<"[">> /\ Chars(Value("]", 0)) = <<"]">>
BY DEF Chars, Value, Around

\* The tokens of the field, its key first.
KnownTokens(ts, list) ==
    /\ Len(ts) = Len(list) + 3
    /\ ts[1] = Key("known_merchants") /\ ts[2] = Value("[", 0)
    /\ \A i \in 1 .. Len(list) : ts[i + 2] = Value("str", list[i])
    /\ ts[Len(list) + 3] = Value("]", 0)

\* Where the names are in the text; a quote is behind each, or nothing.
Laid(o, list, t, Char) ==
    /\ t[1] = "quote" /\ t[2] = "known_merchants" /\ t[3] = "quote" /\ t[4] = "colon"
    /\ t[5] = "[" /\ (6 <= Len(t) => t[6] = "quote")
    /\ t \in Seq(Symbol(Char)) /\ Len(t) >= 5
    /\ \A i \in 1 .. Len(list) :
        /\ o[i] \in Nat /\ o[i] >= 5 /\ o[i] + Len(list[i]) + 3 <= Len(t)
        /\ t[o[i] + 1] = "quote"
        /\ t[o[i] + Len(list[i]) + 2] = "quote"
        /\ t[o[i] + Len(list[i]) + 3] = "comma"
        /\ o[i] + Len(list[i]) + 4 <= Len(t) => t[o[i] + Len(list[i]) + 4] = "quote"
        /\ \A k \in 1 .. Len(list[i]) : t[o[i] + 1 + k] = list[i][k]
    /\ \A p \in 1 .. Len(t) :
        \/ p <= 5
        \/ \E i \in 1 .. Len(list) : p \in o[i] + 1 .. o[i] + Len(list[i]) + 3

\* A text that has x behind its place a, and ends at l or later.
Copied(t, a, x, n, l) ==
    a \in Nat /\ n \in Nat /\ l \in Nat /\ \A k \in 1 .. n + 3 : a + k <= l /\ t[a + k] = x[k]

LEMMA CopiedIs ==
    ASSUME NEW t, NEW a, NEW x, NEW n, NEW l, Copied(t, a, x, n, l)
    PROVE  /\ a + n + 3 <= l /\ t[a + 1] = x[1] /\ t[a + n + 2] = x[n + 2] /\ t[a + n + 3] = x[n + 3]
           /\ \A k \in 1 .. n : t[a + 1 + k] = x[k + 1]
<1>1. a \in Nat /\ n \in Nat
  BY DEF Copied
<1>2. \A k \in 1 .. n + 3 : a + k <= l /\ t[a + k] = x[k]
  BY DEF Copied
<1>3. 1 \in 1 .. n + 3 /\ n + 2 \in 1 .. n + 3 /\ n + 3 \in 1 .. n + 3
  BY ONLY <1>1
<1>4. a + n + 2 = a + (n + 2) /\ a + n + 3 = a + (n + 3)
  BY ONLY <1>1
<1>5. ASSUME NEW k \in 1 .. n PROVE t[a + 1 + k] = x[k + 1]
  <2>1. k + 1 \in 1 .. n + 3 /\ a + 1 + k = a + (k + 1)
    BY ONLY <1>1, k \in 1 .. n
  <2> QED
    BY ONLY <1>2, <2>1
<1>6. t[a + 1] = x[1]
  BY ONLY <1>2, <1>3
<1>7. t[a + (n + 2)] = x[n + 2]
  BY ONLY <1>2, <1>3
<1>8. a + (n + 3) <= l /\ t[a + (n + 3)] = x[n + 3]
  BY ONLY <1>2, <1>3
<1> QED
  BY ONLY <1>4, <1>5, <1>6, <1>7, <1>8

\* Behind the end of a piece another one begins.
Joint(o, xs, t, i, j) == j > i /\ o[j] = o[i] + Len(xs[i]) /\ t[o[j] + 1] = xs[j][1]

LEMMA NotBeyond ==
    ASSUME NEW a \in Nat, NEW l \in Nat, NEW k \in Nat, a + l + 1 = a + k, k <= l
    PROVE  FALSE
OBVIOUS

LEMMA NextPiece ==
    ASSUME NEW o, NEW xs, NEW t, Places(o, xs, t), Len(xs) \in Nat,
           \A j \in 1 .. Len(xs) : Len(xs[j]) \in Nat,
           NEW i \in 1 .. Len(xs), o[i] + Len(xs[i]) + 1 \in 1 .. Len(t)
    PROVE  \E j \in 1 .. Len(xs) : Joint(o, xs, t, i, j)
<1> DEFINE p == o[i] + Len(xs[i]) + 1
<1>1. /\ \A j \in 1 .. Len(xs) : o[j] \in Nat
      /\ \A j, l \in 1 .. Len(xs) : j < l => o[j] + Len(xs[j]) <= o[l]
  BY DEF Places
<1>2. PICK j \in 1 .. Len(xs) : \E k \in 1 .. Len(xs[j]) : p = o[j] + k
  BY DEF Places
<1>3. PICK k \in 1 .. Len(xs[j]) : p = o[j] + k
  BY <1>2
<1>4. t[p] = xs[j][k]
  BY <1>3 DEF Places
<1>5. /\ o[i] \in Nat /\ o[j] \in Nat /\ Len(xs[i]) \in Nat /\ Len(xs[j]) \in Nat
      /\ i \in Nat /\ j \in Nat /\ k \in Nat /\ 1 <= k /\ k <= Len(xs[j])
  BY <1>1
<1>6. p = o[i] + Len(xs[i]) + 1
  OBVIOUS
<1> HIDE DEF p
<1>7. j # i
  <2>1. ASSUME j = i PROVE FALSE
    <3>1. /\ o[i] \in Nat /\ Len(xs[i]) \in Nat /\ k \in Nat
          /\ o[i] + Len(xs[i]) + 1 = o[i] + k /\ k <= Len(xs[i])
      BY <1>3, <1>5, <1>6, <2>1
    <3> QED
      BY ONLY <3>1, NotBeyond
  <2> QED
    BY <2>1
<1>8. ~(j < i)
  <2>1. ASSUME j < i PROVE FALSE
    <3>1. o[j] + Len(xs[j]) <= o[i]
      BY <1>1, <2>1
    <3> QED
      BY ONLY <1>3, <1>5, <1>6, <3>1, SMTT(30)
  <2> QED
    BY <2>1
<1>9. j > i
  BY ONLY <1>5, <1>7, <1>8
<1>10. o[i] + Len(xs[i]) <= o[j]
  BY <1>1, <1>9
<1>11. o[j] = o[i] + Len(xs[i]) /\ k = 1
  BY ONLY <1>3, <1>5, <1>6, <1>10
<1>12. p = o[j] + 1 /\ t[p] = xs[j][1]
  BY ONLY <1>3, <1>4, <1>11
<1> QED
  BY ONLY <1>9, <1>11, <1>12, j \in 1 .. Len(xs) DEF Joint

\* The pieces of the text, and what is in them.
KnownPieces(xs, list, Char) ==
    /\ xs \in Seq(Seq(Symbol(Char))) /\ Len(list) \in Nat /\ Len(xs) = Len(list) + 3
    /\ xs[1] = Opening /\ xs[2] = <<"[">> /\ xs[Len(list) + 3] = <<"]">>
    /\ \A i \in 1 .. Len(list) : xs[i + 2] = Around(list[i]) /\ list[i] \in Seq(Char)

LEMMA PiecesOfList ==
    ASSUME NEW Char, NEW list, IsList(list, Char), NEW ts, KnownTokens(ts, list)
    PROVE  KnownPieces([i \in 1 .. Len(ts) |-> Chars(ts[i])], list, Char)
<1> DEFINE xs == [i \in 1 .. Len(ts) |-> Chars(ts[i])]
           n == Len(list)
<1>1. n \in Nat /\ \A i \in 1 .. n : list[i] \in Seq(Char)
  BY DEF IsList
<1>2. /\ Len(ts) = n + 3 /\ ts[1] = Key("known_merchants") /\ ts[2] = Value("[", 0)
      /\ ts[n + 3] = Value("]", 0)
      /\ \A i \in 1 .. n : ts[i + 2] = Value("str", list[i])
  BY DEF KnownTokens
<1> HIDE DEF n
<1>3. 1 \in 1 .. n + 3 /\ 2 \in 1 .. n + 3 /\ n + 3 \in 1 .. n + 3
      /\ \A i \in 1 .. n : i + 2 \in 1 .. n + 3
  BY <1>1
<1>4. xs = [i \in 1 .. n + 3 |-> Chars(ts[i])]
  BY <1>2
<1>5. \A i \in 1 .. n + 3 : xs[i] = Chars(ts[i])
  BY <1>4
<1>6. Len(xs) = n + 3
  BY <1>1, <1>4
<1> HIDE DEF xs
<1>7. xs[1] = Opening /\ xs[2] = <<"[">> /\ xs[n + 3] = <<"]">>
  BY <1>2, <1>3, <1>5, OpeningIs, CharsAre
<1>8. \A i \in 1 .. n : xs[i + 2] = Around(list[i])
  BY <1>2, <1>3, <1>5, CharsAre
<1>9. <<"[">> \in Seq(Symbol(Char)) /\ <<"]">> \in Seq(Symbol(Char))
  <2>1. "[" \in Symbol(Char) /\ "]" \in Symbol(Char)
    BY DEF Symbol, Marks
  <2> QED
    BY <2>1
<1>10. ASSUME NEW i \in 1 .. n + 3 PROVE xs[i] \in Seq(Symbol(Char))
  <2>1. i = 1 \/ i = 2 \/ i = n + 3 \/ (i - 2 \in 1 .. n /\ i = (i - 2) + 2)
    BY <1>1
  <2>2. CASE i - 2 \in 1 .. n /\ i = (i - 2) + 2
    <3>1. PICK j \in 1 .. n : i = j + 2
      BY <2>2
    <3>2. xs[i] = Around(list[j]) /\ list[j] \in Seq(Char)
      BY <1>1, <1>8, <3>1
    <3> QED
      BY ONLY <3>2, AroundIs
  <2> QED
    BY <1>7, <1>9, <2>1, <2>2, OpeningIs
<1>11. xs \in Seq(Seq(Symbol(Char)))
  BY <1>1, <1>4, <1>10
<1> QED
  BY <1>1, <1>6, <1>7, <1>8, <1>11 DEF KnownPieces, xs, n

\* Only the list's end has a closing bracket.
NoBracket(list) == \A i \in 1 .. Len(list) : \A k \in 1 .. Len(list[i]) : list[i][k] # "]"

\* The text of the list up to its closing bracket.
LEMMA TextIsLaid ==
    ASSUME NEW Char, NEW list, NEW xs, KnownPieces(xs, list, Char),
           NEW o, NEW t \in Seq(Symbol(Char)), Places(o, xs, t),
           NoBracket(list),
           NEW l, Len(t) = l + 1, l \in Nat, NEW s, s = SubSeq(t, 1, l)
    PROVE  /\ t[l + 1] = "]" /\ \A p \in 1 .. l : t[p] # "]"
           /\ \E w : Laid(w, list, s, Char)
<1> DEFINE n == Len(list)
<1>1. /\ n \in Nat /\ Len(xs) = n + 3
      /\ xs[1] = Opening /\ xs[2] = <<"[">> /\ xs[n + 3] = <<"]">>
      /\ \A i \in 1 .. n : xs[i + 2] = Around(list[i]) /\ list[i] \in Seq(Char)
  BY DEF KnownPieces
<1>2. /\ \A i \in 1 .. Len(xs) : o[i] \in Nat
      /\ \A i \in 1 .. Len(xs) : \A k \in 1 .. Len(xs[i]) :
            o[i] + k \in 1 .. Len(t) /\ t[o[i] + k] = xs[i][k]
      /\ \A i, j \in 1 .. Len(xs) : i < j => o[i] + Len(xs[i]) <= o[j]
      /\ \A p \in 1 .. Len(t) :
            \E i \in 1 .. Len(xs) : \E k \in 1 .. Len(xs[i]) : p = o[i] + k
  BY DEF Places
<1>3. /\ Len(xs[1]) = 4 /\ Len(xs[2]) = 1 /\ Len(xs[n + 3]) = 1
      /\ xs[1][1] = "quote" /\ xs[1][2] = "known_merchants" /\ xs[1][3] = "quote"
      /\ xs[1][4] = "colon" /\ xs[2][1] = "[" /\ xs[n + 3][1] = "]"
  BY <1>1, OpeningIs
<1>4. ASSUME NEW i \in 1 .. n
      PROVE  LET x == xs[i + 2]
             IN  /\ Len(list[i]) \in Nat /\ Len(x) = Len(list[i]) + 3 /\ x[1] = "quote"
                 /\ x[Len(list[i]) + 2] = "quote" /\ x[Len(list[i]) + 3] = "comma"
                 /\ \A k \in 1 .. Len(list[i]) : x[k + 1] = list[i][k] /\ list[i][k] # "]"
  <2>1. list[i] \in Seq(Char) /\ xs[i + 2] = Around(list[i])
    BY <1>1
  <2>2. \A k \in 1 .. Len(list[i]) : list[i][k] # "]"
    BY DEF NoBracket
  <2> QED
    BY ONLY <2>1, <2>2, AroundIs
<1> HIDE DEF n
<1>5. /\ 1 \in 1 .. Len(xs) /\ 2 \in 1 .. Len(xs) /\ n + 3 \in 1 .. Len(xs)
      /\ \A i \in 1 .. n : i + 2 \in 1 .. Len(xs) /\ i + 2 > 2 /\ i + 2 < n + 3
  BY <1>1
<1>6. ASSUME NEW i \in 1 .. Len(xs)
      PROVE  i = 1 \/ i = 2 \/ i = n + 3 \/ \E j \in 1 .. n : i = j + 2
  <2>1. i = 1 \/ i = 2 \/ i = n + 3 \/ (i - 2 \in 1 .. n /\ i = (i - 2) + 2)
    BY <1>1
  <2> QED
    BY <2>1
<1>7. \A i \in 1 .. Len(xs) : Len(xs[i]) \in Nat /\ Len(xs[i]) >= 1
  <2>1. ASSUME NEW j \in 1 .. n PROVE Len(xs[j + 2]) \in Nat /\ Len(xs[j + 2]) >= 1
    BY <1>4
  <2>2. /\ Len(xs[1]) \in Nat /\ Len(xs[1]) >= 1 /\ Len(xs[2]) \in Nat /\ Len(xs[2]) >= 1
        /\ Len(xs[n + 3]) \in Nat /\ Len(xs[n + 3]) >= 1
    BY ONLY <1>3
  <2> QED
    BY ONLY <1>6, <2>1, <2>2
\* The first two pieces and the last.
<1>8. o[1] = 0
  <2>1. 1 \in 1 .. Len(t)
    <3>1. 1 \in 1 .. Len(xs[1])
      BY <1>3
    <3>2. o[1] + 1 \in 1 .. Len(t) /\ o[1] \in Nat
      BY <1>2, <1>5, <3>1
    <3> QED
      BY ONLY <3>2, Len(t) = l + 1, l \in Nat
  <2>2. PICK j \in 1 .. Len(xs) : \E k \in 1 .. Len(xs[j]) : 1 = o[j] + k
    BY <1>2, <2>1
  <2>3. PICK k \in 1 .. Len(xs[j]) : 1 = o[j] + k
    BY <2>2
  <2>4. o[j] \in Nat /\ o[1] \in Nat /\ Len(xs[1]) = 4
    BY <1>2, <1>3, <1>5
  <2>5. o[j] = 0
    BY ONLY <2>3, <2>4, k \in 1 .. Len(xs[j])
  <2>6. j = 1
    <3>1. ASSUME 1 < j PROVE FALSE
      <4>1. o[1] + Len(xs[1]) <= o[j]
        BY <1>2, <1>5, <3>1
      <4> QED
        BY ONLY <2>4, <2>5, <4>1
    <3> QED
      BY ONLY <3>1, j \in 1 .. Len(xs)
  <2> QED
    BY <2>5, <2>6
<1>9. o[2] = 4
  <2>1. o[1] + Len(xs[1]) + 1 \in 1 .. Len(t)
    <3>1. o[1] + Len(xs[1]) <= o[2] /\ o[2] \in Nat
      BY <1>2, <1>5
    <3>2. 1 \in 1 .. Len(xs[2])
      BY <1>3
    <3>3. o[2] + 1 \in 1 .. Len(t)
      BY <1>2, <1>5, <3>2
    <3> QED
      BY ONLY <1>3, <1>8, <3>1, <3>3, Len(t) = l + 1, l \in Nat
  <2>2. PICK j \in 1 .. Len(xs) : Joint(o, xs, t, 1, j)
    <3>1. Len(xs) \in Nat /\ (\A i \in 1 .. Len(xs) : Len(xs[i]) \in Nat) /\ 1 \in 1 .. Len(xs)
      BY <1>1, <1>5, <1>7
    <3> QED
      BY ONLY <2>1, <3>1, Places(o, xs, t), NextPiece
  <2>3. j > 1 /\ o[j] = 4
    BY <1>3, <1>8, <2>2 DEF Joint
  <2>4. j = 2
    <3>1. ASSUME 2 < j PROVE FALSE
      <4>1. o[2] + Len(xs[2]) <= o[j] /\ o[1] + Len(xs[1]) <= o[2] /\ o[2] \in Nat
        BY <1>2, <1>5, <3>1
      <4> QED
        BY ONLY <1>3, <1>8, <2>3, <4>1
    <3> QED
      BY ONLY <2>3, <3>1, j \in 1 .. Len(xs)
  <2> QED
    BY <2>3, <2>4
<1>10. o[n + 3] = l
  <2>1. o[n + 3] \in Nat /\ o[n + 3] + 1 \in 1 .. Len(t)
    <3>1. 1 \in 1 .. Len(xs[n + 3])
      BY <1>3
    <3> QED
      BY <1>2, <1>5, <3>1
  <2>2. ASSUME o[n + 3] < l PROVE FALSE
    <3>1. o[n + 3] + Len(xs[n + 3]) + 1 \in 1 .. Len(t)
      BY ONLY <1>3, <2>1, <2>2, Len(t) = l + 1, l \in Nat
    <3>2. PICK j \in 1 .. Len(xs) : Joint(o, xs, t, n + 3, j)
      <4>1. Len(xs) \in Nat /\ (\A i \in 1 .. Len(xs) : Len(xs[i]) \in Nat)
            /\ n + 3 \in 1 .. Len(xs)
        BY <1>1, <1>5, <1>7
      <4> QED
        BY ONLY <3>1, <4>1, Places(o, xs, t), NextPiece
    <3>3. j > n + 3
      BY <3>2 DEF Joint
    <3> QED
      BY <1>1, <3>3
  <2> QED
    BY ONLY <2>1, <2>2, Len(t) = l + 1, l \in Nat
<1>11. t[l + 1] = "]"
  <2>1. 1 \in 1 .. Len(xs[n + 3])
    BY <1>3
  <2>2. t[o[n + 3] + 1] = xs[n + 3][1]
    BY <1>2, <1>5, <2>1
  <2> QED
    BY <1>3, <1>10, <2>2
<1>12. /\ t[1] = "quote" /\ t[2] = "known_merchants" /\ t[3] = "quote" /\ t[4] = "colon"
       /\ t[5] = "["
  <2>1. 1 \in 1 .. Len(xs[1]) /\ 2 \in 1 .. Len(xs[1]) /\ 3 \in 1 .. Len(xs[1])
        /\ 4 \in 1 .. Len(xs[1]) /\ 1 \in 1 .. Len(xs[2])
    BY <1>3
  <2>2. /\ t[o[1] + 1] = xs[1][1] /\ t[o[1] + 2] = xs[1][2] /\ t[o[1] + 3] = xs[1][3]
        /\ t[o[1] + 4] = xs[1][4] /\ t[o[2] + 1] = xs[2][1]
    BY <1>2, <1>5, <2>1
  <2>3. 0 + 1 = 1 /\ 0 + 2 = 2 /\ 0 + 3 = 3 /\ 0 + 4 = 4 /\ 4 + 1 = 5
    OBVIOUS
  <2> QED
    BY ONLY <1>3, <1>8, <1>9, <2>2, <2>3
<1>13. l >= 5
  <2>1. o[2] + Len(xs[2]) <= o[n + 3]
    <3>1. 2 < n + 3
      BY <1>1
    <3> QED
      BY <1>2, <1>5, <3>1
  <2> QED
    BY <1>3, <1>9, <1>10, <2>1
\* A piece that begins within the section, behind the bracket, is a name's.
<1>14. ASSUME NEW i \in 1 .. Len(xs), i >= 2, o[i] + Len(xs[i]) + 1 <= l
       PROVE  t[o[i] + Len(xs[i]) + 1] = "quote"
  <2>1. o[i] \in Nat /\ Len(xs[i]) \in Nat
    BY <1>2, <1>7
  <2>2. o[i] + Len(xs[i]) + 1 \in 1 .. Len(t)
    BY ONLY <1>14, <2>1, Len(t) = l + 1, l \in Nat
  <2>3. PICK j \in 1 .. Len(xs) : Joint(o, xs, t, i, j)
    <3>1. Len(xs) \in Nat /\ \A m \in 1 .. Len(xs) : Len(xs[m]) \in Nat
      BY <1>1, <1>7
    <3> QED
      BY ONLY <2>2, <3>1, i \in 1 .. Len(xs), Places(o, xs, t), NextPiece
  <2>4. j > i /\ o[j] = o[i] + Len(xs[i]) /\ t[o[j] + 1] = xs[j][1]
    BY <2>3 DEF Joint
  <2>5. j # 1 /\ j # 2
    BY ONLY <1>14, <2>4, i \in 1 .. Len(xs)
  <2>6. j # n + 3
    <3>1. o[j] + 1 <= l
      BY ONLY <1>14, <2>1, <2>4
    <3> QED
      BY ONLY <1>10, <3>1, l \in Nat
  <2>7. PICK m \in 1 .. n : j = m + 2
    BY <1>6, <2>5, <2>6
  <2>8. xs[j][1] = "quote"
    BY <1>4, <2>7
  <2> QED
    BY ONLY <2>4, <2>8
<1>15. s \in Seq(Symbol(Char)) /\ Len(s) = l /\ \A p \in 1 .. l : s[p] = t[p]
  BY l \in Nat, Len(t) = l + 1
<1>16. 6 <= l => t[6] = "quote"
  <2>1. o[2] + Len(xs[2]) + 1 = 6 /\ 2 >= 2
    BY ONLY <1>3, <1>9
  <2> QED
    BY <1>5, <1>14, <2>1
<1> DEFINE w == [i \in 1 .. n |-> o[i + 2]]
<1>17. \A i \in 1 .. n : w[i] = o[i + 2]
  OBVIOUS
<1> HIDE DEF w
<1>18. ASSUME NEW i \in 1 .. n
       PROVE  /\ w[i] \in Nat /\ w[i] >= 5 /\ w[i] + Len(list[i]) + 3 <= l
              /\ t[w[i] + 1] = "quote"
              /\ t[w[i] + Len(list[i]) + 2] = "quote"
              /\ t[w[i] + Len(list[i]) + 3] = "comma"
              /\ w[i] + Len(list[i]) + 4 <= l => t[w[i] + Len(list[i]) + 4] = "quote"
              /\ \A k \in 1 .. Len(list[i]) : t[w[i] + 1 + k] = list[i][k]
  <2> DEFINE x == xs[i + 2]
             m == Len(list[i])
             a == w[i]
  <2>1. /\ m \in Nat /\ Len(x) = m + 3 /\ x[1] = "quote" /\ x[m + 2] = "quote"
        /\ x[m + 3] = "comma" /\ \A k \in 1 .. m : x[k + 1] = list[i][k]
    BY <1>4
  <2>2. i + 2 \in 1 .. Len(xs) /\ 2 < i + 2 /\ i + 2 < n + 3 /\ a = o[i + 2]
    <3>1. a = o[i + 2]
      BY ONLY <1>17, i \in 1 .. n
    <3> HIDE DEF a
    <3>2. i \in Nat /\ 1 <= i /\ i <= n
      BY ONLY <1>5, i \in 1 .. n
    <3>3. i + 2 \in 1 .. n + 3 /\ 2 < i + 2 /\ i + 2 < n + 3
      BY ONLY <1>5, <3>2
    <3> QED
      BY ONLY <1>5, <3>1, <3>3
  <2>3. /\ a \in Nat /\ o[2] + Len(xs[2]) <= a /\ a + Len(x) <= o[n + 3]
        /\ \A k \in 1 .. Len(x) : t[a + k] = x[k]
    <3> DEFINE h == i + 2
    <3>1. h \in 1 .. Len(xs) /\ 2 < h /\ h < n + 3 /\ a = o[h] /\ x = xs[h]
      BY <2>2
    <3> HIDE DEF h, a, x
    <3>2. a \in Nat /\ \A k \in 1 .. Len(x) : t[a + k] = x[k]
      BY ONLY <1>2, <3>1
    <3>3. o[2] + Len(xs[2]) <= a /\ a + Len(x) <= o[n + 3]
      BY ONLY <1>2, <1>5, <3>1
    <3> QED
      BY ONLY <3>2, <3>3
  <2>4. a + Len(x) + 1 <= l => t[a + Len(x) + 1] = "quote"
    <3>1. i + 2 >= 2
      OBVIOUS
    <3> QED
      BY <1>14, <2>2, <3>1
  <2> HIDE DEF x, m, a
  <2>5. a >= 5 /\ a + m + 3 <= l
    BY ONLY <1>3, <1>9, <1>10, <2>1, <2>3
  <2>6. Copied(t, a, x, m, l)
    <3>1. \A k \in 1 .. m + 3 : t[a + k] = x[k] /\ a + k <= l
      <4>1. \A k \in 1 .. m + 3 : t[a + k] = x[k]
        BY ONLY <2>1, <2>3
      <4>2. a \in Nat /\ m \in Nat
        BY ONLY <2>1, <2>3
      <4>3. \A k \in 1 .. m + 3 : a + k <= l
        BY ONLY <2>5, <4>2, l \in Nat
      <4> QED
        BY ONLY <4>1, <4>3
    <3> QED
      BY ONLY <2>1, <2>3, <3>1, l \in Nat DEF Copied
  <2>7. /\ t[a + 1] = x[1] /\ t[a + m + 2] = x[m + 2] /\ t[a + m + 3] = x[m + 3]
        /\ \A k \in 1 .. m : t[a + 1 + k] = x[k + 1]
    BY ONLY <2>6, CopiedIs
  <2>8. a + m + 4 <= l => t[a + m + 4] = "quote"
    <3>1. a + Len(x) + 1 = a + m + 4
      BY ONLY <2>1, <2>3
    <3> QED
      BY ONLY <2>4, <3>1
  <2>9. \A k \in 1 .. m : t[a + 1 + k] = list[i][k]
    BY ONLY <2>1, <2>7
  <2> QED
    BY ONLY <2>1, <2>3, <2>5, <2>7, <2>8, <2>9 DEF a, m
<1>19. ASSUME NEW p \in 1 .. l, ~(p <= 5)
       PROVE  \E i \in 1 .. n : p \in w[i] + 1 .. w[i] + Len(list[i]) + 3
  <2>1. p \in 1 .. Len(t)
    BY ONLY p \in 1 .. l, Len(t) = l + 1, l \in Nat
  <2>2. PICK j \in 1 .. Len(xs) : \E k \in 1 .. Len(xs[j]) : p = o[j] + k
    BY <1>2, <2>1
  <2>3. PICK k \in 1 .. Len(xs[j]) : p = o[j] + k
    BY <2>2
  <2>4. o[j] \in Nat /\ k \in Nat /\ 1 <= k /\ k <= Len(xs[j]) /\ Len(xs[j]) \in Nat
    BY <1>2, <1>7
  <2>5. j # 1
    <3>1. ASSUME j = 1 PROVE FALSE
      <4>1. p = 0 + k /\ k <= 4
        BY <1>3, <1>8, <2>3, <2>4, <3>1
      <4> QED
        BY ONLY <1>19, <2>4, <4>1
    <3> QED
      BY <3>1
  <2>6. j # 2
    <3>1. ASSUME j = 2 PROVE FALSE
      <4>1. p = 4 + k /\ k <= 1
        BY <1>3, <1>9, <2>3, <2>4, <3>1
      <4> QED
        BY ONLY <1>19, <2>4, <4>1
    <3> QED
      BY <3>1
  <2>7. j # n + 3
    <3>1. ASSUME j = n + 3 PROVE FALSE
      <4>1. p = l + k
        BY <1>10, <2>3, <3>1
      <4> QED
        BY ONLY <2>4, <4>1, p \in 1 .. l, l \in Nat
    <3> QED
      BY <3>1
  <2>8. PICK i \in 1 .. n : j = i + 2
    BY <1>6, <2>5, <2>6, <2>7
  <2> DEFINE a == w[i]
             m == Len(list[i])
  <2>9. a = o[j] /\ Len(xs[j]) = m + 3 /\ m \in Nat
    BY <1>4, <1>17, <2>8
  <2>10. p \in a + 1 .. a + m + 3
    <3> HIDE DEF a, m
    <3>1. a \in Nat /\ p = a + k /\ k <= m + 3
      BY ONLY <2>3, <2>4, <2>9
    <3> QED
      BY ONLY <2>4, <2>9, <3>1, SMTT(30)
  <2> QED
    BY <2>10
<1>20. ASSUME NEW p \in 1 .. l, t[p] = "]" PROVE FALSE
  <2>1. CASE p <= 5
    <3>1. p = 1 \/ p = 2 \/ p = 3 \/ p = 4 \/ p = 5
      BY ONLY <2>1, p \in 1 .. l
    <3> QED
      BY <1>12, <1>20, <3>1
  <2>2. CASE ~(p <= 5)
    <3>1. PICK i \in 1 .. n : p \in w[i] + 1 .. w[i] + Len(list[i]) + 3
      BY <1>19, <2>2
    <3> DEFINE a == w[i]
               m == Len(list[i])
    <3>2. /\ a \in Nat /\ t[a + 1] = "quote" /\ t[a + m + 2] = "quote" /\ t[a + m + 3] = "comma"
          /\ \A k \in 1 .. m : t[a + 1 + k] = list[i][k]
      BY <1>18
    <3>3. m \in Nat /\ \A k \in 1 .. m : list[i][k] # "]"
      BY <1>4
    <3>4. p \in a + 1 .. a + m + 3
      BY <3>1
    <3> HIDE DEF a, m
    <3>5. p = a + 1 \/ p = a + m + 2 \/ p = a + m + 3
          \/ (p - a - 1 \in 1 .. m /\ p = a + 1 + (p - a - 1))
      BY ONLY <3>2, <3>3, <3>4
    <3>6. CASE p - a - 1 \in 1 .. m /\ p = a + 1 + (p - a - 1)
      <4>1. PICK k \in 1 .. m : p = a + 1 + k
        BY <3>6
      <4> QED
        BY <1>20, <3>2, <3>3, <4>1
    <3> QED
      BY <1>20, <3>2, <3>5, <3>6
  <2> QED
    BY <2>1, <2>2
<1>21. Laid(w, list, s, Char)
  <2>1. ASSUME NEW i \in 1 .. Len(list)
        PROVE  /\ w[i] \in Nat /\ w[i] >= 5 /\ w[i] + Len(list[i]) + 3 <= Len(s)
               /\ s[w[i] + 1] = "quote"
               /\ s[w[i] + Len(list[i]) + 2] = "quote"
               /\ s[w[i] + Len(list[i]) + 3] = "comma"
               /\ w[i] + Len(list[i]) + 4 <= Len(s) => s[w[i] + Len(list[i]) + 4] = "quote"
               /\ \A k \in 1 .. Len(list[i]) : s[w[i] + 1 + k] = list[i][k]
    <3> DEFINE a == w[i]
               m == Len(list[i])
    <3>1. i \in 1 .. n
      BY DEF n
    <3>2. /\ a \in Nat /\ a >= 5 /\ a + m + 3 <= l
          /\ t[a + 1] = "quote" /\ t[a + m + 2] = "quote" /\ t[a + m + 3] = "comma"
          /\ a + m + 4 <= l => t[a + m + 4] = "quote"
          /\ \A k \in 1 .. m : t[a + 1 + k] = list[i][k]
      BY <1>18, <3>1
    <3>3. m \in Nat
      BY <1>4, <3>1
    <3> HIDE DEF a, m
    <3>4. /\ a + 1 \in 1 .. l /\ a + m + 2 \in 1 .. l /\ a + m + 3 \in 1 .. l
          /\ a + m + 4 <= l => a + m + 4 \in 1 .. l
          /\ \A k \in 1 .. m : a + 1 + k \in 1 .. l
      BY ONLY <3>2, <3>3, l \in Nat
    <3> QED
      BY ONLY <1>15, <3>2, <3>4 DEF a, m
  <2>2. /\ s[1] = "quote" /\ s[2] = "known_merchants" /\ s[3] = "quote" /\ s[4] = "colon"
        /\ s[5] = "[" /\ (6 <= l => s[6] = "quote")
    <3>1. /\ 1 \in 1 .. l /\ 2 \in 1 .. l /\ 3 \in 1 .. l /\ 4 \in 1 .. l /\ 5 \in 1 .. l
          /\ 6 <= l => 6 \in 1 .. l
      BY ONLY <1>13, l \in Nat
    <3> QED
      BY ONLY <1>12, <1>15, <1>16, <3>1
  <2>3. ASSUME NEW p \in 1 .. Len(s)
        PROVE  p <= 5 \/ \E i \in 1 .. Len(list) : p \in w[i] + 1 .. w[i] + Len(list[i]) + 3
    BY <1>15, <1>19 DEF n
  <2> QED
    BY ONLY <1>13, <1>15, <2>1, <2>2, <2>3 DEF Laid
<1> QED
  BY <1>11, <1>20, <1>21

Fits(b, n, l) == b \in Nat /\ n \in Nat /\ l \in Nat /\ b >= 5 /\ b + n + 3 <= l

LEMMA BehindAQuote ==
    ASSUME NEW b, NEW n, NEW l, Fits(b, n, l)
    PROVE  /\ b + 2 \in 1 .. l + 1 - n /\ b + 2 > 1 /\ (b + 2) - 1 = b + 1 /\ (b + 2) + n = b + n + 2
           /\ (b + 2) + n <= l /\ (b + 2) + n - 1 <= l
BY DEF Fits

LEMMA SameWord ==
    ASSUME NEW S, NEW u \in Seq(S), NEW T, NEW v \in Seq(T), NEW n,
           Len(u) = n, Len(v) = n, \A k \in 1 .. n : u[k] = v[k]
    PROVE  u = v
OBVIOUS

\* An id is found between two quotes exactly if it is one of the list's: no part
\* of another one, nor of two with what is between them
\* (knownMerchantJSON, vectorize_json.go:298-309).
LEMMA TextSearch ==
    ASSUME NEW Char, "quote" \notin Char, NEW list, IsList(list, Char), NEW id \in Seq(Char),
           id \notin {<<"known_merchants">>, <<"comma">>, <<"colon", "[">>},
           NEW t, NEW o, Laid(o, list, t, Char)
    PROVE  (\E q \in Occurrences(t, id) : Quoted(t, id, q))
             <=> \E i \in 1 .. Len(list) : list[i] = id
<1> DEFINE n == Len(id)
<1>1. Laid(o, list, t, Char)
  OBVIOUS
<1>2. n \in Nat /\ \A k \in 1 .. n : id[k] \in Char /\ id[k] # "quote"
  OBVIOUS
<1>3. \A i \in 1 .. Len(list) :
        /\ list[i] \in Seq(Char) /\ Len(list[i]) \in Nat
        /\ \A k \in 1 .. Len(list[i]) : list[i][k] # "quote"
  BY DEF IsList
<1>4. t \in Seq(Symbol(Char)) /\ Len(t) \in Nat
  BY <1>1 DEF Laid
<1>5. ASSUME NEW i \in 1 .. Len(list), list[i] = id
      PROVE  \E q \in Occurrences(t, id) : Quoted(t, id, q)
  <2> DEFINE q == o[i] + 2
  <2>1. /\ o[i] \in Nat /\ o[i] >= 5 /\ o[i] + n + 3 <= Len(t)
        /\ t[o[i] + 1] = "quote" /\ t[o[i] + n + 2] = "quote"
        /\ \A k \in 1 .. n : t[o[i] + 1 + k] = id[k]
    BY <1>1, <1>5 DEF Laid
  <2>2. q \in 1 .. Len(t) + 1 - n /\ q > 1 /\ q - 1 = o[i] + 1 /\ q + n = o[i] + n + 2
        /\ q + n <= Len(t) /\ q + n - 1 <= Len(t)
    <3> HIDE DEF n
    <3>1. n \in Nat /\ Len(t) \in Nat /\ q = o[i] + 2
      BY <1>2, <1>4
    <3>2. o[i] \in Nat /\ o[i] >= 5 /\ o[i] + n + 3 <= Len(t)
      BY <2>1
    <3>3. Fits(o[i], n, Len(t))
      BY ONLY <3>1, <3>2 DEF Fits
    <3> QED
      BY ONLY <3>1, <3>3, BehindAQuote
  <2>3. SubSeq(t, q, q + n - 1) = id
    <3> HIDE DEF q, n
    <3> DEFINE s == SubSeq(t, q, q + n - 1)
    <3>1. s \in Seq(Symbol(Char)) /\ Len(s) = n /\ \A k \in 1 .. n : s[k] = t[q + k - 1]
      BY <1>2, <1>4, <2>2
    <3>2. \A k \in 1 .. n : q + k - 1 = o[i] + 1 + k
      BY <1>2, <2>1 DEF q
    <3>3. \A k \in 1 .. n : s[k] = id[k]
      BY <2>1, <3>1, <3>2
    <3>4. id \in Seq(Char) /\ Len(id) = n
      BY DEF n
    <3> HIDE DEF s
    <3>5. s = id
      BY ONLY <3>1, <3>3, <3>4, SameWord
    <3> QED
      BY ONLY <3>5 DEF s
  <2> HIDE DEF q, n
  <2>4. q \in Occurrences(t, id)
    BY <2>2, <2>3 DEF Occurrences, n
  <2>5. Quoted(t, id, q)
    BY <2>1, <2>2 DEF Quoted, n
  <2> QED
    BY <2>4, <2>5
<1>6. ASSUME NEW q \in Occurrences(t, id), Quoted(t, id, q)
      PROVE  \E i \in 1 .. Len(list) : list[i] = id
  <2>1. /\ q \in Nat /\ q > 1 /\ q + n <= Len(t)
        /\ t[q - 1] = "quote" /\ t[q + n] = "quote" /\ SubSeq(t, q, q + n - 1) = id
    BY <1>2, <1>4, <1>6 DEF Occurrences, Quoted
  <2>2. \A k \in 1 .. n : t[q + k - 1] = id[k]
    <3> HIDE DEF n
    <3> DEFINE s == SubSeq(t, q, q + n - 1)
    <3>1. \A k \in 1 .. n : s[k] = t[q + k - 1]
      BY <1>2, <1>4, <2>1
    <3> QED
      BY <2>1, <3>1
  <2>3. \A p \in q .. q + n - 1 : t[p] # "quote"
    <3> HIDE DEF n
    <3>1. ASSUME NEW p \in q .. q + n - 1 PROVE t[p] # "quote"
      <4>1. p - q + 1 \in 1 .. n /\ q + (p - q + 1) - 1 = p
        BY <1>2, <2>1
      <4> QED
        BY <1>2, <2>2, <4>1
    <3> QED
      BY <3>1
  <2> HIDE DEF n
  <2>4. CASE q - 1 <= 5
    <3>1. q - 1 = 1 \/ q - 1 = 3
      <4>1. q - 1 \in 1 .. 5
        BY <2>1, <2>4
      <4> QED
        BY <1>1, <2>1, <4>1 DEF Laid
    <3>2. CASE q - 1 = 3
      <4>1. q = 4 /\ t[4] = "colon" /\ t[5] = "["
        BY <1>1, <2>1, <3>2 DEF Laid
      <4>2. n # 0 /\ n # 1
        BY <2>1, <4>1
      <4>3. CASE n = 2
        <5>1. id[1] = "colon" /\ id[2] = "["
          <6>1. 1 \in 1 .. n /\ 2 \in 1 .. n /\ q + 1 - 1 = 4 /\ q + 2 - 1 = 5
            BY ONLY <4>1, <4>3
          <6>2. t[q + 1 - 1] = id[1] /\ t[q + 2 - 1] = id[2]
            BY ONLY <2>2, <6>1
          <6> QED
            BY ONLY <4>1, <6>1, <6>2
        <5>2. id = <<"colon", "[">>
          <6>1. id \in Seq(Char) /\ Len(id) = 2
            BY <4>3 DEF n
          <6> DEFINE c == <<"colon", "[">>
          <6>2. /\ c \in Seq({"colon", "["}) /\ Len(c) = 2
                /\ c[1] = "colon" /\ c[2] = "["
            OBVIOUS
          <6> HIDE DEF c
          <6>3. \A k \in 1 .. 2 : id[k] = c[k]
            <7>1. \A k \in 1 .. 2 : k = 1 \/ k = 2
              OBVIOUS
            <7> QED
              BY ONLY <5>1, <6>2, <7>1
          <6>4. id = c
            BY ONLY <6>1, <6>2, <6>3, SameWord
          <6> QED
            BY <6>4 DEF c
        <5> QED
          BY <5>2
      <4>4. CASE n > 2
        <5>1. 6 \in q .. q + n - 1 /\ 6 <= Len(t)
          BY ONLY <1>2, <1>4, <2>1, <4>1, <4>4
        <5>2. t[6] = "quote"
          BY <1>1, <5>1 DEF Laid
        <5> QED
          BY <2>3, <5>1, <5>2
      <4> QED
        BY <1>2, <4>2, <4>3, <4>4
    <3>3. CASE q - 1 = 1
      <4>1. q = 2 /\ t[2] = "known_merchants" /\ t[3] = "quote"
        BY <1>1, <2>1, <3>3 DEF Laid
      <4>2. n # 0
        BY <2>1, <4>1
      <4>3. CASE n = 1
        <5>1. id[1] = "known_merchants"
          <6>1. 1 \in 1 .. n /\ q + 1 - 1 = 2
            BY <4>1, <4>3
          <6> QED
            BY <2>2, <4>1, <6>1
        <5>2. id = <<"known_merchants">>
          <6>1. id = [k \in 1 .. 1 |-> id[k]]
            BY <4>3 DEF n
          <6> QED
            BY <4>3, <5>1, <6>1 DEF n
        <5> QED
          BY <5>2
      <4>4. CASE n > 1
        <5>1. 3 \in q .. q + n - 1
          BY <1>2, <4>1, <4>4
        <5> QED
          BY <2>3, <4>1, <5>1
      <4> QED
        BY <1>2, <4>2, <4>3, <4>4
    <3> QED
      BY <3>1, <3>2, <3>3
  <2>5. CASE ~(q - 1 <= 5)
    <3>1. q - 1 \in 1 .. Len(t)
      BY <1>2, <1>4, <2>1
    <3>2. PICK i \in 1 .. Len(list) : q - 1 \in o[i] + 1 .. o[i] + Len(list[i]) + 3
      BY <1>1, <2>5, <3>1 DEF Laid
    <3> DEFINE m == Len(list[i])
               b == o[i]
    <3>3. /\ b \in Nat /\ m \in Nat
          /\ t[b + 1] = "quote" /\ t[b + m + 2] = "quote" /\ t[b + m + 3] = "comma"
          /\ b + m + 4 <= Len(t) => t[b + m + 4] = "quote"
          /\ \A k \in 1 .. m : t[b + 1 + k] = list[i][k]
          /\ \A k \in 1 .. m : list[i][k] # "quote"
      BY <1>1, <1>3 DEF Laid
    <3>4. q - 1 \in b + 1 .. b + m + 3
      BY <3>2
    <3> HIDE DEF m, b
    <3>5. q - 1 = b + 1 \/ q - 1 = b + m + 2
      <4>1. q - 1 # b + m + 3
        BY <2>1, <3>3
      <4>2. ASSUME q - 1 > b + 1, q - 1 < b + m + 2 PROVE FALSE
        <5>1. q - 1 - b - 1 \in 1 .. m /\ b + 1 + (q - 1 - b - 1) = q - 1
          <6>1. q \in Nat /\ b \in Nat /\ m \in Nat
            BY <2>1, <3>3
          <6> QED
            BY ONLY <4>2, <6>1
        <5>2. t[q - 1] # "quote"
          <6>1. PICK k \in 1 .. m : b + 1 + k = q - 1
            BY <5>1
          <6> QED
            BY ONLY <3>3, <6>1
        <5> QED
          BY <2>1, <5>2
      <4> QED
        BY <2>1, <3>3, <3>4, <4>1, <4>2
    <3>6. CASE q - 1 = b + m + 2
      <4>1. q = b + m + 3 /\ t[q] = "comma"
        <5>1. q = b + m + 3
          BY <2>1, <3>3, <3>6
        <5> QED
          BY <3>3, <5>1
      <4>2. n # 0
        BY <2>1, <4>1
      <4>3. CASE n = 1
        <5>1. id[1] = "comma"
          <6>1. 1 \in 1 .. n /\ q + 1 - 1 = q
            BY <2>1, <4>3
          <6> QED
            BY <2>2, <4>1, <6>1
        <5>2. id = <<"comma">>
          <6>1. id = [k \in 1 .. 1 |-> id[k]]
            BY <4>3 DEF n
          <6> QED
            BY <4>3, <5>1, <6>1 DEF n
        <5> QED
          BY <5>2
      <4>4. CASE n > 1
        <5>1. b + m + 4 \in q .. q + n - 1 /\ b + m + 4 <= Len(t)
          BY ONLY <1>2, <1>4, <2>1, <3>3, <4>1, <4>4
        <5> QED
          BY <2>3, <3>3, <5>1
      <4> QED
        BY <1>2, <4>2, <4>3, <4>4
    <3>7. CASE q - 1 = b + 1
      <4>1. q = b + 2
        BY <2>1, <3>3, <3>7
      <4>2. n = m
        <5>1. ASSUME n < m PROVE FALSE
          <6>1. n + 1 \in 1 .. m /\ b + 1 + (n + 1) = q + n
            BY <1>2, <3>3, <4>1, <5>1
          <6>2. t[b + 1 + (n + 1)] = list[i][n + 1] /\ list[i][n + 1] # "quote"
            BY ONLY <3>3, <6>1
          <6> QED
            BY ONLY <2>1, <6>1, <6>2
        <5>2. ASSUME n > m PROVE FALSE
          <6>1. b + m + 2 \in q .. q + n - 1
            BY <1>2, <3>3, <4>1, <5>2
          <6> QED
            BY <2>3, <3>3, <6>1
        <5> QED
          BY <1>2, <3>3, <5>1, <5>2, SMTT(30)
      <4>3. \A k \in 1 .. n : list[i][k] = id[k]
        <5>1. \A k \in 1 .. n : q + k - 1 = b + 1 + k
          <6>1. b \in Nat /\ n \in Nat
            BY ONLY <1>2, <3>3
          <6> QED
            BY ONLY <4>1, <6>1
        <5> QED
          BY <2>2, <3>3, <4>2, <5>1
      <4>4. list[i] = id
        <5>1. list[i] = [k \in 1 .. m |-> list[i][k]]
          BY <1>3 DEF m
        <5>2. id = [k \in 1 .. n |-> id[k]]
          BY DEF n
        <5> QED
          BY <4>2, <4>3, <5>1, <5>2
      <4> QED
        BY <4>4
    <3> QED
      BY <3>5, <3>6, <3>7
  <2> QED
    BY <2>4, <2>5
<1> QED
  BY <1>5, <1>6


-----------------------------------------------------------------------------
(* The scanner: where the names are in a document.                         *)

\* The name is read once in w, in a key that has something behind it.
Owns(w, name, k) ==
    /\ k \in 1 .. Len(w) /\ k + 1 \in 1 .. Len(w) /\ w[k] = Key(name) /\ Reads(w[k], name)
    /\ \A m \in 1 .. Len(w) : Reads(w[m], name) => m = k
Follows(w, k, tokens) ==
    \A m \in 1 .. Len(tokens) : k + m \in 1 .. Len(w) /\ w[k + m] = tokens[m]
Has(w, name, tokens) == \E k \in 1 .. Len(w) : Owns(w, name, k) /\ Follows(w, k, tokens)
Lacks(w, name) == \A m \in 1 .. Len(w) : ~Reads(w[m], name)

\* A token that no search finds.
Silent(token) == \A name \in Keys : ~Reads(token, name)

LEMMA KeyReads ==
    ASSUME NEW x, NEW y
    PROVE  Reads(Key(x), y) <=> x = y
<1>1. Key(x).t = "key" /\ Key(x).v = <<x>>
  BY DEF Key, Value
<1>2. <<x>> = <<y>> <=> x = y
  OBVIOUS
<1> QED
  BY <1>1, <1>2 DEF Reads

\* A section: its fields in an order, some of them left out.
IsField(field, section) ==
    /\ field[1] \in Keys /\ field[1] # section
    /\ IsTuple(field[2]) /\ Len(field[2]) >= 1
    /\ \A m \in 1 .. Len(field[2]) : Silent(field[2][m])
IsFields(fields, section) ==
    /\ IsTuple(fields)
    /\ \A i, j \in 1 .. Len(fields) : fields[i][1] = fields[j][1] => i = j
    /\ \A i \in 1 .. Len(fields) : IsField(fields[i], section)
Sectioned(fields, section, kept) ==
    <<Key(section), Value("{", 0)>>
    \o FlattenSeq([i \in 1 .. Len(fields) |->
        IF i \in kept THEN <<Key(fields[i][1])>> \o fields[i][2] ELSE << >>])

IsSection(w, fields, section, kept) ==
    /\ IsTuple(w) /\ 2 \in 1 .. Len(w) /\ w[2] = Value("{", 0)
    /\ section \in Keys => Owns(w, section, 1)
    /\ \A i \in kept : Has(w, fields[i][1], fields[i][2])
    /\ \A m \in 1 .. Len(w) : \A name \in Keys :
        Reads(w[m], name) => name = section \/ \E i \in kept : name = fields[i][1]

LEMMA SectionPiece ==
    ASSUME NEW section, NEW fields, IsFields(fields, section),
           NEW kept, kept \subseteq 1 .. Len(fields)
    PROVE  IsSection(Sectioned(fields, section, kept), fields, section, kept)
<1> DEFINE N == 1 .. Len(fields)
           a == Key(section)
           b == Value("{", 0)
           K(i) == Key(fields[i][1])
           T(i) == fields[i][2]
           S == {a, b} \cup {K(i) : i \in N}
                \cup UNION {{T(i)[m] : m \in 1 .. Len(T(i))} : i \in N}
           head == <<a, b>>
           pieces == [i \in N |-> IF i \in kept THEN <<K(i)>> \o T(i) ELSE << >>]
           flat == FlattenSeq(pieces)
           w == head \o flat
<1>1. Len(fields) \in Nat /\ \A i \in kept : i \in N
  BY DEF IsFields, IsTuple
<1>2. /\ \A name : Reads(a, name) <=> section = name
      /\ \A name : ~Reads(b, name)
      /\ \A i \in N : \A name : Reads(K(i), name) <=> fields[i][1] = name
  <2>1. b.t = "{"
    BY DEF Value
  <2>2. \A name : ~Reads(b, name)
    BY <2>1 DEF Reads
  <2> QED
    BY <2>2, KeyReads
<1>3. /\ a \in S /\ b \in S /\ \A i \in N : K(i) \in S
      /\ \A i \in N : \A m \in 1 .. Len(T(i)) : T(i)[m] \in S
  <2> HIDE DEF a, b, K, T, N
  <2>1. a \in S /\ b \in S /\ \A i \in N : K(i) \in S
    OBVIOUS
  <2>2. \A i \in N : \A m \in 1 .. Len(T(i)) : T(i)[m] \in S
    OBVIOUS
  <2> QED
    BY <2>1, <2>2
<1>4. /\ \A i \in N : i \in kept => pieces[i] = <<K(i)>> \o T(i)
      /\ \A i \in N : i \notin kept => pieces[i] = << >>
  <2> DEFINE P(i) == IF i \in kept THEN <<K(i)>> \o T(i) ELSE << >>
  <2>1. pieces = [i \in N |-> P(i)]
    OBVIOUS
  <2> HIDE DEF pieces, P
  <2>2. \A i \in N : pieces[i] = P(i)
    BY <2>1
  <2> QED
    BY <2>2 DEF P
<1>5. w = Sectioned(fields, section, kept)
  BY DEF Sectioned
<1>6. /\ \A i \in N : /\ fields[i][1] \in Keys /\ fields[i][1] # section
                      /\ IsTuple(T(i)) /\ Len(T(i)) >= 1 /\ Len(T(i)) \in Nat
                      /\ \A m \in 1 .. Len(T(i)) : Silent(T(i)[m])
      /\ \A i, j \in N : fields[i][1] = fields[j][1] => i = j
  BY DEF IsFields, IsField, IsTuple
<1> HIDE DEF S, K, T, a, b
<1>7. ASSUME NEW i \in N, i \in kept
      PROVE  /\ pieces[i] \in Seq(S) /\ Len(pieces[i]) = 1 + Len(T(i)) /\ pieces[i][1] = K(i)
             /\ \A m \in 1 .. Len(T(i)) : pieces[i][1 + m] = T(i)[m]
  <2> DEFINE c == <<K(i)>>
             d == T(i)
  <2>1. c \in Seq(S) /\ Len(c) = 1 /\ c[1] = K(i)
    BY <1>3
  <2>2. c \in Seq(S) /\ d \in Seq(S)
    BY <1>3, <1>6, <2>1, AsSequence
  <2>3. pieces[i] = c \o d
    BY <1>4, <1>7
  <2> HIDE DEF c, d, pieces
  <2>4. /\ c \o d \in Seq(S) /\ Len(c \o d) = Len(c) + Len(d)
        /\ \A k \in 1 .. Len(c) : (c \o d)[k] = c[k]
        /\ \A k \in 1 .. Len(d) : (c \o d)[Len(c) + k] = d[k]
    BY ONLY <2>2, Joined
  <2>5. 1 \in 1 .. Len(c)
    BY ONLY <2>1
  <2> QED
    BY ONLY <2>1, <2>3, <2>4, <2>5 DEF d
<1>8. ASSUME NEW i \in N, i \notin kept PROVE pieces[i] \in Seq(S) /\ Len(pieces[i]) = 0
  BY <1>4, <1>8
<1>9. pieces \in Seq(Seq(S)) /\ Len(pieces) = Len(fields)
  <2>1. \A i \in N : pieces[i] \in Seq(S)
    BY <1>7, <1>8
  <2> QED
    BY <1>1, <2>1
<1>10. head \in Seq(S) /\ Len(head) = 2 /\ head[1] = a /\ head[2] = b
  BY <1>3
<1> HIDE DEF head, pieces
<1>11. flat \in Seq(S) /\ \E o : Places(o, pieces, flat)
  BY <1>9, FlattenPlaces
<1>12. PICK o : Places(o, pieces, flat)
  BY <1>11
<1> HIDE DEF flat
<1>13. /\ w \in Seq(S) /\ Len(w) = 2 + Len(flat) /\ Len(flat) \in Nat
       /\ w[1] = a /\ w[2] = b /\ \A p \in 1 .. Len(flat) : w[2 + p] = flat[p]
  <2>1. head \in Seq(S) /\ flat \in Seq(S)
    BY <1>10, <1>11
  <2>2. /\ head \o flat \in Seq(S) /\ Len(head \o flat) = Len(head) + Len(flat)
        /\ Len(flat) \in Nat
        /\ \A k \in 1 .. Len(head) : (head \o flat)[k] = head[k]
        /\ \A k \in 1 .. Len(flat) : (head \o flat)[Len(head) + k] = flat[k]
    BY ONLY <2>1, Joined
  <2>3. 1 \in 1 .. Len(head) /\ 2 \in 1 .. Len(head)
    BY <1>10
  <2> QED
    BY ONLY <1>10, <2>2, <2>3 DEF w
<1> HIDE DEF w
<1>14. IsTuple(w) /\ 1 \in 1 .. Len(w) /\ 2 \in 1 .. Len(w)
  BY <1>13, AsTuple
<1>15. ASSUME NEW p \in 1 .. Len(flat)
       PROVE  Silent(flat[p]) \/ \E i \in kept : p = o[i] + 1 /\ flat[p] = K(i)
  <2>1. PICK i \in 1 .. Len(pieces) : \E k \in 1 .. Len(pieces[i]) : p = o[i] + k
    BY <1>12 DEF Places
  <2>2. PICK k \in 1 .. Len(pieces[i]) : p = o[i] + k
    BY <2>1
  <2>3. i \in N
    BY <1>9
  <2>4. i \in kept
    <3>1. i \notin kept => 1 .. Len(pieces[i]) = {}
      BY <1>8, <2>3
    <3> QED
      BY <3>1
  <2>5. flat[p] = pieces[i][k]
    BY <1>12, <2>2 DEF Places
  <2>6. /\ Len(pieces[i]) = 1 + Len(T(i)) /\ pieces[i][1] = K(i) /\ Len(T(i)) \in Nat
        /\ \A m \in 1 .. Len(T(i)) : pieces[i][1 + m] = T(i)[m] /\ Silent(T(i)[m])
    BY <1>6, <1>7, <2>3, <2>4
  <2>7. CASE k = 1
    BY <2>2, <2>4, <2>5, <2>6, <2>7
  <2>8. CASE k # 1
    <3>1. k - 1 \in 1 .. Len(T(i)) /\ 1 + (k - 1) = k
      BY ONLY <2>6, <2>8, k \in 1 .. Len(pieces[i])
    <3>2. PICK m \in 1 .. Len(T(i)) : 1 + m = k
      BY <3>1
    <3> QED
      BY <2>5, <2>6, <3>2
  <2> QED
    BY <2>7, <2>8
<1>16. ASSUME NEW m \in 1 .. Len(w)
       PROVE  m = 1 \/ m = 2 \/ (m - 2 \in 1 .. Len(flat) /\ w[m] = flat[m - 2])
  <2>1. m = 1 \/ m = 2 \/ (m - 2 \in 1 .. Len(flat) /\ m = 2 + (m - 2))
    BY <1>13
  <2> QED
    BY <1>13, <2>1
<1>17. ASSUME NEW m \in 1 .. Len(w), NEW name \in Keys, Reads(w[m], name)
       PROVE  \/ m = 1 /\ name = section
              \/ \E i \in kept : m = 2 + (o[i] + 1) /\ name = fields[i][1]
  <2>1. CASE m = 1
    BY <1>2, <1>13, <1>17, <2>1
  <2>2. CASE m = 2
    BY <1>2, <1>13, <1>17, <2>2
  <2>3. CASE m - 2 \in 1 .. Len(flat) /\ w[m] = flat[m - 2]
    <3>1. ~Silent(flat[m - 2])
      BY <1>17, <2>3 DEF Silent
    <3>2. PICK i \in kept : m - 2 = o[i] + 1 /\ flat[m - 2] = K(i)
      BY <1>15, <2>3, <3>1
    <3>3. name = fields[i][1]
      BY <1>1, <1>2, <1>17, <2>3, <3>2
    <3>4. m = 2 + (o[i] + 1)
      BY <3>2
    <3> QED
      BY <3>3, <3>4
  <2> QED
    BY <1>16, <2>1, <2>2, <2>3
<1>18. ASSUME NEW i \in kept
       PROVE  LET k == 2 + (o[i] + 1)
              IN  /\ o[i] \in Nat /\ k \in 1 .. Len(w) /\ k + 1 \in 1 .. Len(w) /\ k # 1
                  /\ w[k] = K(i) /\ Follows(w, k, T(i))
  <2>1. i \in N /\ i \in 1 .. Len(pieces)
    BY <1>1, <1>9
  <2>2. /\ Len(pieces[i]) = 1 + Len(T(i)) /\ pieces[i][1] = K(i)
        /\ Len(T(i)) \in Nat /\ Len(T(i)) >= 1
        /\ \A m \in 1 .. Len(T(i)) : pieces[i][1 + m] = T(i)[m]
    BY <1>6, <1>7, <2>1
  <2>3. /\ o[i] \in Nat
        /\ \A m \in 1 .. Len(pieces[i]) :
              o[i] + m \in 1 .. Len(flat) /\ flat[o[i] + m] = pieces[i][m]
    BY <1>12, <2>1 DEF Places
  <2> DEFINE n == Len(T(i))
             k == 2 + (o[i] + 1)
  <2>4. w[k] = K(i) /\ k \in 1 .. Len(w) /\ k # 1
    <3>1. 1 \in 1 .. Len(pieces[i])
      BY ONLY <2>2
    <3>2. o[i] + 1 \in 1 .. Len(flat) /\ flat[o[i] + 1] = K(i)
      BY ONLY <2>2, <2>3, <3>1
    <3> QED
      BY ONLY <1>13, <2>3, <3>2
  <2>5. ASSUME NEW m \in 1 .. n PROVE k + m \in 1 .. Len(w) /\ w[k + m] = T(i)[m]
    <3>1. 1 + m \in 1 .. Len(pieces[i])
      BY ONLY <2>2, m \in 1 .. n
    <3>2. o[i] + (1 + m) \in 1 .. Len(flat) /\ flat[o[i] + (1 + m)] = T(i)[m]
      BY ONLY <2>2, <2>3, <3>1, m \in 1 .. n, SMTT(30)
    <3>3. k + m = 2 + (o[i] + (1 + m))
      <4>1. o[i] \in Nat /\ m \in Nat
        BY ONLY <2>2, <2>3, m \in 1 .. n
      <4> QED
        BY ONLY <4>1
    <3>4. 2 + (o[i] + (1 + m)) \in 1 .. Len(w)
      BY ONLY <1>13, <2>3, <3>2, m \in 1 .. n
    <3> QED
      BY ONLY <1>13, <3>2, <3>3, <3>4
  <2>6. 1 \in 1 .. n
    BY ONLY <2>2
  <2> HIDE DEF k
  <2>7. k + 1 \in 1 .. Len(w)
    BY ONLY <2>5, <2>6
  <2>8. Follows(w, k, T(i))
    BY ONLY <2>5 DEF Follows
  <2> QED
    BY ONLY <2>3, <2>4, <2>7, <2>8 DEF k
<1>19. ASSUME section \in Keys PROVE Owns(w, section, 1)
  <2>1. ASSUME NEW m \in 1 .. Len(w), Reads(w[m], section) PROVE m = 1
    <3>1. \A i \in kept : section # fields[i][1]
      BY <1>1, <1>6
    <3> QED
      BY <1>17, <1>19, <2>1, <3>1
  <2>2. 1 \in 1 .. Len(w) /\ 1 + 1 \in 1 .. Len(w)
    BY <1>14
  <2> QED
    BY <1>2, <1>13, <2>1, <2>2 DEF Owns, a
<1>20. ASSUME NEW i \in kept PROVE Has(w, fields[i][1], fields[i][2])
  <2> DEFINE k == 2 + (o[i] + 1)
  <2>1. i \in N /\ fields[i][1] \in Keys /\ fields[i][1] # section
    BY <1>1, <1>6
  <2>2. ASSUME NEW m \in 1 .. Len(w), Reads(w[m], fields[i][1]) PROVE m = k
    <3>1. PICK j \in kept : m = 2 + (o[j] + 1) /\ fields[i][1] = fields[j][1]
      BY <1>17, <2>1, <2>2
    <3>2. i = j
      BY <1>1, <1>6, <2>1, <3>1
    <3> QED
      BY <3>1, <3>2
  <2>3. /\ k \in 1 .. Len(w) /\ k + 1 \in 1 .. Len(w) /\ w[k] = K(i)
        /\ Follows(w, k, T(i))
    BY <1>18
  <2> HIDE DEF k
  <2>4. Reads(w[k], fields[i][1])
    BY <1>2, <2>1, <2>3
  <2>5. Owns(w, fields[i][1], k)
    BY <2>2, <2>3, <2>4 DEF Owns, K
  <2> QED
    BY <2>3, <2>5 DEF Has, T
<1>21. ASSUME NEW m \in 1 .. Len(w), NEW name \in Keys, Reads(w[m], name)
       PROVE  name = section \/ \E i \in kept : name = fields[i][1]
  BY <1>17, <1>21
<1> QED
  BY <1>5, <1>13, <1>14, <1>19, <1>20, <1>21 DEF b, IsSection

LEMMA FirstPosition ==
    ASSUME NEW doc, Len(doc) \in Nat, NEW name, NEW start \in Nat,
           NEW p \in 1 .. Len(doc), start <= p, Reads(doc[p], name),
           \A q \in start .. Len(doc) : Reads(doc[q], name) => p <= q
    PROVE  Position(doc, name, start) = p
<1> DEFINE found == {i \in FromStart(start) .. Len(doc) : Reads(doc[i], name)}
<1>1. found \subseteq Nat /\ p \in found /\ \A q \in found : p <= q
  BY DEF FromStart
<1> HIDE DEF found
<1>2. Min(found) = p /\ found # {}
  BY <1>1, MinIs
<1> QED
  BY <1>2 DEF Position, found

LEMMA NoPosition ==
    ASSUME NEW doc, Len(doc) \in Nat, NEW name, NEW start \in Nat, start >= 1, Lacks(doc, name)
    PROVE  Position(doc, name, start) = 0
<1> DEFINE found == {i \in FromStart(start) .. Len(doc) : Reads(doc[i], name)}
<1>1. found = {}
  BY DEF FromStart, Lacks
<1> QED
  BY <1>1 DEF Position

\* What is read behind a key.
LEMMA ValueNext ==
    ASSUME NEW doc, Len(doc) \in Nat, NEW types, NEW name, NEW start,
           NEW p \in Nat, p # 0, Position(doc, name, start) = p,
           p + 1 \in 1 .. Len(doc), doc[p + 1].t \in types
    PROVE  ValueAfter(doc, types, name, start) = doc[p + 1]
<1> DEFINE next == {i \in p + 1 .. Len(doc) : doc[i].t \in types}
<1>1. next \subseteq Nat /\ p + 1 \in next /\ \A q \in next : p + 1 <= q
  OBVIOUS
<1> HIDE DEF next
<1>2. Min(next) = p + 1 /\ next # {}
  BY <1>1, MinIs
<1> QED
  BY <1>2 DEF ValueAfter, next

LEMMA NoValue ==
    ASSUME NEW doc, NEW types, NEW name, NEW start, Position(doc, name, start) = 0
    PROVE  ValueAfter(doc, types, name, start) = None
BY DEF ValueAfter

-----------------------------------------------------------------------------
(* A document is its pieces, one after the other.                          *)
IsDocument(doc, pieces, o) ==
    /\ IsTuple(doc) /\ Places(o, pieces, doc) /\ Len(pieces) \in Nat
    /\ \A i \in 1 .. Len(pieces) : IsTuple(pieces[i])

LEMMA DocumentExists ==
    ASSUME NEW pieces, Len(pieces) \in Nat, pieces = [i \in 1 .. Len(pieces) |-> pieces[i]],
           \A i \in 1 .. Len(pieces) : IsTuple(pieces[i])
    PROVE  \E o : IsDocument(FlattenSeq(pieces), pieces, o)
<1> DEFINE S == UNION {{pieces[i][k] : k \in 1 .. Len(pieces[i])} : i \in 1 .. Len(pieces)}
<1>1. \A i \in 1 .. Len(pieces) : \A k \in 1 .. Len(pieces[i]) : pieces[i][k] \in S
  OBVIOUS
<1> HIDE DEF S
<1>2. \A i \in 1 .. Len(pieces) : pieces[i] \in Seq(S)
  BY <1>1, AsSequence
<1>3. pieces \in Seq(Seq(S))
  BY <1>2
<1>4. FlattenSeq(pieces) \in Seq(S) /\ \E o : Places(o, pieces, FlattenSeq(pieces))
  BY <1>3, FlattenPlaces
<1>5. IsTuple(FlattenSeq(pieces))
  BY <1>4, AsTuple
<1> QED
  BY <1>4, <1>5 DEF IsDocument

\* A name read in the document is read in a piece.
ReadAt(pieces, o, q, name) ==
    \E j \in 1 .. Len(pieces) : \E k \in 1 .. Len(pieces[j]) :
        q = o[j] + k /\ Reads(pieces[j][k], name)

LEMMA ReadOfPiece ==
    ASSUME NEW doc, NEW pieces, NEW o, IsDocument(doc, pieces, o),
           NEW q \in 1 .. Len(doc), NEW name, Reads(doc[q], name)
    PROVE  ReadAt(pieces, o, q, name)
<1>1. PICK j \in 1 .. Len(pieces) : \E k \in 1 .. Len(pieces[j]) : q = o[j] + k
  BY DEF IsDocument, Places
<1>2. PICK k \in 1 .. Len(pieces[j]) : q = o[j] + k
  BY <1>1
<1>3. doc[o[j] + k] = pieces[j][k]
  BY DEF IsDocument, Places
<1> QED
  BY <1>2, <1>3 DEF ReadAt

LEMMA NowhereInDocument ==
    ASSUME NEW doc, NEW pieces, NEW o, IsDocument(doc, pieces, o), NEW name,
           \A j \in 1 .. Len(pieces) : Lacks(pieces[j], name)
    PROVE  Lacks(doc, name)
BY ReadOfPiece DEF Lacks, ReadAt

LEMMA FollowsInDocument ==
    ASSUME NEW doc, NEW pieces, NEW o, IsDocument(doc, pieces, o),
           NEW i \in 1 .. Len(pieces), NEW k \in Nat, NEW tokens,
           Follows(pieces[i], k, tokens), o[i] \in Nat
    PROVE  Follows(doc, o[i] + k, tokens)
<1> SUFFICES ASSUME NEW m \in 1 .. Len(tokens)
             PROVE  o[i] + k + m \in 1 .. Len(doc) /\ doc[o[i] + k + m] = tokens[m]
  BY DEF Follows
<1>1. k + m \in 1 .. Len(pieces[i]) /\ pieces[i][k + m] = tokens[m]
  BY DEF Follows
<1>2. o[i] + (k + m) \in 1 .. Len(doc) /\ doc[o[i] + (k + m)] = pieces[i][k + m]
  BY <1>1 DEF IsDocument, Places
<1>3. o[i] + (k + m) = o[i] + k + m
  BY ONLY o[i] \in Nat, k \in Nat, m \in 1 .. Len(tokens)
<1> QED
  BY <1>1, <1>2, <1>3

\* A name searched from the beginning of its piece is found there; so is one
\* searched from anywhere before, if no other piece has it.
Behind(doc, name, start, tokens) ==
    LET p == Position(doc, name, start)
    IN  p \in 1 .. Len(doc) /\ Follows(doc, p, tokens)

OnlyIn(pieces, i, name) == \A j \in 1 .. Len(pieces) : j # i => Lacks(pieces[j], name)

FoundAt(doc, piece, name, start, at, k) ==
    /\ at + k \in 1 .. Len(doc) /\ at + k + 1 \in 1 .. Len(doc)
    /\ doc[at + k + 1] = piece[k + 1] /\ doc[at + k] = Key(name) /\ Reads(doc[at + k], name)
    /\ \A q \in start .. Len(doc) : Reads(doc[q], name) => at + k <= q
    /\ Position(doc, name, start) = at + k

LEMMA FoundInPiece ==
    ASSUME NEW doc, NEW pieces, NEW o, IsDocument(doc, pieces, o),
           NEW i \in 1 .. Len(pieces), NEW name, NEW k, Owns(pieces[i], name, k),
           NEW start \in Nat, 1 <= start, start <= o[i] + k,
           start = o[i] + 1 \/ OnlyIn(pieces, i, name)
    PROVE  FoundAt(doc, pieces[i], name, start, o[i], k)
<1>1. /\ k \in 1 .. Len(pieces[i]) /\ k + 1 \in 1 .. Len(pieces[i])
      /\ pieces[i][k] = Key(name) /\ Reads(pieces[i][k], name)
      /\ \A m \in 1 .. Len(pieces[i]) : Reads(pieces[i][m], name) => m = k
  BY DEF Owns
<1>2. /\ o \in [1 .. Len(pieces) -> Nat] /\ Len(doc) \in Nat /\ Len(pieces) \in Nat
      /\ \A j \in 1 .. Len(pieces) : Len(pieces[j]) \in Nat
  BY DEF IsDocument, IsTuple, Places
<1>3. /\ \A m \in 1 .. Len(pieces[i]) :
            o[i] + m \in 1 .. Len(doc) /\ doc[o[i] + m] = pieces[i][m]
      /\ \A j, l \in 1 .. Len(pieces) : j < l => o[j] + Len(pieces[j]) <= o[l]
  BY DEF IsDocument, Places
<1>4. o[i] \in Nat /\ k \in Nat /\ o[i] + (k + 1) = o[i] + k + 1
  <2>1. o[i] \in Nat
    BY <1>2
  <2>2. k \in Nat
    BY <1>1
  <2> QED
    BY ONLY <2>1, <2>2
<1>5. /\ o[i] + k \in 1 .. Len(doc) /\ o[i] + k + 1 \in 1 .. Len(doc)
      /\ doc[o[i] + k + 1] = pieces[i][k + 1] /\ doc[o[i] + k] = pieces[i][k]
  BY ONLY <1>1, <1>3, <1>4
<1>6. ASSUME NEW q \in start .. Len(doc), Reads(doc[q], name)
      PROVE  o[i] + k <= q
  <2>1. q \in 1 .. Len(doc)
    BY <1>2
  <2>2. PICK j \in 1 .. Len(pieces) : \E m \in 1 .. Len(pieces[j]) :
            q = o[j] + m /\ Reads(pieces[j][m], name)
    <3>1. IsDocument(doc, pieces, o) /\ q \in 1 .. Len(doc) /\ Reads(doc[q], name)
      BY <1>6, <2>1
    <3>2. ReadAt(pieces, o, q, name)
      BY ONLY <3>1, ReadOfPiece
    <3> QED
      BY ONLY <3>2 DEF ReadAt
  <2>3. PICK m \in 1 .. Len(pieces[j]) : q = o[j] + m /\ Reads(pieces[j][m], name)
    BY <2>2
  <2>4. o[j] \in Nat /\ Len(pieces[j]) \in Nat /\ m \in Nat /\ m <= Len(pieces[j])
    BY <1>2
  <2>5. CASE j = i
    BY <1>1, <2>3, <2>4, <2>5
  <2>6. CASE j # i
    <3>1. start = o[i] + 1
      BY <2>3, <2>6 DEF Lacks, OnlyIn
    <3>2. ~(j < i)
      <4>1. ASSUME j < i PROVE FALSE
        <5>1. o[j] + Len(pieces[j]) <= o[i]
          BY <1>3, <4>1
        <5>2. q <= o[i]
          <6>1. q = o[j] + m /\ o[i] \in Nat
            BY <1>4, <2>3
          <6> QED
            BY ONLY <2>4, <5>1, <6>1
        <5>3. o[i] + 1 <= q
          BY ONLY <3>1, q \in start .. Len(doc)
        <5> QED
          BY ONLY <1>4, <2>1, <5>2, <5>3
      <4> QED
        BY <4>1
    <3>3. i < j
      BY <1>2, <2>6, <3>2
    <3>4. o[i] + Len(pieces[i]) <= o[j]
      BY <1>3, <3>3
    <3>5. k <= Len(pieces[i]) /\ Len(pieces[i]) \in Nat
      BY <1>1, <1>2
    <3> QED
      <4>1. o[i] + k <= o[j]
        <5>1. o[i] \in Nat /\ o[j] \in Nat /\ k \in Nat
          BY ONLY <1>4, <2>4
        <5> QED
          BY ONLY <3>4, <3>5, <5>1
      <4>2. o[j] <= q /\ q \in Nat
        BY ONLY <2>3, <2>4
      <4> QED
        BY ONLY <1>4, <2>4, <4>1, <4>2
  <2> QED
    BY <2>5, <2>6
<1>7. doc[o[i] + k] = Key(name) /\ Reads(doc[o[i] + k], name)
  BY <1>1, <1>5
<1>8. Position(doc, name, start) = o[i] + k
  BY <1>2, <1>5, <1>6, <1>7, FirstPosition
<1> QED
  BY <1>5, <1>6, <1>7, <1>8 DEF FoundAt

-----------------------------------------------------------------------------
(* The document of a request.                                              *)
Objects == {"transaction", "customer", "merchant", "terminal", "last_transaction"}
Parts == Objects \cup {"id"}

\* None of the texts is a name that the scanner searches for.
NoNames(r) ==
    /\ IsTuple(r.list)
    /\ \A name \in Keys :
        /\ r.tx # <<name>> /\ r.id # <<name>> /\ r.mcc # <<name>>
        /\ \A i \in 1 .. Len(r.list) : r.list[i] # <<name>>

LEMMA OrdinaryNames ==
    ASSUME NEW r, IsTuple(r.list), Ordinary(r)
    PROVE  NoNames(r)
<1>1. \A name \in Keys : <<name>> \notin {r.tx, r.id, r.mcc} \cup ToSet(r.list)
  BY DEF Ordinary
<1>2. \A i \in 1 .. Len(r.list) : r.list[i] \in ToSet(r.list)
  BY DEF ToSet, IsTuple
<1> QED
  BY <1>1, <1>2 DEF NoNames

\* What no search finds.
LEMMA SilentTokens ==
    /\ \A x : /\ Silent(Value("num", x)) /\ Silent(Value("time", x)) /\ Silent(Value("bool", x))
              /\ Silent(Value("null", x)) /\ Silent(Value("{", x))
              /\ Silent(Value("[", x)) /\ Silent(Value("]", x))
    /\ \A x : (\A name \in Keys : x # <<name>>) => Silent(Value("str", x))
BY DEF Silent, Reads, Value

LEMMA Reversed ==
    ASSUME NEW fields, NEW section, IsFields(fields, section)
    PROVE  /\ IsFields(Reverse(fields), section) /\ Len(Reverse(fields)) = Len(fields)
           /\ \A i \in 1 .. Len(fields) :
                /\ Len(fields) - i + 1 \in 1 .. Len(fields)
                /\ Reverse(fields)[i] = fields[Len(fields) - i + 1]
                /\ Reverse(fields)[Len(fields) - i + 1] = fields[i]
<1> DEFINE n == Len(fields)
           b == Reverse(fields)
<1>1. n \in Nat
  BY DEF IsFields, IsTuple
<1>2. b = [i \in 1 .. n |-> fields[n - i + 1]]
  BY DEF Reverse
<1>3. \A i \in 1 .. n : n - i + 1 \in 1 .. n /\ n - (n - i + 1) + 1 = i
  BY <1>1
<1> HIDE DEF n, b
<1>4. \A i \in 1 .. n : b[i] = fields[n - i + 1] /\ b[n - i + 1] = fields[i]
  BY <1>2, <1>3
<1>5. Len(b) = n /\ b = [i \in 1 .. Len(b) |-> b[i]]
  BY <1>1, <1>2
<1>6. /\ \A i, j \in 1 .. n : fields[i][1] = fields[j][1] => i = j
      /\ \A i \in 1 .. n : IsField(fields[i], section)
  BY DEF IsFields, n
<1>7. ASSUME NEW i \in 1 .. n, NEW j \in 1 .. n, b[i][1] = b[j][1]
      PROVE  i = j
  <2>1. n - i + 1 = n - j + 1
    BY <1>3, <1>4, <1>6, <1>7
  <2> QED
    BY <1>1, <2>1
<1>8. \A i \in 1 .. n : IsField(b[i], section)
  BY <1>3, <1>4, <1>6
<1>9. IsFields(b, section)
  BY <1>1, <1>5, <1>7, <1>8 DEF IsFields, IsTuple
<1> QED
  BY <1>3, <1>4, <1>5, <1>9 DEF n, b

LEMMA OneToken ==
    ASSUME NEW name \in Keys, NEW section, name # section, NEW token, Silent(token)
    PROVE  IsField(<<name, <<token>>>>, section)
<1> DEFINE tokens == <<token>>
           field == <<name, tokens>>
<1>1. Len(tokens) = 1 /\ tokens[1] = token /\ tokens = [k \in 1 .. Len(tokens) |-> tokens[k]]
  OBVIOUS
<1> HIDE DEF tokens
<1>2. field[1] = name /\ field[2] = tokens
  OBVIOUS
<1>3. IsTuple(tokens) /\ Len(tokens) >= 1 /\ \A m \in 1 .. Len(tokens) : Silent(tokens[m])
  BY <1>1 DEF IsTuple
<1> HIDE DEF field
<1>4. IsField(field, section)
  BY ONLY <1>2, <1>3, name \in Keys, name # section DEF IsField
<1> QED
  BY <1>4 DEF field, tokens

\* The tokens of a list of texts.
ListTokens(ts, list) ==
    /\ IsTuple(ts) /\ Len(list) \in Nat /\ Len(ts) = Len(list) + 2
    /\ ts[1] = Value("[", 0) /\ ts[Len(list) + 2] = Value("]", 0)
    /\ \A i \in 1 .. Len(list) : ts[1 + i] = Value("str", list[i])

LEMMA ListedIs ==
    ASSUME NEW list, IsTuple(list)
    PROVE  ListTokens(Listed(list), list)
<1> DEFINE n == Len(list)
           texts == [i \in 1 .. n |-> Value("str", list[i])]
           a == Value("[", 0)
           b == Value("]", 0)
           S == {a, b} \cup {Value("str", list[i]) : i \in 1 .. n}
           x == <<a>>
           z == <<b>>
           c == x \o texts
           d == c \o z
<1>1. n \in Nat
  BY DEF IsTuple
<1>2. d = Listed(list)
  BY DEF Listed
<1>3. /\ a \in S /\ b \in S /\ \A i \in 1 .. n : Value("str", list[i]) \in S
  OBVIOUS
<1> HIDE DEF S, n, a, b
<1>4. x \in Seq(S) /\ Len(x) = 1 /\ x[1] = a /\ z \in Seq(S) /\ Len(z) = 1 /\ z[1] = b
  BY <1>3
<1>5. /\ texts \in Seq(S) /\ Len(texts) = n
      /\ \A i \in 1 .. n : texts[i] = Value("str", list[i])
  BY <1>1, <1>3
<1> HIDE DEF x, z, texts
<1>6. /\ c \in Seq(S) /\ Len(c) = Len(x) + Len(texts)
      /\ \A k \in 1 .. Len(x) : c[k] = x[k]
      /\ \A k \in 1 .. Len(texts) : c[Len(x) + k] = texts[k]
  <2>1. x \in Seq(S) /\ texts \in Seq(S)
    BY <1>4, <1>5
  <2> QED
    BY ONLY <2>1, Joined DEF c
<1> HIDE DEF c
<1>7. /\ d \in Seq(S) /\ Len(d) = Len(c) + Len(z)
      /\ \A k \in 1 .. Len(c) : d[k] = c[k]
      /\ \A k \in 1 .. Len(z) : d[Len(c) + k] = z[k]
  <2>1. c \in Seq(S) /\ z \in Seq(S)
    BY <1>4, <1>6
  <2> QED
    BY ONLY <2>1, Joined DEF d
<1> HIDE DEF d
<1>8. Len(c) = 1 + n /\ Len(d) = n + 2
  BY ONLY <1>1, <1>4, <1>5, <1>6, <1>7
<1>9. d[1] = a
  <2>1. 1 \in 1 .. Len(c) /\ 1 \in 1 .. Len(x)
    BY ONLY <1>1, <1>4, <1>8
  <2> QED
    BY ONLY <1>4, <1>6, <1>7, <2>1
<1>10. d[n + 2] = b
  <2>1. 1 \in 1 .. Len(z) /\ Len(c) + 1 = n + 2
    BY ONLY <1>1, <1>4, <1>8
  <2>2. d[Len(c) + 1] = z[1]
    BY ONLY <1>7, <2>1
  <2> QED
    BY ONLY <1>4, <2>1, <2>2
<1>11. ASSUME NEW i \in 1 .. n PROVE d[1 + i] = Value("str", list[i])
  <2>1. 1 + i \in 1 .. Len(c)
    BY ONLY <1>1, <1>8, i \in 1 .. n
  <2>2. i \in 1 .. Len(texts) /\ Len(x) = 1
    BY <1>4, <1>5
  <2>3. c[Len(x) + i] = texts[i]
    BY ONLY <1>6, <2>2
  <2>4. d[1 + i] = c[1 + i]
    BY ONLY <1>7, <2>1
  <2>5. c[1 + i] = texts[i]
    BY ONLY <2>2, <2>3
  <2> QED
    BY <1>5, <2>4, <2>5
<1>12. IsTuple(d)
  BY <1>7, AsTuple
<1>13. ListTokens(d, list)
  BY <1>1, <1>8, <1>9, <1>10, <1>11, <1>12 DEF ListTokens, a, b, n
<1> QED
  BY <1>2, <1>13

LEMMA ListField ==
    ASSUME NEW r, NoNames(r)
    PROVE  IsField(<<"known_merchants", Listed(r.list)>>, "customer")
<1> DEFINE ts == Listed(r.list)
           n == Len(r.list)
           field == <<"known_merchants", ts>>
<1>1. ListTokens(ts, r.list)
  BY ListedIs DEF NoNames
<1> HIDE DEF ts
<1>2. field[1] = "known_merchants" /\ field[2] = ts
  OBVIOUS
<1> HIDE DEF field
<1>3. /\ n \in Nat /\ Len(ts) = n + 2 /\ IsTuple(ts)
      /\ ts[1] = Value("[", 0) /\ ts[n + 2] = Value("]", 0)
      /\ \A i \in 1 .. n : ts[1 + i] = Value("str", r.list[i])
  BY <1>1 DEF ListTokens
<1>4. \A i \in 1 .. n : \A name \in Keys : r.list[i] # <<name>>
  BY DEF NoNames
<1> HIDE DEF n
<1>5. ASSUME NEW m \in 1 .. Len(ts) PROVE Silent(ts[m])
  <2>1. m = 1 \/ m = n + 2 \/ (m - 1 \in 1 .. n /\ m = 1 + (m - 1))
    BY <1>3
  <2>2. CASE m - 1 \in 1 .. n /\ m = 1 + (m - 1)
    <3>1. PICK i \in 1 .. n : m = 1 + i
      BY <2>2
    <3>2. ts[m] = Value("str", r.list[i])
      BY <1>3, <3>1
    <3> QED
      BY <1>4, <3>2, SilentTokens
  <2> QED
    BY <1>3, <2>1, <2>2, SilentTokens
<1>6. "known_merchants" \in Keys /\ "known_merchants" # "customer"
  BY DEF Keys
<1>7. Len(ts) >= 1
  BY <1>3
<1>8. IsField(field, "customer")
  BY <1>2, <1>3, <1>5, <1>6, <1>7 DEF IsField
<1> QED
  BY <1>8 DEF field, ts

LEMMA ThreeFields ==
    ASSUME NEW fields, NEW section, NEW x, NEW y, NEW z, fields = <<x, y, z>>,
           x[1] # y[1], x[1] # z[1], y[1] # z[1],
           IsField(x, section), IsField(y, section), IsField(z, section)
    PROVE  IsFields(fields, section)
<1>1. fields = [i \in 1 .. Len(fields) |-> fields[i]] /\ Len(fields) = 3
      /\ fields[1] = x /\ fields[2] = y /\ fields[3] = z
  OBVIOUS
<1>2. \A i \in 1 .. Len(fields) : i = 1 \/ i = 2 \/ i = 3
  BY <1>1
<1> QED
  BY ONLY <1>1, <1>2, x[1] # y[1], x[1] # z[1], y[1] # z[1],
     IsField(x, section), IsField(y, section), IsField(z, section) DEF IsFields, IsTuple

LEMMA TwoFields ==
    ASSUME NEW fields, NEW section, NEW x, NEW y, fields = <<x, y>>,
           x[1] # y[1], IsField(x, section), IsField(y, section)
    PROVE  IsFields(fields, section)
<1>1. fields = [i \in 1 .. Len(fields) |-> fields[i]] /\ Len(fields) = 2
      /\ fields[1] = x /\ fields[2] = y
  OBVIOUS
<1>2. \A i \in 1 .. Len(fields) : i = 1 \/ i = 2
  BY <1>1
<1> QED
  BY ONLY <1>1, <1>2, x[1] # y[1], IsField(x, section), IsField(y, section)
     DEF IsFields, IsTuple

LEMMA TransactionFields ==
    ASSUME NEW r
    PROVE  LET f == Fields(r, "transaction")
           IN  /\ Len(f) = 3 /\ f = <<f[1], f[2], f[3]>>
               /\ f[1] = <<"amount", <<Value("num", r.amount)>>>>
               /\ f[2] = <<"installments", <<Value("num", r.installments)>>>>
               /\ f[3] = <<"requested_at", <<Value("time", r.requested)>>>>
<1>1. Fields(r, "transaction") =
        << <<"amount", <<Value("num", r.amount)>>>>,
           <<"installments", <<Value("num", r.installments)>>>>,
           <<"requested_at", <<Value("time", r.requested)>>>> >>
  BY DEF Fields
<1> QED
  BY <1>1

LEMMA CustomerFields ==
    ASSUME NEW r
    PROVE  LET f == Fields(r, "customer")
           IN  /\ Len(f) = 3 /\ f = <<f[1], f[2], f[3]>>
               /\ f[1] = <<"avg_amount", <<Value("num", r.customerAvg)>>>>
               /\ f[2] = <<"tx_count_24h", <<Value("num", r.txCount)>>>>
               /\ f[3] = <<"known_merchants", Listed(r.list)>>
<1>1. Fields(r, "customer") =
        << <<"avg_amount", <<Value("num", r.customerAvg)>>>>,
           <<"tx_count_24h", <<Value("num", r.txCount)>>>>,
           <<"known_merchants", Listed(r.list)>> >>
  BY DEF Fields
<1> QED
  BY <1>1

LEMMA MerchantFields ==
    ASSUME NEW r
    PROVE  LET f == Fields(r, "merchant")
           IN  /\ Len(f) = 3 /\ f = <<f[1], f[2], f[3]>>
               /\ f[1] = <<"id", <<Value("str", r.id)>>>>
               /\ f[2] = <<"mcc", <<Value("str", r.mcc)>>>>
               /\ f[3] = <<"avg_amount", <<Value("num", r.merchantAvg)>>>>
<1>1. Fields(r, "merchant") =
        << <<"id", <<Value("str", r.id)>>>>, <<"mcc", <<Value("str", r.mcc)>>>>,
           <<"avg_amount", <<Value("num", r.merchantAvg)>>>> >>
  BY DEF Fields
<1> QED
  BY <1>1

LEMMA TerminalFields ==
    ASSUME NEW r
    PROVE  LET f == Fields(r, "terminal")
           IN  /\ Len(f) = 3 /\ f = <<f[1], f[2], f[3]>>
               /\ f[1] = <<"is_online", <<Value("bool", r.online)>>>>
               /\ f[2] = <<"card_present", <<Value("bool", r.present)>>>>
               /\ f[3] = <<"km_from_home", <<Value("num", r.kmHome)>>>>
<1>1. Fields(r, "terminal") =
        << <<"is_online", <<Value("bool", r.online)>>>>,
           <<"card_present", <<Value("bool", r.present)>>>>,
           <<"km_from_home", <<Value("num", r.kmHome)>>>> >>
  BY DEF Fields
<1> QED
  BY <1>1

LEMMA HistoryFields ==
    ASSUME NEW r
    PROVE  LET f == Fields(r, "last_transaction")
           IN  /\ Len(f) = 2 /\ f = <<f[1], f[2]>>
               /\ f[1] = <<"timestamp", <<Value("time", r.last)>>>>
               /\ f[2] = <<"km_from_current", <<Value("num", r.kmCurrent)>>>>
<1>1. Fields(r, "last_transaction") =
        << <<"timestamp", <<Value("time", r.last)>>>>,
           <<"km_from_current", <<Value("num", r.kmCurrent)>>>> >>
  BY DEF Fields
<1> QED
  BY <1>1

LEMMA AllAreFields ==
    ASSUME NEW r, NoNames(r), NEW section \in Objects
    PROVE  IsFields(Fields(r, section), section)
<1>1. /\ \A name \in {"amount", "installments", "requested_at", "avg_amount", "tx_count_24h",
                       "known_merchants", "id", "mcc", "is_online", "card_present",
                       "km_from_home", "timestamp", "km_from_current"} :
            name \in Keys /\ name \notin Objects
      /\ "id" \in Keys /\ "mcc" \in Keys
  BY DEF Keys, Objects
<1>2. CASE section = "transaction"
  <2> DEFINE f == Fields(r, section)
  <2>1. Len(f) = 3 /\ f = <<f[1], f[2], f[3]>>
    BY <1>2, TransactionFields
  <2>2. IsField(f[1], section) /\ f[1][1] = "amount"
    <3>1. f[1] = <<"amount", <<Value("num", r.amount)>>>>
      BY <1>2, TransactionFields
    <3>2. Silent(Value("num", r.amount))
      BY SilentTokens
    <3>3. "amount" \in Keys /\ "amount" # section
      BY <1>1
    <3>4. IsField(<<"amount", <<Value("num", r.amount)>>>>, section)
      BY ONLY <3>2, <3>3, OneToken
    <3> QED
      BY ONLY <3>1, <3>4
  <2>3. IsField(f[2], section) /\ f[2][1] = "installments"
    <3>1. f[2] = <<"installments", <<Value("num", r.installments)>>>>
      BY <1>2, TransactionFields
    <3>2. Silent(Value("num", r.installments))
      BY SilentTokens
    <3>3. "installments" \in Keys /\ "installments" # section
      BY <1>1
    <3>4. IsField(<<"installments", <<Value("num", r.installments)>>>>, section)
      BY ONLY <3>2, <3>3, OneToken
    <3> QED
      BY ONLY <3>1, <3>4
  <2>4. IsField(f[3], section) /\ f[3][1] = "requested_at"
    <3>1. f[3] = <<"requested_at", <<Value("time", r.requested)>>>>
      BY <1>2, TransactionFields
    <3>2. Silent(Value("time", r.requested))
      BY SilentTokens
    <3>3. "requested_at" \in Keys /\ "requested_at" # section
      BY <1>1
    <3>4. IsField(<<"requested_at", <<Value("time", r.requested)>>>>, section)
      BY ONLY <3>2, <3>3, OneToken
    <3> QED
      BY ONLY <3>1, <3>4
  <2> HIDE DEF f
  <2>5. IsFields(f, section)
    BY ONLY <2>1, <2>2, <2>3, <2>4, ThreeFields
  <2> QED
    BY <2>5 DEF f
<1>3. CASE section = "customer"
  <2> DEFINE f == Fields(r, section)
  <2>1. Len(f) = 3 /\ f = <<f[1], f[2], f[3]>>
    BY <1>3, CustomerFields
  <2>2. IsField(f[1], section) /\ f[1][1] = "avg_amount"
    <3>1. f[1] = <<"avg_amount", <<Value("num", r.customerAvg)>>>>
      BY <1>3, CustomerFields
    <3>2. Silent(Value("num", r.customerAvg))
      BY SilentTokens
    <3>3. "avg_amount" \in Keys /\ "avg_amount" # section
      BY <1>1
    <3>4. IsField(<<"avg_amount", <<Value("num", r.customerAvg)>>>>, section)
      BY ONLY <3>2, <3>3, OneToken
    <3> QED
      BY ONLY <3>1, <3>4
  <2>3. IsField(f[2], section) /\ f[2][1] = "tx_count_24h"
    <3>1. f[2] = <<"tx_count_24h", <<Value("num", r.txCount)>>>>
      BY <1>3, CustomerFields
    <3>2. Silent(Value("num", r.txCount))
      BY SilentTokens
    <3>3. "tx_count_24h" \in Keys /\ "tx_count_24h" # section
      BY <1>1
    <3>4. IsField(<<"tx_count_24h", <<Value("num", r.txCount)>>>>, section)
      BY ONLY <3>2, <3>3, OneToken
    <3> QED
      BY ONLY <3>1, <3>4
  <2>4. IsField(f[3], section) /\ f[3][1] = "known_merchants"
    <3>1. f[3] = <<"known_merchants", Listed(r.list)>>
      BY <1>3, CustomerFields
    <3>2. IsField(<<"known_merchants", Listed(r.list)>>, section)
      BY <1>3, ListField
    <3> QED
      BY ONLY <3>1, <3>2
  <2> HIDE DEF f
  <2>5. IsFields(f, section)
    BY ONLY <2>1, <2>2, <2>3, <2>4, ThreeFields
  <2> QED
    BY <2>5 DEF f
<1>4. CASE section = "merchant"
  <2> DEFINE f == Fields(r, section)
  <2>1. Len(f) = 3 /\ f = <<f[1], f[2], f[3]>>
    BY <1>4, MerchantFields
  <2>2. IsField(f[1], section) /\ f[1][1] = "id"
    <3>1. f[1] = <<"id", <<Value("str", r.id)>>>>
      BY <1>4, MerchantFields
    <3>2. Silent(Value("str", r.id))
      BY SilentTokens DEF NoNames
    <3>3. "id" \in Keys /\ "id" # section
      BY <1>1
    <3>4. IsField(<<"id", <<Value("str", r.id)>>>>, section)
      BY ONLY <3>2, <3>3, OneToken
    <3> QED
      BY ONLY <3>1, <3>4
  <2>3. IsField(f[2], section) /\ f[2][1] = "mcc"
    <3>1. f[2] = <<"mcc", <<Value("str", r.mcc)>>>>
      BY <1>4, MerchantFields
    <3>2. Silent(Value("str", r.mcc))
      BY SilentTokens DEF NoNames
    <3>3. "mcc" \in Keys /\ "mcc" # section
      BY <1>1
    <3>4. IsField(<<"mcc", <<Value("str", r.mcc)>>>>, section)
      BY ONLY <3>2, <3>3, OneToken
    <3> QED
      BY ONLY <3>1, <3>4
  <2>4. IsField(f[3], section) /\ f[3][1] = "avg_amount"
    <3>1. f[3] = <<"avg_amount", <<Value("num", r.merchantAvg)>>>>
      BY <1>4, MerchantFields
    <3>2. Silent(Value("num", r.merchantAvg))
      BY SilentTokens
    <3>3. "avg_amount" \in Keys /\ "avg_amount" # section
      BY <1>1
    <3>4. IsField(<<"avg_amount", <<Value("num", r.merchantAvg)>>>>, section)
      BY ONLY <3>2, <3>3, OneToken
    <3> QED
      BY ONLY <3>1, <3>4
  <2> HIDE DEF f
  <2>5. IsFields(f, section)
    BY ONLY <2>1, <2>2, <2>3, <2>4, ThreeFields
  <2> QED
    BY <2>5 DEF f
<1>5. CASE section = "terminal"
  <2> DEFINE f == Fields(r, section)
  <2>1. Len(f) = 3 /\ f = <<f[1], f[2], f[3]>>
    BY <1>5, TerminalFields
  <2>2. IsField(f[1], section) /\ f[1][1] = "is_online"
    <3>1. f[1] = <<"is_online", <<Value("bool", r.online)>>>>
      BY <1>5, TerminalFields
    <3>2. Silent(Value("bool", r.online))
      BY SilentTokens
    <3>3. "is_online" \in Keys /\ "is_online" # section
      BY <1>1
    <3>4. IsField(<<"is_online", <<Value("bool", r.online)>>>>, section)
      BY ONLY <3>2, <3>3, OneToken
    <3> QED
      BY ONLY <3>1, <3>4
  <2>3. IsField(f[2], section) /\ f[2][1] = "card_present"
    <3>1. f[2] = <<"card_present", <<Value("bool", r.present)>>>>
      BY <1>5, TerminalFields
    <3>2. Silent(Value("bool", r.present))
      BY SilentTokens
    <3>3. "card_present" \in Keys /\ "card_present" # section
      BY <1>1
    <3>4. IsField(<<"card_present", <<Value("bool", r.present)>>>>, section)
      BY ONLY <3>2, <3>3, OneToken
    <3> QED
      BY ONLY <3>1, <3>4
  <2>4. IsField(f[3], section) /\ f[3][1] = "km_from_home"
    <3>1. f[3] = <<"km_from_home", <<Value("num", r.kmHome)>>>>
      BY <1>5, TerminalFields
    <3>2. Silent(Value("num", r.kmHome))
      BY SilentTokens
    <3>3. "km_from_home" \in Keys /\ "km_from_home" # section
      BY <1>1
    <3>4. IsField(<<"km_from_home", <<Value("num", r.kmHome)>>>>, section)
      BY ONLY <3>2, <3>3, OneToken
    <3> QED
      BY ONLY <3>1, <3>4
  <2> HIDE DEF f
  <2>5. IsFields(f, section)
    BY ONLY <2>1, <2>2, <2>3, <2>4, ThreeFields
  <2> QED
    BY <2>5 DEF f
<1>6. CASE section = "last_transaction"
  <2> DEFINE f == Fields(r, section)
  <2>1. Len(f) = 2 /\ f = <<f[1], f[2]>>
    BY <1>6, HistoryFields
  <2>2. IsField(f[1], section) /\ f[1][1] = "timestamp"
    <3>1. f[1] = <<"timestamp", <<Value("time", r.last)>>>>
      BY <1>6, HistoryFields
    <3>2. Silent(Value("time", r.last))
      BY SilentTokens
    <3>3. "timestamp" \in Keys /\ "timestamp" # section
      BY <1>1
    <3>4. IsField(<<"timestamp", <<Value("time", r.last)>>>>, section)
      BY ONLY <3>2, <3>3, OneToken
    <3> QED
      BY ONLY <3>1, <3>4
  <2>3. IsField(f[2], section) /\ f[2][1] = "km_from_current"
    <3>1. f[2] = <<"km_from_current", <<Value("num", r.kmCurrent)>>>>
      BY <1>6, HistoryFields
    <3>2. Silent(Value("num", r.kmCurrent))
      BY SilentTokens
    <3>3. "km_from_current" \in Keys /\ "km_from_current" # section
      BY <1>1
    <3>4. IsField(<<"km_from_current", <<Value("num", r.kmCurrent)>>>>, section)
      BY ONLY <3>2, <3>3, OneToken
    <3> QED
      BY ONLY <3>1, <3>4
  <2> HIDE DEF f
  <2>4. IsFields(f, section)
    BY ONLY <2>1, <2>2, <2>3, TwoFields
  <2> QED
    BY <2>4 DEF f
<1> QED
  BY <1>2, <1>3, <1>4, <1>5, <1>6 DEF Objects

\* A part of the document: the fields that are not left out, behind its name.
\* Only a new customer's last transaction is null.
Whole(r, part) == part \in Objects /\ ~(part = "last_transaction" /\ r.new)

IsPart(w, r, part) ==
    /\ IsTuple(w) /\ 2 \in 1 .. Len(w)
    /\ part \in Keys => Owns(w, part, 1)
    /\ ~Whole(r, part) =>
         \A m \in 1 .. Len(w) : \A name \in Keys : Reads(w[m], name) => name = part
    /\ part = "last_transaction" /\ r.new => w[2] = Value("null", 0)
    /\ Whole(r, part) =>
         /\ w[2] = Value("{", 0)
         /\ \A i \in 1 .. Len(Fields(r, part)) :
              <<part, Fields(r, part)[i][1]>> # r.missing =>
                Has(w, Fields(r, part)[i][1], Fields(r, part)[i][2])
         /\ \A m \in 1 .. Len(w) : \A name \in Keys :
              Reads(w[m], name) =>
                \/ name = part
                \/ \E i \in 1 .. Len(Fields(r, part)) :
                     /\ name = Fields(r, part)[i][1]
                     /\ <<part, Fields(r, part)[i][1]>> # r.missing

LEMMA Pair ==
    ASSUME NEW name, NEW value, Silent(value), NEW w, w = <<Key(name), value>>
    PROVE  /\ IsTuple(w) /\ 2 \in 1 .. Len(w) /\ w[2] = value
           /\ name \in Keys => Owns(w, name, 1)
           /\ \A m \in 1 .. Len(w) : \A x \in Keys : Reads(w[m], x) => x = name
<1>1. /\ Len(w) = 2 /\ w[1] = Key(name) /\ w[2] = value
      /\ w = [k \in 1 .. Len(w) |-> w[k]]
  OBVIOUS
<1>2. \A m \in 1 .. Len(w) : m = 1 \/ m = 2
  BY <1>1
<1>3. 1 \in 1 .. Len(w) /\ 1 + 1 \in 1 .. Len(w) /\ 2 \in 1 .. Len(w)
  BY <1>1
<1>4. \A x : Reads(w[1], x) <=> name = x
  BY <1>1, KeyReads
<1>5. \A x \in Keys : ~Reads(w[2], x)
  BY <1>1 DEF Silent
<1>6. \A m \in 1 .. Len(w) : \A x \in Keys : Reads(w[m], x) => m = 1 /\ x = name
  BY ONLY <1>2, <1>4, <1>5
<1>7. name \in Keys => Owns(w, name, 1)
  BY ONLY <1>1, <1>3, <1>4, <1>6 DEF Owns
<1>8. IsTuple(w)
  BY <1>1 DEF IsTuple
<1> QED
  BY ONLY <1>1, <1>3, <1>6, <1>7, <1>8

LEMMA WrittenWhole ==
    ASSUME NEW r, NEW part \in Objects, Whole(r, part)
    PROVE  LET fields == IF r.reversed THEN Reverse(Fields(r, part)) ELSE Fields(r, part)
               kept == {i \in 1 .. Len(fields) : <<part, fields[i][1]>> # r.missing}
           IN  Written(r, part) = Sectioned(fields, part, kept)
<1> DEFINE fields == IF r.reversed THEN Reverse(Fields(r, part)) ELSE Fields(r, part)
           kept == {i \in 1 .. Len(fields) : <<part, fields[i][1]>> # r.missing}
           tokens == [i \in 1 .. Len(fields) |->
                        IF <<part, fields[i][1]>> # r.missing
                        THEN <<Key(fields[i][1])>> \o fields[i][2] ELSE << >>]
           others == [i \in 1 .. Len(fields) |->
                        IF i \in kept
                        THEN <<Key(fields[i][1])>> \o fields[i][2] ELSE << >>]
<1>1. part # "id" /\ ~(part = "last_transaction" /\ r.new)
  BY DEF Whole, Objects
<1>2. Written(r, part) = <<Key(part), Value("{", 0)>> \o FlattenSeq(tokens)
  BY <1>1 DEF Written
<1>3. tokens = others
  <2> HIDE DEF fields
  <2> QED
    OBVIOUS
<1>4. Sectioned(fields, part, kept) = <<Key(part), Value("{", 0)>> \o FlattenSeq(others)
  BY DEF Sectioned
<1> QED
  BY <1>2, <1>3, <1>4

LEMMA WrittenIs ==
    ASSUME NEW r, NoNames(r), NEW part \in Parts
    PROVE  IsPart(Written(r, part), r, part)
<1> DEFINE w == Written(r, part)
<1>1. CASE part = "id"
  <2>1. w = <<Key("id"), Value("str", r.tx)>>
    BY <1>1 DEF Written
  <2>2. Silent(Value("str", r.tx))
    BY SilentTokens DEF NoNames
  <2> HIDE DEF w
  <2>3. /\ IsTuple(w) /\ 2 \in 1 .. Len(w) /\ ("id" \in Keys => Owns(w, "id", 1))
        /\ \A m \in 1 .. Len(w) : \A x \in Keys : Reads(w[m], x) => x = "id"
    BY <2>1, <2>2, Pair
  <2>4. ~Whole(r, part) /\ part # "last_transaction"
    BY <1>1 DEF Whole, Objects
  <2> QED
    BY <1>1, <2>3, <2>4 DEF IsPart, w
<1>2. CASE part = "last_transaction" /\ r.new
  <2>1. w = <<Key(part), Value("null", 0)>>
    BY <1>2 DEF Written
  <2>2. Silent(Value("null", 0))
    BY SilentTokens
  <2> HIDE DEF w
  <2>3. /\ IsTuple(w) /\ 2 \in 1 .. Len(w) /\ (part \in Keys => Owns(w, part, 1))
        /\ w[2] = Value("null", 0)
        /\ \A m \in 1 .. Len(w) : \A x \in Keys : Reads(w[m], x) => x = part
    BY <2>1, <2>2, Pair
  <2> QED
    BY <1>2, <2>3 DEF IsPart, Whole, w
<1>3. CASE Whole(r, part)
  <2> DEFINE all == Fields(r, part)
             fields == IF r.reversed THEN Reverse(all) ELSE all
             kept == {i \in 1 .. Len(fields) : <<part, fields[i][1]>> # r.missing}
             s == Sectioned(fields, part, kept)
  <2>1. part \in Objects /\ part # "id" /\ ~(part = "last_transaction" /\ r.new)
    BY <1>3 DEF Whole, Objects
  <2>2. w = s
    BY <1>3, <2>1, WrittenWhole
  <2>3. IsFields(all, part)
    BY <2>1, AllAreFields
  <2>4. /\ IsFields(fields, part) /\ Len(fields) = Len(all)
        /\ \A i \in 1 .. Len(all) : \E j \in 1 .. Len(all) : fields[j] = all[i]
        /\ \A i \in 1 .. Len(all) : \E j \in 1 .. Len(all) : fields[i] = all[j]
    <3> HIDE DEF all
    <3>1. CASE r.reversed
      <4>1. fields = Reverse(all)
        BY <3>1
      <4>2. /\ IsFields(Reverse(all), part) /\ Len(Reverse(all)) = Len(all)
            /\ \A i \in 1 .. Len(all) :
                 /\ Len(all) - i + 1 \in 1 .. Len(all)
                 /\ Reverse(all)[i] = all[Len(all) - i + 1]
                 /\ Reverse(all)[Len(all) - i + 1] = all[i]
        BY ONLY <2>3, Reversed
      <4> HIDE DEF fields
      <4> QED
        BY ONLY <4>1, <4>2
    <3>2. CASE ~r.reversed
      BY <2>3, <3>2
    <3> QED
      BY <3>1, <3>2
  <2>5. kept \subseteq 1 .. Len(fields)
    OBVIOUS
  <2>6. \A i \in 1 .. Len(fields) : i \in kept <=> <<part, fields[i][1]>> # r.missing
    OBVIOUS
  <2> HIDE DEF fields, kept
  <2>7. /\ IsTuple(s) /\ 2 \in 1 .. Len(s) /\ (part \in Keys => Owns(s, part, 1))
        /\ s[2] = Value("{", 0)
        /\ \A i \in kept : Has(s, fields[i][1], fields[i][2])
        /\ \A m \in 1 .. Len(s) : \A name \in Keys :
             Reads(s[m], name) => name = part \/ \E i \in kept : name = fields[i][1]
    <3>1. IsFields(fields, part) /\ kept \subseteq 1 .. Len(fields)
      BY <2>4, <2>5
    <3>2. IsSection(s, fields, part, kept)
      BY ONLY <3>1, SectionPiece
    <3> HIDE DEF s
    <3> QED
      BY ONLY <3>2 DEF IsSection
  <2> HIDE DEF s, all, w
  <2>8. ASSUME NEW i \in 1 .. Len(all), <<part, all[i][1]>> # r.missing
        PROVE  Has(s, all[i][1], all[i][2])
    <3>1. PICK j \in 1 .. Len(all) : fields[j] = all[i]
      BY <2>4
    <3>2. j \in kept
      BY <2>4, <2>6, <2>8, <3>1
    <3> QED
      BY <2>7, <3>1, <3>2
  <2>9. ASSUME NEW m \in 1 .. Len(s), NEW name \in Keys, Reads(s[m], name), name # part
        PROVE  \E i \in 1 .. Len(all) : name = all[i][1] /\ <<part, all[i][1]>> # r.missing
    <3>1. PICK j \in kept : name = fields[j][1]
      BY <2>7, <2>9
    <3>2. j \in 1 .. Len(all) /\ <<part, fields[j][1]>> # r.missing
      BY <2>4, <2>5, <2>6
    <3>3. PICK i \in 1 .. Len(all) : fields[j] = all[i]
      BY <2>4, <3>2
    <3> QED
      BY <3>1, <3>2, <3>3
  <2> QED
    BY <1>3, <2>1, <2>2, <2>7, <2>8, <2>9 DEF IsPart, all, w
<1>4. part = "id" \/ (part = "last_transaction" /\ r.new) \/ Whole(r, part)
  BY DEF Parts, Whole
<1> QED
  BY <1>1, <1>2, <1>3, <1>4

\* The parts of a document come in any order.
Ordered(order) ==
    /\ order \in [1 .. 6 -> Parts] /\ Len(order) = 6
    /\ \A part \in Parts : \E i \in 1 .. 6 : order[i] = part
    /\ \A i, j \in 1 .. 6 : order[i] = order[j] => i = j

Arranged(doc, r, pieces, o) ==
    /\ IsDocument(doc, pieces, o) /\ Len(pieces) = 6 /\ Ordered(r.order)
    /\ \A i \in 1 .. 6 : IsPart(pieces[i], r, r.order[i])

LEMMA DocumentIs ==
    ASSUME NEW r, NoNames(r), Ordered(r.order)
    PROVE  \E pieces, o : Arranged(Document(r), r, pieces, o)
<1> DEFINE pieces == [i \in 1 .. 6 |-> Written(r, r.order[i])]
<1>1. Document(r) = FlattenSeq(pieces)
  BY DEF Document, Ordered
<1>2. ASSUME NEW i \in 1 .. 6 PROVE IsPart(pieces[i], r, r.order[i])
  <2>1. r.order[i] \in Parts
    BY DEF Ordered
  <2>2. pieces[i] = Written(r, r.order[i])
    OBVIOUS
  <2> HIDE DEF pieces
  <2> QED
    BY <2>1, <2>2, WrittenIs
<1>3. Len(pieces) = 6 /\ pieces = [i \in 1 .. Len(pieces) |-> pieces[i]]
  OBVIOUS
<1> HIDE DEF pieces
<1>4. \A i \in 1 .. Len(pieces) : IsTuple(pieces[i])
  BY <1>2, <1>3 DEF IsPart
<1>5. \E o : IsDocument(FlattenSeq(pieces), pieces, o)
  BY <1>3, <1>4, DocumentExists
<1> QED
  BY <1>1, <1>2, <1>3, <1>5 DEF Arranged

\* The names in a part, its own and its fields'; only two are in another part too.
Names == [id |-> {"id"},
          transaction |-> {"transaction", "amount", "installments", "requested_at"},
          customer |-> {"customer", "avg_amount", "tx_count_24h", "known_merchants"},
          merchant |-> {"merchant", "id", "mcc", "avg_amount"},
          terminal |-> {"terminal", "is_online", "card_present", "km_from_home"},
          last_transaction |-> {"last_transaction", "timestamp", "km_from_current"}]

\* The names in a part: all of its own, but the one that is left out.
NameLeft(r, part, name) == name \in Names[part] /\ <<part, name>> # r.missing

LEMMA FieldNames ==
    ASSUME NEW r, NEW part \in Objects, NEW i \in 1 .. Len(Fields(r, part))
    PROVE  Fields(r, part)[i][1] \in Names[part] \ Objects
<1>1. CASE part = "transaction"
  <2>1. i = 1 \/ i = 2 \/ i = 3
    <3>1. Len(Fields(r, part)) = 3
      BY <1>1, TransactionFields
    <3>2. i \in 1 .. 3
      BY <3>1
    <3> QED
      BY ONLY <3>2
  <2>2. /\ Fields(r, part)[1][1] = "amount"
        /\ Fields(r, part)[2][1] = "installments"
        /\ Fields(r, part)[3][1] = "requested_at"
    <3> DEFINE x == <<Value("num", r.amount)>>
               y == <<Value("num", r.installments)>>
               z == <<Value("time", r.requested)>>
    <3>1. /\ Fields(r, part)[1] = <<"amount", x>>
          /\ Fields(r, part)[2] = <<"installments", y>>
          /\ Fields(r, part)[3] = <<"requested_at", z>>
      BY <1>1, TransactionFields
    <3> HIDE DEF x, y, z
    <3> QED
      BY ONLY <3>1
  <2>3. Fields(r, part)[i][1] \in {"amount", "installments", "requested_at"}
    BY ONLY <2>1, <2>2
  <2> QED
    BY <1>1, <2>3 DEF Names, Objects
<1>2. CASE part = "customer"
  <2>1. i = 1 \/ i = 2 \/ i = 3
    <3>1. Len(Fields(r, part)) = 3
      BY <1>2, CustomerFields
    <3>2. i \in 1 .. 3
      BY <3>1
    <3> QED
      BY ONLY <3>2
  <2>2. /\ Fields(r, part)[1][1] = "avg_amount"
        /\ Fields(r, part)[2][1] = "tx_count_24h"
        /\ Fields(r, part)[3][1] = "known_merchants"
    <3> DEFINE x == <<Value("num", r.customerAvg)>>
               y == <<Value("num", r.txCount)>>
               z == Listed(r.list)
    <3>1. /\ Fields(r, part)[1] = <<"avg_amount", x>>
          /\ Fields(r, part)[2] = <<"tx_count_24h", y>>
          /\ Fields(r, part)[3] = <<"known_merchants", z>>
      BY <1>2, CustomerFields
    <3> HIDE DEF x, y, z
    <3> QED
      BY ONLY <3>1
  <2>3. Fields(r, part)[i][1] \in {"avg_amount", "tx_count_24h", "known_merchants"}
    BY ONLY <2>1, <2>2
  <2> QED
    BY <1>2, <2>3 DEF Names, Objects
<1>3. CASE part = "merchant"
  <2>1. i = 1 \/ i = 2 \/ i = 3
    <3>1. Len(Fields(r, part)) = 3
      BY <1>3, MerchantFields
    <3>2. i \in 1 .. 3
      BY <3>1
    <3> QED
      BY ONLY <3>2
  <2>2. /\ Fields(r, part)[1][1] = "id"
        /\ Fields(r, part)[2][1] = "mcc"
        /\ Fields(r, part)[3][1] = "avg_amount"
    <3> DEFINE x == <<Value("str", r.id)>>
               y == <<Value("str", r.mcc)>>
               z == <<Value("num", r.merchantAvg)>>
    <3>1. /\ Fields(r, part)[1] = <<"id", x>>
          /\ Fields(r, part)[2] = <<"mcc", y>>
          /\ Fields(r, part)[3] = <<"avg_amount", z>>
      BY <1>3, MerchantFields
    <3> HIDE DEF x, y, z
    <3> QED
      BY ONLY <3>1
  <2>3. Fields(r, part)[i][1] \in {"id", "mcc", "avg_amount"}
    BY ONLY <2>1, <2>2
  <2> QED
    BY <1>3, <2>3 DEF Names, Objects
<1>4. CASE part = "terminal"
  <2>1. i = 1 \/ i = 2 \/ i = 3
    <3>1. Len(Fields(r, part)) = 3
      BY <1>4, TerminalFields
    <3>2. i \in 1 .. 3
      BY <3>1
    <3> QED
      BY ONLY <3>2
  <2>2. /\ Fields(r, part)[1][1] = "is_online"
        /\ Fields(r, part)[2][1] = "card_present"
        /\ Fields(r, part)[3][1] = "km_from_home"
    <3> DEFINE x == <<Value("bool", r.online)>>
               y == <<Value("bool", r.present)>>
               z == <<Value("num", r.kmHome)>>
    <3>1. /\ Fields(r, part)[1] = <<"is_online", x>>
          /\ Fields(r, part)[2] = <<"card_present", y>>
          /\ Fields(r, part)[3] = <<"km_from_home", z>>
      BY <1>4, TerminalFields
    <3> HIDE DEF x, y, z
    <3> QED
      BY ONLY <3>1
  <2>3. Fields(r, part)[i][1] \in {"is_online", "card_present", "km_from_home"}
    BY ONLY <2>1, <2>2
  <2> QED
    BY <1>4, <2>3 DEF Names, Objects
<1>5. CASE part = "last_transaction"
  <2>1. i = 1 \/ i = 2
    <3>1. Len(Fields(r, part)) = 2
      BY <1>5, HistoryFields
    <3>2. i \in 1 .. 2
      BY <3>1
    <3> QED
      BY ONLY <3>2
  <2>2. /\ Fields(r, part)[1][1] = "timestamp"
        /\ Fields(r, part)[2][1] = "km_from_current"
    <3> DEFINE x == <<Value("time", r.last)>>
               y == <<Value("num", r.kmCurrent)>>
    <3>1. /\ Fields(r, part)[1] = <<"timestamp", x>>
          /\ Fields(r, part)[2] = <<"km_from_current", y>>
      BY <1>5, HistoryFields
    <3> HIDE DEF x, y
    <3> QED
      BY ONLY <3>1
  <2>3. Fields(r, part)[i][1] \in {"timestamp", "km_from_current"}
    BY ONLY <2>1, <2>2
  <2> QED
    BY <1>5, <2>3 DEF Names, Objects
<1> QED
  BY <1>1, <1>2, <1>3, <1>4, <1>5 DEF Objects

LEMMA NamesInPart ==
    ASSUME NEW r, NEW part \in Parts, NEW w, IsPart(w, r, part),
           NEW name \in Keys, name # part, ~NameLeft(r, part, name)
    PROVE  Lacks(w, name)
<1> SUFFICES ASSUME NEW m \in 1 .. Len(w), Reads(w[m], name)
             PROVE  FALSE
  BY DEF Lacks
<1>1. CASE ~Whole(r, part)
  BY <1>1 DEF IsPart
<1>2. CASE Whole(r, part)
  <2>1. part \in Objects
    BY <1>2 DEF Whole
  <2>2. PICK i \in 1 .. Len(Fields(r, part)) :
            name = Fields(r, part)[i][1] /\ <<part, Fields(r, part)[i][1]>> # r.missing
    BY <1>2 DEF IsPart
  <2> QED
    BY <2>1, <2>2, FieldNames DEF NameLeft
<1> QED
  BY <1>1, <1>2

\* No object's name is the name of a field.
LEMMA ObjectNames ==
    ASSUME NEW part \in Objects, NEW other \in Parts, other # part
    PROVE  part \notin Names[other]
BY DEF Objects, Parts, Names

LEMMA ObjectFound ==
    ASSUME NEW doc, NEW r, NEW pieces, NEW o, Arranged(doc, r, pieces, o),
           NEW part \in Objects, part \in Keys
    PROVE  \E i \in 1 .. 6 :
              /\ r.order[i] = part /\ Position(doc, part, 1) = o[i] + 1
              /\ o[i] \in Nat /\ Len(doc) \in Nat
              /\ o[i] + 1 \in 1 .. Len(doc) /\ o[i] + 1 + 1 \in 1 .. Len(doc)
              /\ doc[o[i] + 1 + 1] = pieces[i][2]
<1>1. part \in Parts
  BY DEF Parts
<1>2. PICK i \in 1 .. 6 : r.order[i] = part
  BY <1>1 DEF Arranged, Ordered
<1>3. /\ IsDocument(doc, pieces, o) /\ Len(pieces) = 6 /\ Owns(pieces[i], part, 1) /\ part \in Keys
  BY <1>2 DEF Arranged, IsPart
<1>4. ASSUME NEW j \in 1 .. Len(pieces), j # i PROVE Lacks(pieces[j], part)
  <2>1. r.order[j] \in Parts /\ r.order[j] # part /\ IsPart(pieces[j], r, r.order[j])
    BY <1>2, <1>3, <1>4 DEF Arranged, Ordered
  <2>2. part \notin Names[r.order[j]]
    BY <2>1, ObjectNames
  <2>3. ~NameLeft(r, r.order[j], part) /\ part # r.order[j]
    BY <2>1, <2>2 DEF NameLeft
  <2> QED
    BY ONLY <1>3, <2>1, <2>3, NamesInPart
<1>5. o[i] \in Nat /\ Len(doc) \in Nat
  BY <1>3 DEF IsDocument, Places, IsTuple
<1>6. /\ o[i] + 1 \in 1 .. Len(doc) /\ o[i] + 1 + 1 \in 1 .. Len(doc)
      /\ doc[o[i] + 1 + 1] = pieces[i][1 + 1]
      /\ Position(doc, part, 1) = o[i] + 1
  <2>1. 1 \in Nat /\ 1 <= 1 /\ 1 <= o[i] + 1 /\ i \in 1 .. Len(pieces)
    BY <1>3, <1>5
  <2>2. OnlyIn(pieces, i, part)
    BY <1>4 DEF OnlyIn
  <2>3. FoundAt(doc, pieces[i], part, 1, o[i], 1)
    BY ONLY <1>3, <2>1, <2>2, FoundInPiece
  <2> QED
    BY <2>3 DEF FoundAt
<1>7. pieces[i][1 + 1] = pieces[i][2]
  OBVIOUS
<1> QED
  BY ONLY <1>2, <1>5, <1>6, <1>7

\* A field whose name no other part has is found from the beginning, ...
LEMMA FoundAnywhere ==
    ASSUME NEW doc, NEW r, NEW pieces, NEW o, Arranged(doc, r, pieces, o),
           NEW part \in Objects, Whole(r, part),
           NEW f \in 1 .. Len(Fields(r, part)), NEW name \in Keys, NEW tokens,
           Fields(r, part)[f] = <<name, tokens>>, <<part, name>> # r.missing,
           name \notin Objects, \A other \in Parts : other # part => name \notin Names[other]
    PROVE  Behind(doc, name, 1, tokens)
<1>1. part \in Parts /\ name # "id"
  <2>1. part # "id" /\ "id" \in Parts /\ Names["id"] = {"id"}
    BY DEF Parts, Objects, Names
  <2> QED
    BY <2>1 DEF Parts
<1>2. PICK i \in 1 .. 6 : r.order[i] = part
  BY <1>1 DEF Arranged, Ordered
<1>3. IsDocument(doc, pieces, o) /\ Len(pieces) = 6 /\ IsPart(pieces[i], r, part)
  BY <1>2 DEF Arranged
<1>4. PICK k \in 1 .. Len(pieces[i]) : Owns(pieces[i], name, k) /\ Follows(pieces[i], k, tokens)
  <2>1. Fields(r, part)[f][1] = name /\ Fields(r, part)[f][2] = tokens
    OBVIOUS
  <2>2. Has(pieces[i], name, tokens)
    BY <1>3, <2>1 DEF IsPart
  <2> QED
    BY <2>2 DEF Has
<1>5. ASSUME NEW j \in 1 .. Len(pieces), j # i PROVE Lacks(pieces[j], name)
  <2>1. r.order[j] \in Parts /\ r.order[j] # part /\ IsPart(pieces[j], r, r.order[j])
    BY <1>2, <1>3, <1>5 DEF Arranged, Ordered
  <2>2. name # r.order[j]
    BY <1>1, <2>1 DEF Parts
  <2> QED
    BY <2>1, <2>2, NamesInPart DEF NameLeft
<1>6. o[i] \in Nat /\ k \in Nat /\ 1 <= k
  <2>1. o \in [1 .. Len(pieces) -> Nat] /\ i \in 1 .. Len(pieces)
    BY <1>3 DEF IsDocument, Places
  <2> QED
    BY <2>1
<1>7. 1 \in Nat /\ 1 <= 1 /\ 1 <= o[i] + k /\ i \in 1 .. Len(pieces)
  BY <1>3, <1>6
<1>8. /\ o[i] + k \in 1 .. Len(doc) /\ o[i] + k + 1 \in 1 .. Len(doc)
      /\ Position(doc, name, 1) = o[i] + k
  <2>1. OnlyIn(pieces, i, name)
    BY <1>5 DEF OnlyIn
  <2>2. FoundAt(doc, pieces[i], name, 1, o[i], k)
    BY ONLY <1>3, <1>4, <1>7, <2>1, FoundInPiece
  <2> QED
    BY <2>2 DEF FoundAt
<1>9. Follows(doc, o[i] + k, tokens)
  BY <1>3, <1>4, <1>6, <1>7, FollowsInDocument
<1> QED
  BY <1>8, <1>9 DEF Behind

\* ... any other one from its object.
LEMMA FoundInObject ==
    ASSUME NEW doc, NEW r, NEW pieces, NEW o, Arranged(doc, r, pieces, o),
           NEW part \in Objects, part \in Keys, Whole(r, part),
           NEW f \in 1 .. Len(Fields(r, part)), NEW name \in Keys, NEW tokens,
           Fields(r, part)[f] = <<name, tokens>>, <<part, name>> # r.missing
    PROVE  Behind(doc, name, Position(doc, part, 1), tokens)
<1>1. PICK i \in 1 .. 6 : /\ r.order[i] = part /\ Position(doc, part, 1) = o[i] + 1
                          /\ o[i] \in Nat /\ Len(doc) \in Nat
  BY ObjectFound
<1>2. IsDocument(doc, pieces, o) /\ Len(pieces) = 6 /\ IsPart(pieces[i], r, part)
  BY <1>1 DEF Arranged
<1>3. PICK k \in 1 .. Len(pieces[i]) : Owns(pieces[i], name, k) /\ Follows(pieces[i], k, tokens)
  <2>1. Fields(r, part)[f][1] = name /\ Fields(r, part)[f][2] = tokens
    OBVIOUS
  <2>2. Has(pieces[i], name, tokens)
    BY <1>2, <2>1 DEF IsPart
  <2> QED
    BY <2>2 DEF Has
<1> DEFINE start == o[i] + 1
<1>4. start \in Nat /\ 1 <= start /\ start <= o[i] + k /\ i \in 1 .. Len(pieces)
  BY <1>1, <1>2
<1>5. start = o[i] + 1
  OBVIOUS
<1> HIDE DEF start
<1>6. /\ o[i] + k \in 1 .. Len(doc) /\ o[i] + k + 1 \in 1 .. Len(doc)
      /\ Position(doc, name, start) = o[i] + k
  <2>1. FoundAt(doc, pieces[i], name, start, o[i], k)
    BY ONLY <1>2, <1>3, <1>4, <1>5, FoundInPiece
  <2> QED
    BY <2>1 DEF FoundAt
<1>7. k \in Nat
  OBVIOUS
<1>8. Follows(doc, o[i] + k, tokens)
  BY <1>1, <1>2, <1>3, <1>4, <1>7, FollowsInDocument
<1> QED
  BY <1>1, <1>5, <1>6, <1>8 DEF Behind

LEMMA ValueBehind ==
    ASSUME NEW doc, Len(doc) \in Nat, NEW name, NEW start, NEW value,
           Behind(doc, name, start, <<value>>), NEW types, value.t \in types
    PROVE  ValueAfter(doc, types, name, start) = value
<1> DEFINE p == Position(doc, name, start)
           tokens == <<value>>
<1>1. Len(tokens) = 1 /\ tokens[1] = value
  OBVIOUS
<1>2. p \in 1 .. Len(doc) /\ Follows(doc, p, tokens)
  BY DEF Behind
<1> HIDE DEF tokens
<1>3. p \in Nat /\ p # 0 /\ p + 1 \in 1 .. Len(doc) /\ doc[p + 1] = value
  <2>1. 1 \in 1 .. Len(tokens)
    BY <1>1
  <2>2. p + 1 \in 1 .. Len(doc) /\ doc[p + 1] = tokens[1]
    BY <1>2, <2>1 DEF Follows
  <2> QED
    BY <1>1, <1>2, <2>2
<1>4. p = Position(doc, name, start)
  OBVIOUS
<1> HIDE DEF p
<1> QED
  BY <1>3, <1>4, ValueNext

\* Of a complete request everything is found, in whatever order it was written.
CompleteRequest(r) ==
    Ordered(r.order) /\ NoNames(r) /\ r.missing = << >> /\ r.new \in BOOLEAN

LEMMA NothingLeftOut ==
    ASSUME NEW r, CompleteRequest(r), NEW part, NEW name
    PROVE  <<part, name>> # r.missing
BY DEF CompleteRequest

LEMMA TransactionRead ==
    ASSUME NEW r, CompleteRequest(r), NEW pieces, NEW o, NEW doc,
           Arranged(doc, r, pieces, o)
    PROVE  /\ NumberAfter(doc, "amount", 1) = Value("num", r.amount)
           /\ NumberAfter(doc, "installments", 1) = Value("num", r.installments)
           /\ TimeAfter(doc, "requested_at", 1) = Value("time", r.requested)
<1> DEFINE part == "transaction"
<1>1. part \in Objects /\ Whole(r, part) /\ Len(doc) \in Nat
  BY DEF Objects, Whole, Arranged, IsDocument, IsTuple
<1>2. /\ 1 \in 1 .. Len(Fields(r, part)) /\ Fields(r, part)[1] = <<"amount", <<Value("num", r.amount)>>>>
      /\ 2 \in 1 .. Len(Fields(r, part)) /\ Fields(r, part)[2] = <<"installments", <<Value("num", r.installments)>>>>
      /\ 3 \in 1 .. Len(Fields(r, part)) /\ Fields(r, part)[3] = <<"requested_at", <<Value("time", r.requested)>>>>
  <2> DEFINE fields == Fields(r, part)
  <2>1. /\ Len(fields) = 3 /\ fields[1] = <<"amount", <<Value("num", r.amount)>>>>
        /\ fields[2] = <<"installments", <<Value("num", r.installments)>>>>
        /\ fields[3] = <<"requested_at", <<Value("time", r.requested)>>>>
    BY TransactionFields
  <2> HIDE DEF fields
  <2>2. 1 \in 1 .. Len(fields) /\ 2 \in 1 .. Len(fields) /\ 3 \in 1 .. Len(fields)
    BY <2>1
  <2> QED
    BY <2>1, <2>2 DEF fields
<1>3. \A name \in {"amount", "installments", "requested_at"} :
        /\ name \in Keys /\ name \notin Objects /\ <<part, name>> # r.missing
        /\ \A other \in Parts : other # part => name \notin Names[other]
  BY NothingLeftOut DEF Objects, Parts, Names, Keys
<1> HIDE DEF part
<1>4. Behind(doc, "amount", 1, <<Value("num", r.amount)>>)
  BY <1>1, <1>2, <1>3, FoundAnywhere
<1>5. Behind(doc, "installments", 1, <<Value("num", r.installments)>>)
  BY <1>1, <1>2, <1>3, FoundAnywhere
<1>6. Behind(doc, "requested_at", 1, <<Value("time", r.requested)>>)
  BY <1>1, <1>2, <1>3, FoundAnywhere
<1> QED
  BY <1>1, <1>4, <1>5, <1>6, ValueBehind DEF NumberAfter, StringAfter, TimeAfter, Value

Named(r, part, name, value) ==
    \E i \in 1 .. Len(Fields(r, part)) : Fields(r, part)[i] = <<name, <<value>>>>

LEMMA ObjectRead ==
    ASSUME NEW r, CompleteRequest(r), NEW pieces, NEW o, NEW doc,
           Arranged(doc, r, pieces, o), NEW part \in Objects, part \in Keys, Whole(r, part),
           NEW name \in Keys, NEW value, Named(r, part, name, value), NEW types, value.t \in types
    PROVE  ValueAfter(doc, types, name, Position(doc, part, 1)) = value
<1>1. Len(doc) \in Nat
  BY DEF Arranged, IsDocument, IsTuple
<1>2. <<part, name>> # r.missing
  BY NothingLeftOut
<1>3. Behind(doc, name, Position(doc, part, 1), <<value>>)
  BY <1>2, FoundInObject DEF Named
<1> QED
  BY <1>1, <1>3, ValueBehind

LEMMA ObjectsRead ==
    ASSUME NEW r, CompleteRequest(r), NEW pieces, NEW o, NEW doc,
           Arranged(doc, r, pieces, o)
    PROVE  LET customer == Position(doc, "customer", 1)
               merchant == Position(doc, "merchant", 1)
               terminal == Position(doc, "terminal", 1)
               last == Position(doc, "last_transaction", 1)
           IN  /\ NumberAfter(doc, "avg_amount", customer) = Value("num", r.customerAvg)
               /\ NumberAfter(doc, "tx_count_24h", customer) = Value("num", r.txCount)
               /\ StringAfter(doc, "id", merchant) = Value("str", r.id)
               /\ StringAfter(doc, "mcc", merchant) = Value("str", r.mcc)
               /\ NumberAfter(doc, "avg_amount", merchant) = Value("num", r.merchantAvg)
               /\ BoolAfter(doc, "is_online", terminal) = Value("bool", r.online)
               /\ BoolAfter(doc, "card_present", terminal) = Value("bool", r.present)
               /\ NumberAfter(doc, "km_from_home", terminal) = Value("num", r.kmHome)
               /\ ~r.new =>
                    /\ TimeAfter(doc, "timestamp", last) = Value("time", r.last)
                    /\ NumberAfter(doc, "km_from_current", last) = Value("num", r.kmCurrent)
<1>1. /\ "customer" \in Objects /\ Whole(r, "customer")
      /\ "merchant" \in Objects /\ Whole(r, "merchant")
      /\ "terminal" \in Objects /\ Whole(r, "terminal")
      /\ \A name \in {"customer", "merchant", "terminal", "last_transaction", "avg_amount",
                      "tx_count_24h", "id", "mcc", "is_online", "card_present",
                      "km_from_home", "timestamp", "km_from_current"} : name \in Keys
      /\ "last_transaction" \in Objects /\ (~r.new => Whole(r, "last_transaction"))
  BY DEF Objects, Whole, Keys
<1>2. \A x : /\ Value("num", x).t \in {"num"} /\ Value("str", x).t \in {"str", "key", "time"}
             /\ Value("bool", x).t \in {"bool"}
             /\ Value("time", x).t \in {"str", "key", "time"}
  BY DEF Value
<1>3. ValueAfter(doc, {"num"}, "avg_amount", Position(doc, "customer", 1)) = Value("num", r.customerAvg)
  <2>1. Named(r, "customer", "avg_amount", Value("num", r.customerAvg))
    <3>1. /\ 1 \in 1 .. Len(Fields(r, "customer"))
          /\ Fields(r, "customer")[1] = <<"avg_amount", <<Value("num", r.customerAvg)>>>>
      BY CustomerFields
    <3> QED
      BY <3>1 DEF Named
  <2>2. "customer" \in Objects /\ "customer" \in Keys /\ Whole(r, "customer") /\ Value("num", r.customerAvg).t \in {"num"}
         /\ "avg_amount" \in Keys
    BY <1>1, <1>2
  <2> QED
    BY ONLY CompleteRequest(r), Arranged(doc, r, pieces, o), <2>1, <2>2, ObjectRead
<1>4. ValueAfter(doc, {"num"}, "tx_count_24h", Position(doc, "customer", 1)) = Value("num", r.txCount)
  <2>1. Named(r, "customer", "tx_count_24h", Value("num", r.txCount))
    <3>1. /\ 2 \in 1 .. Len(Fields(r, "customer"))
          /\ Fields(r, "customer")[2] = <<"tx_count_24h", <<Value("num", r.txCount)>>>>
      BY CustomerFields
    <3> QED
      BY <3>1 DEF Named
  <2>2. "customer" \in Objects /\ "customer" \in Keys /\ Whole(r, "customer") /\ Value("num", r.txCount).t \in {"num"}
         /\ "tx_count_24h" \in Keys
    BY <1>1, <1>2
  <2> QED
    BY ONLY CompleteRequest(r), Arranged(doc, r, pieces, o), <2>1, <2>2, ObjectRead
<1>5. ValueAfter(doc, {"str", "key", "time"}, "id", Position(doc, "merchant", 1)) = Value("str", r.id)
  <2>1. Named(r, "merchant", "id", Value("str", r.id))
    <3>1. /\ 1 \in 1 .. Len(Fields(r, "merchant"))
          /\ Fields(r, "merchant")[1] = <<"id", <<Value("str", r.id)>>>>
      BY MerchantFields
    <3> QED
      BY <3>1 DEF Named
  <2>2. "merchant" \in Objects /\ "merchant" \in Keys /\ Whole(r, "merchant") /\ Value("str", r.id).t \in {"str", "key", "time"}
         /\ "id" \in Keys
    BY <1>1, <1>2
  <2> QED
    BY ONLY CompleteRequest(r), Arranged(doc, r, pieces, o), <2>1, <2>2, ObjectRead
<1>6. ValueAfter(doc, {"str", "key", "time"}, "mcc", Position(doc, "merchant", 1)) = Value("str", r.mcc)
  <2>1. Named(r, "merchant", "mcc", Value("str", r.mcc))
    <3>1. /\ 2 \in 1 .. Len(Fields(r, "merchant"))
          /\ Fields(r, "merchant")[2] = <<"mcc", <<Value("str", r.mcc)>>>>
      BY MerchantFields
    <3> QED
      BY <3>1 DEF Named
  <2>2. "merchant" \in Objects /\ "merchant" \in Keys /\ Whole(r, "merchant") /\ Value("str", r.mcc).t \in {"str", "key", "time"}
         /\ "mcc" \in Keys
    BY <1>1, <1>2
  <2> QED
    BY ONLY CompleteRequest(r), Arranged(doc, r, pieces, o), <2>1, <2>2, ObjectRead
<1>7. ValueAfter(doc, {"num"}, "avg_amount", Position(doc, "merchant", 1)) = Value("num", r.merchantAvg)
  <2>1. Named(r, "merchant", "avg_amount", Value("num", r.merchantAvg))
    <3>1. /\ 3 \in 1 .. Len(Fields(r, "merchant"))
          /\ Fields(r, "merchant")[3] = <<"avg_amount", <<Value("num", r.merchantAvg)>>>>
      BY MerchantFields
    <3> QED
      BY <3>1 DEF Named
  <2>2. "merchant" \in Objects /\ "merchant" \in Keys /\ Whole(r, "merchant") /\ Value("num", r.merchantAvg).t \in {"num"}
         /\ "avg_amount" \in Keys
    BY <1>1, <1>2
  <2> QED
    BY ONLY CompleteRequest(r), Arranged(doc, r, pieces, o), <2>1, <2>2, ObjectRead
<1>8. ValueAfter(doc, {"bool"}, "is_online", Position(doc, "terminal", 1)) = Value("bool", r.online)
  <2>1. Named(r, "terminal", "is_online", Value("bool", r.online))
    <3>1. /\ 1 \in 1 .. Len(Fields(r, "terminal"))
          /\ Fields(r, "terminal")[1] = <<"is_online", <<Value("bool", r.online)>>>>
      BY TerminalFields
    <3> QED
      BY <3>1 DEF Named
  <2>2. "terminal" \in Objects /\ "terminal" \in Keys /\ Whole(r, "terminal") /\ Value("bool", r.online).t \in {"bool"}
         /\ "is_online" \in Keys
    BY <1>1, <1>2
  <2> QED
    BY ONLY CompleteRequest(r), Arranged(doc, r, pieces, o), <2>1, <2>2, ObjectRead
<1>9. ValueAfter(doc, {"bool"}, "card_present", Position(doc, "terminal", 1)) = Value("bool", r.present)
  <2>1. Named(r, "terminal", "card_present", Value("bool", r.present))
    <3>1. /\ 2 \in 1 .. Len(Fields(r, "terminal"))
          /\ Fields(r, "terminal")[2] = <<"card_present", <<Value("bool", r.present)>>>>
      BY TerminalFields
    <3> QED
      BY <3>1 DEF Named
  <2>2. "terminal" \in Objects /\ "terminal" \in Keys /\ Whole(r, "terminal") /\ Value("bool", r.present).t \in {"bool"}
         /\ "card_present" \in Keys
    BY <1>1, <1>2
  <2> QED
    BY ONLY CompleteRequest(r), Arranged(doc, r, pieces, o), <2>1, <2>2, ObjectRead
<1>10. ValueAfter(doc, {"num"}, "km_from_home", Position(doc, "terminal", 1)) = Value("num", r.kmHome)
  <2>1. Named(r, "terminal", "km_from_home", Value("num", r.kmHome))
    <3>1. /\ 3 \in 1 .. Len(Fields(r, "terminal"))
          /\ Fields(r, "terminal")[3] = <<"km_from_home", <<Value("num", r.kmHome)>>>>
      BY TerminalFields
    <3> QED
      BY <3>1 DEF Named
  <2>2. "terminal" \in Objects /\ "terminal" \in Keys /\ Whole(r, "terminal") /\ Value("num", r.kmHome).t \in {"num"}
         /\ "km_from_home" \in Keys
    BY <1>1, <1>2
  <2> QED
    BY ONLY CompleteRequest(r), Arranged(doc, r, pieces, o), <2>1, <2>2, ObjectRead
<1>11. ASSUME ~r.new
      PROVE  ValueAfter(doc, {"str", "key", "time"}, "timestamp", Position(doc, "last_transaction", 1))
               = Value("time", r.last)
  <2>1. Named(r, "last_transaction", "timestamp", Value("time", r.last))
    <3>1. /\ 1 \in 1 .. Len(Fields(r, "last_transaction"))
          /\ Fields(r, "last_transaction")[1] = <<"timestamp", <<Value("time", r.last)>>>>
      BY HistoryFields
    <3> QED
      BY <3>1 DEF Named
  <2>2. "last_transaction" \in Objects /\ "last_transaction" \in Keys /\ Whole(r, "last_transaction") /\ Value("time", r.last).t \in {"str", "key", "time"}
         /\ "timestamp" \in Keys
    BY <1>1, <1>2, <1>11
  <2> QED
    BY ONLY CompleteRequest(r), Arranged(doc, r, pieces, o), <2>1, <2>2, ObjectRead
<1>12. ASSUME ~r.new
      PROVE  ValueAfter(doc, {"num"}, "km_from_current", Position(doc, "last_transaction", 1))
               = Value("num", r.kmCurrent)
  <2>1. Named(r, "last_transaction", "km_from_current", Value("num", r.kmCurrent))
    <3>1. /\ 2 \in 1 .. Len(Fields(r, "last_transaction"))
          /\ Fields(r, "last_transaction")[2] = <<"km_from_current", <<Value("num", r.kmCurrent)>>>>
      BY HistoryFields
    <3> QED
      BY <3>1 DEF Named
  <2>2. "last_transaction" \in Objects /\ "last_transaction" \in Keys /\ Whole(r, "last_transaction") /\ Value("num", r.kmCurrent).t \in {"num"}
         /\ "km_from_current" \in Keys
    BY <1>1, <1>2, <1>12
  <2> QED
    BY ONLY CompleteRequest(r), Arranged(doc, r, pieces, o), <2>1, <2>2, ObjectRead
<1> QED
  BY <1>3, <1>4, <1>5, <1>6, <1>7, <1>8, <1>9, <1>10, <1>11, <1>12 DEF NumberAfter, StringAfter, BoolAfter, TimeAfter, Value
LEMMA BracketOfName ==
    ASSUME NEW Char, NEW name \in Seq(Char), \A k \in 1 .. Len(name) : name[k] # "]"
    PROVE  "]" \notin ToSet(Chars(Value("str", name)))
<1> DEFINE t == Around(name)
           n == Len(name)
<1>1. /\ t \in Seq(Symbol(Char)) /\ n \in Nat /\ Len(t) = n + 3 /\ t[1] = "quote"
      /\ t[n + 2] = "quote" /\ t[n + 3] = "comma"
      /\ \A k \in 1 .. n : t[k + 1] = name[k]
  BY AroundIs
<1>2. Chars(Value("str", name)) = t
  BY CharsAre
<1> HIDE DEF t, n
<1>3. ASSUME NEW m \in 1 .. Len(t) PROVE t[m] # "]"
  <2>1. m = 1 \/ m = n + 2 \/ m = n + 3 \/ (m - 1 \in 1 .. n /\ m = (m - 1) + 1)
    BY ONLY <1>1, m \in 1 .. Len(t)
  <2>2. CASE m - 1 \in 1 .. n /\ m = (m - 1) + 1
    <3>1. PICK k \in 1 .. n : m = k + 1
      BY <2>2
    <3>2. name[k] # "]"
      BY DEF n
    <3> QED
      BY ONLY <1>1, <3>1, <3>2
  <2> QED
    BY ONLY <1>1, <2>1, <2>2
<1>4. DOMAIN t = 1 .. Len(t)
  BY <1>1
<1> QED
  BY <1>2, <1>3, <1>4 DEF ToSet

LEMMA Brackets ==
    /\ "]" \notin ToSet(Chars(Key("known_merchants")))
    /\ "]" \notin ToSet(Chars(Value("[", 0))) /\ "]" \in ToSet(Chars(Value("]", 0)))
<1>1. "]" \notin ToSet(Chars(Key("known_merchants")))
  <2> DEFINE Char == {"a"}
  <2>1. /\ Chars(Key("known_merchants")) = Opening
        /\ Opening \in Seq(Symbol(Char)) /\ Len(Opening) = 4
        /\ Opening[1] = "quote" /\ Opening[2] = "known_merchants"
        /\ Opening[3] = "quote" /\ Opening[4] = "colon"
    BY OpeningIs
  <2> HIDE DEF Char
  <2>2. DOMAIN Opening = 1 .. 4
    BY <2>1
  <2>3. \A m \in 1 .. 4 : m = 1 \/ m = 2 \/ m = 3 \/ m = 4
    OBVIOUS
  <2>4. \A m \in DOMAIN Opening : Opening[m] # "]"
    BY <2>1, <2>2, <2>3
  <2> QED
    BY <2>1, <2>4 DEF ToSet
<1>2. "]" \notin ToSet(Chars(Value("[", 0)))
  <2> DEFINE t == <<"[">>
  <2>1. DOMAIN t = {1} /\ t[1] = "["
    OBVIOUS
  <2>2. "]" \notin ToSet(t)
    BY <2>1 DEF ToSet
  <2> QED
    BY <2>2, CharsAre
<1>3. "]" \in ToSet(Chars(Value("]", 0)))
  <2> DEFINE t == <<"]">>
  <2>1. DOMAIN t = {1} /\ t[1] = "]"
    OBVIOUS
  <2>2. "]" \in ToSet(t)
    BY <2>1 DEF ToSet
  <2> QED
    BY <2>2, CharsAre
<1> QED
  BY <1>1, <1>2, <1>3

\* The text of the list, and where its brackets end.
TextLaid(ts, list, Char) ==
    LET text == Text(ts)
        end == Min({i \in 1 .. Len(text) : text[i] = "]"})
    IN  \E w : Laid(w, list, SubSeq(text, 1, end - 1), Char)

LEMMA TextOfList ==
    ASSUME NEW Char, NEW list, IsList(list, Char), NoBracket(list),
           NEW ts, KnownTokens(ts, list)
    PROVE  TextLaid(ts, list, Char)
<1> DEFINE xs == [i \in 1 .. Len(ts) |-> Chars(ts[i])]
           t == FlattenSeq(xs)
           l == Len(t) - 1
           ends == {i \in 1 .. Len(t) : t[i] = "]"}
<1>1. KnownPieces(xs, list, Char)
  BY PiecesOfList
<1>2. Text(ts) = t
  BY DEF Text
<1> HIDE DEF xs
<1>3. xs \in Seq(Seq(Symbol(Char)))
  BY <1>1 DEF KnownPieces
<1>4. t \in Seq(Symbol(Char)) /\ \E o : Places(o, xs, t)
  BY <1>3, FlattenPlaces
<1>5. PICK o : Places(o, xs, t)
  BY <1>4
<1> HIDE DEF t
<1>6. Len(t) = l + 1 /\ l \in Nat
  <2>1. 1 \in 1 .. Len(xs) /\ 1 \in 1 .. Len(xs[1])
    <3>1. Len(list) \in Nat /\ Len(xs) = Len(list) + 3 /\ xs[1] = Opening
      BY <1>1 DEF KnownPieces
    <3> QED
      BY <3>1, OpeningIs
  <2>2. o[1] + 1 \in 1 .. Len(t)
    BY <1>5, <2>1 DEF Places
  <2>3. Len(t) \in Nat
    BY <1>4
  <2> QED
    BY ONLY <2>2, <2>3
<1> DEFINE s == SubSeq(t, 1, l)
<1>7. /\ t[l + 1] = "]" /\ \A p \in 1 .. l : t[p] # "]"
      /\ \E w : Laid(w, list, s, Char)
  <2>1. NoBracket(list)
    OBVIOUS
  <2>2. s = SubSeq(t, 1, l)
    OBVIOUS
  <2> HIDE DEF s, l
  <2>3. /\ KnownPieces(xs, list, Char) /\ t \in Seq(Symbol(Char)) /\ Places(o, xs, t)
        /\ Len(t) = l + 1 /\ l \in Nat
    BY ONLY <1>1, <1>4, <1>5, <1>6
  <2> QED
    BY ONLY <2>1, <2>2, <2>3, TextIsLaid
<1>8. Min(ends) = l + 1
  <2>1. ends \subseteq Nat /\ l + 1 \in ends
    BY <1>6, <1>7
  <2>2. ASSUME NEW m \in ends PROVE l + 1 <= m
    <3>1. m \in 1 .. Len(t) /\ t[m] = "]"
      OBVIOUS
    <3>2. m \notin 1 .. l
      BY <1>7, <3>1
    <3> HIDE DEF l
    <3> QED
      BY ONLY <1>6, <3>1, <3>2
  <2> HIDE DEF ends, l
  <2> QED
    BY <2>1, <2>2, MinIs
<1>9. Min(ends) - 1 = l
  <2> HIDE DEF l, ends
  <2> QED
    BY <1>6, <1>8
<1>10. PICK w : Laid(w, list, s, Char)
  BY <1>7
<1>11. SubSeq(t, 1, Min(ends) - 1) = s
  <2> HIDE DEF ends
  <2> QED
    BY <1>9
<1> HIDE DEF s
<1>12. Laid(w, list, SubSeq(t, 1, Min(ends) - 1), Char)
  BY <1>10, <1>11
<1> QED
  BY <1>2, <1>12 DEF TextLaid

\* The tokens of the list end at the first closing bracket behind the key.
Closing(doc, p, last) == {i \in p .. last : "]" \in ToSet(Chars(doc[i]))}

LEMMA ListEnds ==
    ASSUME NEW Char, NEW list, IsList(list, Char), NoBracket(list),
           NEW doc, IsTuple(doc), NEW p \in 1 .. Len(doc), doc[p] = Key("known_merchants"),
           NEW ts, ListTokens(ts, list), Follows(doc, p, ts),
           NEW last \in 1 .. Len(doc), p + Len(list) + 2 <= last
    PROVE  /\ Closing(doc, p, last) # {}
           /\ KnownTokens(SubSeq(doc, p, Min(Closing(doc, p, last))), list)
<1> DEFINE n == Len(list)
           e == p + n + 2
           q == SubSeq(doc, p, e)
<1>1. /\ n \in Nat /\ Len(ts) = n + 2 /\ ts[1] = Value("[", 0) /\ ts[n + 2] = Value("]", 0)
      /\ \A i \in 1 .. n : ts[1 + i] = Value("str", list[i])
  BY DEF ListTokens
<1>2. \A i \in 1 .. n : list[i] \in Seq(Char)
  BY DEF IsList
<1>3. \A m \in 1 .. n + 2 : p + m \in 1 .. Len(doc) /\ doc[p + m] = ts[m]
  BY <1>1 DEF Follows
<1>4. Len(doc) \in Nat /\ p \in Nat
  BY DEF IsTuple
<1>5. e \in p .. last /\ e \in Nat /\ e >= p /\ e <= Len(doc)
  BY ONLY <1>1, <1>4, p + n + 2 <= last, last \in 1 .. Len(doc)
<1>6. 1 \in 1 .. n + 2 /\ n + 2 \in 1 .. n + 2 /\ \A i \in 1 .. n : 1 + i \in 1 .. n + 2
  BY ONLY <1>1
<1> HIDE DEF n
<1>7. /\ doc[p + 1] = Value("[", 0) /\ doc[p + (n + 2)] = Value("]", 0)
      /\ \A i \in 1 .. n : doc[p + (1 + i)] = Value("str", list[i])
  BY ONLY <1>1, <1>3, <1>6
<1>8. e = p + (n + 2)
  BY ONLY <1>1, <1>4
<1> HIDE DEF e
<1>9. e \in Closing(doc, p, last)
  BY <1>5, <1>7, <1>8, Brackets DEF Closing
<1>10. ASSUME NEW m \in Closing(doc, p, last) PROVE e <= m
  <2>1. m \in p .. last /\ "]" \in ToSet(Chars(doc[m]))
    BY DEF Closing
  <2>2. ASSUME m < e PROVE FALSE
    <3>1. m = p \/ m = p + 1 \/ (m - p - 1 \in 1 .. n /\ m = p + (1 + (m - p - 1)))
      BY ONLY <1>1, <1>4, <1>8, <2>1, <2>2, last \in 1 .. Len(doc)
    <3>2. CASE m = p
      BY <2>1, <3>2, Brackets
    <3>3. CASE m = p + 1
      BY <1>7, <2>1, <3>3, Brackets
    <3>4. CASE m - p - 1 \in 1 .. n /\ m = p + (1 + (m - p - 1))
      <4>1. PICK i \in 1 .. n : m = p + (1 + i)
        BY <3>4
      <4>2. doc[m] = Value("str", list[i]) /\ list[i] \in Seq(Char)
        BY <1>2, <1>7, <4>1
      <4>3. \A k \in 1 .. Len(list[i]) : list[i][k] # "]"
        BY DEF NoBracket, n
      <4>4. "]" \notin ToSet(Chars(Value("str", list[i])))
        BY ONLY <4>2, <4>3, BracketOfName
      <4> QED
        BY <2>1, <4>2, <4>4
    <3> QED
      BY ONLY <3>1, <3>2, <3>3, <3>4
  <2>3. m \in Int
    BY <2>1
  <2> QED
    BY ONLY <1>5, <2>2, <2>3
<1>11. Closing(doc, p, last) \subseteq Nat
  BY <1>4 DEF Closing
<1>12. Min(Closing(doc, p, last)) = e
  BY ONLY <1>9, <1>10, <1>11, MinIs
<1>13. Len(q) = n + 3 /\ \A m \in 1 .. n + 3 : q[m] = doc[p + m - 1]
  <2> DEFINE S == {doc[m] : m \in 1 .. Len(doc)}
  <2>1. \A m \in 1 .. Len(doc) : doc[m] \in S
    OBVIOUS
  <2> HIDE DEF S
  <2>2. doc \in Seq(S)
    BY <2>1, AsSequence
  <2>3. Len(q) = e - p + 1 /\ \A m \in 1 .. e - p + 1 : q[m] = doc[p + m - 1]
    BY ONLY <1>4, <1>5, <2>2, p \in 1 .. Len(doc)
  <2>4. e - p + 1 = n + 3
    BY ONLY <1>1, <1>4, <1>8
  <2> HIDE DEF q
  <2> QED
    BY ONLY <2>3, <2>4
<1> HIDE DEF q
<1>14. q[1] = doc[p] /\ q[2] = doc[p + 1] /\ q[n + 3] = doc[p + (n + 2)]
  <2>1. 1 \in 1 .. n + 3 /\ 2 \in 1 .. n + 3 /\ n + 3 \in 1 .. n + 3
    BY ONLY <1>1
  <2>2. p + 1 - 1 = p /\ p + 2 - 1 = p + 1 /\ p + (n + 3) - 1 = p + (n + 2)
    BY ONLY <1>1, <1>4
  <2> QED
    BY ONLY <1>13, <2>1, <2>2
<1>15. ASSUME NEW i \in 1 .. n PROVE q[i + 2] = Value("str", list[i])
  <2>1. i + 2 \in 1 .. n + 3 /\ p + (i + 2) - 1 = p + (1 + i)
    BY ONLY <1>1, <1>4, i \in 1 .. n
  <2> QED
    BY ONLY <1>7, <1>13, <2>1, i \in 1 .. n
<1>16. KnownTokens(q, list)
  BY <1>7, <1>13, <1>14, <1>15 DEF KnownTokens, n
<1> QED
  BY <1>9, <1>12, <1>16 DEF q

\* The list of known merchants is read, and no further than the list.
Found(r, doc, id, Char) ==
    \E section, w :
        /\ Laid(w, r.list, section, Char)
        /\ KnownMerchantJSON(doc, id, Position(doc, "customer", 1), Position(doc, "merchant", 1))
             = KnownIn(section, id)

LEMMA PieceBefore ==
    ASSUME NEW a \in Nat, NEW k \in Nat, NEW n \in Nat, NEW l \in Nat, NEW b \in Nat,
           k + n + 2 <= l, a + l <= b
    PROVE  (a + k) + n + 2 <= b
OBVIOUS

LEMMA ListRead ==
    ASSUME NEW r, CompleteRequest(r), NEW pieces, NEW o, NEW doc,
           Arranged(doc, r, pieces, o), NEW id,
           NEW Char, IsList(r.list, Char), NoBracket(r.list)
    PROVE  Found(r, doc, id, Char)
<1> DEFINE start == Position(doc, "customer", 1)
           end == Position(doc, "merchant", 1)
           last == IF end <= start THEN Len(doc) ELSE end - 1
           prefix == SubSeq(doc, 1, last)
           n == Len(r.list)
           ts == Listed(r.list)
<1>1. /\ "customer" \in Objects /\ "merchant" \in Objects /\ Whole(r, "customer")
      /\ "customer" \in Keys /\ "merchant" \in Keys
  BY DEF Objects, Whole, Keys
<1>2. PICK i \in 1 .. 6 : /\ r.order[i] = "customer" /\ start = o[i] + 1
                          /\ o[i] \in Nat /\ Len(doc) \in Nat
  BY <1>1, ObjectFound
<1>3. PICK j \in 1 .. 6 : /\ r.order[j] = "merchant" /\ end = o[j] + 1
                          /\ o[j] \in Nat /\ o[j] + 1 \in 1 .. Len(doc)
  BY <1>1, ObjectFound
<1> HIDE DEF start, end
<1>4. /\ IsDocument(doc, pieces, o) /\ Len(pieces) = 6 /\ IsPart(pieces[i], r, "customer")
      /\ i \in 1 .. Len(pieces) /\ j \in 1 .. Len(pieces) /\ IsTuple(doc)
      /\ Len(pieces[i]) \in Nat /\ Len(pieces[j]) \in Nat /\ 1 <= Len(pieces[j])
  <2>1. IsPart(pieces[j], r, "merchant")
    BY <1>3 DEF Arranged
  <2>2. 1 <= Len(pieces[j]) /\ Len(pieces[j]) \in Nat
    <3>1. Len(pieces[j]) \in Nat /\ 2 \in 1 .. Len(pieces[j])
      BY <2>1 DEF IsPart, IsTuple
    <3> QED
      BY ONLY <3>1
  <2>3. IsDocument(doc, pieces, o) /\ Len(pieces) = 6 /\ IsPart(pieces[i], r, "customer")
    BY <1>2 DEF Arranged
  <2>4. IsTuple(doc) /\ Len(pieces[i]) \in Nat
    BY <2>3 DEF IsPart, IsTuple, IsDocument
  <2>5. i \in 1 .. Len(pieces) /\ j \in 1 .. Len(pieces)
    BY <2>3
  <2> QED
    BY ONLY <2>2, <2>3, <2>4, <2>5
<1>5. ListTokens(ts, r.list)
  BY ListedIs DEF CompleteRequest, NoNames
<1>6. PICK k \in 1 .. Len(pieces[i]) :
        Owns(pieces[i], "known_merchants", k) /\ Follows(pieces[i], k, ts)
  <2> DEFINE f == Fields(r, "customer")
  <2>1. Len(f) = 3 /\ f[3] = <<"known_merchants", ts>>
    BY CustomerFields
  <2> HIDE DEF ts, f
  <2>2. 3 \in 1 .. Len(f) /\ f[3][1] = "known_merchants" /\ f[3][2] = ts
    BY ONLY <2>1
  <2>3. <<"customer", f[3][1]>> # r.missing
    BY NothingLeftOut
  <2>4. Has(pieces[i], f[3][1], f[3][2])
    BY <1>1, <1>4, <2>2, <2>3 DEF IsPart, f
  <2>5. Has(pieces[i], "known_merchants", ts)
    BY ONLY <2>2, <2>4
  <2> QED
    BY <2>5 DEF Has
<1> HIDE DEF ts
<1> DEFINE p == o[i] + k
<1>7. /\ p \in 1 .. Len(doc) /\ p + 1 \in 1 .. Len(doc)
      /\ doc[p] = Key("known_merchants") /\ Reads(doc[p], "known_merchants")
      /\ \A q \in start .. Len(doc) : Reads(doc[q], "known_merchants") => p <= q
  <2>1. start \in Nat /\ 1 <= start /\ start <= o[i] + k /\ start = o[i] + 1
    BY <1>2
  <2>2. FoundAt(doc, pieces[i], "known_merchants", start, o[i], k)
    BY ONLY <1>4, <1>6, <2>1, FoundInPiece
  <2> QED
    BY <2>2 DEF FoundAt
<1>8. Follows(doc, p, ts)
  <2>1. k \in Nat /\ o[i] \in Nat
    BY <1>2
  <2> QED
    BY ONLY <1>4, <1>6, <2>1, FollowsInDocument
<1>9. /\ n \in Nat /\ k \in Nat /\ 1 <= k /\ k + n + 2 <= Len(pieces[i])
      /\ p + n + 2 <= Len(doc)
  <2>1. n \in Nat /\ Len(ts) = n + 2
    BY <1>5 DEF ListTokens
  <2>2. n + 2 \in 1 .. Len(ts)
    BY ONLY <2>1
  <2>3. k + (n + 2) \in 1 .. Len(pieces[i])
    BY ONLY <1>6, <2>2 DEF Follows
  <2>4. p + (n + 2) \in 1 .. Len(doc)
    BY ONLY <1>8, <2>2 DEF Follows
  <2>5. k \in Nat /\ 1 <= k /\ p \in Nat
    BY <1>2
  <2> HIDE DEF p, n
  <2>6. k + n + 2 <= Len(pieces[i])
    <3>1. Len(pieces[i]) \in Nat
      BY <1>4
    <3> QED
      BY ONLY <2>1, <2>3, <2>5, <3>1
  <2>7. p + n + 2 <= Len(doc)
    BY ONLY <1>2, <2>1, <2>4, <2>5
  <2> QED
    BY ONLY <2>1, <2>5, <2>6, <2>7
<1>10. start \in Nat /\ end \in Nat /\ end >= 1 /\ end <= Len(doc) /\ start <= p /\ p \in Nat
  <2>1. p \in Nat /\ start <= p
    BY ONLY <1>2, <1>9
  <2>2. start \in Nat
    BY ONLY <1>2
  <2>3. end \in Nat /\ end >= 1 /\ end <= Len(doc)
    BY ONLY <1>2, <1>3
  <2> HIDE DEF p
  <2> QED
    BY ONLY <2>1, <2>2, <2>3
<1> HIDE DEF n
<1>11. last \in 1 .. Len(doc) /\ p + n + 2 <= last /\ p <= last
  <2>1. CASE end <= start
    <3>1. last = Len(doc)
      BY <2>1
    <3> HIDE DEF last, p
    <3> QED
      BY ONLY <1>2, <1>7, <1>9, <1>10, <3>1
  <2>2. CASE ~(end <= start)
    <3>1. o[i] < o[j]
      BY ONLY <1>2, <1>3, <2>2
    <3>2. /\ \A x, y \in 1 .. Len(pieces) : x < y => o[x] + Len(pieces[x]) <= o[y]
      BY <1>4 DEF IsDocument, Places
    <3>3. i \in Nat /\ j \in Nat
      OBVIOUS
    <3>4. ~(j < i)
      <4>1. ASSUME j < i PROVE FALSE
        <5>1. o[j] + Len(pieces[j]) <= o[i]
          BY ONLY <1>4, <3>2, <4>1
        <5> QED
          BY ONLY <1>2, <1>3, <1>4, <3>1, <5>1
      <4> QED
        BY <4>1
    <3>5. j # i
      BY ONLY <1>2, <1>3, <3>1
    <3>6. i < j
      BY ONLY <3>3, <3>4, <3>5
    <3>7. o[i] + Len(pieces[i]) <= o[j]
      BY ONLY <1>4, <3>2, <3>6
    <3>8. p + n + 2 <= o[j]
      <4>1. /\ o[i] \in Nat /\ k \in Nat /\ n \in Nat /\ Len(pieces[i]) \in Nat
            /\ o[j] \in Nat /\ k + n + 2 <= Len(pieces[i])
            /\ o[i] + Len(pieces[i]) <= o[j]
        <5>1. o[i] \in Nat /\ o[j] \in Nat
          BY ONLY <1>2, <1>3
        <5>2. k \in Nat /\ n \in Nat /\ k + n + 2 <= Len(pieces[i])
          BY ONLY <1>9
        <5> QED
          BY ONLY <1>4, <3>7, <5>1, <5>2
      <4>2. (o[i] + k) + n + 2 <= o[j]
        BY ONLY <4>1, PieceBefore
      <4> QED
        BY ONLY <4>2
    <3>9. last = o[j]
      BY <1>3, <2>2
    <3>10. o[j] \in Nat /\ o[j] + 1 <= Len(doc)
      BY ONLY <1>2, <1>3
    <3>11. p \in Nat /\ p >= 1 /\ n \in Nat
      BY ONLY <1>2, <1>9, <1>10
    <3>12. Len(doc) \in Nat
      BY ONLY <1>2
    <3> HIDE DEF last, p
    <3>13. o[j] \in 1 .. Len(doc) /\ p <= o[j]
      BY ONLY <3>8, <3>10, <3>11, <3>12
    <3> QED
      BY ONLY <3>8, <3>9, <3>13
  <2> QED
    BY <2>1, <2>2
<1>12. last = IF end <= start THEN Len(doc) ELSE end - 1
  OBVIOUS
<1> HIDE DEF p, last
<1>13. Len(prefix) = last /\ \A q \in 1 .. last : prefix[q] = doc[q]
  <2> DEFINE S == {doc[q] : q \in 1 .. Len(doc)}
  <2>1. \A q \in 1 .. Len(doc) : doc[q] \in S
    OBVIOUS
  <2> HIDE DEF S
  <2>2. doc \in Seq(S)
    BY ONLY <1>4, <2>1, AsSequence
  <2> QED
    BY ONLY <1>11, <2>2
<1> HIDE DEF prefix
<1>14. Position(prefix, "known_merchants", start) = p
  <2>1. Len(prefix) \in Nat /\ p \in 1 .. Len(prefix)
    BY <1>7, <1>11, <1>13
  <2>2. Reads(prefix[p], "known_merchants")
    BY <1>7, <1>11, <1>13
  <2>3. ASSUME NEW q \in start .. Len(prefix), Reads(prefix[q], "known_merchants")
        PROVE  p <= q
    <3>1. start >= 1
      BY <1>2
    <3>2. q \in start .. Len(doc) /\ q \in 1 .. last
      BY <1>2, <1>10, <1>11, <1>13, <3>1
    <3> QED
      BY <1>7, <1>13, <2>3, <3>2
  <2> QED
    BY ONLY <1>10, <2>1, <2>2, <2>3, FirstPosition
<1> DEFINE closing == Closing(doc, p, last)
           q == SubSeq(doc, p, Min(closing))
           text == Text(q)
           e == Min({m \in 1 .. Len(text) : text[m] = "]"})
           section == SubSeq(text, 1, e - 1)
<1>15. closing # {} /\ KnownTokens(q, r.list)
  <2>1. IsList(r.list, Char) /\ NoBracket(r.list) /\ IsTuple(doc)
        /\ p + Len(r.list) + 2 <= last
    BY <1>4, <1>11 DEF n
  <2> QED
    BY ONLY <1>5, <1>7, <1>8, <1>11, <2>1, ListEnds
<1>16. \E w : Laid(w, r.list, section, Char)
  <2>1. TextLaid(q, r.list, Char)
    BY <1>15, TextOfList
  <2> QED
    BY <2>1 DEF TextLaid
<1>17. p # 0
  BY <1>7
<1>18. KnownMerchantJSON(doc, id, start, end) = KnownIn(section, id)
  BY <1>12, <1>14, <1>15, <1>17 DEF KnownMerchantJSON, Closing, prefix
<1> HIDE DEF section
<1> QED
  BY <1>16, <1>18 DEF Found, start, end

-----------------------------------------------------------------------------
\* What the scanner finds of a complete request.
FieldsOf(r) ==
    [amount |-> Value("num", r.amount), installments |-> Value("num", r.installments),
     requested |-> Value("time", r.requested), customerAvg |-> Value("num", r.customerAvg),
     txCount |-> Value("num", r.txCount), id |-> Value("str", r.id),
     mcc |-> Value("str", r.mcc), merchantAvg |-> Value("num", r.merchantAvg),
     online |-> Value("bool", r.online), present |-> Value("bool", r.present),
     kmHome |-> Value("num", r.kmHome)]
HistoryOf(r) == [timestamp |-> Value("time", r.last), kmCurrent |-> Value("num", r.kmCurrent)]

LEMMA NewIsFound ==
    ASSUME NEW r, r.new \in BOOLEAN, NEW pieces, NEW o, NEW doc,
           Arranged(doc, r, pieces, o)
    PROVE  LET last == Position(doc, "last_transaction", 1)
           IN  /\ last \in Nat \ {0} /\ last < Len(doc)
               /\ r.new => doc[last + 1].t = "null"
               /\ ~r.new => doc[last + 1].t # "null"
<1> DEFINE last == Position(doc, "last_transaction", 1)
<1>1. "last_transaction" \in Objects /\ "last_transaction" \in Keys
  BY DEF Objects, Keys
<1>2. PICK i \in 1 .. 6 :
        /\ r.order[i] = "last_transaction" /\ last = o[i] + 1 /\ o[i] \in Nat
        /\ Len(doc) \in Nat /\ o[i] + 1 + 1 \in 1 .. Len(doc)
        /\ doc[o[i] + 1 + 1] = pieces[i][2]
  BY <1>1, ObjectFound
<1>3. last \in Nat \ {0} /\ last < Len(doc) /\ doc[last + 1] = pieces[i][2]
  BY <1>2
<1>4. IsPart(pieces[i], r, "last_transaction")
  BY <1>2 DEF Arranged
<1> HIDE DEF last
<1>5. CASE r.new
  <2>1. pieces[i][2] = Value("null", 0)
    BY <1>4, <1>5 DEF IsPart
  <2>2. doc[last + 1].t = "null"
    BY ONLY <1>3, <2>1 DEF Value
  <2> QED
    BY <1>3, <1>5, <2>2 DEF last
<1>6. CASE ~r.new
  <2>1. pieces[i][2] = Value("{", 0)
    BY <1>1, <1>4, <1>6 DEF IsPart, Whole
  <2>2. Value("{", 0).t # "null"
    BY DEF Value
  <2>3. doc[last + 1].t # "null"
    BY ONLY <1>3, <2>1, <2>2
  <2> QED
    BY <1>3, <1>6, <2>3 DEF last
<1> QED
  BY <1>5, <1>6

\* A complete request of ordinary texts.
Usual(r, Char) ==
    /\ CompleteRequest(r) /\ Ordinary(r)
    /\ IsList(r.list, Char) /\ r.id \in Seq(Char) /\ "quote" \notin Char

LEMMA OrdinaryBrackets ==
    ASSUME NEW r, NEW Char, IsList(r.list, Char), Ordinary(r)
    PROVE  NoBracket(r.list)
<1> SUFFICES ASSUME NEW i \in 1 .. Len(r.list), NEW k \in 1 .. Len(r.list[i])
             PROVE  r.list[i][k] # "]"
  BY DEF NoBracket
<1>1. r.list[i] \in ToSet(r.list) /\ r.list[i] \in Seq(Char)
  BY DEF IsList, ToSet
<1>2. "]" \notin ToSet(r.list[i])
  BY <1>1 DEF Ordinary
<1>3. r.list[i][k] \in ToSet(r.list[i])
  BY <1>1 DEF ToSet
<1> QED
  BY <1>2, <1>3

LEMMA MerchantRead ==
    ASSUME NEW r, NEW Char, Usual(r, Char), NEW pieces, NEW o, NEW doc,
           Arranged(doc, r, pieces, o)
    PROVE  KnownMerchantJSON(doc, r.id, Position(doc, "customer", 1), Position(doc, "merchant", 1))
             = IF IsListed(r) THEN "yes" ELSE "no"
<1> DEFINE known == KnownMerchantJSON(doc, r.id, Position(doc, "customer", 1),
                                      Position(doc, "merchant", 1))
<1>1. /\ CompleteRequest(r) /\ IsList(r.list, Char) /\ NoBracket(r.list) /\ r.id \in Seq(Char)
      /\ "quote" \notin Char /\ Arranged(doc, r, pieces, o)
  BY OrdinaryBrackets DEF Usual
<1>2. Found(r, doc, r.id, Char)
  BY ONLY <1>1, ListRead
<1>3. PICK section, w : Laid(w, r.list, section, Char) /\ known = KnownIn(section, r.id)
  BY <1>2 DEF Found
<1>4. r.id \notin {<<"known_merchants">>, <<"comma">>, <<"colon", "[">>}
  <2>1. r.id # <<"known_merchants">>
    BY DEF Usual, Ordinary, Keys
  <2>2. r.id \notin {<<"comma">>, <<"colon", "[">>}
    BY DEF Usual, Ordinary
  <2> QED
    BY <2>1, <2>2
<1>5. (\E q \in Occurrences(section, r.id) : Quoted(section, r.id, q)) <=> IsListed(r)
  <2>1. (\E q \in Occurrences(section, r.id) : Quoted(section, r.id, q))
            <=> \E i \in 1 .. Len(r.list) : r.list[i] = r.id
    BY ONLY <1>1, <1>3, <1>4, TextSearch
  <2> QED
    BY ONLY <2>1 DEF IsListed
<1>6. r.id = << >> => IsListed(r)
  BY DEF Usual, Ordinary
<1> HIDE DEF known
<1>7. known = IF IsListed(r) THEN "yes" ELSE "no"
  BY ONLY <1>3, <1>5, <1>6 DEF KnownIn
<1> QED
  BY <1>7 DEF known

LEMMA ScanFinds ==
    ASSUME NEW r, NEW Char, Usual(r, Char)
    PROVE  LET s == Scan(Document(r))
           IN  /\ s.ok = TRUE /\ s.new = r.new /\ s.field = FieldsOf(r)
               /\ ~r.new => s.history = HistoryOf(r)
               /\ s.known = IF IsListed(r) THEN "yes" ELSE "no"
<1> DEFINE doc == Document(r)
           customer == Position(doc, "customer", 1)
           merchant == Position(doc, "merchant", 1)
           terminal == Position(doc, "terminal", 1)
           last == Position(doc, "last_transaction", 1)
           found == [amount |-> NumberAfter(doc, "amount", 1),
                     installments |-> NumberAfter(doc, "installments", 1),
                     requested |-> TimeAfter(doc, "requested_at", 1),
                     customerAvg |-> NumberAfter(doc, "avg_amount", customer),
                     txCount |-> NumberAfter(doc, "tx_count_24h", customer),
                     id |-> StringAfter(doc, "id", merchant),
                     mcc |-> StringAfter(doc, "mcc", merchant),
                     merchantAvg |-> NumberAfter(doc, "avg_amount", merchant),
                     online |-> BoolAfter(doc, "is_online", terminal),
                     present |-> BoolAfter(doc, "card_present", terminal),
                     kmHome |-> NumberAfter(doc, "km_from_home", terminal)]
           history == [timestamp |-> TimeAfter(doc, "timestamp", last),
                       kmCurrent |-> NumberAfter(doc, "km_from_current", last)]
           new == last = 0 \/ (last < Len(doc) /\ doc[last + 1].t = "null")
           known == KnownMerchantJSON(doc, found.id.v, customer, merchant)
<1>1. Scan(doc) = IF 0 \in {customer, merchant, terminal}
                      \/ Missing(found) \/ (~new /\ Missing(history))
                  THEN [ok |-> FALSE]
                  ELSE [ok |-> TRUE, new |-> new, field |-> found, history |-> history,
                        known |-> known]
  BY DEF Scan
<1>2. Ordered(r.order) /\ NoNames(r) /\ CompleteRequest(r)
  BY DEF Usual, CompleteRequest
<1>3. PICK pieces, o : Arranged(doc, r, pieces, o)
  BY <1>2, DocumentIs
<1> HIDE DEF doc
<1>4. found = FieldsOf(r)
  BY <1>2, <1>3, TransactionRead, ObjectsRead DEF FieldsOf
<1>5. ~r.new => history = HistoryOf(r)
  BY <1>2, <1>3, ObjectsRead DEF HistoryOf
<1>6. found.id.v = r.id
  BY <1>4 DEF FieldsOf, Value
<1>7. /\ customer \in Nat \ {0} /\ merchant \in Nat \ {0} /\ terminal \in Nat \ {0}
  <2>1. /\ "customer" \in Objects /\ "merchant" \in Objects /\ "terminal" \in Objects
        /\ "customer" \in Keys /\ "merchant" \in Keys /\ "terminal" \in Keys
    BY DEF Objects, Keys
  <2>2. \A part \in Objects : part \in Keys => Position(doc, part, 1) \in Nat \ {0}
    BY <1>3, ObjectFound
  <2> QED
    BY <2>1, <2>2
<1>8. new = r.new
  <2>1. r.new \in BOOLEAN
    BY <1>2 DEF CompleteRequest
  <2>2. /\ last # 0 /\ last < Len(doc)
        /\ (r.new => doc[last + 1].t = "null") /\ (~r.new => doc[last + 1].t # "null")
    BY <1>3, <2>1, NewIsFound
  <2>3. new \in BOOLEAN /\ (new <=> r.new)
    BY <2>2
  <2> HIDE DEF new
  <2> QED
    BY ONLY <2>1, <2>3
<1>9. known = IF IsListed(r) THEN "yes" ELSE "no"
  BY <1>3, <1>6, MerchantRead
<1> HIDE DEF customer, merchant, terminal, last, found, history, new, known
<1>10. ~Missing(found)
  BY <1>4 DEF Missing, FieldsOf, Value
<1>11. ~r.new => ~Missing(history)
  BY <1>5 DEF Missing, HistoryOf, Value
<1>12. Scan(doc) = [ok |-> TRUE, new |-> new, field |-> found, history |-> history,
                    known |-> known]
  BY <1>1, <1>7, <1>8, <1>10, <1>11
<1> QED
  BY <1>4, <1>5, <1>8, <1>9, <1>12 DEF doc

-----------------------------------------------------------------------------
(* What clients send.                                                      *)
IsTime(t) ==
    /\ t.date \in Date /\ t.date.y >= 1970
    /\ t.hh \in 0 .. 23 /\ t.mm \in 0 .. 59 /\ t.ss \in 0 .. 59 /\ t.ago \in Int

\* A field may have been left out, of any object. No text holds a quote.
IsRequest(r, Char) ==
    /\ Ordered(r.order) /\ r.new \in BOOLEAN
    /\ \/ r.missing = << >>
       \/ \E part \in Objects :
            \E i \in 1 .. Len(Fields(r, part)) : r.missing = <<part, Fields(r, part)[i][1]>>
    /\ r.amount \in Int /\ r.installments \in Int /\ r.customerAvg \in Int
    /\ r.txCount \in Int /\ r.merchantAvg \in Int /\ r.kmHome \in Int
    /\ r.kmCurrent \in Int /\ r.online \in BOOLEAN /\ r.present \in BOOLEAN
    /\ IsTime(r.requested) /\ IsTime(r.last)
    /\ IsList(r.list, Char) /\ r.id \in Seq(Char) /\ "quote" \notin Char

LEMMA UsualRequest ==
    ASSUME NEW r, NEW Char, IsRequest(r, Char), Ordinary(r)
    PROVE  NoNames(r) /\ (r.missing = << >> => Usual(r, Char))
<1>1. IsTuple(r.list)
  BY DEF IsRequest, IsList, IsTuple
<1>2. NoNames(r)
  BY <1>1, OrdinaryNames
<1> QED
  BY <1>2 DEF IsRequest, Usual, CompleteRequest

\* No theorem depends on what is sent on a day that never comes.
Clients(Char) == \A date \in SinceEpoch : \A r \in Requests(date) : IsRequest(r, Char)

LEMMA AlwaysARequest ==
    ASSUME NEW Char, Beginning, Clients(Char)
    PROVE  Spec => [](Received => IsRequest(request, Char))
<1>1. Init => (Received => IsRequest(request, Char))
  BY DEF Init, Received, NoRequest
<1>2. Counting /\ (Received => IsRequest(request, Char)) /\ [Next]_vars
        => (Received => IsRequest(request, Char))'
  BY DEF Counting, Received, Next, NextDay, Arrive, vars, Clients
<1> QED
  BY <1>1, <1>2, AlwaysCounting, PTL DEF Spec

-----------------------------------------------------------------------------
\* Of ordinary texts the search in the list finds exactly the merchants that are in
\* it, and does not panic, in whatever order a complete request was written
\* (knownMerchantJSON, vectorize_json.go:281-310).
THEOREM KnownMerchantsAreListed ==
    ASSUME NEW Char, Beginning, Clients(Char)
    PROVE  Spec => []KnownMerchantIsInList
<1>1. (Received => IsRequest(request, Char)) => KnownMerchantIsInList
  <2> SUFFICES ASSUME Received => IsRequest(request, Char), Complete, Ordinary(request)
               PROVE  Scan(Document(request)).known
                        = IF IsListed(request) THEN "yes" ELSE "no"
    BY DEF KnownMerchantIsInList
  <2>1. Usual(request, Char)
    BY UsualRequest DEF Complete
  <2> QED
    BY <2>1, ScanFinds
<1> QED
  BY <1>1, AlwaysARequest, PTL

-----------------------------------------------------------------------------
(* The coordinates.                                                        *)
LEMMA QuantizedIs ==
    ASSUME NEW n \in Int, NEW d \in Int, 0 <= n, n <= d, 0 < d
    PROVE  QuantizeFloat64(n, d) = (2 * n * QuantScale + d) \div (2 * d)
BY DEF QuantizeFloat64

LEMMA QuantizedInScale ==
    ASSUME NEW n \in Int, NEW d \in Int, 0 <= n, n <= d, 0 < d
    PROVE  QuantizeFloat64(n, d) \in 0 .. QuantScale
<1> DEFINE a == 2 * n * QuantScale + d
           b == 2 * d
           q == a \div b
<1>1. QuantScale = 10000
  BY DEF QuantScale
<1>2. a \in Nat /\ b \in Nat \ {0} /\ a < b * (QuantScale + 1)
  BY <1>1
<1> HIDE DEF a, b
<1>3. q \in Nat /\ q * b <= a
  BY ONLY <1>2, Division DEF q
<1> HIDE DEF q
<1>4. ~(q > QuantScale)
  <2>1. ASSUME q > QuantScale PROVE FALSE
    <3>1. PICK e \in Nat : q = QuantScale + 1 + e
      BY <1>1, <1>3, <2>1
    <3>2. q * b = b * (QuantScale + 1) + e * b
      BY <1>1, <1>2, <3>1
    <3>3. e * b \in Nat /\ b * (QuantScale + 1) \in Nat
      BY <1>1, <1>2
    <3> QED
      BY <1>2, <1>3, <3>2, <3>3
  <2> QED
    BY <2>1
<1>5. QuantizeFloat64(n, d) = q
  BY QuantizedIs DEF q, a, b
<1> QED
  BY <1>1, <1>3, <1>4, <1>5

LEMMA CoordinateInScale ==
    ASSUME NEW n \in Int, NEW d \in Int
    PROVE  Coordinate(n, d) \in 0 .. QuantScale
<1>1. CASE d <= 0
  BY <1>1 DEF Coordinate, QuantScale
<1>2. CASE d > 0
  <2>1. Clamp(n, d) \in Int /\ 0 <= Clamp(n, d) /\ Clamp(n, d) <= d /\ 0 < d
    BY <1>2 DEF Clamp
  <2>2. QuantizeFloat64(Clamp(n, d), d) \in 0 .. QuantScale
    BY <2>1, QuantizedInScale
  <2> QED
    BY <1>2, <2>2 DEF Coordinate
<1> QED
  BY <1>1, <1>2

LEMMA FlagInScale == \A b : Flag(b) \in 0 .. QuantScale
BY DEF Flag, QuantScale

LEMMA RiskIsKnown ==
    ASSUME NEW mcc
    PROVE  Risk(mcc) \in 0 .. 100
<1>1. ASSUME NEW c \in DOMAIN MccRisk, mcc = <<c>> PROVE Risk(mcc) \in 0 .. 100
  <2>1. MccRisk[c] \in 0 .. 100
    BY DEF MccRisk
  <2>2. mcc[1] = c
    BY <1>1
  <2> QED
    BY <1>1, <2>1, <2>2 DEF Risk
<1>2. CASE ~\E c \in DOMAIN MccRisk : mcc = <<c>>
  BY <1>2 DEF Risk
<1> QED
  BY <1>1, <1>2

\* No date is before the epoch.
LEMMA DaysAreNatural ==
    ASSUME NEW t \in Date, t.y >= 1970
    PROVE  DaysFromCivil(t) \in Nat
<1> DEFINE y == March(t)
           e == y \div 400
           k == y - e * 400
<1>1. t.y \in Nat /\ t.m \in 1 .. 12 /\ t.d \in 1 .. 31
  BY DEF Date
<1>2. y \in Int /\ y >= 1969 /\ (y = 1969 => t.m <= 2)
  BY <1>1 DEF March
<1>3. SinceMarch(t) \in Nat /\ (t.m <= 2 => SinceMarch(t) >= 306)
  BY <1>1 DEF SinceMarch
<1> HIDE DEF y
<1>4. e \in Int /\ k \in 0 .. 399 /\ y = e * 400 + k /\ e >= 4
  BY <1>2
<1>5. Firsts(y) = e * 146097 + (k * 365 + k \div 4 - k \div 100)
  BY <1>4 DEF Firsts, DayOfEra
<1> HIDE DEF e, k
<1>6. Firsts(y) \in Int /\ Firsts(y) >= 719162 /\ (y > 1969 => Firsts(y) >= 719468)
  BY <1>2, <1>4, <1>5
<1>7. DaysFromCivil(t) = Firsts(y) + SinceMarch(t) - 719468
  BY CountFromMarch DEF y
<1> QED
  BY <1>2, <1>3, <1>6, <1>7

LEMMA WeekdayIs ==
    ASSUME NEW t \in Date, t.y >= 1970
    PROVE  WeekdayMonday0(t) \in 0 .. 6 /\ WeekdayMonday0(t) = (DaysFromCivil(t) + 3) % 7
<1> DEFINE n == DaysFromCivil(t)
<1>1. n \in Nat
  BY DaysAreNatural
<1>2. WeekdayMonday0(t) = Rem(n + 3, 7)
  BY DEF WeekdayMonday0
<1> HIDE DEF n
<1>3. Rem(n + 3, 7) = (n + 3) % 7
  BY <1>1 DEF Rem
<1>4. (n + 3) % 7 \in 0 .. 6
  BY <1>1
<1> QED
  BY <1>2, <1>3, <1>4 DEF n

LEMMA MinutesAreWhole ==
    ASSUME NEW t, IsTime(t)
    PROVE  /\ EpochMinutes(t) \in Int
           /\ EpochMinutes(t) = DaysFromCivil(t.date) * 1440 + t.hh * 60 + t.mm
           /\ DaysFromCivil(t.date) \in Nat
<1>1. DaysFromCivil(t.date) \in Nat
  BY DaysAreNatural DEF IsTime
<1> QED
  BY <1>1 DEF EpochMinutes, IsTime

\* What VectorizeJSONQuantized takes from a complete request.
Read(r) ==
    LET s == Scan(Document(r))
    IN  [f \in DOMAIN s.field |-> s.field[f].v]
Made(r) ==
    LET s == Scan(Document(r))
        time == s.field.requested.v
    IN  [hour |-> time.hh, weekday |-> WeekdayMonday0(time.date),
         new |-> s.new, known |-> s.known = "yes",
         minutes |-> IF s.new THEN <<0, 1>>
                     ELSE <<EpochMinutes(time) - EpochMinutes(s.history.timestamp.v), 1>>,
         kmCurrent |-> s.history.kmCurrent.v]

LEMMA VectorIsRead == \A r : VectorizeJSONQuantized(Document(r)) = Vector(Read(r), Made(r))
BY DEF VectorizeJSONQuantized, Read, Made

LEMMA ReadIs ==
    ASSUME NEW r, NEW Char, Usual(r, Char)
    PROVE  LET f == Read(r)
           IN  /\ f.amount = r.amount /\ f.installments = r.installments
               /\ f.customerAvg = r.customerAvg /\ f.txCount = r.txCount
               /\ f.mcc = r.mcc /\ f.merchantAvg = r.merchantAvg
               /\ f.online = r.online /\ f.present = r.present /\ f.kmHome = r.kmHome
<1> DEFINE s == Scan(Document(r))
<1>1. s.field = FieldsOf(r)
  BY ScanFinds
<1>2. Read(r) = [f \in DOMAIN s.field |-> s.field[f].v]
  BY DEF Read
<1> HIDE DEF s
<1>3. Read(r) = [f \in DOMAIN FieldsOf(r) |-> FieldsOf(r)[f].v]
  BY <1>1, <1>2
<1> QED
  BY <1>3 DEF FieldsOf, Value

LEMMA MadeIs ==
    ASSUME NEW r, NEW Char, Usual(r, Char)
    PROVE  LET x == Made(r)
           IN  /\ x.hour = r.requested.hh /\ x.weekday = WeekdayMonday0(r.requested.date)
               /\ x.new = r.new /\ x.known = (Scan(Document(r)).known = "yes")
               /\ ~r.new => /\ x.minutes = <<EpochMinutes(r.requested) - EpochMinutes(r.last), 1>>
                            /\ x.kmCurrent = r.kmCurrent
<1> DEFINE s == Scan(Document(r))
           time == s.field.requested.v
<1>1. s.new = r.new /\ s.field = FieldsOf(r) /\ (~r.new => s.history = HistoryOf(r))
  BY ScanFinds
<1>2. Made(r) = [hour |-> time.hh, weekday |-> WeekdayMonday0(time.date),
                 new |-> s.new, known |-> s.known = "yes",
                 minutes |-> IF s.new THEN <<0, 1>>
                             ELSE <<EpochMinutes(time) - EpochMinutes(s.history.timestamp.v), 1>>,
                 kmCurrent |-> s.history.kmCurrent.v]
  BY DEF Made
<1>3. time = r.requested
  BY <1>1 DEF FieldsOf, Value
<1>4. ~r.new => s.history.timestamp.v = r.last /\ s.history.kmCurrent.v = r.kmCurrent
  BY <1>1 DEF HistoryOf, Value
<1> HIDE DEF time
<1>5. /\ Made(r).hour = time.hh /\ Made(r).weekday = WeekdayMonday0(time.date)
      /\ Made(r).new = s.new /\ Made(r).known = (s.known = "yes")
      /\ Made(r).minutes = IF s.new THEN <<0, 1>>
                           ELSE <<EpochMinutes(time) - EpochMinutes(s.history.timestamp.v), 1>>
      /\ Made(r).kmCurrent = s.history.kmCurrent.v
  BY <1>2
<1> HIDE DEF s
<1> QED
  BY <1>1, <1>3, <1>4, <1>5 DEF s

-----------------------------------------------------------------------------
\* The coordinates of a complete request of ordinary texts stay within the scale,
\* and -1, which the search takes for "no last transaction", is given to nothing
\* else, whatever the amounts and times are (vectorize_json.go:165-180, :356).
THEOREM MinusOneAlwaysMeansNoHistory ==
    ASSUME NEW Char, Beginning, Clients(Char)
    PROVE  Spec => []MinusOneMeansNoHistory
<1>1. ASSUME NEW r, IsRequest(r, Char), r.missing = << >>, Ordinary(r)
      PROVE  LET vector == VectorizeJSONQuantized(Document(r))
             IN /\ \A i \in 1 .. 14 \ {6, 7} : vector[i] \in 0 .. QuantScale
                /\ \A i \in {6, 7} :
                     vector[i] \in IF r.new THEN {-QuantScale} ELSE 0 .. QuantScale
  <2> DEFINE f == Read(r)
             x == Made(r)
             v == Vector(f, x)
             In(c) == c \in 0 .. QuantScale
  <2>1. Usual(r, Char)
    BY <1>1, UsualRequest
  <2>2. /\ f.amount \in Int /\ f.installments \in Int /\ f.customerAvg \in Int
        /\ f.txCount \in Int /\ f.merchantAvg \in Int /\ f.kmHome \in Int
        /\ f.online = r.online /\ f.present = r.present /\ f.mcc = r.mcc
    BY <1>1, <2>1, ReadIs DEF IsRequest
  <2>3. IsTime(r.requested) /\ IsTime(r.last) /\ r.kmCurrent \in Int
    BY <1>1 DEF IsRequest
  <2>4. x.hour \in 0 .. 23 /\ x.weekday \in 0 .. 6 /\ x.new = r.new
    BY <2>1, <2>3, MadeIs, WeekdayIs DEF IsTime
  <2>5. ~r.new => /\ x.minutes[1] \in Int /\ x.minutes[2] = 1 /\ x.kmCurrent \in Int
    BY <2>1, <2>3, MadeIs, MinutesAreWhole
  <2> HIDE DEF f, x
  <2>6. \A n \in Int, d \in Int : In(Coordinate(n, d))
    BY CoordinateInScale
  <2>7. /\ In(QuantizeFloat64(x.hour, 23)) /\ In(QuantizeFloat64(x.weekday, 6))
        /\ In(QuantizeFloat64(Risk(f.mcc), 100))
    <3>1. \A n, d \in Int : 0 <= n /\ n <= d /\ 0 < d => In(QuantizeFloat64(n, d))
      BY QuantizedInScale
    <3>2. Risk(f.mcc) \in 0 .. 100
      BY RiskIsKnown
    <3> HIDE DEF In
    <3> QED
      BY <2>4, <3>1, <3>2
  <2>8. In(Flag(f.online)) /\ In(Flag(f.present)) /\ In(Flag(~x.known))
    BY FlagInScale
  <2>9. ~r.new => /\ In(Coordinate(x.minutes[1], x.minutes[2] * 1440))
                  /\ In(Coordinate(x.kmCurrent, 1000))
    <3>1. ~r.new => x.minutes[2] * 1440 \in Int
      BY <2>5
    <3> HIDE DEF In
    <3> QED
      BY <2>5, <2>6, <3>1
  <2> HIDE DEF In
  <2>10. /\ In(Coordinate(f.amount, 10000)) /\ In(Coordinate(f.installments, 12))
         /\ In(Coordinate(1, 10)) /\ In(Coordinate(f.amount, 10 * f.customerAvg))
         /\ In(Coordinate(f.kmHome, 1000)) /\ In(Coordinate(f.txCount, 20))
         /\ In(Coordinate(f.merchantAvg, 10000))
    BY <2>2, <2>6
  <2>11. /\ v[1] = Coordinate(f.amount, 10000) /\ v[2] = Coordinate(f.installments, 12)
         /\ v[3] = (IF f.customerAvg <= 0 THEN Coordinate(1, 10)
                    ELSE Coordinate(f.amount, 10 * f.customerAvg))
         /\ v[4] = QuantizeFloat64(x.hour, 23) /\ v[5] = QuantizeFloat64(x.weekday, 6)
         /\ v[6] = (IF x.new THEN -QuantScale
                    ELSE Coordinate(x.minutes[1], x.minutes[2] * 1440))
         /\ v[7] = (IF x.new THEN -QuantScale ELSE Coordinate(x.kmCurrent, 1000))
         /\ v[8] = Coordinate(f.kmHome, 1000) /\ v[9] = Coordinate(f.txCount, 20)
         /\ v[10] = Flag(f.online) /\ v[11] = Flag(f.present) /\ v[12] = Flag(~x.known)
         /\ v[13] = QuantizeFloat64(Risk(f.mcc), 100)
         /\ v[14] = Coordinate(f.merchantAvg, 10000)
    BY DEF Vector
  <2> HIDE DEF v
  <2>12. \A i \in 1 .. 14 \ {6, 7} : In(v[i])
    <3>1. \A i \in 1 .. 14 \ {6, 7} : i \in {1, 2, 3, 4, 5, 8, 9, 10, 11, 12, 13, 14}
      OBVIOUS
    <3>2. In(v[1]) /\ In(v[2]) /\ In(v[3]) /\ In(v[8]) /\ In(v[9]) /\ In(v[14])
      BY <2>10, <2>11
    <3>3. In(v[4]) /\ In(v[5]) /\ In(v[10]) /\ In(v[11]) /\ In(v[12]) /\ In(v[13])
      BY <2>7, <2>8, <2>11
    <3> QED
      BY ONLY <3>1, <3>2, <3>3
  <2>13. /\ r.new => v[6] = -QuantScale /\ v[7] = -QuantScale
         /\ ~r.new => In(v[6]) /\ In(v[7])
    BY <2>4, <2>9, <2>11
  <2>14. VectorizeJSONQuantized(Document(r)) = v
    BY VectorIsRead DEF v, f, x
  <2> QED
    BY <2>12, <2>13, <2>14 DEF In
<1>2. (Received => IsRequest(request, Char)) => MinusOneMeansNoHistory
  BY <1>1 DEF MinusOneMeansNoHistory, Complete
<1> QED
  BY <1>2, AlwaysARequest, PTL

-----------------------------------------------------------------------------
(* The parser's vector. A time is so many days before the day on which the *)
(* request arrives, or after it.                                           *)
IsAgo(t, date) ==
    IF t.ago >= 0 THEN DaysLater(t.date, date, t.ago) ELSE DaysLater(date, t.date, -t.ago)

Dated(r, date) == IsAgo(r.requested, date) /\ IsAgo(r.last, date)
ClientsDate == \A date \in SinceEpoch : \A r \in Requests(date) : Dated(r, date)

LEMMA AgoCounted ==
    ASSUME NEW t, IsTime(t), NEW date \in Date, IsAgo(t, date)
    PROVE  DaysFromCivil(t.date) = DaysFromCivil(date) - t.ago
<1>1. t.ago \in Int
  BY DEF IsTime
<1>2. CASE t.ago >= 0
  <2>1. DaysLater(t.date, date, t.ago)
    BY <1>2 DEF IsAgo
  <2>2. DaysFromCivil(t.date) \in Int /\ DaysFromCivil(date) = DaysFromCivil(t.date) + t.ago
    BY <2>1, LaterCounted
  <2> QED
    BY <1>1, <2>2
<1>3. CASE ~(t.ago >= 0)
  <2>1. DaysLater(date, t.date, -t.ago)
    BY <1>3 DEF IsAgo
  <2>2. DaysFromCivil(date) \in Int /\ DaysFromCivil(t.date) = DaysFromCivil(date) + (-t.ago)
    BY <2>1, LaterCounted
  <2> QED
    BY <1>1, <2>2
<1> QED
  BY <1>2, <1>3

LEMMA AlwaysDated ==
    ASSUME Beginning, ClientsDate
    PROVE  Spec => [](Received => Dated(request, today))
<1>1. Init => (Received => Dated(request, today))
  BY DEF Init, Received, NoRequest
<1>2. Counting /\ (Received => Dated(request, today)) /\ [Next]_vars
        => (Received => Dated(request, today))'
  <2> SUFFICES ASSUME Counting, Received => Dated(request, today), [Next]_vars, Received'
               PROVE  Dated(request, today)'
    OBVIOUS
  <2>1. CASE NextDay
    BY <2>1 DEF NextDay, Received
  <2>2. CASE Arrive
    BY <2>2 DEF Arrive, Counting, ClientsDate
  <2>3. CASE UNCHANGED vars
    BY <2>3 DEF vars, Received
  <2> QED
    BY <2>1, <2>2, <2>3 DEF Next
<1> QED
  BY <1>1, <1>2, AlwaysCounting, PTL DEF Spec

LEMMA ClampsInRange ==
    ASSUME NEW m \in Int, NEW s \in Int
    PROVE  /\ Clamp(m, 1440) \in Int /\ 0 <= Clamp(m, 1440) /\ Clamp(m, 1440) <= 1440
           /\ Clamp(s, 86400) \in Int /\ 0 <= Clamp(s, 86400) /\ Clamp(s, 86400) <= 86400
<1>1. Clamp(m, 1440) \in Int /\ 0 <= Clamp(m, 1440) /\ Clamp(m, 1440) <= 1440
  BY DEF Clamp
<1>2. Clamp(s, 86400) \in Int /\ 0 <= Clamp(s, 86400) /\ Clamp(s, 86400) <= 86400
  BY DEF Clamp
<1> QED
  BY ONLY <1>1, <1>2

\* A minute is seven ten thousandths of a day.
LEMMA SecondsAreFine ==
    ASSUME NEW m \in Int, NEW s \in Int, s - 60 * m \in -59 .. 59
    PROVE  Distance(Coordinate(m, 1440), Coordinate(s, 86400)) <= 7
<1> DEFINE a == Clamp(m, 1440)
           b == Clamp(s, 86400)
<1>1. a \in Int /\ 0 <= a /\ a <= 1440 /\ b \in Int /\ 0 <= b /\ b <= 86400
  BY ONLY m \in Int, s \in Int, ClampsInRange
<1>2. b - 60 * a \in -59 .. 59
  <2>1. s \in Int /\ m \in Int /\ s - 60 * m \in -59 .. 59
    OBVIOUS
  <2>2. CASE m < 0
    <3>1. a = 0
      BY <2>2 DEF Clamp
    <3>2. s <= 0
      BY ONLY <2>1, <2>2
    <3>3. b = 0
      BY <2>1, <3>2 DEF Clamp
    <3> HIDE DEF a, b
    <3> QED
      BY ONLY <3>1, <3>3
  <2>3. CASE m > 1440
    <3>1. a = 1440
      BY <2>3 DEF Clamp
    <3>2. s > 86400
      BY ONLY <2>1, <2>3
    <3>3. b = 86400
      BY <2>1, <3>2 DEF Clamp
    <3> HIDE DEF a, b
    <3> QED
      BY ONLY <3>1, <3>3
  <2>4. CASE 0 <= m /\ m <= 1440
    <3>1. a = m
      BY <2>4 DEF Clamp
    <3>2. b = (IF s < 0 THEN 0 ELSE IF s > 86400 THEN 86400 ELSE s)
      BY <2>1 DEF Clamp
    <3> HIDE DEF a, b
    <3> QED
      BY ONLY <2>1, <2>4, <3>1, <3>2
  <2> HIDE DEF a, b
  <2> QED
    BY ONLY <2>1, <2>2, <2>3, <2>4
<1>3. Coordinate(m, 1440) = QuantizeFloat64(a, 1440)
      /\ Coordinate(s, 86400) = QuantizeFloat64(b, 86400)
  BY DEF Coordinate
<1> HIDE DEF a, b
<1>4. /\ QuantizeFloat64(a, 1440) = (2 * a * 10000 + 1440) \div 2880
      /\ QuantizeFloat64(b, 86400) = (2 * b * 10000 + 86400) \div 172800
  <2>1. /\ QuantizeFloat64(a, 1440) = (2 * a * QuantScale + 1440) \div (2 * 1440)
        /\ QuantizeFloat64(b, 86400) = (2 * b * QuantScale + 86400) \div (2 * 86400)
    BY <1>1, QuantizedIs
  <2>2. QuantScale = 10000 /\ 2 * 1440 = 2880 /\ 2 * 86400 = 172800
    BY DEF QuantScale
  <2> QED
    BY ONLY <2>1, <2>2
<1> DEFINE p == (2 * a * 10000 + 1440) \div 2880
           q == (2 * b * 10000 + 86400) \div 172800
<1>5. /\ p \in Int /\ q \in Int
      /\ 2880 * p <= 20000 * a + 1440 /\ 20000 * a + 1440 < 2880 * p + 2880
      /\ 172800 * q <= 20000 * b + 86400 /\ 20000 * b + 86400 < 172800 * q + 172800
  BY <1>1
<1> HIDE DEF p, q
<1>6. p - q <= 7 /\ q - p <= 7
  BY <1>1, <1>2, <1>5
<1> QED
  BY <1>3, <1>4, <1>5, <1>6 DEF p, q, Distance

\* The seconds between two times, and the minutes between them without their seconds.
InMinutes(t, u) ==
    \E m \in Int, e \in -59 .. 59 :
        m = EpochMinutes(t) - EpochMinutes(u) /\ SecondsSince(t, u) = 60 * m + e

LEMMA InSeconds ==
    ASSUME NEW t, NEW u, IsTime(t), IsTime(u), NEW n \in Int,
           DaysFromCivil(t.date) = n - t.ago, DaysFromCivil(u.date) = n - u.ago
    PROVE  InMinutes(t, u)
<1> DEFINE a == t.ago
           b == u.ago
           h == t.hh
           i == u.hh
           j == t.mm
           k == u.mm
           e == t.ss - u.ss
           p == EpochMinutes(t)
           q == EpochMinutes(u)
<1>1. /\ a \in Int /\ b \in Int /\ h \in Int /\ i \in Int /\ j \in Int /\ k \in Int
      /\ t.ss \in 0 .. 59 /\ u.ss \in 0 .. 59
  BY DEF IsTime
<1>2. p = (n - a) * 1440 + h * 60 + j /\ q = (n - b) * 1440 + i * 60 + k
  BY MinutesAreWhole
<1>3. SecondsSince(t, u) = (((b - a) * 24 + h - i) * 60 + j - k) * 60 + t.ss - u.ss
  BY DEF SecondsSince
<1>4. e \in -59 .. 59
  BY <1>1
<1> HIDE DEF a, b, h, i, j, k, p, q
<1>5. p \in Int /\ q \in Int /\ p - q = (b - a) * 1440 + (h - i) * 60 + (j - k)
  BY ONLY <1>1, <1>2, n \in Int
<1>6. (((b - a) * 24 + h - i) * 60 + j - k) * 60 + t.ss - u.ss = 60 * (p - q) + e
  BY ONLY <1>1, <1>5 DEF e
<1>7. EpochMinutes(t) - EpochMinutes(u) = p - q
  BY DEF p, q
<1>8. SecondsSince(t, u) = 60 * (p - q) + e /\ p - q \in Int
  BY ONLY <1>3, <1>5, <1>6
<1> HIDE DEF e
<1> QED
  BY ONLY <1>4, <1>7, <1>8 DEF InMinutes

\* A complete request of ordinary texts gives the vector that the parser and
\* Vectorize would give, in whatever order it was written and on whatever day it
\* arrives; only the minutes may be off, by less than one
\* (vectorize_json.go:95-183, :302, :394).
THEOREM JSONAlwaysMatchesStruct ==
    ASSUME NEW Char, Beginning, Clients(Char), ClientsDate
    PROVE  Spec => []JSONMatchesStruct
<1>1. ASSUME NEW r, NEW date, NEW n, IsRequest(r, Char), r.missing = << >>,
             Dated(r, date), date \in Date, n = DaysFromCivil(date), Ordinary(r)
      PROVE  Matches(VectorizeJSONQuantized(Document(r)), StructVector(r, n))
  <2> DEFINE f == Read(r)
             x == Made(r)
             seconds == SecondsSince(r.requested, r.last)
             y == [hour |-> r.requested.hh, weekday |-> (n - r.requested.ago + 3) % 7,
                   new |-> r.new, known |-> \E i \in 1 .. Len(r.list) : r.list[i] = r.id,
                   minutes |-> <<seconds, 60>>, kmCurrent |-> r.kmCurrent]
             v == Vector(f, x)
             w == Vector(r, y)
  <2>1. Usual(r, Char)
    BY <1>1, UsualRequest
  <2>2. /\ f.amount = r.amount /\ f.installments = r.installments
        /\ f.customerAvg = r.customerAvg /\ f.txCount = r.txCount
        /\ f.mcc = r.mcc /\ f.merchantAvg = r.merchantAvg
        /\ f.online = r.online /\ f.present = r.present /\ f.kmHome = r.kmHome
    BY <2>1, ReadIs
  <2>3. IsTime(r.requested) /\ IsTime(r.last) /\ r.new \in BOOLEAN
    BY <1>1 DEF IsRequest
  <2>4. /\ y.hour = r.requested.hh /\ y.weekday = (n - r.requested.ago + 3) % 7
        /\ y.new = r.new /\ y.known = (\E i \in 1 .. Len(r.list) : r.list[i] = r.id)
        /\ y.minutes = <<seconds, 60>> /\ y.kmCurrent = r.kmCurrent
    OBVIOUS
  <2>5. /\ x.hour = r.requested.hh /\ x.weekday = WeekdayMonday0(r.requested.date)
        /\ x.new = r.new /\ x.known = (Scan(Document(r)).known = "yes")
        /\ ~r.new => /\ x.minutes = <<EpochMinutes(r.requested) - EpochMinutes(r.last), 1>>
                     /\ x.kmCurrent = r.kmCurrent
    BY <2>1, MadeIs
  <2>6. StructVector(r, n) = w
    BY DEF StructVector
  <2> HIDE DEF f, x, y, seconds
  <2>7. /\ DaysFromCivil(r.requested.date) = n - r.requested.ago
        /\ DaysFromCivil(r.last.date) = n - r.last.ago
    BY <1>1, <2>3, AgoCounted DEF Dated
  <2>8. x.hour = y.hour /\ x.weekday = y.weekday /\ x.new = y.new
    BY <2>3, <2>4, <2>5, <2>7, WeekdayIs DEF IsTime
  <2>9. x.known = y.known
    <3> DEFINE k == Scan(Document(r)).known
    <3>1. k = IF IsListed(r) THEN "yes" ELSE "no"
      BY <2>1, ScanFinds
    <3>2. x.known = (k = "yes") /\ y.known = IsListed(r)
      BY <2>4, <2>5 DEF IsListed
    <3>3. IsListed(r) \in BOOLEAN
      BY DEF IsListed
    <3> HIDE DEF k
    <3> QED
      BY ONLY <3>1, <3>2, <3>3
  <2>10. ~r.new => Distance(Coordinate(x.minutes[1], x.minutes[2] * 1440),
                            Coordinate(y.minutes[1], y.minutes[2] * 1440)) <= 7
    <3> SUFFICES ASSUME ~r.new
                 PROVE  Distance(Coordinate(x.minutes[1], x.minutes[2] * 1440),
                                 Coordinate(y.minutes[1], y.minutes[2] * 1440)) <= 7
      OBVIOUS
    <3>1. n \in Int
      <4>1. date \in Date /\ n = DaysFromCivil(date)
        BY <1>1
      <4>2. /\ Firsts(March(date)) \in Int /\ SinceMarch(date) \in Nat
            /\ DaysFromCivil(date) = Firsts(March(date)) + SinceMarch(date) - 719468
        BY ONLY <4>1, CountFromMarch
      <4> QED
        BY ONLY <4>1, <4>2
    <3>2. PICK m \in Int, e \in -59 .. 59 :
            /\ m = EpochMinutes(r.requested) - EpochMinutes(r.last)
            /\ seconds = 60 * m + e
      <4>1. InMinutes(r.requested, r.last)
        BY <2>3, <2>7, <3>1, InSeconds
      <4> QED
        BY ONLY <4>1 DEF InMinutes, seconds
    <3>3. x.minutes[1] = m /\ x.minutes[2] = 1 /\ y.minutes[1] = 60 * m + e /\ y.minutes[2] = 60
      BY <2>4, <2>5, <3>2
    <3>4. seconds \in Int /\ seconds - 60 * m \in -59 .. 59
      BY ONLY <3>2, m \in Int, e \in -59 .. 59
    <3>5. Distance(Coordinate(m, 1440), Coordinate(seconds, 86400)) <= 7
      BY ONLY m \in Int, <3>4, SecondsAreFine
    <3>6. x.minutes[2] * 1440 = 1440 /\ y.minutes[2] * 1440 = 86400
      BY ONLY <3>3
    <3>7. y.minutes[1] = seconds
      BY ONLY <3>2, <3>3
    <3> QED
      BY ONLY <3>3, <3>5, <3>6, <3>7
  <2>11. v = << Coordinate(f.amount, 10000), Coordinate(f.installments, 12),
                IF f.customerAvg <= 0 THEN Coordinate(1, 10)
                                      ELSE Coordinate(f.amount, 10 * f.customerAvg),
                QuantizeFloat64(x.hour, 23), QuantizeFloat64(x.weekday, 6),
                IF x.new THEN -QuantScale ELSE Coordinate(x.minutes[1], x.minutes[2] * 1440),
                IF x.new THEN -QuantScale ELSE Coordinate(x.kmCurrent, 1000),
                Coordinate(f.kmHome, 1000), Coordinate(f.txCount, 20),
                Flag(f.online), Flag(f.present), Flag(~x.known),
                QuantizeFloat64(Risk(f.mcc), 100), Coordinate(f.merchantAvg, 10000) >>
    BY DEF Vector
  <2>12. w = << Coordinate(r.amount, 10000), Coordinate(r.installments, 12),
                IF r.customerAvg <= 0 THEN Coordinate(1, 10)
                                      ELSE Coordinate(r.amount, 10 * r.customerAvg),
                QuantizeFloat64(y.hour, 23), QuantizeFloat64(y.weekday, 6),
                IF y.new THEN -QuantScale ELSE Coordinate(y.minutes[1], y.minutes[2] * 1440),
                IF y.new THEN -QuantScale ELSE Coordinate(y.kmCurrent, 1000),
                Coordinate(r.kmHome, 1000), Coordinate(r.txCount, 20),
                Flag(r.online), Flag(r.present), Flag(~y.known),
                QuantizeFloat64(Risk(r.mcc), 100), Coordinate(r.merchantAvg, 10000) >>
    BY DEF Vector
  <2>13. /\ v[1] = w[1] /\ v[2] = w[2] /\ v[3] = w[3] /\ v[4] = w[4] /\ v[5] = w[5]
         /\ v[8] = w[8] /\ v[9] = w[9] /\ v[10] = w[10] /\ v[11] = w[11] /\ v[12] = w[12]
         /\ v[13] = w[13] /\ v[14] = w[14]
    BY ONLY <2>2, <2>8, <2>9, <2>11, <2>12
  <2>14. v[7] = w[7]
    <3>1. ~r.new => x.kmCurrent = y.kmCurrent
      BY <2>4, <2>5
    <3>2. v[7] = IF x.new THEN -QuantScale ELSE Coordinate(x.kmCurrent, 1000)
      BY ONLY <2>11
    <3>3. w[7] = IF y.new THEN -QuantScale ELSE Coordinate(y.kmCurrent, 1000)
      BY ONLY <2>12
    <3>4. y.new = r.new /\ x.new = y.new
      BY ONLY <2>4, <2>8
    <3> QED
      BY ONLY <3>1, <3>2, <3>3, <3>4
  <2>15. Distance(v[6], w[6]) <= 7
    <3>1. CASE r.new
      <4>1. v[6] = -10000 /\ w[6] = -10000
        BY <2>4, <2>5, <2>11, <2>12, <3>1 DEF QuantScale
      <4> QED
        BY <4>1 DEF Distance
    <3>2. CASE ~r.new
      <4>1. /\ v[6] = Coordinate(x.minutes[1], x.minutes[2] * 1440)
            /\ w[6] = Coordinate(y.minutes[1], y.minutes[2] * 1440)
        BY <2>4, <2>5, <2>11, <2>12, <3>2
      <4> QED
        BY <2>10, <3>2, <4>1
    <3> QED
      BY <3>1, <3>2
  <2>16. VectorizeJSONQuantized(Document(r)) = v
    BY VectorIsRead DEF v, f, x
  <2> HIDE DEF v, w
  <2>17. \A i \in 1 .. 14 : i \in {1, 2, 3, 4, 5, 6, 7, 8, 9, 10, 11, 12, 13, 14}
    OBVIOUS
  <2>18. \A i \in 1 .. 14 : IF i = 6 THEN Distance(v[i], w[i]) <= 7 ELSE v[i] = w[i]
    BY ONLY <2>13, <2>14, <2>15, <2>17
  <2> QED
    BY <2>6, <2>16, <2>18 DEF Matches
<1>2. (Received => IsRequest(request, Char)) /\ (Received => Dated(request, today)) /\ Counting
        => JSONMatchesStruct
  BY <1>1 DEF JSONMatchesStruct, Complete, Counting, SinceEpoch
<1> QED
  BY <1>2, AlwaysARequest, AlwaysDated, AlwaysCounting, PTL

-----------------------------------------------------------------------------
(* A field that was left out.                                              *)
LEMMA NowhereElse ==
    ASSUME NEW doc, NEW r, NEW pieces, NEW o, Arranged(doc, r, pieces, o),
           NEW part \in Objects, NEW name \in Names[part] \ Objects, name \in Keys,
           r.missing = <<part, name>>,
           \A other \in Parts : other # part => name \notin Names[other]
    PROVE  Lacks(doc, name)
<1>1. IsDocument(doc, pieces, o) /\ Len(pieces) = 6
  BY DEF Arranged
<1>2. ASSUME NEW j \in 1 .. Len(pieces) PROVE Lacks(pieces[j], name)
  <2>1. r.order[j] \in Parts /\ IsPart(pieces[j], r, r.order[j])
    BY <1>1 DEF Arranged, Ordered
  <2>2. name # r.order[j]
    <3>1. CASE r.order[j] = part
      BY <3>1
    <3>2. CASE r.order[j] # part
      <4>1. name \notin Names[r.order[j]]
        BY <2>1, <3>2
      <4>2. r.order[j] \in Names[r.order[j]]
        BY <2>1 DEF Parts, Objects, Names
      <4> QED
        BY <4>1, <4>2
    <3> QED
      BY <3>1, <3>2
  <2>3. ~NameLeft(r, r.order[j], name)
    BY <2>1 DEF NameLeft
  <2> QED
    BY <2>1, <2>2, <2>3, NamesInPart
<1> QED
  BY <1>1, <1>2, NowhereInDocument

LEMMA NotRead ==
    ASSUME NEW doc, Len(doc) \in Nat, NEW name, Lacks(doc, name),
           NEW types, NEW start \in Nat \ {0}
    PROVE  ValueAfter(doc, types, name, start) = None
<1>1. Position(doc, name, start) = 0
  BY NoPosition
<1> QED
  BY <1>1, NoValue

\* The scanner refuses a document in which it does not find what it needs.
LEMMA ScanRefuses ==
    ASSUME NEW doc,
           LET customer == Position(doc, "customer", 1)
               merchant == Position(doc, "merchant", 1)
               terminal == Position(doc, "terminal", 1)
               last == Position(doc, "last_transaction", 1)
           IN  \/ NumberAfter(doc, "amount", 1) = None
               \/ NumberAfter(doc, "installments", 1) = None
               \/ TimeAfter(doc, "requested_at", 1) = None
               \/ NumberAfter(doc, "tx_count_24h", customer) = None
               \/ StringAfter(doc, "mcc", merchant) = None
               \/ BoolAfter(doc, "is_online", terminal) = None
               \/ BoolAfter(doc, "card_present", terminal) = None
               \/ NumberAfter(doc, "km_from_home", terminal) = None
               \/ /\ last # 0 /\ ~(last < Len(doc) /\ doc[last + 1].t = "null")
                  /\ \/ TimeAfter(doc, "timestamp", last) = None
                     \/ NumberAfter(doc, "km_from_current", last) = None
    PROVE  Scan(doc).ok = FALSE
<1> DEFINE customer == Position(doc, "customer", 1)
           merchant == Position(doc, "merchant", 1)
           terminal == Position(doc, "terminal", 1)
           last == Position(doc, "last_transaction", 1)
           found == [amount |-> NumberAfter(doc, "amount", 1),
                     installments |-> NumberAfter(doc, "installments", 1),
                     requested |-> TimeAfter(doc, "requested_at", 1),
                     customerAvg |-> NumberAfter(doc, "avg_amount", customer),
                     txCount |-> NumberAfter(doc, "tx_count_24h", customer),
                     id |-> StringAfter(doc, "id", merchant),
                     mcc |-> StringAfter(doc, "mcc", merchant),
                     merchantAvg |-> NumberAfter(doc, "avg_amount", merchant),
                     online |-> BoolAfter(doc, "is_online", terminal),
                     present |-> BoolAfter(doc, "card_present", terminal),
                     kmHome |-> NumberAfter(doc, "km_from_home", terminal)]
           history == [timestamp |-> TimeAfter(doc, "timestamp", last),
                       kmCurrent |-> NumberAfter(doc, "km_from_current", last)]
           new == last = 0 \/ (last < Len(doc) /\ doc[last + 1].t = "null")
           known == KnownMerchantJSON(doc, found.id.v, customer, merchant)
<1>1. Scan(doc) = IF 0 \in {customer, merchant, terminal}
                      \/ Missing(found) \/ (~new /\ Missing(history))
                  THEN [ok |-> FALSE]
                  ELSE [ok |-> TRUE, new |-> new, field |-> found, history |-> history,
                        known |-> known]
  BY DEF Scan
<1>2. None.t = "none"
  BY DEF None
<1>3. DOMAIN found = {"amount", "installments", "requested", "customerAvg", "txCount", "id",
                      "mcc", "merchantAvg", "online", "present", "kmHome"}
      /\ DOMAIN history = {"timestamp", "kmCurrent"}
  OBVIOUS
<1>4. Missing(found) \/ (~new /\ Missing(history))
  <2>1. ASSUME NEW f \in DOMAIN found, found[f] = None PROVE Missing(found)
    BY <1>2, <2>1 DEF Missing
  <2>2. ASSUME NEW f \in DOMAIN history, history[f] = None PROVE Missing(history)
    BY <1>2, <2>2 DEF Missing
  <2>3. \/ found["amount"] = None \/ found["installments"] = None \/ found["requested"] = None
        \/ found["txCount"] = None \/ found["mcc"] = None \/ found["online"] = None
        \/ found["present"] = None \/ found["kmHome"] = None
        \/ ~new /\ (history["timestamp"] = None \/ history["kmCurrent"] = None)
    OBVIOUS
  <2> HIDE DEF found, history, new
  <2> QED
    BY <1>3, <2>1, <2>2, <2>3
<1> HIDE DEF customer, merchant, terminal, found, history, new, known
<1> QED
  BY <1>1, <1>4

LEMMA LeftOutIsNoticed ==
    ASSUME NEW r, NoNames(r), Ordered(r.order), r.new \in BOOLEAN,
           NEW part \in Objects, NEW name \in Names[part] \ Objects, r.missing = <<part, name>>,
           name \notin {"avg_amount", "id", "known_merchants"},
           ~(r.new /\ part = "last_transaction")
    PROVE  Scan(Document(r)).ok = FALSE
<1> DEFINE doc == Document(r)
<1>1. PICK pieces, o : Arranged(doc, r, pieces, o)
  BY DocumentIs
<1> HIDE DEF doc
<1>2. Len(doc) \in Nat
  BY <1>1 DEF Arranged, IsDocument, IsTuple
<1>3. \A other \in Parts : other # part => name \notin Names[other]
  BY DEF Objects, Parts, Names
<1>4. Lacks(doc, name)
  <2>1. name \in Keys
    BY DEF Objects, Names, Keys
  <2> QED
    BY <1>1, <1>3, <2>1, NowhereElse
<1>5. \A types : \A start \in Nat \ {0} : ValueAfter(doc, types, name, start) = None
  BY <1>2, <1>4, NotRead
<1>6. \A object \in Objects : object \in Keys => Position(doc, object, 1) \in Nat \ {0}
  BY <1>1, ObjectFound
<1>7. LET last == Position(doc, "last_transaction", 1)
      IN  last # 0 /\ (~r.new => doc[last + 1].t # "null")
  BY <1>1, NewIsFound
<1>8. \/ name \in {"amount", "installments", "requested_at"}
      \/ name = "tx_count_24h" \/ name = "mcc"
      \/ name \in {"is_online", "card_present", "km_from_home"}
      \/ name \in {"timestamp", "km_from_current"} /\ part = "last_transaction"
  BY DEF Objects, Names
<1>9. /\ "customer" \in Objects /\ "merchant" \in Objects /\ "terminal" \in Objects
      /\ "last_transaction" \in Objects
      /\ "customer" \in Keys /\ "merchant" \in Keys /\ "terminal" \in Keys
      /\ "last_transaction" \in Keys
  BY DEF Objects, Keys
<1>10. CASE name \in {"amount", "installments", "requested_at"}
  <2>1. 1 \in Nat \ {0}
    OBVIOUS
  <2>2. \A types : ValueAfter(doc, types, name, 1) = None
    BY ONLY <1>5, <2>1
  <2> QED
    BY <1>10, <2>2, ScanRefuses DEF NumberAfter, StringAfter, TimeAfter, None, doc
<1>11. CASE name = "tx_count_24h"
  BY <1>5, <1>6, <1>9, <1>11, ScanRefuses DEF NumberAfter, doc
<1>12. CASE name = "mcc"
  BY <1>5, <1>6, <1>9, <1>12, ScanRefuses DEF StringAfter, doc
<1>13. CASE name \in {"is_online", "card_present", "km_from_home"}
  BY <1>5, <1>6, <1>9, <1>13, ScanRefuses DEF NumberAfter, BoolAfter, doc
<1>14. CASE name \in {"timestamp", "km_from_current"} /\ part = "last_transaction"
  BY <1>5, <1>6, <1>7, <1>9, <1>14, ScanRefuses DEF NumberAfter, StringAfter, TimeAfter, None, doc
<1> QED
  BY <1>8, <1>10, <1>11, <1>12, <1>13, <1>14

\* A request of ordinary texts with a field left out is refused, in whatever order
\* it was written, unless a later object may have a field of the same name, or the
\* field is known_merchants (vectorize_json.go:185-290).
THEOREM MissingFieldsAreNoticed ==
    ASSUME NEW Char, Beginning, Clients(Char)
    PROVE  Spec => []MissingFieldIsNoticed
<1>1. (Received => IsRequest(request, Char)) => MissingFieldIsNoticed
  <2> SUFFICES ASSUME IsRequest(request, Char), Ordinary(request),
                      request.missing # << >>,
                      request.missing[2] \notin {"avg_amount", "id", "known_merchants"},
                      ~(request.new /\ request.missing[1] = "last_transaction")
               PROVE  Scan(Document(request)).ok = FALSE
    BY DEF MissingFieldIsNoticed, Complete
  <2>1. PICK part \in Objects :
          \E i \in 1 .. Len(Fields(request, part)) :
              request.missing = <<part, Fields(request, part)[i][1]>>
    BY DEF IsRequest
  <2>2. PICK i \in 1 .. Len(Fields(request, part)) :
          request.missing = <<part, Fields(request, part)[i][1]>>
    BY <2>1
  <2> DEFINE name == Fields(request, part)[i][1]
  <2>3. name \in Names[part] \ Objects
    BY FieldNames
  <2>4. request.missing = <<part, name>>
    BY <2>2
  <2> HIDE DEF name
  <2>5. request.missing[1] = part /\ request.missing[2] = name
    BY <2>4
  <2>6. Ordered(request.order) /\ request.new \in BOOLEAN /\ NoNames(request)
    BY UsualRequest DEF IsRequest
  <2> QED
    BY <2>3, <2>4, <2>5, <2>6, LeftOutIsNoticed
<1> QED
  BY <1>1, AlwaysARequest, PTL
=============================================================================
