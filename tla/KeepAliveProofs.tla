--------------------------- MODULE KeepAliveProofs ----------------------------
(***************************************************************************)
(* Proofs about KeepAlive: its types, what holds with any peers (nothing   *)
(* is done with a part of a message, no byte is lost, a timeout per byte   *)
(* at most), and what holds with honest ones (whole answers to their own   *)
(* requests, clean connections, the service of RequestReply).              *)
(***************************************************************************)
EXTENDS KeepAlive, HttpMessageProofs

-----------------------------------------------------------------------------
(* Types.                                                                  *)
Asking == [client : Nat, shape : RequestShapes]
Link == [up : BOOLEAN, closing : BOOLEAN, to : Bytes, from : Bytes]
Typed ==
    /\ honest \in BOOLEAN /\ open \in BOOLEAN /\ silent \in BOOLEAN
    /\ pc \in {"closed", "readRequest", "forward", "readResponse", "respond"}
    /\ clients \in 0 .. MaxClients
    /\ target \in Upstream /\ attempt \in 0 .. UpstreamCount /\ held \in Nat
    /\ toProxy \in Bytes /\ request \in Bytes /\ response \in Bytes
    /\ handled \in Bytes
    /\ link \in [Upstream -> Link]
    /\ asked \in Seq(Asking)
    /\ Len(asked) <= MaxRequests
    /\ status \in [RequestId ->
                    {"unsent", "pending", "answered", "refused", "dropped"}]
    /\ answer \in [RequestId -> Bytes]

\* A request is under way with an upstream to try, and a buffer holds nothing
\* but what clients sent.
Asked(q) == \A i \in 1 .. Len(q) : q[i].of \in 1 .. Len(asked)
Underway ==
    /\ Busy => attempt < UpstreamCount /\ request # << >>
    /\ pc = "readResponse" => link[target].up
    /\ Asked(request) /\ Asked(toProxy)
    /\ \A i \in 1 .. Len(asked) : asked[i].client <= clients
TypeInv == Typed /\ Underway

LEMMA Glue ==
    ASSUME NEW s \in Bytes, NEW t \in Bytes
    PROVE  /\ s \o t \in Bytes /\ Len(s \o t) = Len(s) + Len(t)
           /\ \A i \in 1 .. Len(s) + Len(t) :
                (s \o t)[i] = IF i <= Len(s) THEN s[i] ELSE t[i - Len(s)]
BY Joined DEF Bytes

LEMMA Sequence ==
    ASSUME NEW a \in Bytes, NEW b \in Bytes, NEW c \in Bytes
    PROVE  a \o b \in Bytes /\ (a \o b) \o c = a \o (b \o c)
<1>1. a \in Seq(Byte) /\ b \in Seq(Byte) /\ c \in Seq(Byte)
  BY DEF Bytes
<1>2. (a \o b) \o c = a \o (b \o c)
  BY ONLY <1>1, ConcatAssociative
<1> QED
  BY <1>2, Glue

LEMMA Regroup ==
    ASSUME NEW a, NEW b, NEW c, a \in Bytes /\ b \in Bytes /\ c \in Bytes
    PROVE  (a \o b) \o c = a \o (b \o c)
<1>1. a \in Seq(Byte) /\ b \in Seq(Byte) /\ c \in Seq(Byte)
  BY DEF Bytes
<1> QED
  BY ONLY <1>1, ConcatAssociative

\* Bytes cut in two.
LEMMA Cut ==
    ASSUME NEW q \in Bytes, NEW n \in 0 .. Len(q)
    PROVE  LET a == SubSeq(q, 1, n)
               b == SubSeq(q, n + 1, Len(q))
           IN  /\ a \in Bytes /\ Len(a) = n /\ \A i \in 1 .. n : a[i] = q[i]
               /\ b \in Bytes /\ Len(b) = Len(q) - n
               /\ \A i \in 1 .. Len(b) : b[i] = q[n + i]
               /\ a \o b = q
<1> DEFINE a == SubSeq(q, 1, n)
<1> DEFINE b == SubSeq(q, n + 1, Len(q))
<1>1. q \in Seq(Byte) /\ Len(q) \in Nat /\ n \in Nat /\ n <= Len(q)
  BY DEF Bytes
<1>2. a \in Seq(Byte) /\ Len(a) = n /\ \A i \in 1 .. n : a[i] = q[i]
  BY <1>1
<1>3. b \in Seq(Byte) /\ Len(b) = Len(q) - n
  BY <1>1
<1>4. ASSUME NEW i \in 1 .. Len(b) PROVE b[i] = q[n + i]
  <2>1. i \in 1 .. Len(q) - n
    BY <1>3
  <2> QED
    BY <1>1, <2>1
<1>5. a \o b = q
  <2> HIDE DEF a, b
  <2>1. /\ a \o b \in Seq(Byte) /\ Len(a \o b) = Len(q)
    BY <1>1, <1>2, <1>3, Joined
  <2>2. ASSUME NEW i \in 1 .. Len(a \o b) PROVE (a \o b)[i] = q[i]
    <3>1. i \in 1 .. Len(a) + Len(b)
      BY <1>1, <1>2, <1>3, <2>1
    <3>2. (a \o b)[i] = IF i <= Len(a) THEN a[i] ELSE b[i - Len(a)]
      BY <1>2, <1>3, <3>1, Joined
    <3>3. CASE i <= n
      BY <1>1, <1>2, <3>1, <3>2, <3>3
    <3>4. CASE i > n
      <4>1. i - n \in 1 .. Len(b) /\ n + (i - n) = i
        BY <1>1, <1>2, <1>3, <3>1, <3>4
      <4> QED
        BY <1>1, <1>2, <1>4, <3>2, <3>4, <4>1
    <3> QED
      BY <1>1, <3>1, <3>3, <3>4
  <2> QED
    BY <1>1, <2>1, <2>2, SeqEqual
<1> QED
  BY <1>2, <1>3, <1>4, <1>5 DEF Bytes

LEMMA EmptyBytes == << >> \in Bytes /\ Len(<< >>) = 0
BY DEF Bytes

LEMMA Shapes ==
    /\ RequestShapes \subseteq Shape /\ ResponseShapes \subseteq Shape
    /\ \A s \in RequestShapes \cup ResponseShapes : s.body <= MaxUsize
BY ShapesAssumption

LEMMA Constants ==
    /\ UpstreamCount \in Nat \ {0} /\ MaxRequests \in Nat /\ MaxClients \in Nat
    /\ Upstream = 0 .. UpstreamCount - 1 /\ 0 \in Upstream
BY KeepAliveAssumption DEF Upstream

LEMMA InitTyped == Init => TypeInv
<1> SUFFICES ASSUME Init PROVE TypeInv
  OBVIOUS
<1>1. Down \in Link
  BY EmptyBytes DEF Down, Link
<1>2. link \in [Upstream -> Link]
  BY <1>1 DEF Init
<1>3. asked = << >> /\ asked \in Seq(Asking)
  BY DEF Init
<1>4. /\ honest \in BOOLEAN /\ open \in BOOLEAN /\ silent \in BOOLEAN
      /\ pc = "closed" /\ clients = 0 /\ target = 0 /\ attempt = 0 /\ held = 0
      /\ toProxy = << >> /\ request = << >> /\ response = << >> /\ handled = << >>
  BY DEF Init
<1>5. status \in [RequestId -> {"unsent", "pending", "answered", "refused", "dropped"}]
  BY DEF Init
<1>6. answer \in [RequestId -> Bytes]
  BY EmptyBytes DEF Init
<1>7. Typed
  BY <1>2, <1>3, <1>4, <1>5, <1>6, EmptyBytes, Constants DEF Typed
<1>8. Underway
  BY <1>3, <1>4 DEF Underway, Busy, Asked
<1> QED
  BY <1>7, <1>8 DEF TypeInv

\* An upstream that was sent a framed request, and nothing else, finds its end.
LEMMA ServerReadsAll ==
    ASSUME NEW id \in Nat, NEW shape \in Shape, Framed(shape)
    PROVE  LET m == Message(id, shape)
           IN  HasHeader(m) /\ ServerReads(m).valid /\ ServerReads(m).end = Len(m)
<1> DEFINE L == Len(shape.lengths)
<1> DEFINE m == Message(id, shape)
<1> DEFINE header == SubSeq(m, 1, BodyStart(m))
<1>1. /\ L \in Nat /\ shape.body \in Nat
      /\ \A i \in 1 .. L : shape.lengths[i] \in Seq(Nat)
  BY ShapeTypes
<1>2. Begins(m, id, shape) /\ Len(m) = L + 3 + shape.body
  BY MessageBegins DEF Length
<1>3. m[1].kind = "line"
  <2>1. 1 \in 1 .. Len(m) /\ 1 \in Nat \ {0}
    BY <1>1, <1>2
  <2>2. m[1] = UnitAt(id, shape, 1)
    BY <1>2, <2>1 DEF Begins
  <2> QED
    BY <2>1, <2>2, UnitKinds
<1>4. Len(m) >= L + 3
  BY <1>1, <1>2
<1>5. /\ HasHeader(m) /\ BodyStart(m) = L + 3
      /\ LengthLines(header) = 2 .. L + 1
      /\ \A i \in 2 .. L + 1 : header[i].value = shape.lengths[i - 1]
  <2> HIDE DEF m
  <2> QED
    BY <1>2, <1>4, HeaderRead
<1> HIDE DEF m, header
<1> DEFINE values == LengthsOf(header)
<1>6. values = {shape.lengths[i] : i \in 1 .. L}
  <2>1. \A i \in 1 .. L : i + 1 \in 2 .. L + 1 /\ i + 1 - 1 = i
    BY <1>1
  <2>2. \A i \in 2 .. L + 1 : i - 1 \in 1 .. L
    BY <1>1
  <2>3. ASSUME NEW v \in values PROVE v \in {shape.lengths[i] : i \in 1 .. L}
    <3>1. PICK i \in 2 .. L + 1 : v = header[i].value
      BY <1>5 DEF LengthsOf
    <3>2. v = shape.lengths[i - 1]
      BY <1>5, <3>1
    <3> QED
      BY <2>2, <3>2
  <2>4. ASSUME NEW i \in 1 .. L PROVE shape.lengths[i] \in values
    <3>1. i + 1 \in 2 .. L + 1 /\ header[i + 1].value = shape.lengths[i + 1 - 1]
      BY <1>5, <2>1
    <3>2. header[i + 1].value = shape.lengths[i]
      BY <2>1, <3>1
    <3> QED
      BY <1>5, <3>1, <3>2 DEF LengthsOf
  <2> HIDE DEF values
  <2> QED
    BY <2>3, <2>4
<1>7. /\ Cardinality(values) <= 1 /\ \A v \in values : Numeric(v)
      /\ (IF values = {} THEN 0 ELSE Meaning(CHOOSE v \in values : TRUE)) = shape.body
  <2>1. CASE L = 0
    <3>1. values = {}
      BY <1>6, <2>1
    <3>2. shape.lengths = << >>
      BY <2>1, ShapeTypes
    <3>3. shape.body = 0
      BY <3>2 DEF Framed
    <3> QED
      BY <3>1, <3>3, FS_EmptySet
  <2>2. CASE L > 0
    <3> DEFINE v == shape.lengths[1]
    <3>1. 1 \in 1 .. L
      BY <1>1, <2>2
    <3>2. \A i \in 1 .. L : shape.lengths[i] = v
      BY DEF Framed
    <3>3. Numeric(v) /\ Meaning(v) = shape.body
      BY <3>1 DEF Framed
    <3>4. values = {v}
      BY <1>6, <3>1, <3>2
    <3> HIDE DEF v, values
    <3>5. Cardinality(values) = 1
      BY <3>4, FS_Singleton
    <3>6. (CHOOSE w \in values : TRUE) = v
      BY <3>4
    <3> QED
      BY <3>3, <3>4, <3>5, <3>6
  <2> QED
    BY <1>1, <2>1, <2>2
<1>8. ServerReads(m).valid /\ ServerReads(m).end = L + 3 + shape.body
  BY <1>3, <1>5, <1>7 DEF ServerReads, header
<1> QED
  BY <1>2, <1>5, <1>8 DEF m

\* Bytes read from one buffer into another stay what they are.
LEMMA Moved ==
    ASSUME NEW from \in Bytes, NEW into \in Bytes, NEW n \in 1 .. Len(from)
    PROVE  LET rest == SubSeq(from, n + 1, Len(from))
               got == into \o SubSeq(from, 1, n)
           IN  /\ rest \in Bytes /\ got \in Bytes /\ got # << >>
               /\ got \o rest = into \o from
               /\ Len(got) = Len(into) + n
               /\ \A i \in 1 .. Len(got) :
                    \/ i \in 1 .. Len(into) /\ got[i] = into[i]
                    \/ \E j \in 1 .. Len(from) : got[i] = from[j]
               /\ \A i \in 1 .. Len(rest) :
                    \E j \in 1 .. Len(from) : rest[i] = from[j]
<1> DEFINE a == SubSeq(from, 1, n)
<1> DEFINE rest == SubSeq(from, n + 1, Len(from))
<1> DEFINE got == into \o a
<1>1. n \in 0 .. Len(from) /\ n \in Nat \ {0} /\ Len(from) \in Nat /\ Len(into) \in Nat
  BY DEF Bytes
<1>2. /\ a \in Bytes /\ Len(a) = n /\ \A i \in 1 .. n : a[i] = from[i]
      /\ rest \in Bytes /\ Len(rest) = Len(from) - n
      /\ \A i \in 1 .. Len(rest) : rest[i] = from[n + i]
      /\ a \o rest = from
  BY <1>1, Cut
<1> HIDE DEF a, rest
<1>3. /\ got \in Bytes /\ Len(got) = Len(into) + Len(a)
      /\ \A i \in 1 .. Len(into) + Len(a) :
            got[i] = IF i <= Len(into) THEN into[i] ELSE a[i - Len(into)]
  <2>1. a \in Bytes
    BY <1>2
  <2> QED
    BY <2>1, Glue
<1>4. got \o rest = into \o from
  <2>1. a \in Bytes /\ rest \in Bytes
    BY <1>2
  <2>2. (into \o a) \o rest = into \o (a \o rest)
    BY <2>1, Sequence
  <2> QED
    BY <1>2, <2>2
<1> HIDE DEF got
<1>5. got # << >> /\ Len(got) = Len(into) + n
  <2>1. Len(got) # 0 /\ Len(got) = Len(into) + n
    BY <1>1, <1>2, <1>3
  <2> QED
    BY <2>1, EmptyBytes
<1>6. \A i \in 1 .. Len(into) + n :
            got[i] = IF i <= Len(into) THEN into[i] ELSE a[i - Len(into)]
  BY <1>2, <1>3
<1>7. ASSUME NEW i \in 1 .. Len(got)
      PROVE  \/ i \in 1 .. Len(into) /\ got[i] = into[i]
             \/ \E j \in 1 .. Len(from) : got[i] = from[j]
  <2>1. i \in 1 .. Len(into) + n /\ i \in Nat \ {0}
    BY <1>1, <1>5
  <2>2. CASE i <= Len(into)
    BY <1>1, <1>6, <2>1, <2>2
  <2>3. CASE i > Len(into)
    <3>1. i - Len(into) \in 1 .. n /\ i - Len(into) \in 1 .. Len(from)
      BY <1>1, <2>1, <2>3
    <3>2. got[i] = a[i - Len(into)]
      BY <1>1, <1>6, <2>1, <2>3
    <3>3. got[i] = from[i - Len(into)]
      BY <1>2, <3>1, <3>2
    <3> QED
      BY <3>1, <3>3
  <2> QED
    BY <1>1, <2>1, <2>2, <2>3
<1>8. ASSUME NEW i \in 1 .. Len(rest)
      PROVE  \E j \in 1 .. Len(from) : rest[i] = from[j]
  <2>1. n + i \in 1 .. Len(from)
    BY <1>1, <1>2
  <2> QED
    BY <1>2, <2>1
<1> QED
  BY <1>2, <1>3, <1>4, <1>5, <1>7, <1>8 DEF got, rest, a

\* What a server makes of the bytes it has.
LEMMA ServerReadsPart ==
    ASSUME NEW q \in Bytes, HasHeader(q), ServerReads(q).valid
    PROVE  ServerReads(q).end \in Nat \ {0} /\ q[1].of \in Nat
<1>1. q \in Seq(Byte) /\ Len(q) \in Nat
  BY DEF Bytes
<1>2. BodyStarts(q) \subseteq 2 .. Len(q) /\ BodyStarts(q) # {}
  BY DEF HasHeader, BodyStarts
<1> DEFINE b == BodyStart(q)
<1>3. b \in 2 .. Len(q)
  <2>1. BodyStarts(q) \subseteq Nat
    BY <1>2
  <2>2. Min(BodyStarts(q)) \in BodyStarts(q)
    BY <1>2, <2>1, MinOf
  <2> QED
    BY <1>2, <2>2 DEF BodyStart
<1> DEFINE header == SubSeq(q, 1, b)
<1> DEFINE values == LengthsOf(header)
<1> HIDE DEF b
<1>4. header \in Seq(Byte)
  BY <1>1, <1>3
<1>5. \A v \in values : v \in Seq(Nat)
  BY <1>4 DEF LengthsOf, LengthLines, Byte
<1>6. /\ \A v \in values : Numeric(v)
      /\ ServerReads(q).end = b + IF values = {} THEN 0
                                  ELSE Meaning(CHOOSE v \in values : TRUE)
  BY DEF ServerReads, b
<1> HIDE DEF values
<1>7. (IF values = {} THEN 0 ELSE Meaning(CHOOSE v \in values : TRUE)) \in Nat
  <2>1. CASE values # {}
    <3> DEFINE w == CHOOSE v \in values : TRUE
    <3>1. w \in values
      BY <2>1
    <3> HIDE DEF w
    <3>2. Meaning(w) \in Nat
      BY <1>5, <1>6, <3>1, ParseSaturates
    <3> QED
      BY <2>1, <3>2 DEF w
  <2> QED
    BY <2>1
<1>8. ServerReads(q).end \in Nat \ {0}
  BY <1>3, <1>6, <1>7
<1>9. q[1].of \in Nat
  <2>1. 1 \in 1 .. Len(q)
    BY <1>1, <1>3
  <2>2. q[1] \in Byte
    BY <1>1, <2>1
  <2> QED
    BY <2>2 DEF Byte
<1> QED
  BY <1>8, <1>9

LEMMA AskedTypes ==
    ASSUME Typed
    PROVE  /\ Len(asked) \in Nat /\ clients \in Nat
           /\ \A i \in 1 .. Len(asked) :
                asked[i].client \in Nat /\ asked[i].shape \in RequestShapes
<1>1. asked \in Seq(Asking) /\ clients \in 0 .. MaxClients
  BY DEF Typed
<1>2. \A i \in 1 .. Len(asked) : asked[i] \in Asking
  BY <1>1
<1> QED
  BY <1>1, <1>2 DEF Asking

\* What clients do.
LEMMA ClientsTyped ==
    ASSUME TypeInv,
           Connect \/ ClientCloses \/ \E s \in RequestShapes : Send(s)
    PROVE  TypeInv'
<1>1. Typed /\ Underway
  BY DEF TypeInv
<1>2. CASE Connect
  <2>1. Typed'
    <3>1. clients \in 0 .. MaxClients /\ clients < MaxClients /\ clients' = clients + 1
      BY <1>1, <1>2 DEF Typed, Connect
    <3>4. clients' \in 0 .. MaxClients
      BY <3>1, Constants
    <3>5. /\ open' \in BOOLEAN /\ silent' \in BOOLEAN
          /\ held' \in Nat /\ pc' = "readRequest"
      BY <1>2 DEF Connect
    <3>2. /\ toProxy' \in Bytes /\ request' \in Bytes /\ response' \in Bytes
          /\ handled' \in Bytes
      BY <1>2, EmptyBytes DEF Connect
    <3>3. UNCHANGED <<honest, asked, target, attempt, link, status, answer>>
      BY <1>2 DEF Connect
    <3> QED
      BY <1>1, <3>2, <3>3, <3>4, <3>5 DEF Typed
  <2>2. \A i \in 1 .. Len(asked) : asked[i].client <= clients + 1
    <3>1. \A i \in 1 .. Len(asked) : asked[i].client \in Nat /\ asked[i].client <= clients
      BY <1>1, AskedTypes DEF Underway
    <3>2. clients \in Nat
      BY <1>1, AskedTypes
    <3> QED
      BY <3>1, <3>2
  <2>3. Underway'
    BY <1>2, <2>2, EmptyBytes DEF Underway, Connect, Busy, Asked
  <2> QED
    BY <2>1, <2>3 DEF TypeInv
<1>3. CASE ClientCloses
  <2>1. Typed'
    BY <1>1, <1>3 DEF Typed, ClientCloses
  <2>2. Underway'
    BY <1>1, <1>3 DEF Underway, ClientCloses, Busy, Asked
  <2> QED
    BY <2>1, <2>2 DEF TypeInv
<1>4. ASSUME NEW s \in RequestShapes, Send(s) PROVE TypeInv'
  <2> DEFINE id == Len(asked) + 1
  <2> DEFINE entry == [client |-> clients, shape |-> s]
  <2> DEFINE m == Message(id, s)
  <2>1. /\ asked \in Seq(Asking)
        /\ Len(asked) \in Nat /\ Len(asked) < MaxRequests
        /\ clients \in Nat /\ toProxy \in Bytes
    BY <1>1, <1>4 DEF Typed, Send
  <2>2. /\ asked' = Append(asked, entry)
        /\ entry \in Asking
        /\ entry.client = clients
    BY <1>4, <2>1 DEF Send, Asking
  <2> HIDE DEF entry
  <2>3. /\ asked' \in Seq(Asking)
        /\ Len(asked') = id
        /\ \A i \in 1 .. Len(asked) : asked'[i] = asked[i]
        /\ asked'[id] = entry
    BY <2>1, <2>2
  <2>4. m \in Bytes /\ Len(m) \in Nat /\ \A i \in 1 .. Len(m) : m[i].of = id
    <3>1. id \in Nat /\ s \in Shape
      BY <2>1, Shapes
    <3>2. Begins(m, id, s) /\ m \in Bytes
      BY <3>1, MessageBegins
    <3>3. Len(m) \in Nat
      BY <3>2 DEF Bytes
    <3> HIDE DEF m, id
    <3>4. \A i \in 1 .. Len(m) : m[i].of = id
      BY <3>1, <3>2, <3>3, UnitKinds DEF Begins
    <3> QED
      BY <3>2, <3>3, <3>4
  <2>5. toProxy' = toProxy \o m
    BY <1>4, <2>3 DEF Send
  <2>6. /\ toProxy' \in Bytes /\ Len(toProxy') = Len(toProxy) + Len(m)
        /\ \A i \in 1 .. Len(toProxy) + Len(m) :
            toProxy'[i] = IF i <= Len(toProxy) THEN toProxy[i] ELSE m[i - Len(toProxy)]
    <3> HIDE DEF m
    <3> QED
      BY <2>1, <2>4, <2>5, Glue
  <2>7. Typed'
    BY <1>1, <1>4, <2>1, <2>3, <2>6, Constants DEF Typed, Send
  <2>8. Asked(toProxy)'
    <3> HIDE DEF m
    <3> SUFFICES ASSUME NEW i \in 1 .. Len(toProxy') PROVE toProxy'[i].of \in 1 .. Len(asked')
      BY DEF Asked
    <3>1. Len(toProxy) \in Nat
      BY <2>1 DEF Bytes
    <3>2. CASE i <= Len(toProxy)
      <4>1. i \in 1 .. Len(toProxy) /\ toProxy'[i] = toProxy[i]
        BY <2>4, <2>6, <3>1, <3>2
      <4>2. toProxy[i].of \in 1 .. Len(asked)
        BY <1>1, <4>1 DEF Underway, Asked
      <4> QED
        BY <2>1, <2>3, <4>1, <4>2
    <3>3. CASE i > Len(toProxy)
      <4>1. i - Len(toProxy) \in 1 .. Len(m) /\ toProxy'[i] = m[i - Len(toProxy)]
        BY <2>4, <2>6, <3>1, <3>3
      <4>2. toProxy'[i].of = id
        BY <2>4, <4>1
      <4> QED
        BY <2>1, <2>3, <4>2
    <3> QED
      BY <2>4, <2>6, <3>1, <3>2, <3>3
  <2>9. Asked(request)'
    <3>1. request' = request /\ \A i \in 1 .. Len(request) : request[i].of \in 1 .. Len(asked)
      BY <1>1, <1>4 DEF Underway, Asked, Send
    <3> QED
      BY <2>1, <2>3, <3>1 DEF Asked
  <2>10. \A i \in 1 .. Len(asked') : asked'[i].client <= clients
    <3>1. \A i \in 1 .. Len(asked) : asked[i].client <= clients
      BY <1>1 DEF Underway
    <3>2. \A i \in 1 .. id : i \in 1 .. Len(asked) \/ i = id
      BY <2>1
    <3> QED
      BY <2>1, <2>2, <2>3, <3>1, <3>2
  <2>11. Underway'
    BY <1>1, <1>4, <2>8, <2>9, <2>10 DEF Underway, Send, Busy
  <2> QED
    BY <2>7, <2>11 DEF TypeInv
<1> QED
  BY <1>2, <1>3, <1>4

\* One connection changes, as long as it is still one.
LEMMA LinkChanges ==
    ASSUME TypeInv, NEW u \in Upstream, NEW next \in Link, Peer(u, next),
           next.up = link[u].up
    PROVE  TypeInv'
<1>1. Typed /\ Underway
  BY DEF TypeInv
<1>2. link' = [link EXCEPT ![u] = next] /\ link \in [Upstream -> Link]
  BY <1>1 DEF Peer, Typed
<1>3. link' \in [Upstream -> Link]
  BY <1>2
<1>4. \A v \in Upstream : link'[v].up = link[v].up
  BY <1>2
<1>5. UNCHANGED <<clientVars, pc, request, response, target, attempt, silent,
                  held, handled, status, answer>>
  BY DEF Peer
<1>6. Typed'
  BY <1>1, <1>3, <1>5 DEF Typed, clientVars
<1>7. link'[target'].up = link[target].up
  BY <1>1, <1>4, <1>5 DEF Typed
<1>8. Underway'
  BY <1>1, <1>5, <1>7 DEF Underway, Busy, Asked, clientVars
<1> QED
  BY <1>6, <1>8 DEF TypeInv

LEMMA LinkTypes ==
    ASSUME Typed, NEW u \in Upstream
    PROVE  /\ link[u] \in Link /\ link[u].up \in BOOLEAN /\ link[u].closing \in BOOLEAN
           /\ link[u].to \in Bytes /\ link[u].from \in Bytes
           /\ link[u] = [up |-> link[u].up, closing |-> link[u].closing,
                         to |-> link[u].to, from |-> link[u].from]
<1>1. link[u] \in Link
  BY DEF Typed
<1> QED
  BY <1>1 DEF Link

\* What upstreams do.
LEMMA ServersTyped ==
    ASSUME TypeInv, NEW u \in Upstream, Server(u)
    PROVE  TypeInv'
<1>1. Typed
  BY DEF TypeInv
<1> DEFINE c == link[u]
<1> DEFINE q == c.to
<1>2. /\ c \in Link /\ q \in Bytes /\ c.from \in Bytes
  BY <1>1, LinkTypes
<1>3. CASE Reject(u)
  <2> DEFINE shape == [lengths |-> << >>, body |-> 1]
  <2> DEFINE m == Message(0, shape)
  <2> DEFINE next == [c EXCEPT !.closing = TRUE, !.to = << >>, !.from = @ \o m]
  <2>1. m \in Bytes
    <3>1. shape \in Shape
      BY DEF Shape
    <3> HIDE DEF shape
    <3> QED
      BY <3>1, MessageBegins
  <2>2. c.from \o m \in Bytes
    <3> HIDE DEF m, c
    <3> QED
      BY <1>2, <2>1, Glue
  <2>3. Peer(u, next)
    BY <1>3 DEF Reject
  <2>4. next \in Link /\ next.up = link[u].up
    <3> HIDE DEF m
    <3> QED
      BY <1>2, <2>2, EmptyBytes DEF Link
  <2> HIDE DEF next
  <2> QED
    BY <2>3, <2>4, LinkChanges
<1>4. CASE ServerCloses(u)
  <2>1. PICK n \in 0 .. Len(c.from) :
          Peer(u, [c EXCEPT !.closing = TRUE, !.to = << >>, !.from = SubSeq(@, 1, n)])
    BY <1>4 DEF ServerCloses
  <2> DEFINE next == [c EXCEPT !.closing = TRUE, !.to = << >>, !.from = SubSeq(@, 1, n)]
  <2>2. SubSeq(c.from, 1, n) \in Bytes
    BY <1>2, Cut
  <2>3. next \in Link /\ next.up = link[u].up
    BY <1>2, <2>2, EmptyBytes DEF Link
  <2>4. Peer(u, next)
    BY <2>1
  <2> HIDE DEF next
  <2> QED
    BY <2>3, <2>4, LinkChanges
<1>5. ASSUME NEW s \in ResponseShapes, Answer(u, s) PROVE TypeInv'
  <2> DEFINE m == Message(q[1].of, s)
  <2> DEFINE rest == SubSeq(q, ServerReads(q).end + 1, Len(q))
  <2> DEFINE next == [c EXCEPT !.to = rest, !.from = @ \o m]
  <2>1. /\ HasHeader(q) /\ ServerReads(q).valid /\ ServerReads(q).end <= Len(q)
        /\ Peer(u, next)
    BY <1>5 DEF Answer
  <2>2. ServerReads(q).end \in Nat \ {0} /\ q[1].of \in Nat
    BY <1>2, <2>1, ServerReadsPart
  <2>3. rest \in Bytes
    <3>1. ServerReads(q).end \in 0 .. Len(q)
      BY <1>2, <2>1, <2>2 DEF Bytes
    <3> QED
      BY <1>2, <3>1, Cut
  <2>4. m \in Bytes
    BY <2>2, Shapes, MessageBegins
  <2>5. c.from \o m \in Bytes
    <3> HIDE DEF m, c
    <3> QED
      BY <1>2, <2>4, Glue
  <2>6. next \in Link /\ next.up = link[u].up
    <3> HIDE DEF m, rest
    <3> QED
      BY <1>2, <2>3, <2>5 DEF Link
  <2> HIDE DEF next
  <2> QED
    BY <2>1, <2>6, LinkChanges
<1> QED
  BY <1>3, <1>4, <1>5 DEF Server

\* The request a buffer begins with is one of those that were sent.
LEMMA SubjectAsked ==
    ASSUME TypeInv, request # << >>
    PROVE  Subject \in 1 .. Len(asked) /\ Subject \in RequestId
<1>1. /\ request \in Seq(Byte) /\ Asked(request) /\ Len(asked) \in Nat
      /\ Len(asked) <= MaxRequests
  BY AskedTypes DEF TypeInv, Typed, Underway, Bytes
<1>2. 1 \in 1 .. Len(request) /\ Subject = request[1].of
  BY <1>1 DEF Subject
<1>3. Subject \in 1 .. Len(asked)
  BY <1>1, <1>2 DEF Asked
<1> QED
  BY <1>1, <1>3, Constants DEF RequestId

\* What handle_client does.
LEMMA ReadRequestTyped ==
    ASSUME TypeInv, NEW n \in 1 .. Len(toProxy), ReadRequest(n)
    PROVE  TypeInv'
<1>1. Typed /\ Underway /\ toProxy \in Bytes /\ request \in Bytes
  BY DEF TypeInv, Typed
<1>2. /\ toProxy' = SubSeq(toProxy, n + 1, Len(toProxy))
      /\ request' = request \o SubSeq(toProxy, 1, n)
      /\ UNCHANGED <<honest, clients, open, asked, response, link, handled, answer>>
  BY DEF ReadRequest
<1> DEFINE rest == SubSeq(toProxy, n + 1, Len(toProxy))
<1> DEFINE got == request \o SubSeq(toProxy, 1, n)
<1>3. /\ rest \in Bytes /\ got \in Bytes /\ got # << >>
      /\ \A i \in 1 .. Len(got) :
            \/ i \in 1 .. Len(request) /\ got[i] = request[i]
            \/ \E j \in 1 .. Len(toProxy) : got[i] = toProxy[j]
      /\ \A i \in 1 .. Len(rest) :
            \E j \in 1 .. Len(toProxy) : rest[i] = toProxy[j]
  <2>1. toProxy \in Bytes /\ request \in Bytes
    BY <1>1
  <2>2. rest \in Bytes /\ got \in Bytes /\ got # << >>
    BY ONLY <2>1, Moved
  <2>3. \A i \in 1 .. Len(got) :
            \/ i \in 1 .. Len(request) /\ got[i] = request[i]
            \/ \E j \in 1 .. Len(toProxy) : got[i] = toProxy[j]
    BY ONLY <2>1, Moved
  <2>4. \A i \in 1 .. Len(rest) :
            \E j \in 1 .. Len(toProxy) : rest[i] = toProxy[j]
    BY ONLY <2>1, Moved
  <2> HIDE DEF rest, got
  <2> QED
    BY <2>2, <2>3, <2>4
<1> HIDE DEF rest, got
<1>4. toProxy' = rest /\ request' = got
  BY <1>2 DEF rest, got
<1>8. Asked(toProxy)' /\ Asked(request)'
  <2>1. asked' = asked /\ Asked(request) /\ Asked(toProxy)
    BY <1>1, <1>2 DEF Underway
  <2> QED
    BY <1>3, <1>4, <2>1 DEF Asked
<1>9. UNCHANGED <<honest, clients, open, asked, response, link, handled, answer>>
  BY <1>2
<1>5. silent' = FALSE /\ held' \in Nat
  BY <1>1 DEF ReadRequest, Rearm, Typed
<1>6. CASE Complete(request')
  <2>1. /\ pc' = "forward" /\ target' \in Upstream /\ attempt' = 0
        /\ status' = [status EXCEPT ![Head(request').of] = "pending"]
    BY <1>6 DEF ReadRequest
  <2>2. status' \in [RequestId -> {"unsent", "pending", "answered", "refused", "dropped"}]
    BY <1>1, <2>1 DEF Typed
  <2>3. attempt' \in 0 .. UpstreamCount /\ attempt' < UpstreamCount
    BY <2>1, Constants
  <2>4. Typed'
    BY <1>1, <1>9, <1>3, <1>4, <1>5, <2>1, <2>2, <2>3 DEF Typed
  <2>5. \A i \in 1 .. Len(asked') : asked'[i].client <= clients'
    BY <1>1, <1>9 DEF Underway
  <2>6. Underway'
    BY <1>3, <1>4, <1>8, <2>1, <2>3, <2>5 DEF Underway
  <2> QED
    BY <2>4, <2>6 DEF TypeInv
<1>7. CASE ~Complete(request')
  <2>1. UNCHANGED <<pc, target, attempt, status>> /\ pc = "readRequest"
    BY <1>7 DEF ReadRequest
  <2>2. Typed'
    BY <1>1, <1>9, <1>3, <1>4, <1>5, <2>1 DEF Typed
  <2>3. Underway'
    BY <1>1, <1>8, <1>9, <2>1 DEF Underway, Busy
  <2> QED
    BY <2>2, <2>3 DEF TypeInv
<1> QED
  BY <1>6, <1>7

LEMMA ReadResponseTyped ==
    ASSUME TypeInv, NEW n \in 1 .. Len(link[target].from), ReadResponse(n)
    PROVE  TypeInv'
<1> DEFINE c == link[target]
<1>1. /\ Typed /\ Underway /\ response \in Bytes /\ target \in Upstream
      /\ c \in Link /\ c.from \in Bytes
  BY LinkTypes DEF TypeInv, Typed
<1> DEFINE rest == SubSeq(c.from, n + 1, Len(c.from))
<1>2. rest \in Bytes /\ response' \in Bytes
  <2>1. response' = response \o SubSeq(c.from, 1, n)
    BY DEF ReadResponse
  <2> HIDE DEF c
  <2> QED
    BY <1>1, <2>1, Moved DEF c
<1>3. link' = [link EXCEPT ![target].from = rest]
  BY DEF ReadResponse
<1>4. link' \in [Upstream -> Link] /\ link'[target].up = link[target].up
  <2>1. [c EXCEPT !.from = rest] \in Link /\ [c EXCEPT !.from = rest].up = c.up
    <3> HIDE DEF rest
    <3> QED
      BY <1>1, <1>2 DEF Link
  <2>2. link' = [link EXCEPT ![target] = [c EXCEPT !.from = rest]]
    BY <1>3
  <2> HIDE DEF rest
  <2> QED
    BY <1>1, <2>1, <2>2 DEF Typed
<1>5. /\ pc = "readResponse" /\ pc' \in {"readResponse", "respond"}
      /\ silent' = FALSE /\ held' \in Nat
      /\ UNCHANGED <<clientVars, request, target, attempt, handled, status, answer>>
  BY <1>1 DEF ReadResponse, Rearm, Typed
<1>6. Typed'
  BY <1>1, <1>2, <1>4, <1>5 DEF Typed, clientVars
<1>7. Underway'
  BY <1>1, <1>4, <1>5 DEF Underway, Busy, Asked, clientVars
<1> QED
  BY <1>6, <1>7 DEF TypeInv

LEMMA ForwardTyped ==
    ASSUME TypeInv, Forward
    PROVE  TypeInv'
<1> DEFINE old == link[target]
<1> DEFINE c == IF old.up THEN old ELSE Fresh
<1> DEFINE next == [c EXCEPT !.to = IF c.closing THEN @ ELSE @ \o request]
<1>1. /\ Typed /\ Underway /\ request \in Bytes /\ target \in Upstream
      /\ old \in Link /\ link \in [Upstream -> Link]
  BY LinkTypes DEF TypeInv, Typed
<1>2. Fresh \in Link /\ Fresh.up
  BY EmptyBytes DEF Fresh, Down, Link
<1>3. c \in Link /\ c.up
  BY <1>1, <1>2
<1>4. link' = [link EXCEPT ![target] = next]
  BY DEF Forward
<1>5. next \in Link /\ next.up
  <2> HIDE DEF c
  <2>1. c.to \in Bytes
    BY <1>3 DEF Link
  <2>2. c.to \o request \in Bytes
    BY <1>1, <2>1, Glue
  <2> QED
    BY <1>3, <2>1, <2>2 DEF Link
<1>6. link' \in [Upstream -> Link] /\ link'[target].up
  <2> HIDE DEF next
  <2> QED
    BY <1>1, <1>4, <1>5
<1>7. /\ pc = "forward" /\ pc' = "readResponse" /\ response' = << >>
      /\ UNCHANGED <<clientVars, request, target, attempt, silent, held, handled,
                     status, answer>>
  BY DEF Forward, ClearResponse
<1>8. Typed'
  BY <1>1, <1>6, <1>7, EmptyBytes DEF Typed, clientVars
<1>9. Underway'
  BY <1>1, <1>6, <1>7 DEF Underway, Busy, Asked, clientVars
<1> QED
  BY <1>8, <1>9 DEF TypeInv

LEMMA AttemptFailsTyped ==
    ASSUME TypeInv, AttemptFails
    PROVE  TypeInv'
<1>1. /\ Typed /\ Underway /\ target \in Upstream /\ attempt \in 0 .. UpstreamCount
      /\ link \in [Upstream -> Link] /\ pc \in {"forward", "readResponse"}
  BY DEF TypeInv, Typed, AttemptFails
<1>2. /\ attempt < UpstreamCount /\ request # << >>
  BY <1>1 DEF Underway, Busy
<1>3. Down \in Link
  BY EmptyBytes DEF Down, Link
<1>4. link' \in [Upstream -> Link]
  BY <1>1, <1>3 DEF AttemptFails, DropLink
<1>5. target' \in Upstream
  <2>1. target' = (target + 1) % UpstreamCount
    BY DEF AttemptFails
  <2>2. target + 1 \in Nat
    BY <1>1, Constants
  <2> QED
    BY <2>1, <2>2, Constants DEF Upstream
<1>6. attempt' = attempt + 1 /\ attempt' \in 0 .. UpstreamCount
  BY <1>1, <1>2, Constants DEF AttemptFails
<1>7. Subject \in RequestId
  BY <1>2, SubjectAsked
<1>8. /\ \/ pc' = "forward" /\ attempt' < UpstreamCount /\ UNCHANGED status
         \/ pc' = "closed" /\ status' = [status EXCEPT ![Subject] = "refused"]
  BY <1>6 DEF AttemptFails, MoreUpstreams
<1>9. status' \in [RequestId -> {"unsent", "pending", "answered", "refused", "dropped"}]
  BY <1>1, <1>8 DEF Typed
<1>10. /\ silent' = FALSE /\ held' = 0
       /\ UNCHANGED <<clientVars, request, response, handled, answer>>
  BY DEF AttemptFails
<1>11. Typed'
  BY <1>1, <1>4, <1>5, <1>6, <1>8, <1>9, <1>10 DEF Typed, clientVars
<1>12. Underway'
  BY <1>1, <1>2, <1>8, <1>10 DEF Underway, Busy, Asked, clientVars
<1> QED
  BY <1>11, <1>12 DEF TypeInv

LEMMA RestTyped ==
    ASSUME TypeInv, Wait \/ StopReading \/ Respond \/ RespondFails
    PROVE  TypeInv'
<1>1. Typed /\ Underway
  BY DEF TypeInv
<1>2. CASE Wait \/ StopReading
  <2>1. /\ pc' = pc \/ pc' = "closed"
        /\ silent' \in BOOLEAN /\ held' \in Nat
        /\ UNCHANGED <<clientVars, request, response, target, attempt, link,
                       handled, status, answer>>
    <3>1. silent \in BOOLEAN /\ held \in Nat
      BY <1>1 DEF Typed
    <3>2. CASE Wait
      BY <3>1, <3>2 DEF Wait
    <3>3. CASE StopReading
      BY <3>1, <3>3 DEF StopReading
    <3> QED
      BY <1>2, <3>2, <3>3
  <2>2. Typed'
    BY <1>1, <2>1 DEF Typed, clientVars
  <2>3. Underway'
    BY <1>1, <2>1 DEF Underway, Busy, Asked, clientVars
  <2> QED
    BY <2>2, <2>3 DEF TypeInv
<1>3. CASE Respond \/ RespondFails
  <2>1. /\ pc = "respond" /\ pc' \in {"readRequest", "closed"}
        /\ request' = request \/ request' = << >>
        /\ response' = response \/ response' = << >>
        /\ handled' = handled \/ handled' = handled \o request
        /\ UNCHANGED <<clientVars, target, attempt, link, silent, held>>
    BY <1>3 DEF Respond, RespondFails, ClearRequest, clientVars
  <2>2. /\ status' = [status EXCEPT ![Subject] = "answered"]
            \/ status' = [status EXCEPT ![Subject] = "dropped"]
        /\ answer' = [answer EXCEPT ![Subject] = response] \/ answer' = answer
    BY <1>3 DEF Respond, RespondFails
  <2>3. handled \o request \in Bytes
    BY <1>1, Glue DEF Typed
  <2>4. status' \in [RequestId -> {"unsent", "pending", "answered", "refused", "dropped"}]
    BY <1>1, <2>2 DEF Typed
  <2>5. answer' \in [RequestId -> Bytes]
    BY <1>1, <2>2 DEF Typed
  <2>6. Typed'
    BY <1>1, <2>1, <2>3, <2>4, <2>5, EmptyBytes DEF Typed, clientVars
  <2>7. Underway'
    BY <1>1, <2>1, EmptyBytes DEF Underway, Busy, Asked, clientVars
  <2> QED
    BY <2>6, <2>7 DEF TypeInv
<1> QED
  BY <1>2, <1>3

LEMMA StepTyped == TypeInv /\ [Next]_vars => TypeInv'
<1> SUFFICES ASSUME TypeInv, [Next]_vars PROVE TypeInv'
  OBVIOUS
<1>1. CASE UNCHANGED vars
  <2>1. Typed'
    BY <1>1 DEF TypeInv, Typed, vars, clientVars
  <2>2. Underway'
    BY <1>1 DEF TypeInv, Underway, Busy, Asked, vars, clientVars
  <2> QED
    BY <2>1, <2>2 DEF TypeInv
<1>2. CASE Connect \/ ClientCloses \/ \E s \in RequestShapes : Send(s)
  BY <1>2, ClientsTyped
<1>3. CASE \E u \in Upstream : Server(u)
  BY <1>3, ServersTyped
<1>4. CASE Task
  BY <1>4, ReadRequestTyped, ReadResponseTyped, ForwardTyped, AttemptFailsTyped,
     RestTyped DEF Task
<1> QED
  BY <1>1, <1>2, <1>3, <1>4 DEF Next

LEMMA Typing == Spec => []TypeInv
<1>1. Init => TypeInv
  BY InitTyped
<1>2. TypeInv /\ [Next]_vars => TypeInv'
  BY StepTyped
<1> QED
  BY <1>1, <1>2, PTL DEF Spec

\* TypeOK holds in every reachable state: in particular a request under way is
\* never empty and always one that a client sent, and an attempt that waits for
\* a response has a connection (handle_client, forward_with_retry; proxy.rs).
THEOREM Types == Spec => []TypeOK
<1>1. TypeInv => TypeOK
  <2> SUFFICES ASSUME TypeInv PROVE TypeOK
    OBVIOUS
  <2>1. Typed /\ Underway
    BY DEF TypeInv
  <2>2. Busy => request # << >> /\ Subject \in RequestId
    BY <2>1, SubjectAsked DEF Underway
  <2> QED
    BY <2>1, <2>2 DEF TypeOK, Typed, Underway, Busy
<1> QED
  BY <1>1, Typing, PTL

-----------------------------------------------------------------------------
(* How long a peer can hold the task.                                      *)
Silent == IF silent THEN 1 ELSE 0
Held ==
    /\ pc = "readRequest" => held <= Len(request) + Silent
    /\ pc = "readResponse" => held <= Len(response) + Silent
    /\ pc \in {"forward", "respond"} => held = 0

\* A read makes up for the timeout spent waiting for it.
LEMMA LongerByARead ==
    ASSUME NEW from \in Bytes, NEW into \in Bytes, NEW n \in 1 .. Len(from),
           NEW h \in Nat, h <= Len(into) + Silent
    PROVE  h <= Len(into \o SubSeq(from, 1, n))
<1>1. Len(into \o SubSeq(from, 1, n)) = Len(into) + n
  BY Moved
<1>2. Len(into) \in Nat /\ n \in Nat \ {0} /\ Silent \in {0, 1}
  BY DEF Bytes, Silent
<1> QED
  BY <1>1, <1>2

LEMMA HeldStep == TypeInv /\ Held /\ [Next]_vars => Held'
<1> SUFFICES ASSUME TypeInv, Held, [Next]_vars PROVE Held'
  OBVIOUS
<1>1. /\ held \in Nat /\ toProxy \in Bytes /\ request \in Bytes /\ response \in Bytes
      /\ target \in Upstream /\ Len(request) \in Nat /\ Len(response) \in Nat
      /\ link[target].from \in Bytes
  BY LinkTypes DEF TypeInv, Typed, Bytes
<1>2. CASE UNCHANGED vars
  BY <1>2 DEF Held, Silent, vars, clientVars
<1>3. CASE Connect
  BY <1>3, EmptyBytes DEF Connect, Held, Silent
<1>4. CASE ClientCloses \/ \E s \in RequestShapes : Send(s)
  <2>1. UNCHANGED <<pc, request, response, silent, held>>
    BY <1>4 DEF ClientCloses, Send
  <2> QED
    BY <2>1 DEF Held, Silent
<1>5. ASSUME NEW n \in 1 .. Len(toProxy), ReadRequest(n) PROVE Held'
  <2>1. held <= Len(request')
    BY <1>1, <1>5, LongerByARead DEF Held, ReadRequest
  <2>2. CASE Complete(request')
    BY <1>5, <2>2 DEF ReadRequest, Rearm, Held
  <2>3. CASE ~Complete(request')
    <3>1. pc' = "readRequest" /\ held' = held /\ silent' = FALSE
      BY <1>5, <2>3 DEF ReadRequest, Rearm
    <3>2. request' \in Bytes
      BY <1>1, <1>5, Moved DEF ReadRequest
    <3>3. Len(request') \in Nat
      BY <3>2 DEF Bytes
    <3> QED
      BY <2>1, <3>1, <3>3 DEF Held, Silent
  <2> QED
    BY <2>2, <2>3
<1>6. ASSUME NEW n \in 1 .. Len(link[target].from), ReadResponse(n) PROVE Held'
  <2>1. held <= Len(response')
    BY <1>1, <1>6, LongerByARead DEF Held, ReadResponse
  <2>2. CASE Complete(response')
    BY <1>6, <2>2 DEF ReadResponse, Rearm, Held
  <2>3. CASE ~Complete(response')
    <3>1. pc' = "readResponse" /\ held' = held /\ silent' = FALSE
      BY <1>6, <2>3 DEF ReadResponse, Rearm
    <3>2. response' \in Bytes
      BY <1>1, <1>6, Moved DEF ReadResponse
    <3>3. Len(response') \in Nat
      BY <3>2 DEF Bytes
    <3> QED
      BY <2>1, <3>1, <3>3 DEF Held, Silent
  <2> QED
    BY <2>2, <2>3
<1>7. CASE Wait
  BY <1>1, <1>7 DEF Wait, Waiting, Held, Silent
<1>8. CASE StopReading \/ RespondFails
  BY <1>8 DEF StopReading, RespondFails, Held
<1>9. CASE Forward
  BY <1>9, EmptyBytes DEF Forward, ClearResponse, Held, Silent
<1>10. CASE AttemptFails
  BY <1>10 DEF AttemptFails, Held
<1>11. CASE Respond
  BY <1>11, EmptyBytes DEF Respond, ClearRequest, Held, Silent
<1>12. ASSUME NEW u \in Upstream, Server(u) PROVE Held'
  <2>1. UNCHANGED <<pc, request, response, silent, held>>
    BY <1>12 DEF Server, Reject, ServerCloses, Answer, Peer
  <2> QED
    BY <2>1 DEF Held, Silent
<1> QED
  BY <1>2, <1>3, <1>4, <1>5, <1>6, <1>7, <1>8, <1>9, <1>10, <1>11, <1>12
     DEF Next, Task

\* A peer holds the task for at most one timeout per byte it has sent, plus one
\* (read_some_timeout, proxy.rs:158-168), whatever the shapes and the peers.
THEOREM HoldingTheTask == Spec => []HeldByBytesOnly
<1>1. Init => Held
  BY DEF Init, Held
<1>2. TypeInv /\ Held => HeldByBytesOnly
  <2> SUFFICES ASSUME TypeInv, Held PROVE HeldByBytesOnly
    OBVIOUS
  <2>1. held \in Nat /\ Len(request) \in Nat /\ Len(response) \in Nat /\ Silent \in {0, 1}
    BY DEF TypeInv, Typed, Bytes, Silent
  <2> QED
    BY <2>1 DEF Held, HeldByBytesOnly
<1> QED
  BY <1>1, <1>2, HeldStep, Typing, PTL DEF Spec
-----------------------------------------------------------------------------
(* Nothing is done with a part of a message.                               *)
Finished ==
    /\ Busy => Complete(request)
    /\ pc = "respond" => Complete(response)

LEMMA FinishedStep == Finished /\ [Next]_vars => Finished'
<1> SUFFICES ASSUME Finished, [Next]_vars PROVE Finished'
  OBVIOUS
<1>1. CASE Connect \/ StopReading \/ Respond \/ RespondFails
  BY <1>1 DEF Connect, StopReading, Respond, RespondFails, Finished, Busy
<1>2. ASSUME NEW n \in 1 .. Len(toProxy), ReadRequest(n) PROVE Finished'
  <2>1. CASE Complete(request')
    <3>1. pc' = "forward"
      BY <1>2, <2>1 DEF ReadRequest
    <3> QED
      BY <2>1, <3>1 DEF Finished
  <2>2. CASE ~Complete(request')
    <3>1. pc' = "readRequest"
      BY <1>2, <2>2 DEF ReadRequest
    <3> QED
      BY <3>1 DEF Finished, Busy
  <2> QED
    BY <2>1, <2>2
<1>3. ASSUME NEW n \in 1 .. Len(link[target].from), ReadResponse(n) PROVE Finished'
  <2>1. request' = request /\ Complete(request)
    BY <1>3 DEF ReadResponse, Finished, Busy
  <2>2. pc' = "respond" => Complete(response')
    BY <1>3 DEF ReadResponse
  <2> QED
    BY <2>1, <2>2 DEF Finished
<1>4. CASE Forward \/ AttemptFails
  <2>1. request' = request /\ Complete(request) /\ pc' # "respond"
    BY <1>4 DEF Forward, AttemptFails, Finished, Busy
  <2> QED
    BY <2>1 DEF Finished
<1>5. CASE UNCHANGED vars \/ ClientCloses \/ (\E s \in RequestShapes : Send(s)) \/ Wait
           \/ \E u \in Upstream : Server(u)
  <2>1. UNCHANGED <<pc, request, response>>
    BY <1>5 DEF vars, ClientCloses, Send, Wait, Server, Reject, ServerCloses,
                Answer, Peer
  <2> QED
    BY <2>1 DEF Finished, Busy
<1> QED
  BY <1>1, <1>2, <1>3, <1>4, <1>5 DEF Next, Task

\* The header of what has been read.
LEMMA HeaderOf ==
    ASSUME NEW q \in Bytes, HasHeader(q)
    PROVE  LET header == SubSeq(q, 1, BodyStart(q))
           IN  /\ BodyStart(q) \in 2 .. Len(q) /\ header \in Seq(Byte)
               /\ LengthLines(header) # {} => Announced(header) \in Seq(Nat)
<1>1. q \in Seq(Byte) /\ Len(q) \in Nat
  BY DEF Bytes
<1>2. BodyStarts(q) \subseteq 2 .. Len(q) /\ BodyStarts(q) # {}
  BY DEF HasHeader, BodyStarts
<1> DEFINE b == BodyStart(q)
<1>3. b \in 2 .. Len(q)
  <2>1. BodyStarts(q) \subseteq Nat
    BY <1>2
  <2>2. Min(BodyStarts(q)) \in BodyStarts(q)
    BY <1>2, <2>1, MinOf
  <2> QED
    BY <1>2, <2>2 DEF BodyStart
<1> DEFINE header == SubSeq(q, 1, b)
<1> HIDE DEF b
<1>4. header \in Seq(Byte)
  BY <1>1, <1>3
<1> HIDE DEF header
<1>5. ASSUME LengthLines(header) # {} PROVE Announced(header) \in Seq(Nat)
  <2>1. LengthLines(header) \subseteq 1 .. Len(header) /\ Len(header) \in Nat
    BY <1>4 DEF LengthLines
  <2> DEFINE i == Min(LengthLines(header))
  <2>2. i \in 1 .. Len(header)
    <3>1. LengthLines(header) \subseteq Nat
      BY <2>1
    <3>2. i \in LengthLines(header)
      BY <1>5, <3>1, MinOf
    <3> QED
      BY <2>1, <3>2
  <2> HIDE DEF i
  <2>3. header[i] \in Byte
    BY <1>4, <2>2
  <2> QED
    BY <2>3 DEF Announced, i, Byte
<1> QED
  BY <1>3, <1>4, <1>5 DEF b, header

\* A length that parse_usize saturates is longer than any buffer.
LEMMA CompleteIsWhole ==
    ASSUME NEW out \in Bytes, Complete(out), Len(out) <= MaxUsize
    PROVE  Whole(out)
<1> DEFINE b == BodyStart(out)
<1> DEFINE header == SubSeq(out, 1, b)
<1>1. HasHeader(out) /\ Len(out) - b >= ContentLength(header)
  BY DEF Complete
<1>2. /\ b \in 2 .. Len(out) /\ Len(out) \in Nat
      /\ LengthLines(header) # {} => Announced(header) \in Seq(Nat)
  BY <1>1, HeaderOf DEF Bytes
<1> HIDE DEF b, header
<1>3. ASSUME LengthLines(header) # {}, Numeric(Announced(header))
      PROVE  Len(out) >= b + Meaning(Announced(header))
  <2> DEFINE m == Meaning(Announced(header))
  <2>1. m \in Nat /\ ContentLength(header) = Saturated(m)
    BY <1>2, <1>3, ParseSaturates DEF ContentLength
  <2> HIDE DEF m
  <2>2. CASE m > MaxUsize
    BY <1>1, <1>2, <2>1, <2>2, MaxUsizeAssumption DEF Saturated
  <2>3. CASE m <= MaxUsize
    BY <1>1, <1>2, <2>1, <2>3, MaxUsizeAssumption DEF Saturated, m
  <2> QED
    BY <2>1, <2>2, <2>3, MaxUsizeAssumption
<1> QED
  BY <1>1, <1>3 DEF Whole, b, header

\* No more bytes in a buffer than a usize can count.
BuffersFit == Len(request) <= MaxUsize /\ Len(response) <= MaxUsize

\* With any peers, nothing is forwarded or answered before the length its sender
\* announced has been read (read_http_message, proxy.rs:137-144).  A length that
\* saturates is waited for like the others: only a buffer with more bytes than a
\* usize counts could pass for it, and a Vec has none.
THEOREM WholeMessagesOnly == Spec => [](BuffersFit => NeverActsOnAPart)
<1>1. Init => Finished
  BY DEF Init, Finished, Busy
<1>2. TypeInv /\ Finished => (BuffersFit => NeverActsOnAPart)
  BY CompleteIsWhole DEF TypeInv, Typed, Finished, Busy, BuffersFit, NeverActsOnAPart
<1> QED
  BY <1>1, <1>2, FinishedStep, Typing, PTL DEF Spec

-----------------------------------------------------------------------------
(* The client's bytes.                                                     *)

LEMMA FlattenAppend ==
    ASSUME NEW xs \in Seq(Bytes), NEW x \in Bytes
    PROVE  FlattenSeq(Append(xs, x)) = FlattenSeq(xs) \o x
<1> DEFINE n == Len(xs)
<1> DEFINE ys == Append(xs, x)
<1>1. /\ n \in Nat /\ Len(ys) = n + 1 /\ ys[n + 1] = x
      /\ \A i \in 1 .. n : ys[i] = xs[i]
  OBVIOUS
<1>2. CASE n = 0
  <2> DEFINE f == [i \in 1 .. 1 |-> x]
  <2>1. Joins(f, ys)
    BY <1>1, <1>2 DEF Joins
  <2>2. FlattenSeq(ys) = f[1]
    <3>1. Len(ys) = 1 /\ 1 \in Nat \ {0}
      BY <1>1, <1>2
    <3> HIDE DEF f, ys, n
    <3> QED
      BY <2>1, <3>1, FlattenIs
  <2>3. f[1] = x
    OBVIOUS
  <2>4. << >> \o x = x
    BY DEF Bytes
  <2>5. xs = << >>
    BY <1>2
  <2> QED
    BY <2>2, <2>3, <2>4, <2>5, FlattenNothing
<1>3. CASE n # 0
  <2>1. PICK f : Joins(f, xs)
    BY <1>1, JoinsExist
  <2> DEFINE g == [i \in 1 .. n + 1 |-> IF i = n + 1 THEN f[n] \o x ELSE f[i]]
  <2>2. ASSUME NEW i \in 1 .. n + 1
        PROVE  g[i] = IF i = 1 THEN ys[i] ELSE g[i - 1] \o ys[i]
    <3>1. CASE i = n + 1
      <4>1. i # 1 /\ i - 1 = n /\ i - 1 \in 1 .. n + 1 /\ i - 1 # n + 1
        BY <1>1, <1>3, <3>1
      <4>2. g[i] = f[n] \o x /\ g[i - 1] = f[n]
        BY <3>1, <4>1
      <4> HIDE DEF g, ys, n
      <4> QED
        BY <1>1, <3>1, <4>1, <4>2
    <3>2. CASE i # n + 1
      <4>1. i \in 1 .. n /\ (i # 1 => i - 1 \in 1 .. n + 1 /\ i - 1 # n + 1)
        BY <1>1, <3>2
      <4>2. g[i] = f[i] /\ (i # 1 => g[i - 1] = f[i - 1])
        BY <3>2, <4>1
      <4>3. f[i] = IF i = 1 THEN xs[i] ELSE f[i - 1] \o xs[i]
        BY <2>1, <4>1 DEF Joins
      <4> HIDE DEF g, ys, n
      <4> QED
        BY <1>1, <4>1, <4>2, <4>3
    <3> QED
      BY <3>1, <3>2
  <2>3. g[n + 1] = f[n] \o x
    BY <1>1
  <2> HIDE DEF g, ys, n
  <2>4. Joins(g, ys)
    BY <1>1, <2>2 DEF Joins
  <2>5. FlattenSeq(ys) = g[n + 1]
    BY <1>1, <2>4, FlattenIs
  <2>6. FlattenSeq(xs) = f[n]
    BY <1>1, <1>3, <2>1, FlattenIs DEF n
  <2> QED
    BY <2>3, <2>5, <2>6 DEF ys
<1> QED
  BY <1>2, <1>3

LEMMA FlattenEmpty ==
    ASSUME NEW n \in Nat, NEW xs, xs = [i \in 1 .. n |-> << >>]
    PROVE  FlattenSeq(xs) = << >>
<1>1. xs \in Seq(Bytes) /\ Len(xs) = n /\ \A i \in 1 .. n : xs[i] = << >>
  BY EmptyBytes
<1>2. CASE n = 0
  BY <1>1, <1>2, FlattenNothing
<1>3. CASE n # 0
  <2>1. << >> \o << >> = << >>
    OBVIOUS
  <2>2. Joins(xs, xs)
    <3> SUFFICES ASSUME NEW i \in 1 .. n
                 PROVE  xs[i] = IF i = 1 THEN xs[i] ELSE xs[i - 1] \o xs[i]
      BY <1>1 DEF Joins
    <3>1. i # 1 => i - 1 \in 1 .. n
      OBVIOUS
    <3> QED
      BY <1>1, <2>1, <3>1
  <2>3. FlattenSeq(xs) = xs[n]
    BY <1>1, <1>3, <2>2, FlattenIs
  <2> QED
    BY <1>1, <1>3, <2>3
<1> QED
  BY <1>2, <1>3

Sent == [i \in 1 .. Len(asked) |-> BytesSent(i)]

LEMMA SentTypes ==
    ASSUME Typed
    PROVE  Sent \in Seq(Bytes) /\ Len(Sent) = Len(asked) /\ Len(asked) \in Nat
<1>1. Len(asked) \in Nat
  BY AskedTypes
<1>2. ASSUME NEW i \in 1 .. Len(asked) PROVE BytesSent(i) \in Bytes
  <2>1. i \in Nat /\ asked[i].shape \in Shape
    BY <1>1, AskedTypes, Shapes
  <2>2. Message(i, asked[i].shape) \in Bytes
    BY <2>1, MessageBegins
  <2> QED
    BY <2>2, EmptyBytes DEF BytesSent
<1> QED
  BY <1>1, <1>2 DEF Sent

LEMMA SentStays ==
    ASSUME UNCHANGED <<clients, asked>>
    PROVE  Sent' = Sent
BY DEF Sent, BytesSent, SentHere

\* A new connection has sent nothing.
LEMMA ConnectSent ==
    ASSUME TypeInv, Connect
    PROVE  FlattenSeq(Sent') = << >>
<1>1. asked' = asked /\ clients' = clients + 1
  BY DEF Connect
<1>2. ASSUME NEW i \in 1 .. Len(asked) PROVE asked[i].client # clients + 1
  <2>1. asked[i].client \in Nat /\ clients \in Nat /\ asked[i].client <= clients
    BY AskedTypes DEF TypeInv, Underway
  <2> QED
    BY <2>1
<1>3. SentHere' = {}
  BY <1>1, <1>2 DEF SentHere
<1>4. Sent' = [i \in 1 .. Len(asked) |-> << >>]
  BY <1>1, <1>3 DEF Sent, BytesSent
<1>5. Len(asked) \in Nat
  BY AskedTypes DEF TypeInv
<1> HIDE DEF Sent
<1> QED
  BY <1>4, <1>5, FlattenEmpty

\* What Send does to the sequences.
LEMMA SendAsks ==
    ASSUME TypeInv, NEW s \in RequestShapes, Send(s)
    PROVE  LET id == Len(asked) + 1
               m == Message(id, s)
           IN  /\ id \in RequestId /\ id \in Nat \ {0} /\ s \in Shape
               /\ m \in Bytes /\ toProxy' = toProxy \o m
               /\ asked' = Append(asked, [client |-> clients, shape |-> s])
               /\ Len(asked') = id /\ asked'[id].client = clients
               /\ asked'[id].shape = s
               /\ \A i \in 1 .. Len(asked) : asked'[i] = asked[i]
<1>1. /\ asked \in Seq(Asking) /\ Len(asked) \in Nat /\ Len(asked) < MaxRequests
      /\ clients \in Nat
  BY AskedTypes DEF TypeInv, Typed, Send
<1>2. [client |-> clients, shape |-> s] \in Asking
  BY <1>1 DEF Asking
<1> DEFINE entry == [client |-> clients, shape |-> s]
<1>3. entry.client = clients /\ entry.shape = s
  OBVIOUS
<1>4. asked' = Append(asked, entry)
  BY DEF Send
<1>5. entry \in Asking
  BY <1>2
<1> HIDE DEF entry
<1>6. /\ Len(asked') = Len(asked) + 1 /\ asked'[Len(asked) + 1] = entry
      /\ \A i \in 1 .. Len(asked) : asked'[i] = asked[i]
  BY <1>1, <1>4, <1>5
<1>7. Len(asked) + 1 \in Nat \ {0} /\ Len(asked) + 1 \in RequestId
  BY <1>1, Constants DEF RequestId
<1>8. s \in Shape
  BY Shapes
<1>9. Message(Len(asked) + 1, s) \in Bytes
  BY <1>7, <1>8, MessageBegins
<1>10. toProxy' = toProxy \o Message(Len(asked) + 1, s)
  BY <1>6 DEF Send
<1> QED
  BY <1>3, <1>4, <1>6, <1>7, <1>8, <1>9, <1>10 DEF entry

LEMMA AppendIs ==
    ASSUME NEW S, NEW xs \in Seq(S), NEW x \in S
    PROVE  Append(xs, x) = [i \in 1 .. Len(xs) + 1 |->
                              IF i = Len(xs) + 1 THEN x ELSE xs[i]]
<1> DEFINE n == Len(xs)
<1> DEFINE ys == [i \in 1 .. n + 1 |-> IF i = n + 1 THEN x ELSE xs[i]]
<1>1. n \in Nat /\ \A i \in 1 .. n + 1 : i # n + 1 => i \in 1 .. n
  OBVIOUS
<1>2. \A i \in 1 .. n + 1 : (IF i = n + 1 THEN x ELSE xs[i]) \in S
  BY <1>1
<1>3. ys \in Seq(S) /\ Len(ys) = n + 1
  BY <1>1, <1>2
<1>4. Append(xs, x) \in Seq(S) /\ Len(Append(xs, x)) = n + 1
  OBVIOUS
<1>5. \A i \in 1 .. n + 1 : Append(xs, x)[i] = ys[i]
  BY <1>1
<1> HIDE DEF ys
<1>6. Append(xs, x) = ys
  BY <1>3, <1>4, <1>5, SeqEqual
<1> QED
  BY <1>6 DEF ys

\* Sending adds a message at the end.
LEMMA SendSent ==
    ASSUME TypeInv, NEW s \in RequestShapes, Send(s)
    PROVE  FlattenSeq(Sent') = FlattenSeq(Sent) \o Message(Len(asked) + 1, s)
<1> DEFINE id == Len(asked) + 1
<1> DEFINE m == Message(id, s)
<1>1. /\ id \in Nat \ {0} /\ m \in Bytes
      /\ Len(asked') = id /\ asked'[id].client = clients /\ asked'[id].shape = s
      /\ \A i \in 1 .. Len(asked) : asked'[i] = asked[i]
  BY SendAsks
<1>2. clients' = clients
  BY DEF Send
<1>3. Sent \in Seq(Bytes) /\ Len(Sent) = Len(asked) /\ Len(asked) \in Nat
  BY SentTypes DEF TypeInv
<1>4. Sent' = [i \in 1 .. id |-> BytesSent(i)']
  BY <1>1 DEF Sent
<1>5. ASSUME NEW i \in 1 .. Len(asked) PROVE BytesSent(i)' = Sent[i]
  <2>1. i \in 1 .. id
    BY <1>3
  <2>2. i \in SentHere' <=> i \in SentHere
    BY <1>1, <1>2, <2>1 DEF SentHere
  <2> HIDE DEF id, m
  <2>3. BytesSent(i)' = BytesSent(i)
    BY <1>1, <2>2 DEF BytesSent
  <2> QED
    BY <2>3 DEF Sent
<1>6. ASSUME NEW i \in 1 .. id, i = id PROVE BytesSent(i)' = m
  <2>1. i \in 1 .. Len(asked')
    BY <1>1
  <2>2. i \in SentHere'
    BY <1>1, <1>2, <1>6, <2>1 DEF SentHere
  <2> QED
    BY <1>1, <1>6, <2>2 DEF BytesSent
<1> HIDE DEF m
<1>7. \A i \in 1 .. id : i = id \/ i \in 1 .. Len(asked)
  BY <1>3
<1>8. Append(Sent, m) = [i \in 1 .. id |-> IF i = id THEN m ELSE Sent[i]]
  <2> HIDE DEF Sent
  <2> QED
    BY <1>1, <1>3, AppendIs
<1>9. Sent' = Append(Sent, m)
  <2>1. \A i \in 1 .. id : BytesSent(i)' = IF i = id THEN m ELSE Sent[i]
    <3>1. ASSUME NEW i \in 1 .. id PROVE BytesSent(i)' = IF i = id THEN m ELSE Sent[i]
      <4>1. i # id => i \in 1 .. Len(asked)
        BY <1>7
      <4> HIDE DEF id
      <4> QED
        BY <1>5, <1>6, <4>1
    <3> QED
      BY <3>1
  <2> HIDE DEF Sent, id
  <2> QED
    BY <1>4, <1>8, <2>1
<1>10. FlattenSeq(Append(Sent, m)) = FlattenSeq(Sent) \o m
  BY <1>1, <1>3, FlattenAppend
<1> QED
  BY <1>9, <1>10 DEF m, id

Conserved == pc # "closed" => handled \o request \o toProxy = FlattenSeq(Sent)

LEMMA ConservedStep == TypeInv /\ Conserved /\ [Next]_vars => Conserved'
<1> SUFFICES ASSUME TypeInv, Conserved, [Next]_vars, pc' # "closed"
             PROVE  (handled \o request \o toProxy)' = FlattenSeq(Sent')
  BY DEF Conserved
<1>1. handled \in Bytes /\ request \in Bytes /\ toProxy \in Bytes
  BY DEF TypeInv, Typed
<1>2. CASE Connect
  <2>1. /\ handled' = << >> /\ request' = << >> /\ toProxy' = << >>
    BY <1>2 DEF Connect
  <2>2. << >> \o << >> \o << >> = << >>
    OBVIOUS
  <2> QED
    BY <1>2, <2>1, <2>2, ConnectSent
<1>3. ASSUME NEW s \in RequestShapes, Send(s)
      PROVE  (handled \o request \o toProxy)' = FlattenSeq(Sent')
  <2> DEFINE m == Message(Len(asked) + 1, s)
  <2>1. m \in Bytes /\ toProxy' = toProxy \o m
    BY <1>3, SendAsks
  <2>2. FlattenSeq(Sent') = FlattenSeq(Sent) \o m
    BY <1>3, SendSent
  <2>3. UNCHANGED <<handled, request>> /\ handled \o request \o toProxy = FlattenSeq(Sent)
    BY <1>3 DEF Send, Conserved
  <2> HIDE DEF m
  <2> DEFINE h == handled \o request
  <2>5. h \in Bytes
    BY <1>1, Sequence
  <2> HIDE DEF h
  <2>6. (h \o toProxy) \o m = h \o (toProxy \o m)
    BY <1>1, <2>1, <2>5, Sequence
  <2>4. (handled \o request \o toProxy) \o m = (handled \o request) \o (toProxy \o m)
    BY <2>6 DEF h
  <2> QED
    BY <2>1, <2>2, <2>3, <2>4
<1>4. ASSUME NEW n \in 1 .. Len(toProxy), ReadRequest(n)
      PROVE  (handled \o request \o toProxy)' = FlattenSeq(Sent')
  <2>1. /\ request' = request \o SubSeq(toProxy, 1, n)
        /\ toProxy' = SubSeq(toProxy, n + 1, Len(toProxy))
        /\ UNCHANGED <<handled, clients, asked>>
    BY <1>4 DEF ReadRequest
  <2>2. request' \in Bytes /\ toProxy' \in Bytes /\ request' \o toProxy' = request \o toProxy
    <3> DEFINE rest == SubSeq(toProxy, n + 1, Len(toProxy))
    <3> DEFINE got == request \o SubSeq(toProxy, 1, n)
    <3>1. toProxy \in Bytes /\ request \in Bytes
      BY <1>1
    <3>2. got \in Bytes /\ rest \in Bytes /\ got \o rest = request \o toProxy
      BY ONLY <3>1, Moved
    <3>3. request' = got /\ toProxy' = rest
      BY <2>1
    <3> HIDE DEF got, rest
    <3> QED
      BY <3>2, <3>3
  <2>6. handled \in Bytes /\ request' \in Bytes /\ toProxy' \in Bytes
    BY <1>1, <2>2
  <2>3. (handled \o request') \o toProxy' = handled \o (request' \o toProxy')
    BY ONLY <2>6, Regroup
  <2>4. (handled \o request) \o toProxy = handled \o (request \o toProxy)
    BY <1>1, Sequence
  <2>5. handled \o request \o toProxy = FlattenSeq(Sent)
    BY <1>4 DEF ReadRequest, Conserved
  <2> QED
    BY <2>1, <2>2, <2>3, <2>4, <2>5, SentStays
<1>5. CASE Respond
  <2>1. /\ handled' = handled \o request /\ request' = << >>
        /\ UNCHANGED <<toProxy, clients, asked>>
        /\ handled \o request \o toProxy = FlattenSeq(Sent)
    BY <1>5 DEF Respond, ClearRequest, clientVars, Conserved
  <2>2. (handled \o request) \o << >> = handled \o request
    <3>1. handled \o request \in Seq(Byte)
      BY <1>1, Glue DEF Bytes
    <3> QED
      BY <3>1, ConcatEmptySeq
  <2> QED
    BY <2>1, <2>2, SentStays
<1>6. CASE UNCHANGED vars \/ ClientCloses \/ Wait \/ StopReading \/ Forward
           \/ AttemptFails \/ RespondFails
           \/ (\E n \in 1 .. Len(link[target].from) : ReadResponse(n))
           \/ \E u \in Upstream : Server(u)
  <2>1. UNCHANGED <<handled, request, toProxy, clients, asked>> /\ pc # "closed"
    <3>1. CASE UNCHANGED vars \/ ClientCloses \/ Wait
      BY <3>1 DEF vars, clientVars, ClientCloses, Wait
    <3>2. CASE StopReading \/ Forward \/ AttemptFails \/ RespondFails
      BY <3>2 DEF clientVars, StopReading, Forward, AttemptFails, RespondFails
    <3>3. CASE \E n \in 1 .. Len(link[target].from) : ReadResponse(n)
      BY <3>3 DEF clientVars, ReadResponse
    <3>4. CASE \E u \in Upstream : Server(u)
      BY <3>4 DEF clientVars, Server, Reject, ServerCloses, Answer, Peer
    <3> QED
      BY <1>6, <3>1, <3>2, <3>3, <3>4
  <2> QED
    BY <2>1, SentStays DEF Conserved
<1> QED
  BY <1>2, <1>3, <1>4, <1>5, <1>6 DEF Next, Task

\* With any client, its bytes are in the exchanges that are over, in the request
\* buffer and in the socket, in order, none lost and none twice (handle_client,
\* proxy.rs:44-67).
THEOREM NoByteLost == Spec => []BytesConserved
<1>1. Init => Conserved
  BY DEF Init, Conserved
<1>2. Conserved => BytesConserved
  BY DEF Conserved, BytesConserved, Sent
<1> QED
  BY <1>1, <1>2, ConservedStep, Typing, PTL DEF Spec

-----------------------------------------------------------------------------
(* Honest peers.                                                           *)

\* The client of the latest request waits for its answer.
Latest == Len(asked)
Its == asked[Latest].shape
Own == Message(Latest, Its)
Owed == Latest # 0 /\ asked[Latest].client = clients /\ answer[Latest] = << >>

Framing ==
    /\ \A i \in 1 .. Len(asked) : Framed(asked[i].shape)
    /\ \A r \in RequestId : r > Len(asked) => status[r] = "unsent" /\ answer[r] = << >>
    /\ \A r \in RequestId : answer[r] # << >> =>
         \E s \in ResponseShapes : answer[r] = Message(r, s)

\* What the client has sent and the proxy has not answered.
Incoming ==
    /\ pc = "readRequest" =>
        IF Owed THEN /\ request \o toProxy = Own /\ ~Complete(request)
                     /\ status[Latest] = "unsent"
                ELSE request = << >> /\ toProxy = << >>
    /\ Busy => Owed /\ request = Own /\ toProxy = << >>

\* What is on the way to an upstream and back: the request, nothing because the
\* upstream is gone, or what is left of the answer.
Quiet(c) == c.to = << >> /\ c.from = << >>
Unanswered(c, sent, got) ==
    ~c.closing /\ c.to = sent /\ c.from = << >> /\ got = << >>
Lost(c, got) == c.closing /\ Quiet(c) /\ got = << >>
Answering(c, got, id) ==
    /\ c.to = << >>
    /\ ~Complete(got)
    /\ \E s \in ResponseShapes :
        /\ Framed(s)
        /\ Begins(got \o c.from, id, s)
        /\ c.closing \/ got \o c.from = Message(id, s)
Under(c, sent, got, id) ==
    Unanswered(c, sent, got) \/ Lost(c, got) \/ Answering(c, got, id)
Outgoing ==
    /\ \A u \in Upstream : pc # "readResponse" \/ u # target => Quiet(link[u])
    /\ pc = "readResponse" =>
        Under(link[target], request, response, Latest)
    /\ pc = "respond" =>
        \E s \in ResponseShapes : Framed(s) /\ response = Message(Latest, s)

Orderly == Framing /\ Incoming /\ Outgoing

LEMMA NothingIsComplete == ~HasHeader(<< >>) /\ ~Complete(<< >>)
<1>1. BodyStarts(<< >>) = {}
  BY DEF BodyStarts
<1> QED
  BY <1>1 DEF HasHeader, Complete

\* What comes before and after a cut in the beginning of a message.
LEMMA BeginsCut ==
    ASSUME NEW id \in Nat, NEW shape \in Shape, NEW p \in Bytes, NEW r \in Bytes,
           Begins(p \o r, id, shape)
    PROVE  /\ Begins(p, id, shape)
           /\ Len(p) = Length(shape) => r = << >>
           /\ \A i \in 1 .. Len(r) : r[i].of = id
<1>1. /\ Len(p) \in Nat /\ Len(r) \in Nat /\ Len(p \o r) = Len(p) + Len(r)
      /\ \A i \in 1 .. Len(p) + Len(r) :
            (p \o r)[i] = IF i <= Len(p) THEN p[i] ELSE r[i - Len(p)]
  BY Glue DEF Bytes
<1>2. Length(shape) \in Nat /\ Len(p) + Len(r) <= Length(shape)
  BY <1>1, MessageBegins DEF Begins
<1>3. ASSUME NEW i \in 1 .. Len(p) PROVE p[i] = UnitAt(id, shape, i)
  <2>1. i \in 1 .. Len(p) + Len(r) /\ i <= Len(p)
    BY <1>1
  <2>2. (p \o r)[i] = p[i]
    BY <1>1, <2>1
  <2> QED
    BY <1>1, <2>1, <2>2 DEF Begins
<1>4. ASSUME NEW i \in 1 .. Len(r) PROVE r[i].of = id
  <2>1. /\ Len(p) + i \in 1 .. Len(p) + Len(r) /\ ~ (Len(p) + i <= Len(p))
        /\ Len(p) + i - Len(p) = i /\ Len(p) + i \in Nat \ {0}
    BY <1>1
  <2>2. (p \o r)[Len(p) + i] = r[i]
    BY <1>1, <2>1
  <2>3. r[i] = UnitAt(id, shape, Len(p) + i)
    BY <1>1, <2>1, <2>2 DEF Begins
  <2> QED
    BY <2>1, <2>3, UnitKinds
<1>5. Begins(p, id, shape)
  BY <1>1, <1>2, <1>3 DEF Begins
<1>6. ASSUME Len(p) = Length(shape) PROVE r = << >>
  <2>1. Len(r) = 0
    BY <1>1, <1>2, <1>6
  <2> QED
    BY <2>1 DEF Bytes
<1> QED
  BY <1>4, <1>5, <1>6

\* Reading on within a message: it is complete when nothing is left of it.
LEMMA ReadOn ==
    ASSUME NEW id \in Nat, NEW shape \in Shape, Framed(shape), shape.body <= MaxUsize,
           NEW p \in Bytes, NEW r \in Bytes, Begins(p \o r, id, shape), Complete(p)
    PROVE  p = Message(id, shape) /\ r = << >>
<1>1. Begins(p, id, shape) /\ (Len(p) = Length(shape) => r = << >>)
  BY BeginsCut
<1>2. Len(p) = Length(shape)
  BY <1>1, CompleteAtTheEnd
<1>3. Len(p) >= Length(shape)
  BY <1>2, MessageBegins
<1> QED
  BY <1>1, <1>2, <1>3, WholeMessage

\* The latest request, when all requests are framed.
LEMMA LatestFacts ==
    ASSUME TypeInv, Framing, Latest # 0
    PROVE  /\ Latest \in 1 .. Len(asked) /\ Latest \in RequestId /\ Latest \in Nat
           /\ Its \in Shape /\ Framed(Its) /\ Its.body <= MaxUsize
           /\ Own \in Bytes /\ Own # << >> /\ Begins(Own, Latest, Its)
           /\ Head(Own).of = Latest
           /\ \A i \in 1 .. Len(Own) : Own[i].of = Latest
<1>1. Typed
  BY DEF TypeInv
<1>2. Latest \in 1 .. Len(asked) /\ Latest \in Nat /\ Latest <= MaxRequests
  BY <1>1, AskedTypes DEF Latest, Typed
<1>3. Latest \in RequestId
  BY <1>2, Constants DEF RequestId
<1>4. Its \in RequestShapes /\ Framed(Its)
  BY <1>1, <1>2, AskedTypes DEF Its, Framing
<1>5. Its \in Shape /\ Its.body <= MaxUsize
  BY <1>4, Shapes
<1>6. Own \in Bytes /\ Own # << >> /\ Begins(Own, Latest, Its)
  BY <1>2, <1>5, MessageBegins DEF Own
<1>7. ASSUME NEW i \in 1 .. Len(Own) PROVE Own[i].of = Latest
  <2>1. i \in Nat \ {0}
    BY <1>6 DEF Bytes
  <2>2. Own[i] = UnitAt(Latest, Its, i)
    BY <1>6 DEF Begins
  <2> QED
    BY <1>2, <1>5, <2>1, <2>2, UnitKinds
<1>8. Head(Own).of = Latest
  <2>1. 1 \in 1 .. Len(Own) /\ Head(Own) = Own[1]
    BY <1>6 DEF Bytes
  <2> QED
    BY <1>7, <2>1
<1> QED
  BY <1>2, <1>3, <1>4, <1>5, <1>6, <1>7, <1>8

\* The request of a busy proxy is the latest.
LEMMA BusyFacts ==
    ASSUME TypeInv, Framing, Incoming, Busy
    PROVE  Owed /\ Latest # 0 /\ request = Own /\ toProxy = << >> /\ Subject = Latest
<1>1. Owed /\ Latest # 0 /\ request = Own /\ toProxy = << >>
  BY DEF Incoming, Owed
<1>2. Head(Own).of = Latest
  BY <1>1, LatestFacts
<1> QED
  BY <1>1, <1>2 DEF Subject

LEMMA SameOwed ==
    ASSUME UNCHANGED <<clients, asked, answer>>
    PROVE  Latest' = Latest /\ Its' = Its /\ Own' = Own /\ (Owed' <=> Owed)
BY DEF Latest, Its, Own, Owed

LEMMA FramingStays ==
    ASSUME Framing, UNCHANGED <<asked, status, answer>>
    PROVE  Framing'
BY DEF Framing

\* A request that was read was sent.
LEMMA FramingSettled ==
    ASSUME Framing, NEW r \in 1 .. Len(asked), NEW outcome, Typed,
           status' = [status EXCEPT ![r] = outcome], UNCHANGED <<asked, answer>>
    PROVE  Framing'
<1>1. \A q \in RequestId : q > Len(asked) => q # r
  BY AskedTypes DEF RequestId
<1>2. \A q \in RequestId : q > Len(asked) => status'[q] = "unsent"
  BY <1>1 DEF Framing, Typed
<1> QED
  BY <1>2 DEF Framing

LEMMA FramingStep ==
    ASSUME TypeInv, honest, Orderly, [Next]_vars
    PROVE  Framing'
<1>1. Typed /\ Framing /\ Incoming /\ Outgoing /\ Len(asked) \in Nat
  BY AskedTypes DEF TypeInv, Orderly
<1>2. ASSUME NEW s \in RequestShapes, Send(s) PROVE Framing'
  <2> DEFINE id == Len(asked) + 1
  <2>1. /\ Len(asked') = id /\ asked'[id].shape = s
        /\ \A i \in 1 .. Len(asked) : asked'[i] = asked[i]
    BY <1>2, SendAsks
  <2>2. Framed(s) /\ UNCHANGED <<status, answer>>
    BY <1>2 DEF Send
  <2>3. \A i \in 1 .. id : i = id \/ i \in 1 .. Len(asked)
    BY <1>1
  <2>4. \A r \in RequestId : r > id => r > Len(asked)
    BY <1>1 DEF RequestId
  <2> HIDE DEF id
  <2>5. \A i \in 1 .. Len(asked') : Framed(asked'[i].shape)
    BY <1>1, <2>1, <2>2, <2>3 DEF Framing
  <2> QED
    BY <1>1, <2>1, <2>2, <2>4, <2>5 DEF Framing
<1>3. ASSUME NEW n \in 1 .. Len(toProxy), ReadRequest(n) PROVE Framing'
  <2>1. CASE Complete(request')
    <3>1. /\ status' = [status EXCEPT ![Head(request').of] = "pending"]
          /\ UNCHANGED <<asked, answer>>
      BY <1>3, <2>1 DEF ReadRequest
    <3>2. Head(request').of \in 1 .. Len(asked)
      <4>1. TypeInv'
        BY StepTyped
      <4>2. request' \in Bytes /\ Asked(request)'
        BY <4>1 DEF TypeInv, Typed, Underway
      <4>3. request' # << >>
        BY <2>1, NothingIsComplete
      <4>4. 1 \in 1 .. Len(request') /\ Head(request') = request'[1]
        BY <4>2, <4>3 DEF Bytes
      <4> QED
        BY <3>1, <4>2, <4>4 DEF Asked
    <3> QED
      BY <1>1, <3>1, <3>2, FramingSettled
  <2>2. CASE ~Complete(request')
    <3>1. UNCHANGED <<asked, status, answer>>
      BY <1>3, <2>2 DEF ReadRequest
    <3> QED
      BY <1>1, <3>1, FramingStays
  <2> QED
    BY <2>1, <2>2
<1>4. ASSUME Busy PROVE Subject \in 1 .. Len(asked)
  BY <1>1, <1>4, SubjectAsked DEF TypeInv, Underway
<1>5. CASE AttemptFails
  <2>1. UNCHANGED <<asked, answer>> /\ Busy
    BY <1>5 DEF AttemptFails, clientVars, Busy
  <2>2. status' = status \/ status' = [status EXCEPT ![Subject] = "refused"]
    BY <1>5 DEF AttemptFails
  <2> QED
    BY <1>1, <1>4, <2>1, <2>2, FramingStays, FramingSettled
<1>6. CASE RespondFails
  <2>1. /\ UNCHANGED <<asked, answer>> /\ Busy
        /\ status' = [status EXCEPT ![Subject] = "dropped"]
    BY <1>6 DEF RespondFails, clientVars, Busy
  <2> QED
    BY <1>1, <1>4, <2>1, FramingSettled
<1>7. CASE Respond
  <2>1. /\ pc = "respond" /\ Busy /\ UNCHANGED asked
        /\ answer' = [answer EXCEPT ![Subject] = response]
        /\ status' = [status EXCEPT ![Subject] = "answered"]
    BY <1>7 DEF Respond, clientVars, Busy
  <2>2. Subject \in 1 .. Len(asked) /\ Subject \in RequestId /\ Subject = Latest
    BY <1>1, <2>1, SubjectAsked, BusyFacts DEF TypeInv, Underway
  <2>3. PICK s \in ResponseShapes : response = Message(Subject, s)
    BY <1>1, <2>1, <2>2 DEF Outgoing
  <2>4. \A r \in RequestId : r > Len(asked) => r # Subject
    BY <1>1, <2>2 DEF RequestId
  <2>5. \A r \in RequestId : r > Len(asked) =>
            status'[r] = "unsent" /\ answer'[r] = << >>
    BY <1>1, <2>1, <2>4 DEF Framing, Typed
  <2>6. ASSUME NEW r \in RequestId, answer'[r] # << >>
        PROVE  \E t \in ResponseShapes : answer'[r] = Message(r, t)
    <3>1. CASE r = Subject
      BY <1>1, <2>1, <2>3, <3>1 DEF Typed
    <3>2. CASE r # Subject
      BY <1>1, <2>1, <2>6, <3>2 DEF Framing, Typed
    <3> QED
      BY <3>1, <3>2
  <2> QED
    BY <1>1, <2>1, <2>5, <2>6 DEF Framing
<1>8. CASE UNCHANGED vars \/ Connect \/ ClientCloses \/ Wait \/ StopReading \/ Forward
           \/ (\E n \in 1 .. Len(link[target].from) : ReadResponse(n))
           \/ \E u \in Upstream : Server(u)
  <2>1. UNCHANGED <<asked, status, answer>>
    <3>1. CASE UNCHANGED vars \/ ClientCloses \/ Wait \/ Connect
      BY <3>1 DEF vars, clientVars, ClientCloses, Wait, Connect
    <3>2. CASE StopReading \/ Forward
      BY <3>2 DEF clientVars, StopReading, Forward
    <3>3. CASE \E n \in 1 .. Len(link[target].from) : ReadResponse(n)
      BY <3>3 DEF clientVars, ReadResponse
    <3>4. CASE \E u \in Upstream : Server(u)
      BY <3>4 DEF clientVars, Server, Reject, ServerCloses, Answer, Peer
    <3> QED
      BY <1>8, <3>1, <3>2, <3>3, <3>4
  <2> QED
    BY <1>1, <2>1, FramingStays
<1> QED
  BY <1>2, <1>3, <1>5, <1>6, <1>7, <1>8 DEF Next, Task

\* An honest client that sends was answered before.
LEMMA NotOwedTwice ==
    ASSUME TypeInv, honest, Orderly, NEW s \in RequestShapes, Send(s)
    PROVE  /\ ~Owed /\ pc = "readRequest" /\ request = << >> /\ toProxy = << >>
           /\ Owed' /\ Own' = Message(Len(asked) + 1, s)
           /\ status[Len(asked) + 1] = "unsent"
<1> DEFINE id == Len(asked) + 1
<1>1. /\ id \in RequestId /\ id \in Nat \ {0} /\ Len(asked) \in Nat
      /\ Len(asked') = id /\ asked'[id].client = clients /\ asked'[id].shape = s
  BY SendAsks, AskedTypes DEF TypeInv
<1>2. ~Owed
  <2> SUFFICES ASSUME Owed PROVE FALSE
    OBVIOUS
  <2>1. Latest \in SentHere /\ answer[Latest] = << >>
    BY <1>1 DEF Owed, SentHere, Latest
  <2> QED
    BY <2>1 DEF Send
<1>3. pc = "readRequest" /\ request = << >> /\ toProxy = << >>
  <2>1. pc # "closed" /\ ~Busy
    BY <1>2 DEF Send, Orderly, Incoming
  <2>2. pc = "readRequest"
    BY <2>1 DEF TypeInv, Typed, Busy
  <2> QED
    BY <1>2, <2>2 DEF Orderly, Incoming
<1>4. status[id] = "unsent" /\ answer[id] = << >>
  <2>1. id > Len(asked)
    BY <1>1
  <2> QED
    BY <1>1, <2>1 DEF Orderly, Framing
<1>5. UNCHANGED <<clients, answer>>
  BY DEF Send
<1>6. Owed' /\ Own' = Message(id, s)
  BY <1>1, <1>4, <1>5 DEF Owed, Own, Its, Latest
<1> QED
  BY <1>2, <1>3, <1>4, <1>6

LEMMA IncomingStep ==
    ASSUME TypeInv, honest, Orderly, [Next]_vars
    PROVE  Incoming'
<1>1. /\ Typed /\ Framing /\ Incoming /\ Outgoing /\ Len(asked) \in Nat
      /\ toProxy \in Bytes /\ request \in Bytes
  BY AskedTypes DEF TypeInv, Orderly, Typed
<1>2. CASE Connect
  <2>1. /\ pc' = "readRequest" /\ request' = << >> /\ toProxy' = << >>
        /\ clients' = clients + 1 /\ asked' = asked
    BY <1>2 DEF Connect
  <2>2. ~Owed'
    <3> SUFFICES ASSUME Latest # 0, asked[Latest].client = clients + 1 PROVE FALSE
      BY <2>1 DEF Owed, Latest
    <3>1. Latest \in 1 .. Len(asked)
      BY <1>1 DEF Latest
    <3>2. asked[Latest].client <= clients /\ clients \in Nat
      BY <1>1, <3>1, AskedTypes DEF TypeInv, Underway
    <3> QED
      BY <3>2
  <2> QED
    BY <2>1, <2>2 DEF Incoming, Busy
<1>3. ASSUME NEW s \in RequestShapes, Send(s) PROVE Incoming'
  <2> DEFINE id == Len(asked) + 1
  <2> DEFINE m == Message(id, s)
  <2>1. /\ pc = "readRequest" /\ request = << >> /\ toProxy = << >>
        /\ Owed' /\ Own' = m /\ status[id] = "unsent"
    BY <1>3, NotOwedTwice
  <2>2. m \in Bytes /\ toProxy' = toProxy \o m /\ Len(asked') = id
    BY <1>3, SendAsks
  <2>3. UNCHANGED <<pc, request, status>> /\ Latest' = id
    BY <1>3, <2>2 DEF Send, Latest
  <2> HIDE DEF m, id
  <2>4. << >> \o (<< >> \o m) = m
    BY <2>2 DEF Bytes
  <2>5. (request \o toProxy)' = Own'
    BY <2>1, <2>2, <2>3, <2>4
  <2> QED
    BY <2>1, <2>3, <2>5, NothingIsComplete DEF Incoming, Busy
<1>4. ASSUME NEW n \in 1 .. Len(toProxy), ReadRequest(n) PROVE Incoming'
  <2>1. /\ pc = "readRequest"
        /\ request' = request \o SubSeq(toProxy, 1, n)
        /\ toProxy' = SubSeq(toProxy, n + 1, Len(toProxy))
        /\ UNCHANGED <<clients, asked, answer>>
    BY <1>4 DEF ReadRequest
  <2>2. request' \in Bytes /\ toProxy' \in Bytes /\ request' \o toProxy' = request \o toProxy
    <3> DEFINE rest == SubSeq(toProxy, n + 1, Len(toProxy))
    <3> DEFINE got == request \o SubSeq(toProxy, 1, n)
    <3>1. toProxy \in Bytes /\ request \in Bytes
      BY <1>1
    <3>2. got \in Bytes /\ rest \in Bytes /\ got \o rest = request \o toProxy
      BY ONLY <3>1, Moved
    <3>3. request' = got /\ toProxy' = rest
      BY <2>1
    <3> HIDE DEF got, rest
    <3> QED
      BY <3>2, <3>3
  <2>3. toProxy # << >>
    BY <1>1, EmptyBytes DEF Bytes
  <2>4. Owed /\ request \o toProxy = Own /\ status[Latest] = "unsent"
    BY <1>1, <2>1, <2>3 DEF Incoming
  <2>5. Latest' = Latest /\ Own' = Own /\ Owed'
    BY <2>1, <2>4, SameOwed
  <2>6. Latest # 0
    BY <2>4 DEF Owed
  <2>7. /\ Latest \in Nat /\ Its \in Shape /\ Framed(Its) /\ Its.body <= MaxUsize
        /\ Begins(request' \o toProxy', Latest, Its)
    BY <1>1, <2>2, <2>4, <2>6, LatestFacts
  <2>8. CASE Complete(request')
    <3>1. request' = Own /\ toProxy' = << >>
      BY <2>2, <2>7, <2>8, ReadOn DEF Own
    <3>2. pc' = "forward"
      BY <1>4, <2>8 DEF ReadRequest
    <3> QED
      BY <2>5, <3>1, <3>2 DEF Incoming, Busy
  <2>9. CASE ~Complete(request')
    <3>1. pc' = "readRequest" /\ status' = status
      BY <1>4, <2>9 DEF ReadRequest
    <3> QED
      BY <2>2, <2>4, <2>5, <2>9, <3>1 DEF Incoming, Busy
  <2> QED
    BY <2>8, <2>9
<1>5. CASE Respond
  <2>1. /\ Busy /\ pc = "respond" /\ pc' = "readRequest" /\ request' = << >>
        /\ toProxy' = toProxy /\ asked' = asked
        /\ answer' = [answer EXCEPT ![Subject] = response]
    BY <1>5 DEF Respond, ClearRequest, clientVars, Busy
  <2>2. Subject = Latest /\ toProxy = << >> /\ Latest # 0
    BY <1>1, <2>1, BusyFacts
  <2>3. response # << >> /\ Latest \in RequestId
    <3>1. Latest \in Nat /\ Latest \in RequestId
      BY <1>1, <2>2, LatestFacts
    <3>2. PICK s \in ResponseShapes : response = Message(Latest, s)
      BY <1>1, <2>1 DEF Outgoing
    <3> QED
      BY <3>1, <3>2, Shapes, MessageBegins
  <2>4. ~Owed'
    <3>1. answer'[Latest] # << >> /\ Latest' = Latest
      BY <1>1, <2>1, <2>2, <2>3 DEF Typed, Latest
    <3> QED
      BY <3>1 DEF Owed
  <2> QED
    BY <2>1, <2>2, <2>4 DEF Incoming, Busy
<1>6. CASE Forward \/ AttemptFails \/ \E n \in 1 .. Len(link[target].from) : ReadResponse(n)
  <2>1. /\ Busy /\ pc' # "readRequest"
        /\ UNCHANGED <<request, toProxy, clients, asked, answer>>
    BY <1>6 DEF Forward, AttemptFails, ReadResponse, clientVars, Busy
  <2>2. Owed /\ request = Own /\ toProxy = << >>
    BY <1>1, <2>1 DEF Incoming
  <2> QED
    BY <2>1, <2>2, SameOwed DEF Incoming
<1>7. CASE StopReading \/ RespondFails
  BY <1>7 DEF StopReading, RespondFails, Incoming, Busy
<1>8. CASE UNCHANGED vars \/ ClientCloses \/ Wait \/ \E u \in Upstream : Server(u)
  <2>1. UNCHANGED <<pc, request, toProxy, clients, asked, status, answer>>
    <3>1. CASE UNCHANGED vars \/ ClientCloses \/ Wait
      BY <3>1 DEF vars, clientVars, ClientCloses, Wait
    <3>2. CASE \E u \in Upstream : Server(u)
      BY <3>2 DEF clientVars, Server, Reject, ServerCloses, Answer, Peer
    <3> QED
      BY <1>8, <3>1, <3>2
  <2>2. Latest' = Latest /\ Own' = Own /\ (Owed' <=> Owed)
    BY <2>1, SameOwed
  <2> QED
    BY <1>1, <2>1, <2>2 DEF Incoming, Busy
<1> QED
  BY <1>2, <1>3, <1>4, <1>5, <1>6, <1>7, <1>8 DEF Next, Task

\* What is on its way stays so while nobody touches it.
LEMMA OutgoingStays ==
    ASSUME Outgoing, UNCHANGED <<request, response, link, target>>, Latest' = Latest,
           pc' = pc \/ pc' \in {"closed", "readRequest"},
           pc = "readResponse" => pc' = pc
    PROVE  Outgoing'
<1>1. \A u \in Upstream : pc' # "readResponse" \/ u # target' => Quiet(link'[u])
  BY DEF Outgoing
<1>2. CASE pc' = pc
  BY <1>1, <1>2 DEF Outgoing
<1>3. CASE pc' \in {"closed", "readRequest"}
  BY <1>1, <1>3 DEF Outgoing
<1> QED
  BY <1>2, <1>3

\* All is quiet when no response is awaited.
LEMMA AllQuiet ==
    ASSUME \A u \in Upstream : Quiet(link'[u]),
           pc' \in {"closed", "readRequest", "forward"}
    PROVE  Outgoing'
BY DEF Outgoing

\* What upstreams do with the request and the answer.
LEMMA ServersOutgoing ==
    ASSUME TypeInv, honest, Orderly, NEW u \in Upstream, Server(u)
    PROVE  Outgoing'
<1> DEFINE c == link[u]
<1> DEFINE q == c.to
<1>1. /\ Typed /\ Framing /\ Incoming /\ Outgoing
      /\ c \in Link /\ q \in Bytes /\ c.from \in Bytes /\ response \in Bytes
      /\ link \in [Upstream -> Link] /\ target \in Upstream
  BY LinkTypes DEF TypeInv, Orderly, Typed
<1>2. ASSUME NEW next, Peer(u, next)
      PROVE  /\ link' = [link EXCEPT ![u] = next]
             /\ UNCHANGED <<pc, target, request, response>> /\ Latest' = Latest
             /\ \A v \in Upstream : link'[v] = IF v = u THEN next ELSE link[v]
  BY <1>1, <1>2 DEF Peer, clientVars, Latest
<1> DEFINE inUse == pc = "readResponse" /\ u = target
<1>3. ~inUse => Quiet(c)
  BY <1>1 DEF Outgoing
<1>4. inUse => Under(c, request, response, Latest)
  BY <1>1 DEF Outgoing
<1>5. inUse => Latest # 0 /\ request = Own
  BY <1>1, BusyFacts DEF Busy
<1>6. ASSUME HasHeader(q)
      PROVE  inUse /\ Unanswered(c, request, response)
  BY <1>3, <1>4, <1>6, NothingIsComplete DEF Quiet, Under, Lost, Answering
<1>7. ASSUME HasHeader(q)
      PROVE  /\ ServerReads(q).valid /\ ServerReads(q).end = Len(q)
             /\ q = Own /\ q[1].of = Latest
             /\ Latest \in Nat /\ SubSeq(q, Len(q) + 1, Len(q)) = << >>
  <2>1. q = Own /\ Latest # 0
    BY <1>5, <1>6, <1>7 DEF Unanswered
  <2>2. /\ Latest \in Nat /\ Its \in Shape /\ Framed(Its) /\ Own # << >> /\ Own \in Bytes
        /\ Head(Own).of = Latest
    BY <1>1, <2>1, LatestFacts
  <2>3. ServerReads(Own).valid /\ ServerReads(Own).end = Len(Own)
    BY <2>2, ServerReadsAll DEF Own
  <2>4. Head(Own) = Own[1]
    BY <2>2 DEF Bytes
  <2>5. SubSeq(Own, Len(Own) + 1, Len(Own)) = << >>
    <3>1. Own \in Seq(Byte) /\ Len(Own) \in Nat
      BY <2>2 DEF Bytes
    <3> HIDE DEF Own
    <3> QED
      BY <3>1
  <2> HIDE DEF q
  <2> QED
    BY <2>1, <2>2, <2>3, <2>4, <2>5
\* One connection changes, to what it may be.
<1>8. ASSUME NEW next, Peer(u, next), ~inUse => Quiet(next),
             inUse => Under(next, request, response, Latest)
      PROVE  Outgoing'
  <2>1. /\ UNCHANGED <<pc, target, request, response>> /\ Latest' = Latest
        /\ \A v \in Upstream : link'[v] = IF v = u THEN next ELSE link[v]
    BY <1>2, <1>8
  <2>2. ASSUME NEW v \in Upstream, pc # "readResponse" \/ v # target
        PROVE  Quiet(link'[v])
    BY <1>1, <1>8, <2>1, <2>2 DEF Outgoing
  <2>3. ASSUME pc = "readResponse"
        PROVE  Under(link'[target], request, response, Latest)
    BY <1>1, <1>8, <2>1, <2>3 DEF Outgoing
  <2> QED
    BY <1>1, <2>1, <2>2, <2>3 DEF Outgoing
<1>9. CASE Reject(u)
  BY <1>7, <1>9 DEF Reject
<1>10. CASE ServerCloses(u)
  <2>1. PICK n \in 0 .. Len(c.from) :
          Peer(u, [c EXCEPT !.closing = TRUE, !.to = << >>, !.from = SubSeq(@, 1, n)])
    BY <1>10 DEF ServerCloses
  <2> DEFINE rest == SubSeq(c.from, 1, n)
  <2> DEFINE next == [c EXCEPT !.closing = TRUE, !.to = << >>, !.from = rest]
  <2>2. next.closing /\ next.to = << >> /\ next.from = rest
    BY <1>1 DEF Link
  <2>3. c.from = << >> => rest = << >>
    BY <1>1, <2>1 DEF Bytes
  <2>4. ~inUse => Quiet(next)
    BY <1>3, <2>2, <2>3 DEF Quiet
  <2>5. ASSUME inUse PROVE Under(next, request, response, Latest)
    <3>1. CASE Unanswered(c, request, response) \/ Lost(c, response)
      BY <2>2, <2>3, <3>1 DEF Under, Unanswered, Lost, Quiet
    <3>2. CASE Answering(c, response, Latest)
      <4>1. PICK s \in ResponseShapes :
              Framed(s) /\ Begins(response \o c.from, Latest, s)
        BY <3>2 DEF Answering
      <4>2. s \in Shape /\ Latest \in Nat
        BY <1>1, <1>5, <2>5, Shapes, LatestFacts
      <4> DEFINE tail == SubSeq(c.from, n + 1, Len(c.from))
      <4>3. rest \in Bytes /\ tail \in Bytes /\ rest \o tail = c.from
        BY <1>1, <2>1, Cut
      <4> HIDE DEF rest, tail, next, c, inUse
      <4>4. (response \o rest) \o tail = response \o c.from /\ response \o rest \in Bytes
        <5>1. response \in Bytes
          BY <1>1
        <5>2. /\ response \o rest \in Bytes
              /\ (response \o rest) \o tail = response \o (rest \o tail)
          BY <4>3, <5>1, Sequence
        <5> QED
          BY <4>3, <5>2
      <4>5. Begins(response \o rest, Latest, s)
        BY <4>1, <4>2, <4>3, <4>4, BeginsCut
      <4>6. ~Complete(response)
        BY <3>2 DEF Answering
      <4> QED
        BY <2>2, <4>1, <4>5, <4>6 DEF Under, Answering
    <3> QED
      BY <1>4, <2>5, <3>1, <3>2 DEF Under
  <2> HIDE DEF next, rest, c, inUse
  <2> QED
    BY <1>8, <2>1, <2>4, <2>5 DEF next, rest, c
<1>11. ASSUME NEW s \in ResponseShapes, Answer(u, s) PROVE Outgoing'
  <2> DEFINE m == Message(q[1].of, s)
  <2> DEFINE next == [c EXCEPT !.to = SubSeq(q, ServerReads(q).end + 1, Len(q)),
                               !.from = @ \o m]
  <2>1. HasHeader(q) /\ ~c.closing /\ Framed(s) /\ Peer(u, next)
    BY <1>11 DEF Answer
  <2>2. /\ inUse /\ Unanswered(c, request, response) /\ q[1].of = Latest /\ Latest \in Nat
        /\ SubSeq(q, ServerReads(q).end + 1, Len(q)) = << >>
    BY <1>6, <1>7, <2>1
  <2>3. s \in Shape /\ m \in Bytes /\ Begins(m, Latest, s) /\ m = Message(Latest, s)
    BY <2>2, Shapes, MessageBegins
  <2>4. c.from = << >> /\ response = << >>
    BY <2>2 DEF Unanswered
  <2> HIDE DEF m
  <2>5. << >> \o m = m
    BY <2>3 DEF Bytes
  <2>6. next.to = << >> /\ next.from = m /\ ~next.closing
    BY <1>1, <2>1, <2>2, <2>4, <2>5 DEF Link
  <2> HIDE DEF next
  <2>7. Under(next, request, response, Latest)
    BY <2>1, <2>3, <2>4, <2>5, <2>6, NothingIsComplete DEF Under, Answering
  <2> QED
    BY <1>8, <2>1, <2>2, <2>7
<1> QED
  BY <1>9, <1>10, <1>11 DEF Server

LEMMA ForwardOutgoing ==
    ASSUME TypeInv, honest, Orderly, Forward
    PROVE  Outgoing'
<1> DEFINE old == link[target]
<1> DEFINE c == IF old.up THEN old ELSE Fresh
<1> DEFINE next == [c EXCEPT !.to = IF c.closing THEN @ ELSE @ \o request]
<1>1. /\ Typed /\ Outgoing /\ target \in Upstream /\ old \in Link
      /\ link \in [Upstream -> Link] /\ request \in Bytes
      /\ pc = "forward" /\ pc' = "readResponse" /\ response' = << >>
      /\ link' = [link EXCEPT ![target] = next]
      /\ UNCHANGED <<request, target>>
  BY LinkTypes DEF TypeInv, Orderly, Typed, Forward, ClearResponse
<1>2. \A u \in Upstream : Quiet(link[u])
  BY <1>1 DEF Outgoing
<1>3. /\ Fresh \in Link /\ Quiet(Fresh)
  BY EmptyBytes DEF Fresh, Down, Link, Quiet
<1>4. c \in Link /\ Quiet(c)
  BY <1>1, <1>2, <1>3
<1> HIDE DEF c
<1>5. next.from = << >> /\ next.closing = c.closing
      /\ next.to = IF c.closing THEN << >> ELSE << >> \o request
  BY <1>4 DEF Quiet, Link
<1>6. << >> \o request = request
  BY <1>1 DEF Bytes
<1> HIDE DEF next
<1>7. \A u \in Upstream : link'[u] = IF u = target THEN next ELSE link[u]
  BY <1>1
<1>8. Under(link'[target'], request', response', Latest')
  <2>1. link'[target'] = next
    BY <1>1, <1>7
  <2> QED
    BY <1>1, <1>5, <1>6, <2>1 DEF Under, Unanswered, Lost, Quiet
<1> QED
  BY <1>1, <1>2, <1>7, <1>8 DEF Outgoing

LEMMA ReadResponseOutgoing ==
    ASSUME TypeInv, honest, Orderly, NEW n \in 1 .. Len(link[target].from),
           ReadResponse(n)
    PROVE  Outgoing'
<1> DEFINE c == link[target]
<1> DEFINE rest == SubSeq(c.from, n + 1, Len(c.from))
<1> DEFINE next == [c EXCEPT !.from = rest]
<1>1. /\ Typed /\ Framing /\ Incoming /\ Outgoing /\ target \in Upstream
      /\ c \in Link /\ link \in [Upstream -> Link]
      /\ response \in Bytes /\ c.from \in Bytes
  BY LinkTypes DEF TypeInv, Orderly, Typed
<1>2. /\ pc = "readResponse" /\ response' = response \o SubSeq(c.from, 1, n)
      /\ link' = [link EXCEPT ![target] = next]
      /\ pc' = IF Complete(response') THEN "respond" ELSE "readResponse"
      /\ target' = target /\ Latest' = Latest
  BY DEF ReadResponse, clientVars, Latest
<1>3. /\ rest \in Bytes /\ response' \in Bytes
      /\ response' \o rest = response \o c.from
  <2> HIDE DEF c
  <2> QED
    BY <1>1, <1>2, Moved DEF c
<1>4. /\ next.from = rest /\ next.to = c.to /\ next.closing = c.closing
      /\ \A u \in Upstream : link'[u] = IF u = target THEN next ELSE link[u]
  <2> HIDE DEF rest
  <2> QED
    BY <1>1, <1>2 DEF Link
<1> HIDE DEF next, rest
<1>5. Answering(c, response, Latest)
  <2>1. c.from # << >>
    BY <1>1, EmptyBytes
  <2>2. Under(c, request, response, Latest)
    BY <1>1, <1>2 DEF Outgoing
  <2> QED
    BY <2>1, <2>2 DEF Under, Unanswered, Lost, Quiet
<1>6. PICK s \in ResponseShapes :
        /\ Framed(s)
        /\ Begins(response \o c.from, Latest, s)
        /\ c.closing \/ response \o c.from = Message(Latest, s)
  BY <1>5 DEF Answering
<1>7. s \in Shape /\ s.body <= MaxUsize /\ Latest \in Nat /\ c.to = << >>
  BY <1>1, <1>2, <1>5, BusyFacts, LatestFacts, Shapes DEF Busy, Answering
<1>8. CASE Complete(response')
  <2>1. response' = Message(Latest, s) /\ rest = << >>
    BY <1>3, <1>6, <1>7, <1>8, ReadOn
  <2>2. pc' = "respond"
    BY <1>2, <1>8
  <2>3. \A u \in Upstream : Quiet(link'[u])
    BY <1>1, <1>2, <1>4, <1>7, <2>1 DEF Outgoing, Quiet
  <2>4. \E t \in ResponseShapes : Framed(t) /\ response' = Message(Latest, t)
    BY <1>6, <2>1
  <2> QED
    BY <1>2, <2>2, <2>3, <2>4 DEF Outgoing
<1>9. CASE ~Complete(response')
  <2>1. pc' = "readResponse"
    BY <1>2, <1>9
  <2>2. \A u \in Upstream : u # target => Quiet(link'[u])
    BY <1>1, <1>2, <1>4 DEF Outgoing
  <2>3. /\ link'[target].to = << >> /\ link'[target].from = rest
        /\ link'[target].closing = c.closing
    BY <1>1, <1>4, <1>7
  <2> HIDE DEF c
  <2>4. Under(link'[target'], request', response', Latest')
    BY <1>2, <1>3, <1>6, <1>9, <2>3 DEF Under, Answering
  <2> QED
    BY <1>2, <2>1, <2>2, <2>4 DEF Outgoing
<1> QED
  BY <1>8, <1>9

LEMMA OutgoingStep ==
    ASSUME TypeInv, honest, Orderly, [Next]_vars
    PROVE  Outgoing'
<1>1. /\ Typed /\ Framing /\ Incoming /\ Outgoing /\ target \in Upstream
      /\ link \in [Upstream -> Link]
  BY DEF TypeInv, Orderly, Typed
<1>2. ASSUME pc # "readResponse" PROVE \A u \in Upstream : Quiet(link[u])
  BY <1>1, <1>2 DEF Outgoing
<1>3. CASE UNCHANGED vars \/ ClientCloses \/ Wait
  <2>1. UNCHANGED <<request, response, link, target, pc, asked>>
    BY <1>3 DEF vars, clientVars, ClientCloses, Wait
  <2> QED
    BY <1>1, <2>1, OutgoingStays DEF Latest
<1>4. CASE Connect \/ StopReading \/ Respond \/ RespondFails
           \/ \E n \in 1 .. Len(toProxy) : ReadRequest(n)
  <2>1. /\ pc # "readResponse" /\ link' = link
        /\ pc' \in {"closed", "readRequest", "forward"}
    <3>1. CASE Connect \/ StopReading \/ Respond \/ RespondFails
      BY <3>1 DEF Connect, StopReading, Respond, RespondFails
    <3>2. CASE \E n \in 1 .. Len(toProxy) : ReadRequest(n)
      BY <3>2 DEF ReadRequest
    <3> QED
      BY <1>4, <3>1, <3>2
  <2> QED
    BY <1>2, <2>1, AllQuiet
<1>5. ASSUME NEW s \in RequestShapes, Send(s) PROVE Outgoing'
  <2>1. pc = "readRequest" /\ pc' = pc /\ link' = link
    BY <1>5, NotOwedTwice DEF Send
  <2> QED
    BY <1>2, <2>1, AllQuiet
<1>6. CASE AttemptFails
  <2>1. /\ pc' \in {"closed", "forward"} /\ link' = [link EXCEPT ![target] = Down]
        /\ pc = "readResponse" \/ pc = "forward"
    BY <1>6 DEF AttemptFails, DropLink
  <2>2. \A u \in Upstream : u # target => Quiet(link[u])
    BY <1>1 DEF Outgoing
  <2>3. \A u \in Upstream : Quiet(link'[u])
    BY <1>1, <2>1, <2>2 DEF Quiet, Down
  <2> QED
    BY <2>1, <2>3, AllQuiet
<1> QED
  BY <1>3, <1>4, <1>5, <1>6, ServersOutgoing, ForwardOutgoing, ReadResponseOutgoing
     DEF Next, Task

LEMMA HonestStays == [Next]_vars => honest' = honest
<1> SUFFICES ASSUME [Next]_vars PROVE honest' = honest
  OBVIOUS
<1>1. CASE UNCHANGED vars \/ Connect \/ ClientCloses \/ \E s \in RequestShapes : Send(s)
  BY <1>1 DEF vars, clientVars, Connect, ClientCloses, Send
<1>2. CASE Task
  BY <1>2 DEF clientVars, Task, ReadRequest, ReadResponse, Wait, StopReading,
     Forward, AttemptFails, Respond, RespondFails
<1>3. CASE \E u \in Upstream : Server(u)
  BY <1>3 DEF clientVars, Server, Reject, ServerCloses, Answer, Peer
<1> QED
  BY <1>1, <1>2, <1>3 DEF Next

\* The three together hold while the peers are honest.
LEMMA Order == Spec => [](honest => Orderly)
<1>1. Init => (honest => Orderly)
  <2> SUFFICES ASSUME Init PROVE Orderly
    OBVIOUS
  <2>1. Framing
    BY DEF Init, Framing
  <2>2. Incoming
    BY DEF Init, Incoming, Busy
  <2>3. Outgoing
    BY DEF Init, Outgoing, Quiet, Down
  <2> QED
    BY <2>1, <2>2, <2>3 DEF Orderly
<1>2. TypeInv /\ (honest => Orderly) /\ [Next]_vars => (honest => Orderly)'
  BY HonestStays, FramingStep, IncomingStep, OutgoingStep DEF Orderly
<1> QED
  BY <1>1, <1>2, Typing, PTL DEF Spec

\* With honest peers, what is written to a client is one whole response to its
\* own request (proxy.rs:48, :72, :126), however the bytes are cut up and
\* whatever earlier attempts and earlier clients left behind.
THEOREM WholeAnswers == Spec => []OwnWholeAnswers
<1>1. (honest => Orderly) => OwnWholeAnswers
  BY DEF Orderly, Framing, OwnWholeAnswers
<1> QED
  BY <1>1, Order, PTL

\* With honest peers, a connection in a pool carries nothing, and the one in use
\* only what belongs to the request under way (proxy.rs:112-116, :143-144).
THEOREM PooledStreams == Spec => []PooledStreamsAreEmpty
<1>1. TypeInv /\ (honest => Orderly) => PooledStreamsAreEmpty
  <2> SUFFICES ASSUME TypeInv, honest, Orderly, NEW u \in Upstream,
                      NEW i \in 1 .. Len(link[u].to \o link[u].from)
               PROVE  /\ pc = "readResponse" /\ u = target
                      /\ (link[u].to \o link[u].from)[i].of = Subject
    BY DEF PooledStreamsAreEmpty
  <2> DEFINE c == link[u]
  <2>1. /\ Typed /\ Framing /\ Incoming /\ Outgoing
        /\ c.to \in Bytes /\ c.from \in Bytes /\ response \in Bytes
    BY LinkTypes DEF TypeInv, Orderly, Typed
  <2>2. ~Quiet(c)
    <3> SUFFICES ASSUME Quiet(c) PROVE FALSE
      OBVIOUS
    <3>1. Len(c.to \o c.from) = 0
      BY DEF Quiet
    <3> QED
      BY <3>1
  <2>3. pc = "readResponse" /\ u = target
    BY <2>1, <2>2 DEF Outgoing
  <2>4. Latest # 0 /\ request = Own /\ Subject = Latest
    BY <2>1, <2>3, BusyFacts DEF Busy
  <2>5. Latest \in Nat /\ \A k \in 1 .. Len(Own) : Own[k].of = Latest
    BY <2>1, <2>4, LatestFacts
  <2>6. \A s \in Bytes : s \o << >> = s /\ << >> \o s = s
    BY DEF Bytes
  <2>7. CASE Unanswered(c, request, response)
    <3>1. c.to \o c.from = Own
      BY <2>1, <2>4, <2>6, <2>7 DEF Unanswered
    <3> QED
      BY <2>3, <2>4, <2>5, <3>1
  <2>8. CASE Answering(c, response, Latest)
    <3>1. c.to \o c.from = c.from
      BY <2>1, <2>6, <2>8 DEF Answering
    <3>2. PICK s \in ResponseShapes : Begins(response \o c.from, Latest, s)
      BY <2>8 DEF Answering
    <3> HIDE DEF c
    <3>3. \A k \in 1 .. Len(c.from) : c.from[k].of = Latest
      BY <2>1, <2>5, <3>2, Shapes, BeginsCut
    <3> QED
      BY <2>3, <2>4, <3>1, <3>3 DEF c
  <2> QED
    BY <2>1, <2>2, <2>3, <2>7, <2>8 DEF Outgoing, Under, Lost
<1> QED
  BY <1>1, Order, Typing, PTL

-----------------------------------------------------------------------------
(* The service.                                                            *)
Session == IF pc = "closed" THEN "closed" ELSE IF Busy THEN "busy" ELSE "idle"
Working == IF Busy THEN Subject ELSE 0
Answers == [r \in RequestId |-> IF answer[r] = << >> THEN 0 ELSE answer[r][1].of]

\* Sequences of one element, as the refinement mapping has them.
LEMMA Single ==
    ASSUME NEW x, NEW y
    PROVE  /\ [<<x>> EXCEPT ![1] = y] = <<y>> /\ <<x>>[1] = x
           /\ [h \in {1} |-> x] = <<x>>
<1>1. <<x>> = [h \in {1} |-> x]
  <2>1. 1 .. 1 = {1}
    OBVIOUS
  <2> QED
    BY <2>1
<1>2. <<y>> = [h \in {1} |-> y]
  <2>1. 1 .. 1 = {1}
    OBVIOUS
  <2> QED
    BY <2>1
<1> QED
  BY <1>1, <1>2

LEMMA InitService == Init => Service!Init
<1> SUFFICES ASSUME Init PROVE Service!Init
  OBVIOUS
<1>1. pc = "closed" /\ ~Busy /\ \A r \in RequestId : answer[r] = << >>
  BY DEF Init, Busy
<1>2. status = [r \in RequestId |-> "unsent"]
  BY DEF Init
<1> QED
  BY <1>1, <1>2, Single DEF Service!Init

\* The steps of the service, in terms of the one session there is.
LEMMA ServiceSteps ==
    ASSUME NEW s, NEW w, s = Session', w = Working'
    PROVE  /\ /\ Session = "closed" /\ s = "idle" /\ w = Working
              /\ status' = status /\ Answers' = Answers
              => Service!Open(1)
           /\ /\ Session = "idle" /\ s = "closed" /\ w = Working
              /\ status' = status /\ Answers' = Answers
              => Service!Close(1)
           /\ \A r : /\ Session = "idle" /\ s = "busy" /\ w = r
                     /\ status[r] = "unsent"
                     /\ status' = [status EXCEPT ![r] = "pending"]
                     /\ Answers' = Answers
                     => Service!Ask(1, r)
           /\ /\ Session = "busy" /\ s = "idle" /\ w = 0
              /\ status' = [status EXCEPT ![Working] = "answered"]
              /\ Answers' = [Answers EXCEPT ![Working] = Working]
              => Service!Answer(1)
           /\ /\ Session = "busy" /\ s = "closed" /\ w = 0
              /\ status' = [status EXCEPT ![Working] = "refused"]
              /\ Answers' = Answers
              => Service!Refuse(1)
           /\ /\ Session = "busy" /\ s = "closed" /\ w = 0
              /\ status' = [status EXCEPT ![Working] = "dropped"]
              /\ Answers' = Answers
              => Service!Drop(1)
           /\ /\ s = Session /\ w = Working
              /\ status' = status /\ Answers' = Answers
              => UNCHANGED Service!vars
<1>1. /\ <<Session>>[1] = Session /\ <<Working>>[1] = Working
      /\ [<<Session>> EXCEPT ![1] = s] = <<s>>
      /\ [<<Working>> EXCEPT ![1] = w] = <<w>>
  BY Single
<1>2. /\ <<Session>>' = <<s>> /\ <<Working>>' = <<w>>
  OBVIOUS
<1> QED
  BY <1>1, <1>2 DEF Service!Open, Service!Close, Service!Ask, Service!Answer,
     Service!Refuse, Service!Drop, Service!Finish, Service!vars,
     Session, Working, Answers

\* Where nothing becomes of a request, the service does not move.
LEMMA ServiceStays ==
    ASSUME UNCHANGED <<pc, status, answer>>, Busy => request' = request
    PROVE  UNCHANGED Service!vars
<1>1. Session' = Session /\ Working' = Working /\ Answers' = Answers
  BY DEF Session, Working, Busy, Subject, Answers
<1> QED
  BY <1>1, ServiceSteps

\* The steps of the attempts are inside a busy session.
LEMMA ServiceForwards ==
    ASSUME Busy, Busy', UNCHANGED <<status, answer, request>>
    PROVE  UNCHANGED Service!vars
<1>1. Session' = Session /\ Working' = Working /\ Answers' = Answers
  BY DEF Session, Working, Busy, Subject, Answers
<1> QED
  BY <1>1, ServiceSteps

\* A complete request makes the session busy.
LEMMA ServiceReads ==
    ASSUME TypeInv, honest, Orderly, NEW n \in 1 .. Len(toProxy), ReadRequest(n)
    PROVE  Service!Next \/ UNCHANGED Service!vars
<1>1. /\ TypeInv' /\ honest' /\ Framing' /\ Incoming'
  BY StepTyped, HonestStays, FramingStep, IncomingStep DEF Next, Task
<1>2. /\ pc = "readRequest" /\ ~Busy
      /\ UNCHANGED <<answer, asked, clients>>
  BY DEF ReadRequest, Busy
<1>3. CASE Complete(request')
  <2>1. /\ pc' = "forward" /\ Busy'
        /\ status' = [status EXCEPT ![Head(request').of] = "pending"]
    BY <1>3 DEF ReadRequest, Busy
  <2>2. toProxy # << >>
    BY EmptyBytes DEF TypeInv, Typed, Bytes
  <2>3. Owed /\ status[Latest] = "unsent"
    BY <1>2, <2>2 DEF Orderly, Incoming
  <2>4. Latest # 0 /\ Latest' = Latest /\ Own' = Own /\ Head(Own).of = Latest
    BY <1>2, <2>3, SameOwed, LatestFacts DEF Owed, Orderly
  <2>5. Head(request').of = Latest
    BY <1>1, <2>1, <2>4 DEF Incoming
  <2>6. Session = "idle" /\ Session' = "busy"
    BY <1>2, <2>1 DEF Session
  <2>7. Working' = Latest
    BY <2>1, <2>5 DEF Working, Subject
  <2>8. Answers' = Answers
    BY <1>2 DEF Answers
  <2>9. Latest \in RequestId
    BY <2>4, LatestFacts DEF Orderly
  <2>10. Service!Ask(1, Latest)
    BY <2>1, <2>3, <2>5, <2>6, <2>7, <2>8, ServiceSteps
  <2> QED
    BY <2>9, <2>10 DEF Service!Next
<1>4. CASE ~Complete(request')
  <2>1. UNCHANGED <<pc, status, answer>>
    BY <1>4 DEF ReadRequest
  <2> QED
    BY <1>2, <2>1, ServiceStays
<1> QED
  BY <1>3, <1>4

\* A response ends the work on it.
LEMMA ServiceAnswers ==
    ASSUME TypeInv, honest, Orderly, Respond
    PROVE  Service!Next
<1>1. /\ Typed /\ Framing /\ Incoming /\ Outgoing
  BY DEF TypeInv, Orderly
<1>2. /\ pc = "respond" /\ Busy /\ pc' = "readRequest" /\ ~Busy'
      /\ answer' = [answer EXCEPT ![Subject] = response]
      /\ status' = [status EXCEPT ![Subject] = "answered"]
  BY DEF Respond, Busy
<1>3. Latest # 0 /\ Subject = Latest
  BY <1>1, <1>2, BusyFacts
<1>4. Latest \in Nat /\ Latest \in RequestId
  BY <1>1, <1>3, LatestFacts
<1>5. response # << >> /\ response[1].of = Latest
  <2>1. PICK s \in ResponseShapes : response = Message(Latest, s)
    BY <1>1, <1>2 DEF Outgoing
  <2>2. s \in Shape
    BY Shapes
  <2>3. /\ response # << >> /\ response \in Bytes /\ Begins(response, Latest, s)
    BY <1>4, <2>1, <2>2, MessageBegins
  <2>4. 1 \in 1 .. Len(response) /\ 1 \in Nat \ {0}
    BY <2>3 DEF Bytes
  <2>5. response[1] = UnitAt(Latest, s, 1)
    BY <2>3, <2>4 DEF Begins
  <2>6. UnitAt(Latest, s, 1).of = Latest
    BY <1>4, <2>2, <2>4, UnitKinds
  <2> QED
    BY <2>3, <2>5, <2>6
<1>6. Session = "busy" /\ Working = Latest /\ Session' = "idle" /\ Working' = 0
  BY <1>2, <1>3 DEF Session, Working
<1>7. Answers' = [Answers EXCEPT ![Latest] = Latest]
  BY <1>1, <1>2, <1>3, <1>4, <1>5 DEF Answers, Typed
<1>8. Service!Answer(1)
  BY <1>2, <1>3, <1>6, <1>7, ServiceSteps
<1> QED
  BY <1>8 DEF Service!Next

LEMMA ServiceStep ==
    ASSUME TypeInv, honest, Orderly, [Next]_vars
    PROVE  Service!Next \/ UNCHANGED Service!vars
<1>1. /\ Typed /\ Framing /\ Incoming /\ Outgoing
  BY DEF TypeInv, Orderly
<1>2. CASE Connect
  <2>1. Session = "closed" /\ Session' = "idle" /\ Working' = Working
    BY <1>2 DEF Connect, Session, Working, Busy
  <2>2. status' = status /\ Answers' = Answers
    BY <1>2 DEF Connect, Answers
  <2>3. Service!Open(1)
    BY <2>1, <2>2, ServiceSteps
  <2> QED
    BY <2>3 DEF Service!Next
<1>3. CASE StopReading
  <2>1. Session = "idle" /\ Session' = "closed" /\ Working' = Working
    BY <1>3 DEF StopReading, Session, Working, Busy
  <2>2. status' = status /\ Answers' = Answers
    BY <1>3 DEF StopReading, Answers
  <2>3. Service!Close(1)
    BY <2>1, <2>2, ServiceSteps
  <2> QED
    BY <2>3 DEF Service!Next
<1>4. CASE AttemptFails
  <2>1. /\ Busy /\ UNCHANGED <<answer, request>>
        /\ \/ pc' = "forward" /\ status' = status
           \/ pc' = "closed" /\ status' = [status EXCEPT ![Subject] = "refused"]
    BY <1>4 DEF AttemptFails, Busy
  <2>2. CASE pc' = "forward" /\ status' = status
    <3>1. Busy'
      BY <2>2 DEF Busy
    <3> QED
      BY <2>1, <2>2, <3>1, ServiceForwards
  <2>3. CASE pc' = "closed" /\ status' = [status EXCEPT ![Subject] = "refused"]
    <3>1. /\ Session = "busy" /\ Session' = "closed" /\ Working = Subject
          /\ Working' = 0
      BY <2>1, <2>3 DEF Session, Working, Busy
    <3>2. Answers' = Answers
      BY <2>1 DEF Answers
    <3>3. Service!Refuse(1)
      BY <2>3, <3>1, <3>2, ServiceSteps
    <3> QED
      BY <3>3 DEF Service!Next
  <2> QED
    BY <2>1, <2>2, <2>3
<1>5. CASE RespondFails
  <2>1. /\ Busy /\ answer' = answer /\ pc' = "closed"
        /\ status' = [status EXCEPT ![Subject] = "dropped"]
    BY <1>5 DEF RespondFails, Busy
  <2>2. /\ Session = "busy" /\ Session' = "closed" /\ Working = Subject
        /\ Working' = 0
    BY <2>1 DEF Session, Working, Busy
  <2>3. Answers' = Answers
    BY <2>1 DEF Answers
  <2>4. Service!Drop(1)
    BY <2>1, <2>2, <2>3, ServiceSteps
  <2> QED
    BY <2>4 DEF Service!Next
<1>6. CASE Forward \/ \E n \in 1 .. Len(link[target].from) : ReadResponse(n)
  <2>1. Busy /\ Busy' /\ UNCHANGED <<status, answer, request>>
    BY <1>6 DEF Forward, ReadResponse, Busy
  <2> QED
    BY <2>1, ServiceForwards
<1>7. CASE UNCHANGED vars \/ ClientCloses \/ Wait
           \/ (\E s \in RequestShapes : Send(s)) \/ \E u \in Upstream : Server(u)
  <2>1. UNCHANGED <<pc, status, answer, request>>
    <3>1. CASE UNCHANGED vars \/ ClientCloses \/ Wait \/ \E s \in RequestShapes : Send(s)
      BY <3>1 DEF vars, clientVars, ClientCloses, Wait, Send
    <3>2. CASE \E u \in Upstream : Server(u)
      BY <3>2 DEF clientVars, Server, Reject, ServerCloses, Answer, Peer
    <3> QED
      BY <1>7, <3>1, <3>2
  <2> QED
    BY <2>1, ServiceStays
<1> QED
  BY <1>2, <1>3, <1>4, <1>5, <1>6, <1>7, ServiceReads, ServiceAnswers DEF Next, Task

\* With honest peers the loop, byte by byte, implements the service RequestReply
\* (handle_client with read_http_message, proxy.rs:44-67): the initial states map
\* to initial states, every step to a step or to none.
THEOREM ServiceImplemented == Spec => ImplementsService
<1>1. Init => (honest => Service!Init)
  BY InitService
<1>2. TypeInv /\ (honest => Orderly) /\ [Next]_vars
        => [honest => Service!Next]_(Service!vars)
  BY ServiceStep
<1> QED
  BY <1>1, <1>2, Typing, Order, PTL DEF Spec, ImplementsService
=============================================================================
