--------------------------- MODULE BodyPoolProofs ---------------------------
(***************************************************************************)
(* The handler and its pooled buffers, for any number of requests, buffers *)
(* and bytes, and any limit.                                               *)
(***************************************************************************)
EXTENDS BodyPool, FiniteSetTheorems, TLAPS

Holds(r) == buf[r] # None

\* Every buffer that a request holds or the pool keeps has limit bytes, and is
\* in one place.
Buffers ==
    /\ \A r, s \in Request : Holds(r) /\ buf[r] = buf[s] => r = s
    /\ \A r \in Request : Holds(r) =>
        pool[buf[r]] = 0 /\ Len(bytes[buf[r]]) = limit
    /\ \A b \in Buffer : pool[b] # 0 => pool[b] = 1 /\ Len(bytes[b]) = limit

\* What is true of a request, by how far it has come.
Reading == {"acquire", "read", "score"}
Stage(r) ==
    /\ Holds(r) => Pooling /\ pc[r] \in {"read", "score", "release"}
    /\ got[r] <= sends[r]
    /\ pc[r] \in {"unsent", "acquire"} => got[r] = 0
    /\ pc[r] = "readAll" => length[r] < 0
    /\ pc[r] \in {"acquire", "read"} => length[r] = sends[r]
    /\ pc[r] \in Reading => ~TooLong(sends[r])
    /\ pc[r] = "score" =>
        got[r] = sends[r] /\ (Holds(r) => length[r] = sends[r])
    /\ pc[r] \in Reading /\ Holds(r) =>
        \A i \in 1 .. got[r] : bytes[buf[r]][i] = r
Outcome(r) ==
    /\ pc[r] \notin {"release", "done"} => status[r] = 0 /\ scored[r] = << >>
    /\ pc[r] = "release" =>
        /\ Len(scored[r]) = sends[r] /\ ~TooLong(sends[r])
        /\ status[r] \in {200, 400, -1}
    /\ status[r] = 413 => TooLong(sends[r])
    /\ status[r] = 500 => length[r] < 0
    /\ status[r] \in {413, 500} => scored[r] = << >>
    /\ \A i \in DOMAIN scored[r] : scored[r][i] = r

BodyInv ==
    /\ TypeOK
    /\ Buffers
    /\ \A r \in Request : Stage(r) /\ Outcome(r)
-----------------------------------------------------------------------------
\* A step of one request is none of another's.
Untouched(s) ==
    /\ pc'[s] = pc[s] /\ length'[s] = length[s] /\ sends'[s] = sends[s]
    /\ got'[s] = got[s] /\ buf'[s] = buf[s]
    /\ scored'[s] = scored[s] /\ status'[s] = status[s]
    /\ Holds(s) => bytes'[buf[s]] = bytes[buf[s]]

LEMMA OthersStay ==
    ASSUME BodyInv, NEW s \in Request, Untouched(s), limit' = limit
    PROVE  Stage(s)' /\ Outcome(s)'
<1>1. Stage(s) /\ Outcome(s)
  BY DEF BodyInv
<1>2. Holds(s)' = Holds(s) /\ Pooling' = Pooling
  BY DEF Untouched, Holds, Pooling
<1>3. TooLong(sends[s])' = TooLong(sends[s])
  BY DEF Untouched, TooLong
<1>4. Stage(s)'
  BY <1>1, <1>2, <1>3 DEF Untouched, Stage, Holds
<1>5. Outcome(s)'
  BY <1>1, <1>3 DEF Untouched, Outcome
<1> QED
  BY <1>4, <1>5

\* What the types say of one request.
LEMMA RequestTypes ==
    ASSUME TypeOK, NEW r \in Request
    PROVE  /\ limit \in Int /\ PoolLimit \in Nat /\ MaxLength \in Nat
           /\ length[r] \in Int /\ -1 <= length[r] /\ length[r] <= MaxLength
           /\ sends[r] \in Nat /\ sends[r] <= MaxLength
           /\ got[r] \in Nat /\ got[r] <= MaxLength
           /\ buf[r] \in Buffer \cup {None}
           /\ Holds(r) => bytes[buf[r]] \in Seq(Request \cup {None})
  BY LimitsAssumption, LengthAssumption DEF TypeOK, Holds

\* A request arrives.
LEMMA ArriveKeeps ==
    ASSUME BodyInv, NEW r \in Request, Arrive(r)
    PROVE  BodyInv'
<1>1. TypeOK /\ Buffers /\ Stage(r) /\ Outcome(r)
  BY DEF BodyInv
<1>2. PICK n \in -1 .. MaxLength, m \in 0 .. MaxLength :
        /\ n >= 0 => m = n
        /\ length' = [length EXCEPT ![r] = n]
        /\ sends' = [sends EXCEPT ![r] = m]
        /\ \/ TooLong(n) /\ Goto(r, "done") /\ Reply(r, 413)
           \/ /\ ~TooLong(n)
              /\ Goto(r, CASE n < 0 -> "readAll" [] n = 0 -> "score"
                           [] n > 0 -> "acquire")
              /\ UNCHANGED status
  BY DEF Arrive
<1>3. pc[r] = "unsent" /\ UNCHANGED <<limit, got, buf, bytes, pool, scored>>
  BY DEF Arrive
<1>4. n \in Int /\ m \in Nat /\ limit \in Int
  BY <1>1, RequestTypes, LengthAssumption
<1>5. PICK to \in {"done", "readAll", "score", "acquire"}, code \in {0, 413} :
        /\ pc' = [pc EXCEPT ![r] = to] /\ status' = [status EXCEPT ![r] = code]
        /\ \/ to = "done" /\ TooLong(n) /\ code = 413
           \/ to = "readAll" /\ n < 0 /\ code = 0
           \/ to = "score" /\ n = 0 /\ ~TooLong(n) /\ code = 0
           \/ to = "acquire" /\ n > 0 /\ ~TooLong(n) /\ code = 0
  <2>1. CASE TooLong(n) /\ Goto(r, "done") /\ Reply(r, 413)
    BY <2>1 DEF Goto, Reply
  <2>2. CASE /\ ~TooLong(n)
             /\ Goto(r, CASE n < 0 -> "readAll" [] n = 0 -> "score"
                          [] n > 0 -> "acquire")
             /\ UNCHANGED status
    <3>1. status' = [status EXCEPT ![r] = 0]
      BY <1>1, <1>3, <2>2 DEF TypeOK, Outcome
    <3>2. CASE n < 0
      <4>1. (CASE n < 0 -> "readAll" [] n = 0 -> "score"
               [] n > 0 -> "acquire") = "readAll"
        BY <1>4, <3>2
      <4> QED
        BY <2>2, <3>1, <3>2, <4>1 DEF Goto
    <3>3. CASE n = 0
      <4>1. (CASE n < 0 -> "readAll" [] n = 0 -> "score"
               [] n > 0 -> "acquire") = "score"
        BY <1>4, <3>3
      <4> QED
        BY <2>2, <3>1, <3>3, <4>1 DEF Goto
    <3>4. CASE n > 0
      <4>1. (CASE n < 0 -> "readAll" [] n = 0 -> "score"
               [] n > 0 -> "acquire") = "acquire"
        BY <1>4, <3>4
      <4> QED
        BY <2>2, <3>1, <3>4, <4>1 DEF Goto
    <3> QED
      BY <1>4, <3>2, <3>3, <3>4
  <2> QED
    BY <1>2, <2>1, <2>2
<1>6. TypeOK'
  BY <1>1, <1>2, <1>3, <1>5 DEF TypeOK
<1>7. Buffers'
  BY <1>1, <1>3 DEF Buffers, Holds
<1>8. /\ pc'[r] = to /\ length'[r] = n /\ sends'[r] = m /\ status'[r] = code
      /\ got'[r] = got[r] /\ buf'[r] = buf[r] /\ scored'[r] = scored[r]
  BY <1>1, <1>2, <1>3, <1>5 DEF TypeOK
<1>9. /\ ~Holds(r) /\ ~Holds(r)' /\ got[r] = 0 /\ scored[r] = << >>
      /\ TooLong(sends[r])' <=> TooLong(m)
      /\ n >= 0 => m = n
  BY <1>1, <1>2, <1>3, <1>8 DEF Stage, Outcome, Holds, TooLong
<1>10. Stage(r)'
  BY <1>4, <1>5, <1>8, <1>9 DEF Stage, Reading
<1>11. TooLong(n) => n >= 0
  BY <1>4 DEF TooLong
<1>12. Outcome(r)'
  BY <1>4, <1>5, <1>8, <1>9, <1>11 DEF Outcome
<1>13. \A s \in Request \ {r} : Untouched(s)
  BY <1>1, <1>2, <1>3, <1>5 DEF Untouched, TypeOK
<1> QED
  BY <1>3, <1>6, <1>7, <1>10, <1>12, <1>13, OthersStay DEF BodyInv

\* It gets a buffer of the pool, a new one, or memory of its own.
LEMMA AcquireKeeps ==
    ASSUME BodyInv, NEW r \in Request, AcquirePooled(r) \/ AcquireOwn(r)
    PROVE  BodyInv'
<1>1. TypeOK /\ Buffers /\ Stage(r) /\ Outcome(r)
  BY DEF BodyInv
<1>2. /\ pc[r] = "acquire" /\ pc' = [pc EXCEPT ![r] = "read"]
      /\ UNCHANGED <<limit, length, sends, got, scored, status>>
  BY DEF AcquirePooled, AcquireOwn, Goto
<1>3. ~Holds(r) /\ got[r] = 0 /\ length[r] = sends[r] /\ ~TooLong(sends[r])
  BY <1>1, <1>2 DEF Stage, Reading
<1>4. /\ pc'[r] = "read" /\ length'[r] = length[r] /\ sends'[r] = sends[r]
      /\ status'[r] = status[r] /\ got'[r] = got[r] /\ scored'[r] = scored[r]
      /\ TooLong(sends[r])' <=> TooLong(sends[r])
  BY <1>1, <1>2 DEF TypeOK, TooLong
<1>5. Outcome(r)'
  BY <1>1, <1>2, <1>4 DEF Outcome
<1>6. CASE AcquireOwn(r)
  <2>1. UNCHANGED <<buf, bytes, pool>>
    BY <1>6 DEF AcquireOwn
  <2>2. TypeOK'
    BY <1>1, <1>2, <2>1 DEF TypeOK
  <2>3. Buffers'
    BY <1>1, <1>2, <2>1 DEF Buffers, Holds
  <2>4. Stage(r)'
    BY <1>1, <1>2, <1>3, <1>4, <2>1 DEF Stage, Holds, Reading
  <2>5. \A s \in Request \ {r} : Untouched(s)
    BY <1>1, <1>2, <2>1 DEF Untouched, TypeOK
  <2> QED
    BY <1>2, <1>5, <2>2, <2>3, <2>4, <2>5, OthersStay DEF BodyInv
<1>7. CASE AcquirePooled(r)
  <2>1. PICK b \in Buffer :
          /\ buf' = [buf EXCEPT ![r] = b]
          /\ \/ /\ pool[b] > 0
                /\ pool' = [pool EXCEPT ![b] = @ - 1]
                /\ UNCHANGED bytes
             \/ /\ ~InUse(b)
                /\ bytes' = [bytes EXCEPT ![b] = [i \in 1 .. limit |-> None]]
                /\ UNCHANGED pool
    BY <1>7 DEF AcquirePooled
  <2>2. Pooling /\ b # None /\ limit \in Nat
    BY <1>1, <1>7, RequestTypes, NoBufferAssumption DEF AcquirePooled, Pooling
  <2>3. /\ bytes' \in [Buffer -> Seq(Request \cup {None})]
        /\ pool' \in [Buffer -> Nat]
        /\ pool'[b] = 0 /\ Len(bytes'[b]) = limit
        /\ \A c \in Buffer \ {b} : pool'[c] = pool[c] /\ bytes'[c] = bytes[c]
    <3>1. CASE pool[b] > 0 /\ pool' = [pool EXCEPT ![b] = @ - 1] /\ UNCHANGED bytes
      <4>1. pool[b] = 1 /\ Len(bytes[b]) = limit
        BY <1>1, <3>1 DEF Buffers, TypeOK
      <4> QED
        BY <1>1, <3>1, <4>1 DEF TypeOK
    <3>2. CASE /\ ~InUse(b) /\ UNCHANGED pool
               /\ bytes' = [bytes EXCEPT ![b] = [i \in 1 .. limit |-> None]]
      <4> DEFINE fresh == [i \in 1 .. limit |-> None]
      <4>1. fresh \in Seq(Request \cup {None}) /\ Len(fresh) = limit
        BY <2>2
      <4>2. pool[b] = 0
        BY <1>1, <3>2 DEF InUse, TypeOK
      <4>3. bytes' = [bytes EXCEPT ![b] = fresh] /\ UNCHANGED pool
        BY <3>2
      <4> HIDE DEF fresh
      <4> QED
        BY <1>1, <4>1, <4>2, <4>3 DEF TypeOK
    <3> QED
      BY <2>1, <3>1, <3>2
  <2>4. \A s \in Request : buf[s] # b
    <3>1. CASE pool[b] > 0
      BY <1>1, <2>2, <3>1 DEF Buffers, Holds
    <3>2. CASE ~InUse(b)
      BY <3>2 DEF InUse
    <3> QED
      BY <2>1, <3>1, <3>2
  <2>5. buf'[r] = b /\ \A s \in Request \ {r} : buf'[s] = buf[s] /\ buf[s] # b
    BY <1>1, <2>1, <2>4 DEF TypeOK
  <2>6. buf' \in [Request -> Buffer \cup {None}]
    BY <1>1, <2>1 DEF TypeOK
  <2>7. TypeOK'
    BY <1>1, <1>2, <2>3, <2>6 DEF TypeOK
  <2>8. \A s \in Request : buf[s] \in Buffer \cup {None}
    BY <1>1 DEF TypeOK
  <2>9. Buffers'
    <3>1. \A s \in Request \ {r} : Holds(s)' =>
            Holds(s) /\ buf'[s] = buf[s] /\ buf[s] \in Buffer \ {b}
      BY <2>5, <2>8 DEF Holds
    <3>2. \A s, t \in Request : Holds(s)' /\ buf'[s] = buf'[t] => s = t
      BY <1>1, <2>5, <3>1 DEF Buffers, Holds
    <3>3. \A s \in Request : Holds(s)' =>
            pool'[buf'[s]] = 0 /\ Len(bytes'[buf'[s]]) = limit
      <4>1. pool'[buf'[r]] = 0 /\ Len(bytes'[buf'[r]]) = limit
        BY <2>3, <2>5
      <4>2. ASSUME NEW s \in Request \ {r}, Holds(s)'
            PROVE  pool'[buf'[s]] = 0 /\ Len(bytes'[buf'[s]]) = limit
        <5>1. Holds(s) /\ buf'[s] = buf[s] /\ buf[s] \in Buffer \ {b}
          BY <3>1, <4>2
        <5>2. pool[buf[s]] = 0 /\ Len(bytes[buf[s]]) = limit
          BY <1>1, <5>1 DEF Buffers
        <5> QED
          BY <2>3, <5>1, <5>2
      <4> QED
        BY <4>1, <4>2
    <3>4. \A c \in Buffer : pool'[c] # 0 =>
            pool'[c] = 1 /\ Len(bytes'[c]) = limit
      BY <1>1, <2>3 DEF Buffers
    <3> QED
      BY <1>2, <3>2, <3>3, <3>4 DEF Buffers
  <2>10. Stage(r)'
    <3>1. Pooling'
      BY <1>2, <2>2 DEF Pooling
    <3>2. \A i \in 1 .. got'[r] : bytes'[buf'[r]][i] = r
      BY <1>3, <1>4
    <3> QED
      BY <1>1, <1>3, <1>4, <3>1, <3>2 DEF Stage, Reading
  <2>11. \A s \in Request \ {r} : Untouched(s)
    <3>1. \A s \in Request \ {r} : Holds(s) => bytes'[buf[s]] = bytes[buf[s]]
      BY <2>3, <2>5, <2>8 DEF Holds
    <3> QED
      BY <1>1, <1>2, <2>5, <3>1 DEF Untouched, TypeOK
  <2> QED
    BY <1>2, <1>5, <2>7, <2>9, <2>10, <2>11, OthersStay DEF BodyInv
<1> QED
  BY <1>6, <1>7

\* A byte is read into its slice of the buffer.
LEMMA ReadByteKeeps ==
    ASSUME BodyInv, NEW r \in Request, ReadByte(r)
    PROVE  BodyInv'
<1>1. TypeOK /\ Buffers /\ Stage(r) /\ Outcome(r)
  BY DEF BodyInv
<1>2. /\ pc[r] = "read" /\ got[r] # length[r]
      /\ got' = [got EXCEPT ![r] = @ + 1]
      /\ bytes' = IF buf[r] = None THEN bytes
                  ELSE [bytes EXCEPT ![buf[r]][got[r] + 1] = r]
      /\ UNCHANGED <<limit, pc, length, sends, buf, pool, scored, status>>
  BY DEF ReadByte, Full
<1>3. /\ limit \in Int /\ length[r] \in Int /\ sends[r] \in Nat
      /\ sends[r] <= MaxLength /\ got[r] \in Nat /\ MaxLength \in Nat
      /\ buf[r] \in Buffer \cup {None}
  BY <1>1, RequestTypes
<1>4. /\ length[r] = sends[r] /\ got[r] <= sends[r] /\ ~TooLong(sends[r])
      /\ Holds(r) => Pooling
      /\ Holds(r) => \A i \in 1 .. got[r] : bytes[buf[r]][i] = r
  BY <1>1, <1>2 DEF Stage, Reading
<1>5. got[r] + 1 <= sends[r] /\ got[r] + 1 \in 0 .. MaxLength
  BY <1>2, <1>3, <1>4
<1>6. got'[r] = got[r] + 1 /\ got' \in [Request -> 0 .. MaxLength]
  BY <1>1, <1>2, <1>5 DEF TypeOK
<1>7. ASSUME Holds(r)
      PROVE  LET f == [bytes[buf[r]] EXCEPT ![got[r] + 1] = r]
             IN /\ f \in Seq(Request \cup {None}) /\ Len(f) = limit
                /\ \A i \in 1 .. got[r] + 1 : f[i] = r
                /\ bytes' = [bytes EXCEPT ![buf[r]] = f]
  <2> DEFINE old == bytes[buf[r]]
             f == [old EXCEPT ![got[r] + 1] = r]
  <2>1. old \in Seq(Request \cup {None}) /\ Len(old) = limit
    BY <1>1, <1>7, RequestTypes DEF Buffers
  <2>2. got[r] + 1 <= limit
    BY <1>3, <1>4, <1>5, <1>7 DEF TooLong, Pooling
  <2>3. \A i \in 1 .. got[r] : old[i] = r
    BY <1>4, <1>7
  <2>4. bytes' = [bytes EXCEPT ![buf[r]] = f]
    BY <1>2, <1>7 DEF Holds
  <2> HIDE DEF old
  <2>5. f \in Seq(Request \cup {None}) /\ Len(f) = limit
    BY <1>3, <2>1, <2>2
  <2>6. \A i \in 1 .. got[r] + 1 : f[i] = r
    BY <1>3, <2>1, <2>2, <2>3
  <2> QED
    BY <2>4, <2>5, <2>6 DEF old
<1>8. /\ bytes' \in [Buffer -> Seq(Request \cup {None})]
      /\ Holds(r) => /\ Len(bytes'[buf[r]]) = limit
                     /\ \A i \in 1 .. got[r] + 1 : bytes'[buf[r]][i] = r
      /\ \A b \in Buffer : b # buf[r] => bytes'[b] = bytes[b]
  <2>1. CASE ~Holds(r)
    BY <1>1, <1>2, <2>1 DEF TypeOK, Holds
  <2>2. CASE Holds(r)
    <3>1. PICK f \in Seq(Request \cup {None}) :
            /\ Len(f) = limit
            /\ \A i \in 1 .. got[r] + 1 : f[i] = r
            /\ bytes' = [bytes EXCEPT ![buf[r]] = f]
      BY <1>7, <2>2
    <3>2. buf[r] \in Buffer
      BY <1>3, <2>2 DEF Holds
    <3> QED
      BY <1>1, <3>1, <3>2 DEF TypeOK
  <2> QED
    BY <2>1, <2>2
<1>9. TypeOK'
  BY <1>1, <1>2, <1>6, <1>8 DEF TypeOK
<1>10. \A s \in Request : buf[s] \in Buffer \cup {None}
  BY <1>1 DEF TypeOK
<1>11. \A s \in Request \ {r} : Holds(s) => bytes'[buf[s]] = bytes[buf[s]]
  BY <1>1, <1>8, <1>10 DEF Holds, Buffers
<1>12. Buffers'
  <2>1. ASSUME NEW s \in Request, Holds(s) PROVE Len(bytes'[buf[s]]) = limit
    <3>1. Len(bytes[buf[s]]) = limit
      BY <1>1, <2>1 DEF Buffers
    <3>2. CASE s = r
      BY <1>8, <2>1, <3>2
    <3>3. CASE s # r
      BY <1>11, <2>1, <3>1, <3>3
    <3> QED
      BY <3>2, <3>3
  <2>2. \A b \in Buffer : pool[b] # 0 => Len(bytes'[b]) = limit
    <3>1. ASSUME NEW b \in Buffer, pool[b] # 0 PROVE Len(bytes'[b]) = limit
      <4>1. b # buf[r]
        BY <1>1, <3>1, NoBufferAssumption DEF Buffers, Holds
      <4> QED
        BY <1>1, <1>8, <3>1, <4>1 DEF Buffers
    <3> QED
      BY <3>1
  <2> QED
    BY <1>1, <1>2, <2>1, <2>2 DEF Buffers, Holds
<1>13. Stage(r)'
  <2>1. Holds(r)' = Holds(r) /\ Pooling' = Pooling
        /\ TooLong(sends[r])' = TooLong(sends[r])
    BY <1>2 DEF Holds, Pooling, TooLong
  <2>2. Holds(r)' => \A i \in 1 .. got'[r] : bytes'[buf'[r]][i] = r
    BY <1>2, <1>6, <1>8, <2>1
  <2> QED
    BY <1>2, <1>4, <1>5, <1>6, <2>1, <2>2 DEF Stage, Reading
<1>14. Outcome(r)'
  BY <1>1, <1>2 DEF Outcome, TooLong
<1>15. \A s \in Request \ {r} : Untouched(s)
  BY <1>1, <1>2, <1>11 DEF Untouched, TypeOK
<1> QED
  BY <1>2, <1>9, <1>12, <1>13, <1>14, <1>15, OthersStay DEF BodyInv

\* A request that has the body goes on with it, or turns it down.
LEMMA ReadDoneKeeps ==
    ASSUME BodyInv, NEW r \in Request, ReadDone(r) \/ ReadAllDone(r)
    PROVE  BodyInv'
<1>1. TypeOK /\ Buffers /\ Stage(r) /\ Outcome(r)
  BY DEF BodyInv
<1>2. PICK to \in {"score", "done"}, code \in {0, 413} :
        /\ pc[r] \in {"read", "readAll"}
        /\ pc' = [pc EXCEPT ![r] = to] /\ status' = [status EXCEPT ![r] = code]
        /\ \/ to = "score" /\ code = 0 /\ pc[r] = "read" /\ Full(r)
           \/ /\ to = "score" /\ code = 0 /\ pc[r] = "readAll"
              /\ ~MoreToRead(r) /\ ~TooLong(got[r])
           \/ to = "done" /\ code = 413 /\ pc[r] = "readAll" /\ TooLong(got[r])
  <2>1. pc[r] \in {"read", "readAll"} => status[r] = 0
    BY <1>1 DEF Outcome
  <2>2. UNCHANGED status /\ pc[r] \in {"read", "readAll"} =>
          status' = [status EXCEPT ![r] = 0]
    BY <1>1, <2>1 DEF TypeOK
  <2> QED
    BY <2>2 DEF ReadDone, ReadAllDone, Goto, Reply
<1>3. UNCHANGED <<limit, length, sends, got, buf, bytes, pool, scored>>
  BY DEF ReadDone, ReadAllDone
<1>4. /\ limit \in Int /\ length[r] \in Int /\ sends[r] \in Nat /\ got[r] \in Nat
  BY <1>1, RequestTypes
<1>5. pc'[r] = to /\ status'[r] = code
  BY <1>1, <1>2 DEF TypeOK
<1>6. TypeOK'
  BY <1>1, <1>2, <1>3 DEF TypeOK
<1>7. Buffers'
  BY <1>1, <1>3 DEF Buffers, Holds
<1>8. /\ scored[r] = << >> /\ got[r] <= sends[r]
      /\ pc[r] = "readAll" => ~Holds(r) /\ length[r] < 0
      /\ pc[r] = "read" => length[r] = sends[r] /\ ~TooLong(sends[r])
      /\ pc[r] = "read" /\ Holds(r) =>
          Pooling /\ \A i \in 1 .. got[r] : bytes[buf[r]][i] = r
  BY <1>1, <1>2 DEF Stage, Outcome, Reading
<1>9. to = "score" => got[r] = sends[r] /\ ~TooLong(sends[r])
  <2>1. CASE pc[r] = "read"
    BY <1>2, <1>8, <2>1 DEF Full
  <2>2. CASE to = "score" /\ pc[r] = "readAll"
    <3>1. ~TooLong(got[r]) /\ ~MoreToRead(r)
      BY <1>2, <2>2
    <3> QED
      BY <1>4, <1>8, <3>1 DEF TooLong, MoreToRead, Reads, ReadLimit
  <2> QED
    BY <1>2, <2>1, <2>2
<1>10. to = "done" => ~Holds(r) /\ code = 413 /\ TooLong(sends[r])
  BY <1>2, <1>4, <1>8 DEF TooLong
<1>11. /\ Holds(r)' = Holds(r) /\ Pooling' = Pooling
       /\ TooLong(sends[r])' = TooLong(sends[r])
       /\ length'[r] = length[r] /\ sends'[r] = sends[r] /\ got'[r] = got[r]
       /\ scored'[r] = scored[r]
       /\ bytes' = bytes /\ buf' = buf
  BY <1>3 DEF Holds, Pooling, TooLong
<1>12. Stage(r)'
  BY <1>2, <1>5, <1>8, <1>9, <1>10, <1>11 DEF Stage, Reading
<1>13. Outcome(r)'
  BY <1>2, <1>5, <1>8, <1>10, <1>11 DEF Outcome
<1>14. \A s \in Request \ {r} : Untouched(s)
  BY <1>1, <1>2, <1>3 DEF Untouched, TypeOK
<1> QED
  BY <1>3, <1>6, <1>7, <1>12, <1>13, <1>14, OthersStay DEF BodyInv

\* A byte of a body of unknown length, or its failure.
LEMMA ReadAllKeeps ==
    ASSUME BodyInv, NEW r \in Request, ReadAllByte(r) \/ ReadAllBroken(r)
    PROVE  BodyInv'
<1>1. TypeOK /\ Buffers /\ Stage(r) /\ Outcome(r)
  BY DEF BodyInv
<1>2. /\ limit \in Int /\ sends[r] \in Nat /\ got[r] \in Nat
      /\ sends[r] <= MaxLength /\ MaxLength \in Nat
  BY <1>1, RequestTypes
<1>3. pc[r] = "readAll" /\ UNCHANGED <<limit, length, sends, buf, bytes, pool, scored>>
  BY DEF ReadAllByte, ReadAllBroken
<1>4. ~Holds(r) /\ length[r] < 0 /\ scored[r] = << >> /\ status[r] = 0
      /\ got[r] <= sends[r]
  BY <1>1, <1>3 DEF Stage, Outcome
<1>5. Buffers'
  BY <1>1, <1>3 DEF Buffers, Holds
<1>6. CASE ReadAllByte(r)
  <2>1. /\ got' = [got EXCEPT ![r] = @ + 1] /\ got[r] < sends[r]
        /\ UNCHANGED <<pc, status>>
    BY <1>6 DEF ReadAllByte, MoreToRead
  <2>2. got[r] + 1 \in 0 .. MaxLength /\ got'[r] = got[r] + 1 /\ got[r] + 1 <= sends[r]
    BY <1>1, <1>2, <2>1 DEF TypeOK
  <2>3. TypeOK'
    BY <1>1, <1>3, <2>1, <2>2 DEF TypeOK
  <2>4. Stage(r)'
    BY <1>3, <1>4, <2>1, <2>2 DEF Stage, Holds, Reading
  <2>5. Outcome(r)'
    BY <1>1, <1>3, <2>1 DEF Outcome, TooLong
  <2>6. \A s \in Request \ {r} : Untouched(s)
    BY <1>1, <1>3, <2>1 DEF Untouched, TypeOK
  <2> QED
    BY <1>3, <1>5, <2>3, <2>4, <2>5, <2>6, OthersStay DEF BodyInv
<1>7. CASE ReadAllBroken(r)
  <2>1. /\ pc' = [pc EXCEPT ![r] = "done"]
        /\ status' = [status EXCEPT ![r] = 500] /\ UNCHANGED got
    BY <1>7 DEF ReadAllBroken, Goto, Reply
  <2>2. pc'[r] = "done" /\ status'[r] = 500
    BY <1>1, <2>1 DEF TypeOK
  <2>3. TypeOK'
    BY <1>1, <1>3, <2>1 DEF TypeOK
  <2>4. Stage(r)'
    BY <1>3, <1>4, <2>1, <2>2 DEF Stage, Holds, Reading
  <2>5. Outcome(r)'
    BY <1>3, <1>4, <2>2 DEF Outcome
  <2>6. \A s \in Request \ {r} : Untouched(s)
    BY <1>1, <1>3, <2>1 DEF Untouched, TypeOK
  <2> QED
    BY <1>3, <1>5, <2>3, <2>4, <2>5, <2>6, OthersStay DEF BodyInv
<1> QED
  BY <1>6, <1>7

\* The body is scored from wherever it lies.
LEMMA ScoreKeeps ==
    ASSUME BodyInv, NEW r \in Request, Score(r)
    PROVE  BodyInv'
<1>1. TypeOK /\ Buffers /\ Stage(r) /\ Outcome(r)
  BY DEF BodyInv
<1>2. /\ pc[r] = "score" /\ pc' = [pc EXCEPT ![r] = "release"]
      /\ scored' = [scored EXCEPT ![r] = Body(r)]
      /\ UNCHANGED <<limit, length, sends, got, buf, bytes, pool>>
  BY DEF Score, Goto
<1> DEFINE Code == {200, 400, -1}
<1>3. \E code \in Code : status' = [status EXCEPT ![r] = code]
  <2>1. \E code \in Code : Reply(r, code)
    BY DEF Score
  <2> HIDE DEF Code
  <2> QED
    BY <2>1 DEF Reply
<1>4. PICK code \in Code : status' = [status EXCEPT ![r] = code]
  BY <1>3
<1>5. /\ limit \in Int /\ sends[r] \in Nat /\ got[r] \in Nat /\ length[r] \in Int
      /\ Holds(r) => bytes[buf[r]] \in Seq(Request \cup {None})
  BY <1>1, RequestTypes
<1>6. /\ got[r] = sends[r] /\ ~TooLong(sends[r])
      /\ Holds(r) => /\ length[r] = sends[r] /\ Pooling
                     /\ \A i \in 1 .. got[r] : bytes[buf[r]][i] = r
  BY <1>1, <1>2 DEF Stage, Reading
<1>7. /\ Body(r) \in Seq(Request \cup {None}) /\ Len(Body(r)) = sends[r]
      /\ \A i \in DOMAIN Body(r) : Body(r)[i] = r
  <2>1. CASE ~Holds(r)
    <3>1. Body(r) = [i \in 1 .. got[r] |-> r]
      BY <2>1 DEF Body, Holds
    <3> DEFINE f == [i \in 1 .. got[r] |-> r]
    <3>2. f \in Seq(Request \cup {None}) /\ Len(f) = got[r]
      BY <1>5
    <3>3. \A i \in DOMAIN f : f[i] = r
      OBVIOUS
    <3> QED
      BY <1>6, <3>1, <3>2, <3>3
  <2>2. CASE Holds(r)
    <3> DEFINE q == bytes[buf[r]]
    <3>1. Body(r) = SubSeq(q, 1, sends[r])
      BY <1>6, <2>2 DEF Body, Holds
    <3>2. q \in Seq(Request \cup {None}) /\ sends[r] <= Len(q)
      <4>1. Len(q) = limit
        BY <1>1, <2>2 DEF Buffers
      <4>2. sends[r] <= limit
        BY <1>5, <1>6, <2>2 DEF TooLong, Pooling
      <4> QED
        BY <1>5, <2>2, <4>1, <4>2
    <3>3. \A i \in 1 .. sends[r] : q[i] = r
      BY <1>6, <2>2
    <3> HIDE DEF q
    <3> QED
      BY <1>5, <3>1, <3>2, <3>3
  <2> QED
    BY <2>1, <2>2
<1>8. pc'[r] = "release" /\ status'[r] = code /\ scored'[r] = Body(r)
  BY <1>1, <1>2, <1>4 DEF TypeOK
<1>9. TypeOK'
  BY <1>1, <1>2, <1>7, <1>4 DEF TypeOK
<1>10. Buffers'
  BY <1>1, <1>2 DEF Buffers, Holds
<1>11. Stage(r)'
  BY <1>1, <1>2, <1>8 DEF Stage, Holds, Pooling, Reading
<1>12. Outcome(r)'
  BY <1>2, <1>6, <1>7, <1>8 DEF Outcome, TooLong
<1>13. \A s \in Request \ {r} : Untouched(s)
  BY <1>1, <1>2, <1>4 DEF Untouched, TypeOK
<1> QED
  BY <1>2, <1>9, <1>10, <1>11, <1>12, <1>13, OthersStay DEF BodyInv

\* The buffer goes back, after the answer or after a read that broke off.
LEMMA ReleaseKeeps ==
    ASSUME BodyInv, NEW r \in Request, Release(r) \/ ReadBroken(r)
    PROVE  BodyInv'
<1>1. TypeOK /\ Buffers /\ Stage(r) /\ Outcome(r)
  BY DEF BodyInv
<1>2. PICK code :
        /\ \/ pc[r] = "release" /\ code = status[r]
           \/ pc[r] = "read" /\ code = 400
        /\ pc' = [pc EXCEPT ![r] = "done"]
        /\ status' = [status EXCEPT ![r] = code]
  <2>1. status = [status EXCEPT ![r] = status[r]]
    BY <1>1 DEF TypeOK
  <2> QED
    BY <2>1 DEF Release, ReadBroken, Goto, Reply
<1>3. /\ IF buf[r] = None THEN UNCHANGED pool
                          ELSE pool' = [pool EXCEPT ![buf[r]] = @ + 1]
      /\ buf' = [buf EXCEPT ![r] = None]
      /\ UNCHANGED <<limit, length, sends, got, bytes, scored>>
  BY DEF Release, ReadBroken, Put
<1>4. pc'[r] = "done" /\ status'[r] = code /\ buf'[r] = None
  BY <1>1, <1>2, <1>3 DEF TypeOK
<1>5. \A s \in Request \ {r} : buf'[s] = buf[s]
  BY <1>1, <1>3 DEF TypeOK
<1>6. /\ pool' \in [Buffer -> Nat]
      /\ Holds(r) => pool'[buf[r]] = 1 /\ Len(bytes[buf[r]]) = limit
      /\ \A b \in Buffer : b # buf[r] => pool'[b] = pool[b]
  <2>1. CASE ~Holds(r)
    BY <1>1, <1>3, <2>1 DEF TypeOK, Holds
  <2>2. CASE Holds(r)
    <3>1. buf[r] \in Buffer /\ pool[buf[r]] = 0 /\ Len(bytes[buf[r]]) = limit
      BY <1>1, <2>2 DEF TypeOK, Buffers, Holds
    <3>2. pool' = [pool EXCEPT ![buf[r]] = 1]
      BY <1>3, <2>2, <3>1 DEF Holds
    <3> QED
      BY <1>1, <3>1, <3>2 DEF TypeOK
  <2> QED
    BY <2>1, <2>2
<1>7. code \in {0, -1, 200, 400, 413, 500}
  BY <1>1, <1>2 DEF TypeOK
<1>8. TypeOK'
  BY <1>1, <1>2, <1>3, <1>6, <1>7 DEF TypeOK
<1>9. Buffers'
  <2>1. \A s \in Request : Holds(s)' => s # r /\ Holds(s) /\ buf'[s] = buf[s]
    BY <1>4, <1>5 DEF Holds
  <2>2. \A s, t \in Request : Holds(s)' /\ buf'[s] = buf'[t] => s = t
    BY <1>1, <1>4, <1>5, <2>1 DEF Buffers, Holds
  <2>3. ASSUME NEW s \in Request, Holds(s)'
        PROVE  pool'[buf'[s]] = 0 /\ Len(bytes'[buf'[s]]) = limit
    <3>1. s # r /\ Holds(s) /\ buf'[s] = buf[s]
      BY <2>1, <2>3
    <3>2. /\ pool[buf[s]] = 0 /\ Len(bytes[buf[s]]) = limit /\ buf[s] # buf[r]
          /\ buf[s] \in Buffer
      BY <1>1, <3>1 DEF Buffers, TypeOK, Holds
    <3> QED
      BY <1>3, <1>6, <3>1, <3>2
  <2>4. ASSUME NEW b \in Buffer, pool'[b] # 0
        PROVE  pool'[b] = 1 /\ Len(bytes'[b]) = limit
    <3>1. CASE Holds(r) /\ b = buf[r]
      BY <1>3, <1>6, <3>1
    <3>2. CASE ~(Holds(r) /\ b = buf[r])
      <4>1. b # buf[r]
        BY <3>2, NoBufferAssumption DEF Holds
      <4> QED
        BY <1>1, <1>3, <1>6, <2>4, <4>1 DEF Buffers
    <3> QED
      BY <3>1, <3>2
  <2> QED
    BY <1>3, <2>2, <2>3, <2>4 DEF Buffers
<1>10. Stage(r)'
  <2>1. ~Holds(r)'
    BY <1>4 DEF Holds
  <2> QED
    BY <1>1, <1>3, <1>4, <2>1 DEF Stage, Reading
<1>11. Outcome(r)'
  <2>1. status[r] \in {200, 400, -1} \/ code = 400
    BY <1>1, <1>2 DEF Outcome
  <2>2. code \notin {413, 500}
    BY <1>2, <2>1
  <2> QED
    BY <1>1, <1>3, <1>4, <2>2 DEF Outcome
<1>12. \A s \in Request \ {r} : Untouched(s)
  BY <1>1, <1>2, <1>3, <1>5 DEF Untouched, TypeOK
<1> QED
  BY <1>3, <1>8, <1>9, <1>10, <1>11, <1>12, OthersStay DEF BodyInv

\* The collector takes a buffer out of the pool.
LEMMA CollectKeeps ==
    ASSUME BodyInv, NEW b \in Buffer, Collect(b)
    PROVE  BodyInv'
<1>1. TypeOK /\ Buffers
  BY DEF BodyInv
<1>2. /\ pool[b] > 0 /\ pool' = [pool EXCEPT ![b] = @ - 1]
      /\ UNCHANGED <<limit, pc, length, sends, got, buf, bytes, scored, status>>
  BY DEF Collect
<1>3. pool' \in [Buffer -> Nat] /\ pool'[b] = 0
      /\ \A c \in Buffer \ {b} : pool'[c] = pool[c]
  <2>1. pool[b] = 1
    BY <1>1, <1>2 DEF Buffers, TypeOK
  <2> QED
    BY <1>1, <1>2, <2>1 DEF TypeOK
<1>4. TypeOK'
  BY <1>1, <1>2, <1>3 DEF TypeOK
<1>5. \A s \in Request : Holds(s) => buf[s] \in Buffer
  BY <1>1 DEF TypeOK, Holds
<1>6. Buffers'
  <2>1. \A s \in Request : Holds(s) => pool'[buf[s]] = 0
    BY <1>1, <1>3, <1>5 DEF Buffers
  <2>2. \A c \in Buffer : pool'[c] # 0 => pool'[c] = 1 /\ Len(bytes[c]) = limit
    BY <1>1, <1>3 DEF Buffers
  <2> QED
    BY <1>1, <1>2, <2>1, <2>2 DEF Buffers, Holds
<1>7. \A s \in Request : Untouched(s)
  BY <1>2 DEF Untouched
<1> QED
  BY <1>2, <1>4, <1>6, <1>7, OthersStay DEF BodyInv
-----------------------------------------------------------------------------
LEMMA InitBody == Init => BodyInv
<1>1. SUFFICES ASSUME Init PROVE BodyInv
  OBVIOUS
<1>2. TypeOK
  BY <1>1, LengthAssumption DEF Init, TypeOK
<1>3. Buffers
  BY <1>1 DEF Init, Buffers, Holds
<1>4. \A r \in Request : Stage(r) /\ Outcome(r)
  BY <1>1 DEF Init, Stage, Outcome, Holds, Reading
<1> QED
  BY <1>2, <1>3, <1>4 DEF BodyInv

LEMMA NextBody == BodyInv /\ [Next]_vars => BodyInv'
<1>1. SUFFICES ASSUME BodyInv, [Next]_vars PROVE BodyInv'
  OBVIOUS
<1>2. ASSUME NEW r \in Request, Arrive(r) \/ Goroutine(r) PROVE BodyInv'
  BY <1>1, <1>2, ArriveKeeps, AcquireKeeps, ReadByteKeeps, ReadDoneKeeps,
     ReadAllKeeps, ScoreKeeps, ReleaseKeeps DEF Goroutine
<1>3. ASSUME NEW b \in Buffer, Collect(b) PROVE BodyInv'
  BY <1>1, <1>3, CollectKeeps
<1>4. ASSUME UNCHANGED vars PROVE BodyInv'
  <2>1. UNCHANGED <<limit, pc, length, sends, got, buf, bytes, pool, scored, status>>
    BY <1>4 DEF vars
  <2>2. TypeOK' /\ Buffers'
    BY <1>1, <2>1 DEF BodyInv, TypeOK, Buffers, Holds
  <2>3. \A s \in Request : Untouched(s)
    BY <2>1 DEF Untouched
  <2> QED
    BY <1>1, <2>1, <2>2, <2>3, OthersStay DEF BodyInv
<1> QED
  BY <1>1, <1>2, <1>3, <1>4 DEF Next

LEMMA BodyInvariant == Spec => []BodyInv
  BY InitBody, NextBody, PTL DEF Spec

\* The variables have their types.
THEOREM BodyTypes == Spec => []TypeOK
  BY BodyInvariant, PTL DEF BodyInv

\* A buffer is in the pool once, or with one request, or nowhere, and no
\* request keeps one beyond its end (handlers.go:59, :115, :148-171).
THEOREM BufferHasOnePlace == Spec => []BufferInOnePlace
<1>1. BodyInv => BufferInOnePlace
  <2>1. SUFFICES ASSUME BodyInv PROVE BufferInOnePlace
    OBVIOUS
  <2>2. ASSUME NEW b \in Buffer
        PROVE  pool[b] + Cardinality({r \in Request : buf[r] = b}) <= 1
    <3> DEFINE holders == {r \in Request : buf[r] = b}
    <3>1. pool[b] \in {0, 1} /\ b # None
      BY <2>1, NoBufferAssumption DEF BodyInv, Buffers
    <3>2. CASE holders = {}
      BY <3>1, <3>2, FS_EmptySet
    <3>3. ASSUME NEW r \in holders
          PROVE  pool[b] = 0 /\ holders = {r}
      BY <2>1, <3>1, <3>3 DEF BodyInv, Buffers, Holds
    <3>4. CASE holders # {}
      <4>1. PICK r : r \in holders
        BY <3>4
      <4>2. pool[b] = 0 /\ holders = {r}
        BY <3>3, <4>1
      <4>3. Cardinality(holders) = 1
        BY <4>2, FS_Singleton
      <4> QED
        BY <4>2, <4>3
    <3> QED
      BY <3>2, <3>4
  <2>3. \A r \in Request : pc[r] \in {"unsent", "done"} => buf[r] = None
    BY <2>1 DEF BodyInv, Stage, Holds
  <2> QED
    BY <2>2, <2>3 DEF BufferInOnePlace
<1> QED
  BY BodyInvariant, <1>1, PTL

\* What is scored is the request's own body (handlers.go:46-59, :103-146).
THEOREM BodyIsOwn == Spec => []ScoresOwnBody
<1>1. BodyInv => ScoresOwnBody
  BY DEF BodyInv, Outcome, ScoresOwnBody
<1> QED
  BY BodyInvariant, <1>1, PTL

\* The status says what became of the body (handlers.go:46-59, :103-146).
THEOREM StatusIsTrue == Spec => []StatusTellsBody
<1>1. BodyInv => StatusTellsBody
  BY DEF BodyInv, Outcome, StatusTellsBody
<1> QED
  BY BodyInvariant, <1>1, PTL
=============================================================================
