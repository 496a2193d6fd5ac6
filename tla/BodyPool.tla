------------------------------ MODULE BodyPool ------------------------------
(***************************************************************************)
(* FraudScoreRaw (apps/api/internal/router/handlers.go): concurrent        *)
(* requests whose bodies are read into buffers of a shared sync.Pool, and  *)
(* scored from there.  A byte of a body is the request it belongs to, so a *)
(* stale byte left in a buffer shows.  net/http runs each request in a     *)
(* goroutine of its own; sync.Pool may hand out any buffer it holds or a   *)
(* new one, and the collector may empty it at any time.                    *)
(***************************************************************************)
EXTENDS Integers, Sequences, FiniteSets

CONSTANTS
    Request,    \* the requests; each is handled once
    Buffer,     \* buffers that can exist at the same time
    Limits,     \* the values of bodyLimit considered
    PoolLimit,  \* buffers of more bytes than this are not pooled: 2^20
    MaxLength,  \* bound of the model: the longest body a client sends
    None

ASSUME LimitsAssumption == Limits \subseteq Int /\ PoolLimit \in Nat
ASSUME LengthAssumption == MaxLength \in Nat
ASSUME NoBufferAssumption == None \notin Buffer /\ None \notin Request

VARIABLES
    limit,   \* Handlers.bodyLimit
    pc,      \* pc[r]: where the goroutine of request r is
    length,  \* length[r]: ContentLength, -1 when unknown
    sends,   \* sends[r]: the bytes the client means to send
    got,     \* got[r]: bytes of the body read so far
    buf,     \* buf[r]: the pooled buffer the request holds
    bytes,   \* bytes[b]: the contents of a buffer, limit of them
    pool,    \* pool[b]: how many times buffer b is in the pool
    scored,  \* scored[r]: the bytes handed to FraudCountJSON
    status   \* status[r]: the response code, 0 before, -1 when aborted

vars == <<limit, pc, length, sends, got, buf, bytes, pool, scored, status>>

\* NewHandlers: the pool makes buffers only for a modest positive limit.
Pooling == limit > 0 /\ limit <= PoolLimit

Init ==
    /\ limit \in Limits
    /\ pc = [r \in Request |-> "unsent"]
    /\ length = [r \in Request |-> -1]
    /\ sends = [r \in Request |-> 0]
    /\ got = [r \in Request |-> 0]
    /\ buf = [r \in Request |-> None]
    /\ bytes = [b \in Buffer |-> << >>]
    /\ pool = [b \in Buffer |-> 0]
    /\ scored = [r \in Request |-> << >>]
    /\ status = [r \in Request |-> 0]

Goto(r, label) == pc' = [pc EXCEPT ![r] = label]
Reply(r, code) == status' = [status EXCEPT ![r] = code]

Put(b) == pool' = [pool EXCEPT ![b] = @ + 1]
-----------------------------------------------------------------------------
(* readRequestBodyWithPool: the checks before anything is read.            *)
TooLong(n) == limit >= 0 /\ n > limit

Arrive(r) ==
    /\ pc[r] = "unsent"
    /\ \E n \in -1 .. MaxLength, m \in 0 .. MaxLength :
        /\ n >= 0 => m = n
        /\ length' = [length EXCEPT ![r] = n]
        /\ sends' = [sends EXCEPT ![r] = m]
        /\ \/ TooLong(n) /\ Goto(r, "done") /\ Reply(r, 413)
           \/ /\ ~TooLong(n)
              /\ Goto(r, CASE n < 0 -> "readAll" [] n = 0 -> "score"
                           [] n > 0 -> "acquire")
              /\ UNCHANGED status
    /\ UNCHANGED <<limit, got, buf, bytes, pool, scored>>

\* acquireBodyBuffer: a buffer of the pool, a new one of limit bytes, or, when
\* nothing is pooled, memory of the request's own.
InUse(b) == pool[b] > 0 \/ \E r \in Request : buf[r] = b

AcquirePooled(r) ==
    /\ pc[r] = "acquire"
    /\ Pooling
    /\ \E b \in Buffer :
        /\ buf' = [buf EXCEPT ![r] = b]
        /\ \/ /\ pool[b] > 0
              /\ pool' = [pool EXCEPT ![b] = @ - 1]
              /\ UNCHANGED bytes
           \/ /\ ~InUse(b)
              /\ bytes' = [bytes EXCEPT ![b] = [i \in 1 .. limit |-> None]]
              /\ UNCHANGED pool
    /\ Goto(r, "read")
    /\ UNCHANGED <<limit, length, sends, got, scored, status>>

AcquireOwn(r) ==
    /\ pc[r] = "acquire"
    /\ ~Pooling
    /\ Goto(r, "read")
    /\ UNCHANGED <<limit, length, sends, got, buf, bytes, pool, scored, status>>

\* io.ReadFull: byte by byte until the slice of ContentLength bytes is full.
AnyBytes(r) == got[r] > 0   \* faulty: one Read instead of ReadFull
PastEnd(r) == got[r] > length[r]   \* faulty: one byte too many
Full(r) == got[r] = length[r]

ReadByte(r) ==
    /\ pc[r] = "read"
    /\ ~Full(r)
    /\ got' = [got EXCEPT ![r] = @ + 1]
    /\ bytes' = IF buf[r] = None THEN bytes
                ELSE [bytes EXCEPT ![buf[r]][got[r] + 1] = r]
    /\ UNCHANGED <<limit, pc, length, sends, buf, pool, scored, status>>

ReadDone(r) ==
    /\ pc[r] = "read"
    /\ Full(r)
    /\ Goto(r, "score")
    /\ UNCHANGED <<limit, length, sends, got, buf, bytes, pool, scored, status>>

\* Faulty: the buffer is released here and by the deferred call.
ReadBrokenTwice(r) ==
    /\ pc[r] = "read"
    /\ ~Full(r)
    /\ IF buf[r] = None THEN UNCHANGED pool ELSE Put(buf[r])
    /\ Goto(r, "release")
    /\ Reply(r, 400)
    /\ UNCHANGED <<limit, length, sends, got, buf, bytes, scored>>

\* Faulty: the error path forgets the buffer.
ReadBrokenKeeps(r) ==
    /\ pc[r] = "read"
    /\ ~Full(r)
    /\ Goto(r, "done")
    /\ Reply(r, 400)
    /\ UNCHANGED <<limit, length, sends, got, buf, bytes, pool, scored>>

\* The connection ends, fails or times out first: the buffer goes back.
ReadBroken(r) ==
    /\ pc[r] = "read"
    /\ ~Full(r)
    /\ IF buf[r] = None THEN UNCHANGED pool ELSE Put(buf[r])
    /\ buf' = [buf EXCEPT ![r] = None]
    /\ Goto(r, "done")
    /\ Reply(r, 400)
    /\ UNCHANGED <<limit, length, sends, got, bytes, scored>>

\* Unknown length: io.ReadAll into its own memory, of at most limit + 1 bytes
\* when there is a limit.
ReadLimitExact == limit   \* faulty: a longer body is cut off unnoticed
ReadLimit == limit + 1

Reads(r) == limit >= 0 => got[r] < ReadLimit
MoreToRead(r) == Reads(r) /\ got[r] < sends[r]

ReadAllByte(r) ==
    /\ pc[r] = "readAll"
    /\ MoreToRead(r)
    /\ got' = [got EXCEPT ![r] = @ + 1]
    /\ UNCHANGED <<limit, pc, length, sends, buf, bytes, pool, scored, status>>

\* The end of the body, or of what the limit lets through.
ReadAllDone(r) ==
    /\ pc[r] = "readAll"
    /\ ~MoreToRead(r)
    /\ \/ TooLong(got[r]) /\ Goto(r, "done") /\ Reply(r, 413)
       \/ ~TooLong(got[r]) /\ Goto(r, "score") /\ UNCHANGED status
    /\ UNCHANGED <<limit, length, sends, got, buf, bytes, pool, scored>>

ReadAllBroken(r) ==
    /\ pc[r] = "readAll"
    /\ Reads(r)
    /\ Goto(r, "done")
    /\ Reply(r, 500)
    /\ UNCHANGED <<limit, length, sends, got, buf, bytes, pool, scored>>
-----------------------------------------------------------------------------
(* FraudScoreRaw, once it has the body.  FraudCountJSON reads the bytes    *)
(* and finds them valid or not; a panic in it is recovered by net/http,    *)
(* which drops the connection.  The deferred release runs in every case.   *)
Body(r) ==
    IF buf[r] = None THEN [i \in 1 .. got[r] |-> r]
    ELSE SubSeq(bytes[buf[r]], 1, length[r])

Score(r) ==
    /\ pc[r] = "score"
    /\ scored' = [scored EXCEPT ![r] = Body(r)]
    /\ \E code \in {200, 400, -1} : Reply(r, code)
    /\ Goto(r, "release")
    /\ UNCHANGED <<limit, length, sends, got, buf, bytes, pool>>

Release(r) ==
    /\ pc[r] = "release"
    /\ IF buf[r] = None THEN UNCHANGED pool ELSE Put(buf[r])
    /\ buf' = [buf EXCEPT ![r] = None]
    /\ Goto(r, "done")
    /\ UNCHANGED <<limit, length, sends, got, bytes, scored, status>>

\* The collector drops a pooled buffer.
Collect(b) ==
    /\ pool[b] > 0
    /\ pool' = [pool EXCEPT ![b] = @ - 1]
    /\ UNCHANGED <<limit, pc, length, sends, got, buf, bytes, scored, status>>
-----------------------------------------------------------------------------
Goroutine(r) ==
    \/ AcquirePooled(r) \/ AcquireOwn(r)
    \/ ReadByte(r) \/ ReadDone(r) \/ ReadBroken(r)
    \/ ReadAllByte(r) \/ ReadAllDone(r) \/ ReadAllBroken(r)
    \/ Score(r) \/ Release(r)

Next ==
    \/ \E r \in Request : Arrive(r) \/ Goroutine(r)
    \/ \E b \in Buffer : Collect(b)

Spec == Init /\ [][Next]_vars
-----------------------------------------------------------------------------
(* Properties.                                                             *)

\* The types of the variables.
TypeOK ==
    /\ limit \in Limits
    /\ pc \in [Request -> {"unsent", "acquire", "read", "readAll", "score",
                           "release", "done"}]
    /\ length \in [Request -> -1 .. MaxLength]
    /\ sends \in [Request -> 0 .. MaxLength]
    /\ got \in [Request -> 0 .. MaxLength]
    /\ buf \in [Request -> Buffer \cup {None}]
    /\ bytes \in [Buffer -> Seq(Request \cup {None})]
    /\ pool \in [Buffer -> Nat]
    /\ scored \in [Request -> Seq(Request \cup {None})]
    /\ status \in [Request -> {0, -1, 200, 400, 413, 500}]

\* A buffer is in the pool at most once and not while a request holds it, two
\* requests never hold the same one, and a request that is over holds none: no
\* path of the handler, the error paths included, releases a buffer twice, goes
\* on using a released one or forgets it (handlers.go:59, :115, :148-171).
BufferInOnePlace ==
    /\ \A b \in Buffer :
        pool[b] + Cardinality({r \in Request : buf[r] = b}) <= 1
    /\ \A r \in Request : pc[r] \in {"unsent", "done"} => buf[r] = None

\* What is scored are bytes of the request's own body (that they are all of them
\* is StatusTellsBody's): never a byte an earlier request left in the buffer or
\* another one writes at the same time.
ScoresOwnBody ==
    \A r \in Request : \A i \in DOMAIN scored[r] : scored[r][i] = r

\* The code a request gets says what happened to its body: a body that was
\* scored is whole and within the limit, a 413 only goes to one beyond it, a
\* 500 only to one of unknown length, and neither is scored.
StatusTellsBody ==
    \A r \in Request :
        /\ pc[r] = "release" =>
              Len(scored[r]) = sends[r] /\ ~TooLong(sends[r])
        /\ status[r] = 413 => TooLong(sends[r])
        /\ status[r] = 500 => length[r] < 0
        /\ status[r] \in {413, 500} => scored[r] = << >>
=============================================================================
