---------------------------- MODULE LoadBalancer ----------------------------
(***************************************************************************)
(* apps/load-balancer: one task per client connection (handle_client), the *)
(* shared round-robin counter, the shared pools of upstream connections,   *)
(* and the API instances and clients at the other ends of the sockets.     *)
(*                                                                         *)
(* A task runs from one await to the next, so an action is the code        *)
(* between two awaits.  A message is the identity of the request it        *)
(* carries: a response is the request it answers.  Clients do not pipeline *)
(* and every response carries its Content-Length, as the ones the API's    *)
(* own handlers write do.                                                  *)
(*                                                                         *)
(* Definitions marked "faulty" are variants of the one that follows them,  *)
(* with a plausible mistake; no action uses them.                          *)
(***************************************************************************)
EXTENDS RoundRobin, UpstreamPool, FiniteSets

CONSTANTS Client,    \* the connection tasks, one per client connection
          Request,   \* the requests clients send, each sent once
          None

ASSUME ClientAssumption == IsFiniteSet(Client)
ASSUME NoneAssumption == None \notin Request /\ None \notin Conn

VARIABLES
    running,   \* the process is up: Proxy::serve has not returned
    pc,        \* pc[h]: the await the task of client h is at
    inbox,     \* inbox[h]: the request on the wire from client h
    request,   \* request[h]: the request being forwarded
    response,  \* response[h]: the response read from an upstream
    first,     \* first[h]: the upstream the ticket of the request names
    offset,    \* offset[h]: the loop variable of forward_with_retry
    stream,    \* stream[h]: the upstream connection the task holds
    link,      \* link[c]: "free" number, "open", or "closed" by the API
    peer,      \* peer[c]: the upstream of connection c
    warm,      \* warm[c]: connection c has carried a response
    sent,      \* sent[c]: requests written to c and not yet answered
    ready,     \* ready[c]: responses written by the API and not yet read
    alive,     \* alive[u]: the API instance accepts and serves
    status,    \* status[r]: what the client knows of request r
    answer,    \* answer[r]: the response the client got for r
    \* History, read only by properties.
    attempts,  \* attempts[h]: the upstreams tried for request[h], and how
    calm,      \* calm[h]: nothing but idle closing went wrong since the read
    starts     \* starts[u]: how many requests tried u first

taskVars == <<pc, inbox, request, response, first, offset, stream>>
connVars == <<link, peer, warm, sent, ready>>
clientVars == <<status, answer>>
historyVars == <<attempts, calm, starts>>
vars == <<running, next, idle, alive, taskVars, connVars, clientVars,
          historyVars>>

PC == {"closed", "reading", "acquire", "connect", "write", "await",
       "release", "evict", "respond", "badGateway"}
Status == {"unsent", "pending", "answered", "refused", "dropped"}

Init ==
    /\ RoundRobinInit
    /\ idle = [u \in Upstream |-> << >>]
    /\ running = TRUE
    /\ pc = [h \in Client |-> "closed"]
    /\ inbox = [h \in Client |-> None]
    /\ request = [h \in Client |-> None]
    /\ response = [h \in Client |-> None]
    /\ first = [h \in Client |-> 0]
    /\ offset = [h \in Client |-> 0]
    /\ stream = [h \in Client |-> None]
    /\ link = [c \in Conn |-> "free"]
    /\ peer = [c \in Conn |-> 0]
    /\ warm = [c \in Conn |-> FALSE]
    /\ sent = [c \in Conn |-> << >>]
    /\ ready = [c \in Conn |-> << >>]
    /\ alive = [u \in Upstream |-> TRUE]
    /\ status = [r \in Request |-> "unsent"]
    /\ answer = [r \in Request |-> None]
    /\ attempts = [h \in Client |-> << >>]
    /\ calm = [h \in Client |-> TRUE]
    /\ starts = [u \in Upstream |-> 0]
-----------------------------------------------------------------------------
(* The upstream an attempt goes to, and closing connections from our side. *)
TargetNoOffset(h) == first[h]   \* faulty: retries the first upstream
Target(h) == (first[h] + offset[h]) % UpstreamCount

Hangup(conns) ==
    /\ link' = [c \in Conn |-> IF c \in conns THEN "free" ELSE link[c]]
    /\ peer' = [c \in Conn |-> IF c \in conns THEN 0 ELSE peer[c]]
    /\ warm' = [c \in Conn |-> IF c \in conns THEN FALSE ELSE warm[c]]
    /\ sent' = [c \in Conn |-> IF c \in conns THEN << >> ELSE sent[c]]
    /\ ready' = [c \in Conn |-> IF c \in conns THEN << >> ELSE ready[c]]

Goto(h, label) == pc' = [pc EXCEPT ![h] = label]
-----------------------------------------------------------------------------
(* serve: accept a client and spawn its task, or return the error of       *)
(* accept or set_nodelay, which ends the process and with it every task.   *)
Accept(h) ==
    /\ running
    /\ pc[h] = "closed"
    /\ Goto(h, "reading")
    /\ UNCHANGED <<running, next, idle, alive, inbox, request, response,
                   first, offset, stream, connVars, clientVars, historyVars>>

Exit ==
    /\ running
    /\ running' = FALSE
    /\ pc' = [h \in Client |-> "closed"]
    /\ inbox' = [h \in Client |-> None]
    /\ request' = [h \in Client |-> None]
    /\ response' = [h \in Client |-> None]
    /\ stream' = [h \in Client |-> None]
    /\ idle' = [u \in Upstream |-> << >>]
    /\ Hangup(Conn)
    /\ first' = [h \in Client |-> 0]
    /\ offset' = [h \in Client |-> 0]
    /\ attempts' = [h \in Client |-> << >>]
    /\ calm' = [h \in Client |-> TRUE]
    /\ status' = [r \in Request |-> IF status[r] = "pending" THEN "dropped"
                                                             ELSE status[r]]
    /\ UNCHANGED <<next, alive, answer, starts>>

\* A client writes its next request on its connection.
SendRequest(h, r) ==
    /\ pc[h] = "reading"
    /\ inbox[h] = None
    /\ status[r] = "unsent"
    /\ inbox' = [inbox EXCEPT ![h] = r]
    /\ status' = [status EXCEPT ![r] = "pending"]
    /\ UNCHANGED <<running, next, idle, alive, pc, request, response, first,
                   offset, stream, connVars, answer, historyVars>>

(* handle_client reads the request and forward_with_retry takes a ticket:  *)
(* there is no await between the two.                                      *)
ReadRequest(h) ==
    /\ pc[h] = "reading"
    /\ inbox[h] # None
    /\ request' = [request EXCEPT ![h] = inbox[h]]
    /\ inbox' = [inbox EXCEPT ![h] = None]
    /\ response' = [response EXCEPT ![h] = None]
    /\ first' = [first EXCEPT ![h] = FirstOf(next)]
    /\ FetchAdd
    /\ offset' = [offset EXCEPT ![h] = 0]
    /\ Goto(h, "acquire")
    /\ attempts' = [attempts EXCEPT ![h] = << >>]
    /\ calm' = [calm EXCEPT ![h] = \A u \in Upstream : alive[u]]
    /\ starts' = [starts EXCEPT ![FirstOf(next)] = @ + 1]
    /\ UNCHANGED <<running, idle, alive, stream, connVars, clientVars>>

\* EOF, a read error or the two-second read timeout, which may fire when the
\* request is already on its way.
CloseReading(h) ==
    /\ pc[h] = "reading"
    /\ Goto(h, "closed")
    /\ inbox' = [inbox EXCEPT ![h] = None]
    /\ status' = [r \in Request |-> IF r = inbox[h] THEN "dropped"
                                                    ELSE status[r]]
    /\ UNCHANGED <<running, next, idle, alive, request, response, first,
                   offset, stream, connVars, answer, historyVars>>
-----------------------------------------------------------------------------
(* UpstreamPool::acquire. *)
Attempted(h, how) ==
    attempts' = [attempts EXCEPT ![h] =
                    Append(@, [upstream |-> Target(h), how |-> how])]

AcquireIdle(h) ==
    /\ pc[h] = "acquire"
    /\ ~PoolEmpty(Target(h))
    /\ stream' = [stream EXCEPT ![h] = Top(Target(h))]
    /\ Pop(Target(h))
    /\ Goto(h, "write")
    /\ Attempted(h, "pooled")
    /\ UNCHANGED <<running, next, alive, inbox, request, response, first,
                   offset, connVars, clientVars, calm, starts>>

AcquireEmpty(h) ==
    /\ pc[h] = "acquire"
    /\ PoolEmpty(Target(h))
    /\ Goto(h, "connect")
    /\ Attempted(h, "fresh")
    /\ UNCHANGED <<running, next, idle, alive, inbox, request, response,
                   first, offset, stream, connVars, clientVars, calm, starts>>

\* The operating system numbers a new socket with the lowest free number.
LowestFree(c) ==
    /\ link[c] = "free"
    /\ \A d \in Conn : link[d] = "free" => c <= d

Connect(h) ==
    /\ pc[h] = "connect"
    /\ alive[Target(h)]
    /\ \E c \in Conn :
        /\ LowestFree(c)
        /\ link' = [link EXCEPT ![c] = "open"]
        /\ peer' = [peer EXCEPT ![c] = Target(h)]
        /\ stream' = [stream EXCEPT ![h] = c]
    /\ Goto(h, "write")
    /\ UNCHANGED <<running, next, idle, alive, inbox, request, response,
                   first, offset, warm, sent, ready, clientVars, historyVars>>

\* Refused, an error of set_nodelay, or the 250 ms connect timeout.
ConnectFail(h) ==
    /\ pc[h] = "connect"
    /\ Goto(h, "evict")
    /\ calm' = [calm EXCEPT ![h] = FALSE]
    /\ UNCHANGED <<running, next, idle, alive, inbox, request, response,
                   first, offset, stream, connVars, clientVars, attempts,
                   starts>>
-----------------------------------------------------------------------------
(* forward_once, once it holds a stream.  Bytes written to a connection    *)
(* the API has closed are accepted by the socket and lost, or refused.     *)
Write(h) ==
    /\ pc[h] = "write"
    /\ Goto(h, "await")
    /\ sent' = IF link[stream[h]] = "open"
                 THEN [sent EXCEPT ![stream[h]] = Append(@, request[h])]
                 ELSE sent
    /\ UNCHANGED <<running, next, idle, alive, inbox, request, response,
                   first, offset, stream, link, peer, warm, ready,
                   clientVars, historyVars>>

\* The attempt failed: forward_once returns and its stream is dropped.
FailAttempt(h) ==
    /\ Goto(h, "evict")
    /\ Hangup({stream[h]})
    /\ stream' = [stream EXCEPT ![h] = None]
    /\ UNCHANGED <<running, next, idle, alive, inbox, request, response,
                   first, offset, clientVars, attempts, starts>>

WriteFail(h) ==
    /\ pc[h] = "write"
    /\ FailAttempt(h)
    /\ calm' = [calm EXCEPT ![h] = @ /\ link[stream[h]] = "closed"]

ReadResponse(h) ==
    /\ pc[h] = "await"
    /\ ready[stream[h]] # << >>
    /\ response' = [response EXCEPT ![h] = Head(ready[stream[h]])]
    /\ ready' = [ready EXCEPT ![stream[h]] = Tail(@)]
    /\ Goto(h, "release")
    /\ UNCHANGED <<running, next, idle, alive, inbox, request, first, offset,
                   stream, link, peer, warm, sent, clientVars, historyVars>>

\* Faulty: no data yet is taken for the end of the stream.
ReadEofEarly(h) ==
    /\ pc[h] = "await"
    /\ ready[stream[h]] = << >>
    /\ FailAttempt(h)
    /\ UNCHANGED calm

ReadEof(h) ==
    /\ pc[h] = "await"
    /\ link[stream[h]] = "closed"
    /\ ready[stream[h]] = << >>
    /\ FailAttempt(h)
    /\ UNCHANGED calm

\* Faulty: after a timeout the stream goes back to the pool.
ReadTimeoutKeepsStream(h) ==
    /\ pc[h] = "await"
    /\ Push(Target(h), stream[h])
    /\ Hangup(IF HasRoom(idle[Target(h)]) THEN {} ELSE {stream[h]})
    /\ stream' = [stream EXCEPT ![h] = None]
    /\ Goto(h, "evict")
    /\ calm' = [calm EXCEPT ![h] = FALSE]
    /\ UNCHANGED <<running, next, alive, inbox, request, response, first,
                   offset, clientVars, attempts, starts>>

NoReadTimeout(h) == FALSE   \* faulty: the read waits for ever

\* The two-second read timeout; the response may be on the wire.
ReadTimeout(h) ==
    /\ pc[h] = "await"
    /\ FailAttempt(h)
    /\ calm' = [calm EXCEPT ![h] = FALSE]

\* Faulty: a stream the full pool refuses stays open.
ReleaseLeaks(h) ==
    /\ pc[h] = "release"
    /\ Push(Target(h), stream[h])
    /\ stream' = [stream EXCEPT ![h] = None]
    /\ Goto(h, "respond")
    /\ UNCHANGED <<running, next, alive, inbox, request, response, first,
                   offset, connVars, clientVars, historyVars>>

\* pool.release: the stream goes back to the pool it came from, or is dropped.
Release(h) ==
    /\ pc[h] = "release"
    /\ Push(Target(h), stream[h])
    /\ Hangup(IF HasRoom(idle[Target(h)]) THEN {} ELSE {stream[h]})
    /\ stream' = [stream EXCEPT ![h] = None]
    /\ Goto(h, "respond")
    /\ UNCHANGED <<running, next, alive, inbox, request, response, first,
                   offset, clientVars, historyVars>>

\* More upstreams to try after this one?
MoreThanAllUpstreams(h) == offset[h] + 1 <= UpstreamCount   \* faulty
MoreUpstreams(h) == offset[h] + 1 < UpstreamCount

\* Faulty: every retry takes a ticket of its own.
EvictDrawsTicket(h) ==
    /\ pc[h] = "evict"
    /\ Hangup(Entries(idle[Target(h)]))
    /\ Clear(Target(h))
    /\ FetchAdd
    /\ offset' = [offset EXCEPT ![h] = @ + 1]
    /\ Goto(h, IF MoreUpstreams(h) THEN "acquire" ELSE "badGateway")
    /\ UNCHANGED <<running, alive, inbox, request, response, first,
                   stream, clientVars, historyVars>>

\* forward_with_retry after a failed attempt: clear_idle, then the next
\* upstream or, after the last one, the error.
Evict(h) ==
    /\ pc[h] = "evict"
    /\ Hangup(Entries(idle[Target(h)]))
    /\ Clear(Target(h))
    /\ offset' = [offset EXCEPT ![h] = @ + 1]
    /\ Goto(h, IF MoreUpstreams(h) THEN "acquire" ELSE "badGateway")
    /\ UNCHANGED <<running, next, alive, inbox, request, response, first,
                   stream, clientVars, historyVars>>
-----------------------------------------------------------------------------
(* handle_client writes the response and reads on, or gives up.  The       *)
(* locals of forward_with_retry are gone: their values are reset.          *)
Settle(h, outcome) ==
    /\ status' = [status EXCEPT ![request[h]] = outcome]
    /\ request' = [request EXCEPT ![h] = None]
    /\ response' = [response EXCEPT ![h] = None]
    /\ first' = [first EXCEPT ![h] = 0]
    /\ offset' = [offset EXCEPT ![h] = 0]
    /\ attempts' = [attempts EXCEPT ![h] = << >>]
    /\ calm' = [calm EXCEPT ![h] = TRUE]
    /\ UNCHANGED <<running, next, idle, alive, inbox, stream, connVars, starts>>

Respond(h) ==
    /\ pc[h] = "respond"
    /\ answer' = [answer EXCEPT ![request[h]] = response[h]]
    /\ Goto(h, "reading")
    /\ Settle(h, "answered")

\* The client is gone, or does not read for two seconds.
RespondFail(h) ==
    /\ pc[h] = "respond"
    /\ Goto(h, "closed")
    /\ Settle(h, "dropped")
    /\ UNCHANGED answer

\* Faulty: the task reads on after a 502.
SendBadGatewayAndReadOn(h) ==
    /\ pc[h] = "badGateway"
    /\ Goto(h, "reading")
    /\ \E outcome \in {"refused", "dropped"} : Settle(h, outcome)
    /\ UNCHANGED answer

SendBadGateway(h) ==
    /\ pc[h] = "badGateway"
    /\ Goto(h, "closed")
    /\ \E outcome \in {"refused", "dropped"} : Settle(h, outcome)
    /\ UNCHANGED answer
-----------------------------------------------------------------------------
(* The API instances.  An instance answers the requests of a connection in *)
(* order.  It closes a connection it has served before when that one stays *)
(* idle (IdleTimeout) or the request asked for it; a request arriving at   *)
(* that moment is lost.                                                    *)
Serve(c) ==
    /\ link[c] = "open"
    /\ sent[c] # << >>
    /\ ready' = [ready EXCEPT ![c] = Append(@, Head(sent[c]))]
    /\ sent' = [sent EXCEPT ![c] = Tail(@)]
    /\ warm' = [warm EXCEPT ![c] = TRUE]
    /\ UNCHANGED <<running, next, idle, alive, taskVars, link, peer,
                   clientVars, historyVars>>

CloseIdle(c) ==
    /\ link[c] = "open"
    /\ warm[c]
    /\ link' = [link EXCEPT ![c] = "closed"]
    /\ sent' = [sent EXCEPT ![c] = << >>]
    /\ UNCHANGED <<running, next, idle, alive, taskVars, peer, warm, ready,
                   clientVars, historyVars>>

\* A crash resets the connections of the instance: requests are lost, and so
\* are the unread responses unless they had reached our sockets.
Crash(u) ==
    LET cut == {c \in Conn : link[c] = "open" /\ peer[c] = u} IN
    /\ alive[u]
    /\ alive' = [alive EXCEPT ![u] = FALSE]
    /\ link' = [c \in Conn |-> IF c \in cut THEN "closed" ELSE link[c]]
    /\ sent' = [c \in Conn |-> IF c \in cut THEN << >> ELSE sent[c]]
    /\ \E lost \in {{}, cut} :
        ready' = [c \in Conn |-> IF c \in lost THEN << >> ELSE ready[c]]
    /\ calm' = [h \in Client |-> calm[h] /\ pc[h] \in {"closed", "reading"}]
    /\ UNCHANGED <<running, next, idle, taskVars, peer, warm, clientVars,
                   attempts, starts>>

Restart(u) ==
    /\ ~alive[u]
    /\ alive' = [alive EXCEPT ![u] = TRUE]
    /\ UNCHANGED <<running, next, idle, taskVars, connVars, clientVars,
                   historyVars>>
-----------------------------------------------------------------------------
\* What the task of client h does on its own, whatever its peers do.
Task(h) ==
    \/ ReadRequest(h) \/ CloseReading(h)
    \/ AcquireIdle(h) \/ AcquireEmpty(h) \/ Connect(h) \/ ConnectFail(h)
    \/ Write(h) \/ WriteFail(h)
    \/ ReadResponse(h) \/ ReadEof(h) \/ ReadTimeout(h)
    \/ Release(h) \/ Evict(h)
    \/ Respond(h) \/ RespondFail(h) \/ SendBadGateway(h)

Next ==
    \/ \E h \in Client : Accept(h) \/ Task(h)
    \/ \E h \in Client, r \in Request : SendRequest(h, r)
    \/ Exit
    \/ \E c \in Conn : Serve(c) \/ CloseIdle(c)
    \/ \E u \in Upstream : Crash(u) \/ Restart(u)

Spec == Init /\ [][Next]_vars

\* The runtime polls every ready task, and each await of a task ends by its
\* own timeout at the latest.  Clients and API instances owe nothing.
Fairness == \A h \in Client : WF_vars(Task(h))
FairSpec == Spec /\ Fairness
-----------------------------------------------------------------------------
(* Properties.                                                             *)

Holding == {"write", "await", "release"}   \* the task holds a stream
Forwarding == PC \ {"closed", "reading"}   \* the task works on a request

\* The types of the variables.
SharedTypeOK ==
    /\ running \in BOOLEAN
    /\ next \in 0 .. CounterMod - 1
    /\ idle \in [Upstream -> Seq(Conn)]
    /\ alive \in [Upstream -> BOOLEAN]

TaskTypeOK ==
    /\ pc \in [Client -> PC]
    /\ inbox \in [Client -> Request \cup {None}]
    /\ request \in [Client -> Request \cup {None}]
    /\ response \in [Client -> Request \cup {None}]
    /\ first \in [Client -> Upstream]
    /\ offset \in [Client -> 0 .. UpstreamCount]
    /\ stream \in [Client -> Conn \cup {None}]

ConnTypeOK ==
    /\ link \in [Conn -> {"free", "open", "closed"}]
    /\ peer \in [Conn -> Upstream]
    /\ warm \in [Conn -> BOOLEAN]
    /\ sent \in [Conn -> Seq(Request)]
    /\ ready \in [Conn -> Seq(Request)]

ClientTypeOK ==
    /\ status \in [Request -> Status]
    /\ answer \in [Request -> Request \cup {None}]

Attempt == [upstream : Upstream, how : {"pooled", "fresh"}]

HistoryTypeOK ==
    /\ attempts \in [Client -> Seq(Attempt)]
    /\ calm \in [Client -> BOOLEAN]
    /\ starts \in [Upstream -> Nat]

TypeOK ==
    SharedTypeOK /\ TaskTypeOK /\ ConnTypeOK /\ ClientTypeOK /\ HistoryTypeOK

\* Every connection number is in one place: free, held by exactly one task, or
\* in exactly one slot of exactly one pool: no two tasks share a stream, no
\* task holds a pooled one, and no path of forward_once leaks one.
HeldBy(c) == {h \in Client : stream[h] = c}
Slots(c) == {slot \in Upstream \X (1 .. MaxIdle) :
                /\ slot[2] <= Len(idle[slot[1]])
                /\ idle[slot[1]][slot[2]] = c}

ConnsAccountedFor ==
    \A c \in Conn :
        Cardinality(HeldBy(c)) + Cardinality(Slots(c))
            = IF link[c] = "free" THEN 0 ELSE 1

\* A pool holds only connections to its own upstream: release never returns a
\* stream to the pool of the upstream the ticket named, or of a later retry.
PooledWhereTheyLead ==
    \A u \in Upstream : \A c \in Entries(idle[u]) : peer[c] = u

\* A pooled connection carries nothing: no request without its answer and no
\* response nobody read, which the next task to acquire it would take for its
\* own.  (release only after a complete response; every error drops the
\* stream.)
PooledConnsAreClean ==
    \A u \in Upstream : \A c \in Entries(idle[u]) :
        sent[c] = << >> /\ ready[c] = << >>

\* A client never gets the response to another request, whatever the pools,
\* the retries and the timeouts did to the connections in between.
AnswersAreOwn ==
    \A r \in Request : answer[r] \in {None, r}

\* There are never more sockets to an upstream, counting the connects under
\* way, than client connections, whatever the pools have room for: a task
\* connects only after it found the pool empty.  And no pool exceeds MaxIdle.
SocketsBounded ==
    \A u \in Upstream :
        /\ Len(idle[u]) <= MaxIdle
        /\ Cardinality({c \in Conn : link[c] # "free" /\ peer[c] = u})
             + Cardinality({h \in Client : pc[h] = "connect" /\ Target(h) = u})
                <= Cardinality(Client)

\* "Try each upstream once": no request reaches the same upstream twice, and
\* a 502 means every upstream has been tried.
TriesEachUpstreamOnce ==
    \A h \in Client :
        /\ \A i, j \in DOMAIN attempts[h] :
              attempts[h][i].upstream = attempts[h][j].upstream => i = j
        /\ pc[h] = "badGateway" =>
              {attempts[h][i].upstream : i \in DOMAIN attempts[h]} = Upstream

\* While every instance is up, answers in time and accepts connections, a
\* request fails only when each upstream had a pooled socket the API closed:
\* one freshly connected stream is enough for success.
CalmFailureIsStalePools ==
    \A h \in Client : pc[h] = "badGateway" /\ calm[h] =>
        \A i \in DOMAIN attempts[h] : attempts[h][i].how = "pooled"

\* What the comment of forward_with_retry says: stale pooled sockets are
\* evicted on error, so a single attempt per upstream is sufficient.
SingleAttemptSuffices ==
    \A h \in Client : pc[h] = "badGateway" => ~calm[h]

\* Concurrent tasks never take the same ticket: the numbers of requests that
\* started at each upstream differ by at most one.
RoundRobinBalanced ==
    \A u, v \in Upstream : starts[u] - starts[v] \in -1 .. 1

\* A request, once sent, is answered, refused or dropped: the timeouts free
\* every task from an instance or a client that stopped answering.
EveryRequestSettles ==
    \A r \in Request : status[r] = "pending" ~> status[r] # "pending"

\* The load balancer implements the abstract request-reply service: a task
\* that reads is an idle session until a request is on the wire, and works on
\* that request until its await in handle_client is over.
Session(h) ==
    CASE pc[h] = "closed" -> "closed"
      [] pc[h] = "reading" /\ inbox[h] = None -> "idle"
      [] OTHER -> "busy"

Asking(h) == IF inbox[h] # None THEN inbox[h] ELSE request[h]

Service == INSTANCE RequestReply WITH
    session <- [h \in Client |-> Session(h)],
    asking <- [h \in Client |-> Asking(h)]

ImplementsRequestReply == Service!Spec
=============================================================================
