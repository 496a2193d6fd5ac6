----------------------------- MODULE KeepAlive -----------------------------
(***************************************************************************)
(* One client connection after another, seen byte by byte: the loop of     *)
(* handle_client (apps/load-balancer/src/proxy.rs) with read_http_message  *)
(* on both sides, the connections to the upstreams that outlive a client   *)
(* in the pools, and peers that send in pieces, stall, close, pipeline or  *)
(* misstate their lengths.  LoadBalancer has the interleavings of several  *)
(* clients, with a message as one value; here a message is its bytes.      *)
(***************************************************************************)
EXTENDS HttpMessage

CONSTANTS
    UpstreamCount,    \* upstreams.len()
    RequestShapes,    \* the messages clients send ...
    ResponseShapes,   \* ... and upstreams answer
    MaxRequests,      \* bound of the model: requests sent, over all clients
    MaxClients        \* bound of the model: connections, one after another

ASSUME KeepAliveAssumption ==
    /\ UpstreamCount \in Nat \ {0}
    /\ MaxRequests \in Nat /\ MaxClients \in Nat

\* No body is longer than a usize can count.
ASSUME ShapesAssumption ==
    /\ RequestShapes \subseteq Shape /\ ResponseShapes \subseteq Shape
    /\ \A s \in RequestShapes \cup ResponseShapes : s.body <= MaxUsize

VARIABLES
    honest,     \* do peers frame their messages and clients not pipeline?
    pc,         \* where handle_client is
    clients,    \* connections accepted so far
    open,       \* has the client not closed its side?
    toProxy,    \* sent by the client, not read yet
    request,    \* handle_client's two buffers
    response,
    target,     \* the upstream of the attempt under way
    attempt,    \* how many attempts failed
    link,       \* link[u]: the connection to upstream u, in a pool or in use
    silent,     \* has the read under way been waiting for its timeout?
    held,       \* history: timeouts' worth of waiting in this message
    asked,      \* history: the requests sent, and by which connection
    handled,    \* history: the client's bytes in exchanges that are over
    status,     \* history: what became of each request that was read
    answer      \* history: the bytes written to the client for it

clientVars == <<honest, clients, open, toProxy, asked>>
vars == <<clientVars, pc, request, response, target, attempt, link, silent,
          held, handled, status, answer>>

Upstream == 0 .. UpstreamCount - 1
RequestId == 1 .. MaxRequests

Down == [up |-> FALSE, closing |-> FALSE, to |-> << >>, from |-> << >>]
Fresh == [Down EXCEPT !.up = TRUE]

\* The request a buffer begins with.
Subject == Head(request).of

Init ==
    /\ honest \in BOOLEAN
    /\ pc = "closed"
    /\ clients = 0
    /\ open = FALSE
    /\ toProxy = << >> /\ request = << >> /\ response = << >>
    /\ target = 0 /\ attempt = 0
    /\ link = [u \in Upstream |-> Down]
    /\ silent = FALSE /\ held = 0
    /\ asked = << >> /\ handled = << >>
    /\ status = [r \in RequestId |-> "unsent"]
    /\ answer = [r \in RequestId |-> << >>]
-----------------------------------------------------------------------------
(* The clients.                                                            *)
SentHere == {i \in 1 .. Len(asked) : asked[i].client = clients}

Connect ==
    /\ pc = "closed"
    /\ clients < MaxClients
    /\ clients' = clients + 1
    /\ open' = TRUE
    /\ toProxy' = << >> /\ request' = << >> /\ response' = << >>
    /\ handled' = << >>
    /\ silent' = FALSE /\ held' = 0
    /\ pc' = "readRequest"
    /\ UNCHANGED <<honest, asked, target, attempt, link, status, answer>>

\* An honest client waits for each answer before it sends the next request.
Send(shape) ==
    /\ open
    /\ pc # "closed"
    /\ Len(asked) < MaxRequests
    /\ honest => Framed(shape) /\ \A i \in SentHere : answer[i] # << >>
    /\ asked' = Append(asked, [client |-> clients, shape |-> shape])
    /\ toProxy' = toProxy \o Message(Len(asked'), shape)
    /\ UNCHANGED <<honest, clients, open, pc, request, response, target,
                   attempt, link, silent, held, handled, status, answer>>

ClientCloses ==
    /\ open
    /\ open' = FALSE
    /\ UNCHANGED <<honest, clients, toProxy, asked, pc, request, response,
                   target, attempt, link, silent, held, handled, status, answer>>
-----------------------------------------------------------------------------
(* The upstreams: HTTP servers that answer in order, close when they like, *)
(* and give up on a connection whose bytes are not a request.              *)
LengthsOf(header) == {header[i].value : i \in LengthLines(header)}

ServerReads(q) ==
    LET header == SubSeq(q, 1, BodyStart(q))
        values == LengthsOf(header)
        size == IF values = {} THEN 0 ELSE Meaning(CHOOSE v \in values : TRUE)
    IN [valid |-> q[1].kind = "line" /\ Cardinality(values) <= 1
                    /\ \A v \in values : Numeric(v),
        end |-> BodyStart(q) + size]

Peer(u, next) ==
    /\ link' = [link EXCEPT ![u] = next]
    /\ UNCHANGED <<clientVars, pc, request, response, target, attempt, silent,
                   held, handled, status, answer>>

Answer(u, shape) ==
    LET q == link[u].to
    IN /\ ~link[u].closing
       /\ HasHeader(q)
       /\ ServerReads(q).valid
       /\ ServerReads(q).end <= Len(q)
       /\ honest => Framed(shape)
       /\ Peer(u, [link[u] EXCEPT
                    !.to = SubSeq(q, ServerReads(q).end + 1, Len(q)),
                    !.from = @ \o Message(q[1].of, shape)])

Reject(u) ==
    LET q == link[u].to
    IN /\ ~link[u].closing
       /\ HasHeader(q) /\ ~ServerReads(q).valid
       /\ Peer(u, [link[u] EXCEPT !.closing = TRUE, !.to = << >>,
                    !.from = @ \o Message(0, [lengths |-> << >>, body |-> 1])])

\* An idle timeout, or a crash: the tail of what was sent may be lost.
ServerCloses(u) ==
    /\ link[u].up /\ ~link[u].closing
    /\ \E n \in 0 .. Len(link[u].from) :
        Peer(u, [link[u] EXCEPT !.closing = TRUE, !.to = << >>,
                                !.from = SubSeq(@, 1, n)])
-----------------------------------------------------------------------------
(* read_some_timeout: a read of n bytes starts the next timeout, and one   *)
(* that ends the message ends the waiting.                                 *)
Waiting == pc \in {"readRequest", "readResponse"}

RetryWait ==   \* faulty: a read that timed out is started again
    /\ Waiting
    /\ silent' = TRUE
    /\ held' = held + 1
    /\ UNCHANGED <<clientVars, pc, request, response, target, attempt, link,
                   handled, status, answer>>
Wait ==
    /\ Waiting /\ ~silent
    /\ silent' = TRUE
    /\ held' = held + 1
    /\ UNCHANGED <<clientVars, pc, request, response, target, attempt, link,
                   handled, status, answer>>

Rearm(done) == silent' = FALSE /\ held' = IF done THEN 0 ELSE held

(* handle_client reads a request: what arrived after its end stays in the  *)
(* buffer.  A complete one takes the balancer's ticket; other clients take *)
(* tickets too, so it may start at any upstream.                           *)
ReadRequest(n) ==
    /\ pc = "readRequest"
    /\ n \in 1 .. Len(toProxy)
    /\ request' = request \o SubSeq(toProxy, 1, n)
    /\ toProxy' = SubSeq(toProxy, n + 1, Len(toProxy))
    /\ Rearm(Complete(request'))
    /\ IF Complete(request')
       THEN /\ pc' = "forward"
            /\ target' \in Upstream
            /\ attempt' = 0
            /\ status' = [status EXCEPT ![Head(request').of] = "pending"]
       ELSE UNCHANGED <<pc, target, attempt, status>>
    /\ UNCHANGED <<honest, clients, open, asked, response, link, handled, answer>>

\* End of the stream, between messages or within one, or a timeout.
StopReading ==
    /\ pc = "readRequest"
    /\ silent \/ (~open /\ toProxy = << >>)
    /\ pc' = "closed"
    /\ UNCHANGED <<clientVars, request, response, target, attempt, link, silent,
                   held, handled, status, answer>>

(* forward_with_retry clears the response and forward_once takes a pooled  *)
(* connection, or a new one, and writes the whole buffer.                  *)
ClearNothing == UNCHANGED response   \* faulty: a retry appends
ClearResponse == response' = << >>

Forward ==
    /\ pc = "forward"
    /\ link' = [link EXCEPT ![target] =
                    LET c == IF @.up THEN @ ELSE Fresh
                    IN [c EXCEPT !.to = IF c.closing THEN @ ELSE @ \o request]]
    /\ ClearResponse
    /\ pc' = "readResponse"
    /\ UNCHANGED <<clientVars, request, target, attempt, silent, held, handled,
                   status, answer>>

\* Ok(true): the connection goes back to its pool as it is.
ReadResponse(n) ==
    LET c == link[target]
    IN /\ pc = "readResponse"
       /\ n \in 1 .. Len(c.from)
       /\ response' = response \o SubSeq(c.from, 1, n)
       /\ link' = [link EXCEPT ![target].from = SubSeq(@, n + 1, Len(@))]
       /\ Rearm(Complete(response'))
       /\ pc' = IF Complete(response') THEN "respond" ELSE pc
       /\ UNCHANGED <<clientVars, request, target, attempt, handled, status,
                      answer>>

\* connect or write fails, the stream ends, or a timeout: the connection is
\* dropped, clear_idle empties the pool, and the next upstream has its turn;
\* after the last one the client gets a 502 and its connection is closed.
KeepLink == link   \* faulty: the broken connection stays pooled
DropLink == [link EXCEPT ![target] = Down]

OneMore == attempt < UpstreamCount   \* faulty: 0..=upstreams.len()
MoreUpstreams == attempt + 1 < UpstreamCount

AttemptFails ==
    /\ \/ pc = "forward"
       \/ /\ pc = "readResponse"
          /\ silent \/ (link[target].closing /\ link[target].from = << >>)
    /\ link' = DropLink
    /\ attempt' = attempt + 1
    /\ target' = (target + 1) % UpstreamCount
    /\ silent' = FALSE /\ held' = 0
    /\ IF MoreUpstreams
       THEN pc' = "forward" /\ UNCHANGED status
       ELSE pc' = "closed" /\ status' = [status EXCEPT ![Subject] = "refused"]
    /\ UNCHANGED <<clientVars, request, response, handled, answer>>

\* The response is written, and the loop begins anew with cleared buffers.
KeepRequest == UNCHANGED request   \* faulty: request.clear() is missing
ClearRequest == request' = << >>

Respond ==
    /\ pc = "respond"
    /\ answer' = [answer EXCEPT ![Subject] = response]
    /\ status' = [status EXCEPT ![Subject] = "answered"]
    /\ handled' = handled \o request
    /\ ClearRequest /\ response' = << >>
    /\ pc' = "readRequest"
    /\ UNCHANGED <<clientVars, target, attempt, link, silent, held>>

RespondFails ==
    /\ pc = "respond"
    /\ status' = [status EXCEPT ![Subject] = "dropped"]
    /\ pc' = "closed"
    /\ UNCHANGED <<clientVars, request, response, target, attempt, link, silent,
                   held, handled, answer>>
-----------------------------------------------------------------------------
Task ==
    \/ \E n \in 1 .. Len(toProxy) : ReadRequest(n)
    \/ \E n \in 1 .. Len(link[target].from) : ReadResponse(n)
    \/ Wait \/ StopReading \/ Forward \/ AttemptFails \/ Respond \/ RespondFails

Server(u) == Reject(u) \/ ServerCloses(u) \/ \E s \in ResponseShapes : Answer(u, s)

Next ==
    \/ Connect \/ ClientCloses \/ Task
    \/ \E s \in RequestShapes : Send(s)
    \/ \E u \in Upstream : Server(u)

Spec == Init /\ [][Next]_vars
-----------------------------------------------------------------------------
(* Properties.                                                             *)
TypeOK ==
    /\ honest \in BOOLEAN /\ open \in BOOLEAN /\ silent \in BOOLEAN
    /\ pc \in {"closed", "readRequest", "forward", "readResponse", "respond"}
    /\ clients \in 0 .. MaxClients
    /\ target \in Upstream /\ attempt \in 0 .. UpstreamCount
    /\ pc \in {"forward", "readResponse", "respond"} =>
        request # << >> /\ Subject \in RequestId
    /\ pc = "readResponse" => link[target].up
    /\ held \in Nat
    /\ \A r \in RequestId :
        status[r] \in {"unsent", "pending", "answered", "refused", "dropped"}

\* With peers that frame their messages and a client that waits its turn, what
\* is written to a client is exactly one response, whole, to its own request:
\* however the bytes are cut up, whatever an earlier attempt had already read
\* and an earlier client left behind (proxy.rs:48, :72, :126).
OwnWholeAnswers ==
    honest => \A r \in RequestId : answer[r] # << >> =>
                \E s \in ResponseShapes : answer[r] = Message(r, s)

\* Under the same conditions a connection that waits in a pool carries nothing
\* in either direction, and the one in use only what belongs to the request
\* under way: a message read short of its end would leave its tail there
\* (proxy.rs:112-116, :143-144).
PooledStreamsAreEmpty ==
    honest => \A u \in Upstream :
        \A i \in 1 .. Len(link[u].to \o link[u].from) :
            /\ pc = "readResponse" /\ u = target
            /\ (link[u].to \o link[u].from)[i].of = Subject

\* Any client: its bytes are in the exchanges that are over, in the request
\* buffer and in the socket, in order, none lost and none twice. So the bytes of a
\* pipelined request that were read with the one before went upstream with
\* it, though request.clear() forgets them (proxy.rs:53).
BytesSent(i) == IF i \in SentHere THEN Message(i, asked[i].shape) ELSE << >>
BytesConserved ==
    pc # "closed" =>
        handled \o request \o toProxy
            = FlattenSeq([i \in 1 .. Len(asked) |-> BytesSent(i)])

\* Any peer: nothing is forwarded or answered before the length its sender
\* announced has been read, even one that no usize holds (proxy.rs:137-144, :235).
Whole(out) ==
    /\ HasHeader(out)
    /\ LET header == SubSeq(out, 1, BodyStart(out))
       IN LengthLines(header) # {} /\ Numeric(Announced(header)) =>
            Len(out) >= BodyStart(out) + Meaning(Announced(header))
NeverActsOnAPart ==
    /\ pc \in {"forward", "readResponse", "respond"} => Whole(request)
    /\ pc = "respond" => Whole(response)

\* A peer holds the task for at most one timeout per byte it has sent, plus one:
\* the timeout is per read, not per message (proxy.rs:158-168).
HeldByBytesOnly ==
    /\ pc = "readRequest" => held <= Len(request) + 1
    /\ pc = "readResponse" => held <= Len(response) + 1

\* With honest peers the bytes make no difference: the loop implements the
\* service that LoadBalancer, with whole messages, implements too.
Busy == pc \in {"forward", "readResponse", "respond"}
Service == INSTANCE RequestReply WITH
    Client <- {1}, Request <- RequestId, None <- 0,
    session <- <<IF pc = "closed" THEN "closed"
                 ELSE IF Busy THEN "busy" ELSE "idle">>,
    asking <- <<IF Busy THEN Subject ELSE 0>>,
    status <- status,
    answer <- [r \in RequestId |->
                IF answer[r] = << >> THEN 0 ELSE answer[r][1].of]
ImplementsService ==
    /\ honest => Service!Init
    /\ [][honest => Service!Next]_(Service!vars)
=============================================================================
