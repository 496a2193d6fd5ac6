# Heindall in TLA+

Heindall scores card transactions for fraud. A Rust load balancer
(`apps/load-balancer`) spreads HTTP requests over two Go API instances
(`apps/api`); an instance turns a request into a 14-dimensional vector and
counts the frauds among its five nearest references with an inverted-file (IVF)
index that a preprocessing command built. This directory models the parts of it
whose behaviour is hard to see from tests, checks them with TLC on small
instances, and proves theorems about them with TLAPS for all instances.

Run one instance with `tlc -config lb_safety.cfg MCLoadBalancer.tla`, check the
proofs with `tlapm LoadBalancerProofs.tla`, one call for each module of section 9.
`PROJECT.json` lists the runs, the
source lines behind every definition, the hazards, and for every property a
faulty variant of the code that it catches (the definitions marked "faulty").

## 1. Inventory

| Component | State | Operations | Interacts with | What is hard |
|---|---|---|---|---|
| Round-robin balancer (`round_robin.rs`) | one atomic counter | `next` | every connection task | concurrent tickets, wrap-around |
| Upstream pools (`upstream.rs`) | per upstream a bounded stack of idle streams behind a mutex | `acquire`, `release`, `clear_idle` | connection tasks, sockets | sharing, leaks, stale sockets, the full pool |
| Proxy (`proxy.rs`) | per client connection: request, response, the stream held, the attempt | `serve`, `handle_client`, `forward_with_retry`, `forward_once` | balancer, pools, clients, API instances | every await is an interleaving point; timeouts, retries, failures at each |
| HTTP framing (`proxy.rs`) | the bytes read so far, one buffer each way | `read_http_message`, `parse_content_length`, `find_header_end` | sockets, pooled streams | partial reads, pipelined or misstated lengths, what an attempt leaves in a buffer or a stream |
| Scoring handlers (`handlers.go`) | `sync.Pool` of body buffers | `FraudScoreRaw`, `ReadyRaw` | net/http goroutines, score service | buffers shared by goroutines, error paths |
| Vectorisation (`vectorize*.go`) | none | `VectorizeJSONQuantized` | handler, search | a scanner that does not parse, a search in text, civil dates |
| IVF search (`ivf_search.go`, `quantized.go`) | five best slots, probe mask, decisions so far | `Search5Quantized` | index | ties, pruning, repeated widening |
| IVF build (`ivf_build.go`) | none, a function | `BuildIVFIndex` | preprocessing | balanced splits, rounding, boxes |
| Index file (`binary_index*.go`) | a file, mapped into memory | write, validate, map | preprocessing, server start | crash while writing, malformed files, a file rewritten while it is loaded |
| Server, health check, deployment (`server.go`, `healthcheck/main.go`, `docker-compose.yml`) | processes, sockets in a shared volume, health states | start, listen, check, start the balancer | index file, load balancer | start order, deaths on the way, sockets left behind |
| Configuration, `evaluate`, `pprof` | the environment | read, report | server | little |

What makes each correct: the balancer gives out each ticket once; a pool never
shares or leaks a stream, and what it holds is unused and leads to its
upstream; the proxy gives each client its own answer or an error, tries each
upstream once, and never waits for ever; a handler scores the bytes of its own
request, all of them, and returns its buffer once; a search ends, and finds the
nearest of the rows it looked at, or of all rows after a repair; a message is
acted on when all of it is there, and nothing of it stays in a stream; an index
is served only when the search cannot leave it; the balancer starts last; a
vector has the coordinates of the request, however the document is written.

## 2. Modules and plan

Written, in this order:

1. `RoundRobin`, `UpstreamPool`, and `LoadBalancer`, which composes them with
   the tasks, the sockets, the API instances and the clients;
   `RequestReply`, the abstract service it implements.
2. `IVFBuild` (operators) and `IVFSearch` (a state machine), which
   `MCIVFSearch` composes: the searches run over indexes the build produces.
3. `BodyPool`: concurrent handlers and the buffer pool.
4. `HttpMessage` (operators on bytes) and `KeepAlive`: one client connection
   after another, byte by byte. It implements `RequestReply` too, which is what
   lets `LoadBalancer` treat a message as one value.
5. `IndexFile` (layout, loaders, writer; it uses `IVFBuild` for the splits and
   the settings) and `Startup`, which composes it with the processes, the
   sockets, the health check and the start of the load balancer.
6. `Vectorize`: requests, the scanner and the vector, on a calendar.
7. The proofs: `LoadBalancerProofs`, `HttpMessageProofs` and `KeepAliveProofs`
   for the bytes, `BodyPoolProofs`, `StartupProofs` (the index file too),
   `IVFSearchProofs`, `VectorizeProofs`; `FoldLemmas` has what several of them
   need about sets of numbers and folds.

Left: properties of `IVFBuild` alone (the lists are a partition of the references,
which would discharge `ListsAssumption` and `VectorsAssumption` for the indexes
it builds, and `SplitSizes` for every depth).

## 3. The load balancer

`LoadBalancer` has one task per client connection (`Client`). `pc[h]` names the
await the task is at, and an action is the code from one await to the next,
since nothing else of the program can observe a task in between:

| `pc` | The task waits in | Actions that leave it |
|---|---|---|
| `closed` | no connection | `Accept` |
| `reading` | `read_http_message` of the client | `ReadRequest` (takes the round-robin ticket as well), `CloseReading` (end, error or timeout) |
| `acquire` | the pool's mutex | `AcquireIdle`, `AcquireEmpty` |
| `connect` | `connect` under its timeout | `Connect`, `ConnectFail` |
| `write` | `write_all` of the request | `Write`, `WriteFail` |
| `await` | `read_http_message` of the upstream | `ReadResponse`, `ReadEof`, `ReadTimeout` |
| `release` | the pool's mutex | `Release` |
| `evict` | the mutex of `clear_idle` | `Evict` (then the next upstream, or the error) |
| `respond`, `badGateway` | `write_all` to the client | `Respond`, `RespondFail`, `SendBadGateway` |

`Exit` is `serve` returning the error of `accept` or `set_nodelay`: the
process ends and takes every task, stream and pool with it. `SendRequest` is a
client; `Serve`, `CloseIdle`, `Crash` and `Restart` are the API instances. A
connection (`link`, `peer`, `warm`, `sent`, `ready`) is both ends of a socket:
an instance answers in order, may close a connection it has served once when it
stays idle — a request arriving at that moment is lost — and may crash. A
timeout may fire at any moment, also when the data is already on its way.

Abstractions: a message is the identity of its request and is read and written
as a whole; clients do not pipeline; every response carries a Content-Length,
as those of the API's own handlers do. Under these conditions the bytes make no
difference, which is what `ImplementsService` of `KeepAlive` (section 6) shows. Each request is sent once; which
requests fail then says all that retries by clients could. A new connection
gets the lowest free number, so that numbers do not multiply the states.

`attempts`, `calm` and `starts` are history, read only by properties: the
attempts made for a request, whether anything but idle closing went wrong since
it was read, and how many requests started at each upstream.

Runs:

| Run | Instance | Shows |
|---|---|---|
| `lb_safety` | 2 clients, 2 upstreams, 3 requests, pools of 1 | `TypeOK`, `PooledWhereTheyLead`, `PooledConnsAreClean`, `AnswersAreOwn`, `CalmFailureIsStalePools`, `RoundRobinBalanced`, `ImplementsRequestReply` |
| `lb_pool` | 3 clients, 1 upstream, pool of 2 | `ConnsAccountedFor`, `SocketsBounded`: three releases contend for two slots |
| `lb_liveness` | 2 clients, 3 upstreams, 2 requests | `TriesEachUpstreamOnce`, `EveryRequestSettles` |
| `lb_stale` | as `lb_safety` | refutes `SingleAttemptSuffices` |

The bounds: two clients suffice for every race on a stream or a pool of one,
the third client in `lb_pool` is for the full pool of two; three requests
let a pooled stream be used, go stale and be used again; two upstreams make a
retry reach the other pool, three tell "the next one" from "the other one".
`Conn` has a number for every socket that can be open at once
(`SocketsBounded` shows it: at most one per client and upstream); `Connect`
would be disabled with none free. In `lb_safety` `CounterMod = 2` wraps at every
second ticket, so that the third request starts at the first upstream again; two
upstreams divide the modulus there as they divide 2^64. What holds for others is
in `TicketsAreBalanced` (section 9): balance as long as the counter has not
wrapped.

Fairness: `WF_vars(Task(h))` for each task and nothing else. The runtime polls
every ready task, and every await of a task is inside a `timeout` or behind a
mutex that is never held across an await. Clients and instances may do nothing
at all; `EveryRequestSettles` then rests on the timeouts.

`SingleAttemptSuffices` states the comment at `proxy.rs:76`: evicting stale
sockets on error makes a single attempt per upstream sufficient. It is not:
the eviction comes after the attempt that failed, so a request whose attempts
all meet a socket the API closed (its `IdleTimeout` is 30 s) ends in a 502
while every instance is up. `CalmFailureIsStalePools` is what does hold: this
is the only way a request fails while nothing else goes wrong.

## 4. The search

`IVFSearch` is `searchIVF` as a state machine: `Rank`/`RankEnd` are
`topIVFCentroids`, `ProbeNext`/`ScanRow` the probing loops with
`scanIVFList`, `ProbeEnd` and `RepairEnd` the decisions between them
(`Conclude` is the second half of `searchIVF`), `RepairNext` is `repairIVF`.
`stage` names the expansion under way: the base probes, the wide ones of an
ambiguous count, or those of the special classes. The predicates
`needs...Repair` look at coordinates of the query; what they can answer
together is `Classes`, chosen independently of the vector, a superset of what
occurs. `scan` chooses between full distances and the scalar code's early
return. The initial states range over indexes, queries and classes; from there
the search is deterministic. What an index must satisfy for the search to be
right is stated as assumptions; TLC evaluates them on the indexes `IVFBuild`
builds.

`IVFBuild` is `BuildIVFIndex` as operators. The variances are compared as
exact integers, where the code compares `float64` values. The layout of rows
in blocks of eight and the file are left out.

| Run | Instance | Shows |
|---|---|---|
| `ivf_search` | two sets of 12 references in the plane, 4 clusters, 6 settings, 16 queries, all classes, both scans | `BestOfOffered`, `DistancesOfOffered`, `RepairIsExact`, `ProbedAreNearest`, `DecidedDeep`, `Terminates` |
| `ivf_twice` | the same | refutes `NeighboursAreDistinct` |
| `ivf_scalar_ties` | the same | refutes `ScanMatchesFullDistances` |

One data set is spread out, so that the boxes are large and overlap; the other
is dense, so that rows and centroids tie. A cluster holds fewer rows than the
five slots, so that widening and repair start from full and from unfilled
slots, and `MaxIVFProbe = 3` is below the number of clusters as 128 is below
8192. Fairness is `WF_vars(Next)`: the search is sequential code. These runs
stop when the search is done (`CHECK_DEADLOCK FALSE`).

`NeighboursAreDistinct` is the README's "5 nearest neighbors".
`repairIVF` does not mark what it scans as probed; for the approval- and
denial-repair classes another expansion follows, offers those rows again, and
`insert` lets a reference take two slots. `BestOfOffered` and
`RepairIsExact` hold up to there (`Rescanning`).
`ScanMatchesFullDistances` is what the tests demand of the two scans: the
scalar one returns the first partial sum that reaches the cutoff, and when that
sum equals the cutoff, a smaller id lets the row displace the fifth one although
it is farther away. The distances in the slots come out right all the same
(`DistancesOfOffered`), the labels may not.

## 5. The body buffers

`BodyPool` runs several requests through `readRequestBodyWithPool` and
`FraudScoreRaw`, with the checks before reading, the pooled and the unpooled
path, bodies of unknown length with and without a limit, errors while reading,
invalid bodies and panics while scoring. A byte is the request it belongs to,
so that what is scored shows where it came from. `sync.Pool` may return any
buffer it holds or a new one and may drop buffers at any time (`Collect`).

`body_pool` checks three requests, three buffers and the four kinds of limit
(none, zero, pooled, too large to pool): `TypeOK`, `BufferInOnePlace`,
`ScoresOwnBody`, `StatusTellsBody`. Bodies are at most three bytes long (`MaxLength`), one more
than the pooled limit, which is enough for bodies below, at and above it.
Requests are handled once, so the system stops (`CHECK_DEADLOCK FALSE`).

## 6. The bytes of a connection

`HttpMessage` is what `read_http_message` makes of bytes: where the headers
end, the first Content-Length, a parse that saturates, and the condition of
its loops (`Complete`). A stream is a sequence of units (a header line, the two
halves of the blank line, a byte of a body), each of which knows the request it
belongs to.

`KeepAlive` is `handle_client` with both buffers over such streams. `ReadRequest`
and `ReadResponse` take any number of the units that have arrived; `Wait` is
one timeout's worth of silence, after which `StopReading` or `AttemptFails` may
give up; `Forward` writes the whole buffer to the pooled connection or a new
one; `AttemptFails` drops it and goes on to the next upstream. Clients send
several requests, may close at any moment, and new clients come after old ones
while the connections to the upstreams stay. A server answers what it can parse,
rejects what it cannot, and may close with the tail of its bytes lost.

There is one client at a time and one connection to each upstream, since
sharing is `LoadBalancer`'s subject; which upstream a request starts at is
free, as other clients take tickets too. `honest` is chosen at first: peers
that state the lengths they send, and clients that wait for their answer. The
code does not check either. A client that pipelines has its second request
forwarded with its first, in one write (`proxy.rs:53`), and the second answer
is left in the pooled stream; a response whose length is not stated counts as
complete after its headers. Both happen in the model, and no property is made to
catch them, since the code does nothing against either: what speaks of streams
and answers holds for honest peers only, the rest for any, and `BytesConserved`
counts the forgotten request as given up:

| `keep_alive` checks | Of |
|---|---|
| `OwnWholeAnswers`, `PooledStreamsAreEmpty`, `ImplementsService` | honest peers: any cut of the bytes, any stall, close or retry in between |
| `BytesConserved`, `NeverActsOnAPart`, `HeldByBytesOnly` | any peers |

Bounds: two upstreams make a retry append, or not, to what the first attempt
read; two requests and two clients let one leave something behind for the next.
The largest integer is 15, so that the length 17, which wraps to 1, needs two
digits only. Requests have no body, one byte, one byte announced twice (once
wrongly), or a length that is no number; responses one byte, with its length or
without. What each client asked for is recorded with its shape, so that
`BytesConserved` can name every byte it has sent. The peers may stop altogether (`CHECK_DEADLOCK FALSE`), and no
liveness is claimed here: `EveryRequestSettles` has it for whole messages, and
`HeldByBytesOnly` bounds the waiting within one.

## 7. The index file and the start

`IndexFile` gives an index its shape: version, counts, offsets, settings. A
vector is only the bytes it takes. `Sections` is the layout; `HeapAccepts` is
the loader that reads section by section, `MmapAccepts` the one that computes
two sizes, `ValidOffsets` is `validateIVFOffsets`, `SetIVFSearch` the settings
of the file, normalised as the index is made, and those of the environment over
them, normalised again, and `Written` what preprocess writes. A file without
rows that ends with its sections is where the loaders differ: one reads nothing
more, the other takes the address of the byte that is not there
(`&data[pos]`, `binary_index_linux.go:118`) and panics (`FirstByteThere`).
`RowsOrMore` names this one file as the exception of `LoadersAgree`, and of what
`ServiceComesUp` takes for a sound one. `InBounds` says what nothing checks any more during a search: the rows,
blocks and bits it will follow.

`Startup` has the file, `preprocess` writing it in place section by section and
dying in between, API instances that open, map, check, listen, chmod and serve,
the health check, and the load balancer that starts after it. The header comes
from the file and the rest through a mapping made later, all of whose pages are
touched once (`Preload`). The mapping shows what is written in the meantime: zeros
between the end of a file that has become shorter and the end of its last page,
a fault behind that (`Readable`, `AsRead`). `Load` looks at the headers and the
offsets only, as the code does, so that a file truncated after the preload may
still be accepted. Of a file replaced by one in another version's format the
offsets are other bytes: any that would be accepted, or none (`Seen`). A process
may be killed at any moment; its socket file stays. `net.Listen` fails where
there is a socket, and `log.Fatalf` ends the process (`Bind`), as a panic, a
fault or a refused file does (`Refuse`): a process that has ended itself is
`Stopped`, one that was killed `Killed`, and `StaleSocketsDoNotStop` asks that a
loaded instance serves unless it is killed.

| `startup` checks | |
|---|---|
| `LoadedIsWholeAndInBounds`, `ProbesFitClusters` | what an instance serves from, whatever was in the file |
| `LoadersAgree`, `WrittenFilesLoad` | one layout in writer and two loaders |
| `BalancerFindsServers`, `ServiceComesUp`, `StaleSocketsDoNotStop` | the order of the start, that it ends, and sockets left behind |

Bounds: one dimension, two rows to a block, a probe mask of two words of two
bits, so that four clusters fit and eight do not; an index of three rows in two
lists, in the formats of every version and of a wrong one, whole, one byte
short, cut after each section, with each offset wrong in turn and without probe
settings; one of no rows in every format, with and without a byte more. A page
is 64 bytes, so that the files have several. There are two instances and two
runs of a program (`MaxRuns`): both instances start, or one starts, is killed and
comes back, or one loads, before, during or after a run of preprocess, with
options that give two clusters, four, eight (which the mask has no room for) and
an error. Loads do not interfere with each other, only with the writer, and one
socket left behind needs one death and one return, so more runs meet nothing new.

Fairness: `WF_vars(StartsUp(a))` (a started process runs on, and compose starts
it), `WF_vars(HealthCheck(a))` (compose repeats it for ever) and
`WF_vars(StartLoadBalancer)`. Nothing has to die, and preprocess need not run or
end. `ServiceComesUp` claims the start only for a sound file and when nothing
dies or rewrites it. After the bounds are used up nothing may be enabled but
health checks (`CHECK_DEADLOCK FALSE`).

Abstractions: `SOCKET_PATH` is set, as in the deployment; the retries of the
health check keep its last result; magic, dimensions and scale are right. The mapping is of the file, so that preprocess run against an index in
use changes it under the searches: nothing in the code prevents that, and the
properties speak of the index as it was loaded.

## 8. Vectors

`Vectorize` takes a request as a sequence of tokens, keys and values, with its
objects and fields in any order and some left out, and follows
`VectorizeJSONQuantized` through it: fields are found by the first occurrence
of their key behind their object's, the merchant's id is searched for as text
in the list of known merchants, dates are computed without a library. Each day
of the calendar is a state, and a request arrives on one of them.

`bytes.Index` finds a quoted name wherever it stands, so a token's name is a
sequence of symbols whether it is a key or a text (`Reads`): a merchant called
`mcc` is found by the search for the key, a list entry `merchant` moves the
object's start into the list, and the list's section ends at the first bracket,
also one within a name (`KnownMerchantJSON`). `Ordinary` says what the scanner
takes for granted of a request's texts: none is a name it searches for, the list
holds no bracket, and the merchant's id is neither the punctuation around the
list's texts (`,`, or `:[` behind the key) nor empty without being listed. The
properties are about such requests; the requests of the runs have texts of both
kinds. What happens to the others `vectorize_texts` shows, for which a calendar
of two days is enough.

| Run | Property | |
|---|---|---|
| `vectorize` | `DaysAreCounted` | the date arithmetic against a calendar that counts day by day, 3 x 1200 days from 1970-01-01, and over the ends of February 2000 (leap) and 2100 (not) |
| | `JSONMatchesStruct` | the coordinates are those of the fields, whatever their order |
| | `KnownMerchantIsInList` | the search in text against membership, all ids and lists of up to two short names, the empty one included |
| | `MinusOneMeansNoHistory`, `MissingFieldIsNoticed` | the two ways to tell that something is not there |
| `vectorize_texts` | refutes `EveryRequestMatchesStruct` | an empty id that is not listed: the search for it runs past its section and panics |

`EveryRequestMatchesStruct` fails in a second way, which the run shows when
empty ids are left out: a merchant id `mcc` is read as the key, and the risk is
that of an unknown code.

A coordinate is the exact quotient, rounded, where the code computes in
`float64`; digits of numbers and characters of timestamps are not modelled, and
timestamps are complete and in UTC, the form the API documents. Texts hold no
quotes (escapes, which the scanner does not know either), are written without
blanks between them, and other than timestamps have fewer than 20 characters, so
that the length check tells the two apart. Dates before 1970 are left out.
`MissingFieldIsNoticed` exempts a name that a later object may have too
(`avg_amount`, `id`), which is then read there, and `known_merchants`, without
which the merchant counts as unknown. The calendar ends (`CHECK_DEADLOCK FALSE`).

## 9. What is proved
Every theorem rests on the named assumptions on the constants, and on the
hypotheses its statement names, and on nothing else. For the load balancer the
assumptions are: at least one upstream, a positive counter modulus, connection
numbers and a capacity that are naturals, finitely many clients
(`ClientAssumption`), `None` neither a request nor a connection.

Induction. The induction theorems of the library take the statement as a
parameter, which the provers cannot instantiate, and the code's loops are folds
in the models. `FoldLemmas` gets round this: every set of natural numbers has a
least element (`Least`, from `WFMin`), so a set that has 0 and the successors of
its members has them all (`Induction`), and an induction is about the set of
numbers for which the statement holds. From it follow what `FoldLeft` computes,
step by step (`FoldExists`), the sums of the first elements (`SumByElement`,
`PartialSums`), and that a recursive function has a value (`Recursion`).

`LoadBalancerProofs` begins with the types:

- `TypeCorrect == Spec => []TypeOK`. `TypeOK` is not inductive: the next
  attempt stays below `UpstreamCount` and a read on `stream[h]` has a
  connection only because of where the task is. `LocalsOK` says so, and
  `TypeInv == TypeOK /\ LocalsOK` is inductive (`InitTypeInv`, `NextTypeInv`,
  one step per action, under it one per group of variables the action touches).

Then what the upstream connections carry:

- `PoolsLeadHome`, `PoolsAreClean`: `[]PooledWhereTheyLead`,
  `[]PooledConnsAreClean`. The invariant is `ConnInv`: the stream of a task
  leads to the upstream of its attempt and carries at most the task's own
  request or its response (`HeldOK`; clean before the write and after the
  read); a pooled connection leads to its pool's upstream, is clean, is held by
  no task and sits in one slot (`PooledOK`); no two tasks hold one stream
  (`HeldOnce`); a free number carries nothing (`FreeAreClean`). Neither theorem
  is inductive alone: a pool stays clean because the stream released into it
  was its task's alone, and that holds because it came out of a pool in which
  it was once. `LocalStep`, `PeerStep`, `StreamStep` and `DropStep` carry the
  invariant through the four kinds of steps; acquire, connect, release and
  `clear_idle` have lemmas of their own.
- `AnswersStayOwn`: `[]AnswersAreOwn`. `AnswerInv` adds that past the read a
  task's response is the answer to its request, which `ReadResponseConn` gets
  from `ConnInv`: nothing else was on the stream.

- `EveryConnHasOnePlace`: `[]ConnsAccountedFor`. `AccountInv` adds that a pool
  never exceeds its capacity and that an open connection is in a pool or with a
  task; that it is in no two of these places is `ConnInv`'s.

The refinement is `ImplementsService == Spec => ImplementsRequestReply`, with
the mapping of `LoadBalancer`: `InternalStep` (forwarding is a stutter of
the service), `SettleStep` (an outcome is `Finish`), `NextService` (one step
per action), with `AnswerInv` for the one step that gives an answer. `TypeInv`
gives the session of each position (`SessionOf`).

Last, what `forward_with_retry` does:

- `EachUpstreamOnce`: `[]TriesEachUpstreamOnce`. `TriedInv` says which
  attempts a task has begun at each position and that the i-th went to the i-th
  upstream from the first on; that these are different upstreams is arithmetic
  on remainders (`RemainderTwice`, `RowOfUpstreams`).
- `FailuresAreStalePools`: `[]CalmFailureIsStalePools`. `FreshInv` follows a
  calm request's connection: a new one is open and has served nothing until the
  response is on it, so that its failure cannot be an idle closing.
- `SocketsStayBounded`: `[]SocketsBounded`. A socket that is being made is not
  accounted for yet, so `SocketInv` counts, for each upstream, the connections
  and the tasks in `connect` together: never more than there are clients.
  `ConnsAreHeld` maps connections to their places one to one.
- `TicketsAreBalanced`: `[]RoundRobinBalanced`, if the upstreams divide the
  modulus of the counter (two of them divide 2^64) or there are fewer requests
  than the modulus (`NeverWraps`). Without one of the two it is false: a counter
  that wraps from 2^64 - 1 to 0 gives one of three upstreams two tickets in a
  row. `TicketInv` says of each upstream how many requests it has started,
  from the counter: those behind its remainder one more (`Ahead`), and the
  tickets drawn never outnumber the requests taken.

`HttpMessageProofs` is about a message: a prefix of it that has the end of the
headers has all header lines (`HeaderRead`), `parse_usize` gives the number that
is meant, or the largest usize if it is larger (`ParseSaturates`, an induction
over the digits), and the prefix of a framed message is `Complete` only when it
is the whole message (`CompleteAtTheEnd`).

`KeepAliveProofs` proves all seven properties of `KeepAlive`, for any number of
upstreams, clients and requests, any width of an integer and any shapes of
messages (`KeepAliveAssumption`, `MaxUsizeAssumption`, `ShapesAssumption`: a
body is not longer than a usize can count). Of any peers:

- `Types`: `[]TypeOK`. `TypeInv` adds `Underway`: while a request is forwarded
  there is an upstream to try and a request in the buffer, and what is in the
  buffers was sent by a client.
- `HoldingTheTask`: `[]HeldByBytesOnly`. `Held`: one more timeout than bytes
  only while a read is waiting, which ends with a byte or with the task.
- `WholeMessagesOnly`: `[](BuffersFit => NeverActsOnAPart)`. `Finished` is
  inductive: past a read the buffer was `Complete`. That it then has all the
  bytes announced is `ParseSaturates`; a length that saturates can only be
  reached by a buffer of more bytes than a usize counts, which `BuffersFit`
  excludes, as `Vec` does.
- `NoByteLost`: `[]BytesConserved`. `Conserved` is the property, with lemmas on
  `FlattenSeq`: a request that is sent appends its message to what was sent,
  and reads and forwards move the cut between the parts of one sequence.

Of honest peers:

- `WholeAnswers`, `PooledStreams`: `[]OwnWholeAnswers`,
  `[]PooledStreamsAreEmpty`. `Orderly` follows one exchange through both
  buffers: what the client has sent and is owed (`Framing`, `Incoming`), and
  that the connection in use carries the request, nothing because the upstream
  is gone, or the rest of an answer whose beginning is in the response buffer,
  while all others are quiet (`Outgoing`). `CompleteAtTheEnd` makes reading stop
  exactly where the message ends.
- `ServiceImplemented`: `Spec => ImplementsService`, one step per action:
  forwarding, failing and reading on are stutters of the service, the rest its
  actions (`ServiceForwards`, `ServiceReads`, `ServiceAnswers`).

The proof corrected the model. `CompleteAtTheEnd` is false of a message with
two Content-Length lines of which only one tells the body's size; `Framed` had
let it pass, and the bounds of the run never met it. `Framed` now asks for equal
lengths, as RFC 9112 does.

`BodyPoolProofs` proves all four properties of `BodyPool` (`BodyTypes`,
`BufferHasOnePlace`, `BodyIsOwn`, `StatusIsTrue`), for any number of requests
and buffers and any limits (`LimitsAssumption`, `LengthAssumption`,
`NoBufferAssumption`). None is inductive alone: `BodyInv` says of each position
of the handler how many bytes have come, that the buffer holds them up to there
and has the length the limit asks for, and that requests which hold a buffer
hold different ones (`Buffers`, `Stage`, `Outcome`).

`StartupProofs` begins with the operators of `IndexFile`.
`ValidatedIndexIsInBounds`: offsets that pass `ValidOffsets` keep rows, blocks
and probe bits in bounds. The code compares neighbours only; that everything in
between is ordered (`MonotoneOffsets`) and that every row is in a list
(`RowsAreListed`) take an induction. `AcceptedMappingIsWhole`: what `MmapNeed`
adds up is the layout. `LoadersTakeTheSame`: `MmapAccepts` is
`HeapAccepts` with `RowsOrMore`, for every index and length. One asks at each
section whether the file reaches its end (`SectionsEnd`), the other compares
sums (`SizesAddUp`, `MappingIsWhole`); an index without rows has no blocks
(`NoRowsNoBlocks`), so that its file ends where the byte is missing.

It then follows `Startup`, for any instances, files, settings and sizes
(`StartupAssumption`, `IndexAssumption`):

- `LoadedIndexIsSafe`: `[]LoadedIsWholeAndInBounds`, and `LoadedProbesFit`:
  `[]ProbesFitClusters`. `LoadInv` says of each process that its header is one a
  file may have (`HeaderOK`) and of a loaded one that its index passed the checks
  (`Safe`). It says nothing of the file as it is now: what is read of a file that
  was cut or replaced meanwhile is an index again (`AsReadIs`, `SplitsAre`,
  `ReadIs`, `SeenAreIndexes`), and `ValidOffsets` does the rest.
- `LoadersAlwaysAgree`: `[]LoadersAgree`, from `LoadersTakeTheSame` and the
  types in `LoadInv`.
- `WrittenIsLoaded`: `[]WrittenFilesLoad`. `WriteInv`: once preprocess has run,
  the file is of its making. What it makes is valid for any number of
  references and clusters asked for: the halving loop ends with parts that add
  up (`DepthType`, `SplitTypes`, by induction over the depth), so that the list
  offsets are in order and end at the count (`OffsetsAre`) and each list has the
  blocks its rows need (`BlockOffsetsAre`); `ProductsFit` puts it together.
  `SplitSizes` gives the sizes of the parts without the rows; that they are
  those of `BalancedSplit` is an assumption of `MCIVFSearch` that TLC evaluates.
- `BalancerStartsLast`: `[]BalancerFindsServers`. `ServeInv`: while nothing
  dies, a healthy instance serves, and goes on serving.

`IVFSearchProofs` proves the five safety properties of the search, for any
number of neighbours, probes, clusters and coordinates, any query, and any
indexes that meet the assumptions of `IVFSearch`: lists that have each row once
and an id of its own for each row (`ListsAssumption`, `RowsAssumption`), rows
within the box of their cluster (`VectorsAssumption`), no distance as large as
the sentinel's. Sums over the coordinates and ranks are followed with the least
number principle (`Least`).

- `SlotsAreNearestOffered`, `DistancesAreNearestOffered`: `[]BestOfOffered`,
  `[]DistancesOfOffered`. The properties speak of a ranking by cardinality, the
  code of an insertion; between them stand two invariants of the slots.
  `ExactSlots` (AVX2): sorted, and whatever they lack is not less than the last
  slot. `NearSlots` (scalar): the same for what is strictly nearer than the last
  slot, and K rows are within its distance, so that an entry cut short, which
  only ties with it, changes no distance. `OfferExact` and `OfferNear` carry
  them through an offer, `ExactSlotsAreNearest` and `NearSlotsAreNearest` give
  the ranking. `ScanInv` adds which rows were offered: those of the clusters
  covered, each once, which is what fails after a repair that is followed by
  another expansion (`~Rescanning`).
- `RepairFindsNearest`: `[]RepairIsExact`. The box of a cluster is never farther
  than its rows (`BoxIsNearer`), the cutoff never nearer than the last slot, and
  rows beyond the last slot change nothing (`FarEntries`).
- `ProbesNearestFirst`, `RepairClassesAreDecidedDeep`: `[]ProbedAreNearest`,
  `[]DecidedDeep`. `RankInv`: the ranking holds the nearest of the centroids
  passed, in order (`RankOne`, `InsertInOrder`), and what is left to probe is its
  tail, so that each list probed is the nearest one not probed.

`VectorizeProofs` proves all five properties of `Vectorize`. The calendar first:

- `CalendarIsCounted`: `[]DaysAreCounted` for a calendar that never ends and
  begins on any days that it reaches from the epoch (`Beginning`). A date is days
  after a first of March (`CountFromMarch`), a year from March to March has 366
  days exactly if it ends in a leap year (`YearLength`), and so the day after a
  date is counted one higher (`FollowingCounted`).

The others are about clients that send requests, on any day of the calendar
(`Clients`): with times since the epoch, whole numbers of any size, a list of
any length with ids of any length and any characters but quotes, objects and
fields in any order, and one field or none left out (`IsRequest`). Those of
`MCVectorize` are of this kind. Texts that are key names may occur in them; the
properties, and so the theorems, speak of the `Ordinary` ones, and `NoNames` is
what the proofs take from that.

- The scanner searches for keys. A document is its parts one after the other
  (`DocumentIs`), each with its own keys once (`WrittenIs`). A key is found where
  it is meant if no other part has one of its name, or if the search begins at
  its own object (`FoundAnywhere`, `FoundInObject`, both from `FoundInPiece`);
  nothing is found in a document that lacks it (`NowhereInDocument`). So
  `ScanFinds` says what is read of a complete request, and `ListRead` that the
  list of merchants is read to its end, the first bracket behind its key, whether
  the merchant comes behind it or before.
- `KnownMerchantsAreListed`: `[]KnownMerchantIsInList`. `Laid` says where in the text
  of the section each name stands, and `TextSearch` that between two quotes of it
  there is one name, or what separates two, which is a comma or, behind the key,
  a colon and the bracket: these are the two ids `Ordinary` excludes.
- `MinusOneAlwaysMeansNoHistory`: `[]MinusOneMeansNoHistory`
  (`CoordinateInScale`).
- `JSONAlwaysMatchesStruct`: `[]JSONMatchesStruct`, if the parser's times are the
  dates that many days before, or after, the day of the request (`ClientsDate`).
  The weekdays agree by `CalendarIsCounted`'s invariant, the minutes to
  less than one (`InSeconds`), which is seven ten thousandths of a day at most
  (`SecondsAreFine`).
- `MissingFieldsAreNoticed`: `[]MissingFieldIsNoticed`. A name that only one
  part has is nowhere in the document when it is left out there (`NowhereElse`),
  and the scanner refuses a document without it (`ScanRefuses`).

## 10. What is not modelled

Left out for good: the assembly kernels, taken as functions that return full
distances; `ExactSearcher` and the `float64` path through `encoding/json`,
which tests and `evaluate` use, not the service; the evaluation command, a
sequential report; the parsing of the load balancer's configuration and its
TCP listener; `pprof`; logging and formatting.

Only model-checked, not proved: liveness (`EveryRequestSettles`, `Terminates`,
`ServiceComesUp`, `StaleSocketsDoNotStop`), which TLAPS does not handle under
fairness; and that what `IVFBuild` builds satisfies the assumptions the proofs
about the search make (TLC evaluates them on every index it searches).
