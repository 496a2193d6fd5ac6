------------------------------ MODULE Startup ------------------------------
(***************************************************************************)
(* From the index file to a service that answers: preprocess rewrites the  *)
(* file in place (cmd/preprocess), API instances map it, check it and      *)
(* listen (internal/app/server.go), the health check asks each of them     *)
(* over its unix socket (cmd/healthcheck), and the load balancer starts    *)
(* when every one is healthy (docker-compose.yml).  Processes may die at   *)
(* any point; sockets and files outlive them.                              *)
(***************************************************************************)
EXTENDS IndexFile, FiniteSets

CONSTANTS
    Instance,     \* the API instances
    Files,        \* files that may be there at first
    Options,      \* -clusters, -nprobe, -ambiguous-nprobe and the reference count
    Settings,     \* ANN_NPROBE, ANN_AMBIGUOUS_NPROBE and ANN_REPAIR
    PageSize,     \* a mapping ends with a page: 4096
    MaxRuns       \* bound of the model: starts of instances and runs of preprocess

ASSUME StartupAssumption ==
    /\ MaxRuns \in Nat /\ PageSize \in Nat \ {0}
    /\ Files \subseteq [index : Index, size : Nat] \cup {NoFile}
    /\ Settings \subseteq [nprobe : Int, ambiguous : Int, repair : BOOLEAN]
    /\ Options \subseteq [count : Nat, clusters : Int, nprobe : Int,
                          ambiguous : Int, repair : BOOLEAN]

VARIABLES
    file,      \* the index file: an index and how many bytes of it are there
    writer,    \* preprocess: sections written, or -1 when it does not run
    writes,    \* how often preprocess has been started
    api,       \* api[a]: a process
    starts,    \* how often instances have been started
    socket,    \* socket[a]: its unix socket in the shared volume
    healthy,   \* the instances whose last health check passed
    lb,        \* has the load balancer been started?
    calm       \* history: nothing died and no file was rewritten

vars == <<file, writer, writes, api, starts, socket, healthy, lb, calm>>

Stopped == [pc |-> "down"]     \* not started yet, or ended by log.Fatal
Killed == [pc |-> "killed"]
Runs(a) == api[a].pc \notin {"down", "killed"}

Init ==
    /\ file \in Files
    /\ writer = -1 /\ writes = 0
    /\ api = [a \in Instance |-> Stopped]
    /\ starts = 0
    /\ socket = [a \in Instance |-> "absent"]
    /\ healthy = {}
    /\ lb = FALSE
    /\ calm = TRUE
-----------------------------------------------------------------------------
(* preprocess: os.Create once the index is built, then one section after   *)
(* another. A crash, or a write that fails, leaves what is there.          *)
Created(x) == [index |-> x, size |-> 0]

\* What BuildIVFIndex makes of the options; an error, no references or no power
\* of two of clusters, comes before the file is touched.
Products ==
    {Written(ListOffsets(o.count, o.clusters), o) :
        o \in {p \in Options : p.count > 0 /\ Build!Depth(p.clusters, p.count) >= 0}}

Create ==
    /\ writer = -1 /\ starts + writes < MaxRuns
    /\ \E x \in Products : file' = Created(x)
    /\ writer' = 0 /\ writes' = writes + 1
    /\ calm' = FALSE
    /\ UNCHANGED <<api, starts, socket, healthy, lb>>

WriteSection ==
    /\ writer >= 0
    /\ file' = [file EXCEPT !.size = @ + Sections(file.index)[writer + 1]]
    /\ writer' = IF writer + 1 < Len(Sections(file.index)) THEN writer + 1 ELSE -1
    /\ UNCHANGED <<writes, api, starts, socket, healthy, lb, calm>>

WriterDies ==
    /\ writer >= 0
    /\ \E n \in {0, Sections(file.index)[writer + 1] - 1} :
        n >= 0 /\ file' = [file EXCEPT !.size = @ + n]
    /\ writer' = -1
    /\ UNCHANGED <<writes, api, starts, socket, healthy, lb, calm>>
-----------------------------------------------------------------------------
(* main and NewServer: the header is read from the file, the rest through  *)
(* a mapping as long as the file is then, all of whose pages are touched   *)
(* once.  What is read shows what has been written to the file since; it   *)
(* is zero between the end of the file and the end of its last page, and   *)
(* the pages behind that one fault.                                        *)
Becomes(a, process) == api' = [api EXCEPT ![a] = process]
Static == UNCHANGED <<file, writer, writes, lb>>

Readable(size) == PageSize * ((size + PageSize - 1) \div PageSize)

\* A number of four bytes at a place in a file of so many bytes.
AsRead(number, at, size) ==
    IF size >= at + 4 THEN number
    ELSE IF size <= at THEN 0
    ELSE number % <<256, 65536, 16777216>>[size - at]

\* Offsets that lead from 0 to count in so many steps.
Splits(count, clusters) ==
    {[i \in 1 .. clusters + 1 |-> Cardinality({r \in 1 .. count : list[r] < i})] :
        list \in [1 .. count -> 1 .. clusters]}

\* An index with this header, the rest of whose numbers are as they are read.
ReadWith(header, lists, blocks) ==
    LET search == file.index.search
    IN [version |-> header.version, count |-> header.count,
        clusters |-> AsRead(file.index.clusters, HeaderSize, file.size),
        lists |-> lists, blocks |-> blocks,
        search |-> [nprobe |-> AsRead(search.nprobe, HeaderSize + 4, file.size),
                    ambiguous |-> AsRead(search.ambiguous, HeaderSize + 8, file.size),
                    repair |-> search.repair /\ file.size > HeaderSize + 12]]

OffsetsAt(x) ==
    LET s == Sections(x) IN s[1] + s[2] + s[3] + s[4]

\* The indexes a load with this header can find in the mapping.  In the format
\* of another version, when the file was replaced meanwhile, the offsets are
\* other bytes: any that would be accepted, or none.
Seen(header) ==
    LET x == ReadWith(header, file.index.lists, file.index.blocks)
        At(offsets, start) ==
            [i \in DOMAIN offsets |-> AsRead(offsets[i], start + 4 * (i - 1), file.size)]
    IN  IF header.version = file.index.version
        THEN {ReadWith(header, At(x.lists, places[1]), At(x.blocks, places[2])) :
                places \in {<<OffsetsAt(x), OffsetsAt(x) + Sections(x)[5]>>}}
        ELSE IF ~FitsProbeMask(x.clusters) THEN {}
        ELSE {ReadWith(header, s, BlockOffsets(s)) :
                s \in Splits(header.count, x.clusters)}

Open(a) ==
    /\ ~Runs(a)
    /\ starts + writes < MaxRuns
    /\ Holds(file)
    /\ starts' = starts + 1
    /\ Becomes(a, [pc |-> "header", header |-> [version |-> file.index.version,
                                               count |-> file.index.count]])
    /\ Static /\ UNCHANGED <<socket, healthy, calm>>

Map(a) ==
    /\ api[a].pc = "header"
    /\ file.size > 0
    /\ Becomes(a, [pc |-> "mapped", header |-> api[a].header, size |-> file.size])
    /\ Static /\ UNCHANGED <<starts, socket, healthy, calm>>

\* preloadMmap.
PagesThere(a) == api[a].size <= Readable(file.size)
Preload(a) ==
    /\ api[a].pc = "mapped"
    /\ PagesThere(a)
    /\ Becomes(a, [api[a] EXCEPT !.pc = "touched"])
    /\ Static /\ UNCHANGED <<starts, socket, healthy, calm>>

\* The offsets are read; the rest of an accepted index is not touched yet.
Accepts(a, x) ==
    /\ OffsetsAt(x) + Sections(x)[5] + Sections(x)[6] <= Readable(file.size)
    /\ MmapAccepts(api[a].header, x, api[a].size)

CertainlyAccepts(a) ==
    /\ api[a].header.version = file.index.version
    /\ \A x \in Seen(api[a].header) : Accepts(a, x)

Load(a) ==
    /\ api[a].pc = "touched"
    /\ \E x \in Seen(api[a].header), env \in Settings :
        /\ Accepts(a, x)
        /\ Becomes(a, [pc |-> "loaded", header |-> api[a].header,
                       size |-> api[a].size, index |-> x,
                       search |-> SetIVFSearch(x.search, env, x.clusters)])
    /\ Static /\ UNCHANGED <<starts, socket, healthy, calm>>

\* log.Fatal, a panic, or the fault.
Refuse(a) ==
    /\ \/ api[a].pc = "header" /\ file.size <= 0
       \/ api[a].pc = "mapped" /\ ~PagesThere(a)
       \/ api[a].pc = "touched" /\ ~CertainlyAccepts(a)
    /\ Becomes(a, Stopped)
    /\ Static /\ UNCHANGED <<starts, socket, healthy, calm>>

(* Listen and listenUnix.                                                  *)
Advance(a, from, to, left) ==
    /\ api[a].pc = from
    /\ Becomes(a, [api[a] EXCEPT !.pc = to])
    /\ socket' = [socket EXCEPT ![a] = left]
    /\ Static /\ UNCHANGED <<starts, healthy, calm>>

KeepSocket(a) == Advance(a, "loaded", "removed", socket[a])   \* faulty: os.Remove is missing
RemoveSocket(a) == Advance(a, "loaded", "removed", "absent")
\* net.Listen fails where there is a socket, and log.Fatalf ends the process.
Bind(a) ==
    IF socket[a] = "absent"
    THEN Advance(a, "removed", "bound", "private")
    ELSE /\ api[a].pc = "removed"
         /\ Becomes(a, Stopped)
         /\ Static /\ UNCHANGED <<starts, socket, healthy, calm>>
Serve(a) == Advance(a, "bound", "serving", "open")

Die(a) ==
    /\ Runs(a)
    /\ Becomes(a, Killed)
    /\ socket' = [socket EXCEPT ![a] = IF @ = "absent" THEN @ ELSE "stale"]
    /\ calm' = FALSE
    /\ Static /\ UNCHANGED <<starts, healthy>>
-----------------------------------------------------------------------------
(* The health check gets a 200 of ReadyRaw from an instance that serves;   *)
(* when one fails the last result stands until the retries are used up.    *)
AnswersEarly(a) == Runs(a)   \* faulty: the process is enough
Answers(a) == api[a].pc = "serving"

HealthCheck(a) ==
    /\ \/ Answers(a) /\ healthy' = healthy \cup {a}
       \/ ~Answers(a) /\ healthy' = healthy \ {a}
    /\ Static /\ UNCHANGED <<api, starts, socket, calm>>

StartLoadBalancer ==
    /\ ~lb /\ healthy = Instance
    /\ lb' = TRUE
    /\ UNCHANGED <<file, writer, writes, api, starts, socket, healthy, calm>>
-----------------------------------------------------------------------------
StartsUp(a) ==
    \/ Open(a) \/ Map(a) \/ Preload(a) \/ Load(a) \/ Refuse(a)
    \/ RemoveSocket(a) \/ Bind(a) \/ Serve(a)

Next ==
    \/ Create \/ WriteSection \/ WriterDies \/ StartLoadBalancer
    \/ \E a \in Instance : StartsUp(a) \/ Die(a) \/ HealthCheck(a)

\* Started processes run on, and the health checks repeat for ever; nothing
\* has to die and nobody has to run preprocess.
Fairness ==
    /\ WF_vars(StartLoadBalancer)
    /\ \A a \in Instance : WF_vars(StartsUp(a)) /\ WF_vars(HealthCheck(a))

Spec == Init /\ [][Next]_vars /\ Fairness
-----------------------------------------------------------------------------
(* Properties.                                                             *)
Loaded(a) == api[a].pc \in {"loaded", "removed", "bound", "serving"}

\* Whatever an index is served from holds all its sections, and every list,
\* block and probe bit the search will follow lies within them, also when the
\* file was cut short, has wrong offsets, or was being rewritten while it was
\* loaded (binary_index.go:37, :240-270, binary_index_linux.go:53-154,
\* ivf_search.go:533).
LoadedIsWholeAndInBounds ==
    \A a \in Instance : Loaded(a) =>
        /\ api[a].size >= WholeSize(api[a].index)
        /\ InBounds(api[a].header.count, api[a].index)

\* The two loaders, written separately, take the same files, but for one: a
\* file without rows and with nothing after its last section, which the one
\* reads section by section, makes the other panic, which computes two sizes
\* and addresses of what may be empty (binary_index.go:151-238,
\* binary_index_linux.go:53-154).
RowsOrMore(x, size) == x.count > 0 \/ size > WholeSize(x)

LoadersAgree ==
    Holds(file) =>
        (MmapAccepts([version |-> file.index.version, count |-> file.index.count],
                     file.index, file.size)
            <=> HeapAccepts(file.index, file.size) /\ RowsOrMore(file.index, file.size))

\* What preprocess wrote to its end is loaded, if the probe mask has room for
\* its clusters: the layouts of writer and loaders are one (binary_index.go:37-109).
WrittenFilesLoad ==
    /\ writes > 0 /\ writer = -1 /\ file.size = WholeSize(file.index)
    /\ file.index.clusters <= MaskWords * WordBits
    => MmapAccepts([version |-> 4, count |-> file.index.count], file.index, file.size)

\* Whatever the file and the environment say, a loaded index probes at least
\* one cluster, widens to no fewer, and to no more than there are
\* (quantized.go:77-118).
ProbesFitClusters ==
    \A a \in Instance : Loaded(a) =>
        /\ 1 <= api[a].search.nprobe
        /\ api[a].search.nprobe <= api[a].search.ambiguous
        /\ api[a].search.ambiguous <= api[a].index.clusters

\* While no process dies, the load balancer runs only when every instance has
\* its index loaded and its socket open to other users (server.go:70-92,
\* healthcheck/main.go:11, docker-compose.yml).
BalancerFindsServers ==
    lb /\ calm => \A a \in Instance :
        Loaded(a) /\ api[a].pc = "serving" /\ socket[a] = "open"

\* With a whole file of any version the service comes up, unless a process
\* dies or the file is rewritten, or is the one of LoadersAgree at which the
\* loader panics (server.go:21-92, docker-compose.yml).
Sound ==
    /\ Holds(file)
    /\ file.index.version \in 2 .. 4 /\ file.index.clusters > 0
    /\ file.size >= WholeSize(file.index) /\ RowsOrMore(file.index, file.size)
    /\ InBounds(file.index.count, file.index)
    /\ file.index.blocks = BlockOffsets(file.index.lists)
ServiceComesUp == <>(lb \/ ~calm \/ ~Sound)

\* Whatever socket an earlier process left behind when it was killed, a loaded
\* instance gets to serve, unless it is killed itself: it does not end with
\* "listen unix socket: address already in use" (server.go:77-84).
StaleSocketsDoNotStop ==
    \A a \in Instance :
        api[a].pc = "loaded" ~> api[a].pc \in {"serving", "killed"}
=============================================================================
