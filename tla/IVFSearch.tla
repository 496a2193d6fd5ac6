----------------------------- MODULE IVFSearch ------------------------------
(***************************************************************************)
(* QuantizedIndex.Search5Quantized (apps/api/internal/fraud): how many of  *)
(* the K nearest references of a query are frauds, by an inverted-file     *)
(* index.  The rows are grouped in clusters, each with a centroid and a    *)
(* bounding box; a search scans the lists of the nearest centroids, widens *)
(* when the count is ambiguous, repairs by scanning every cluster whose    *)
(* box is close enough, and widens again for some classes of queries.      *)
(*                                                                         *)
(* One step is one centroid ranked, one row offered, one cluster chosen or *)
(* passed over.  What the predicates needs...Repair ask of the coordinates *)
(* of a query is its class; a vector has as many coordinates as ScanOrder. *)
(***************************************************************************)
EXTENDS Integers, Sequences, FiniteSets

CONSTANTS
    K,            \* neighbours kept: 5 in the code
    DenyAt,       \* frauds from which a transaction is denied: 3 in the code
    MaxIVFProbe,  \* most lists one expansion probes: 128 in the code
    ScanOrder,    \* the order in which a distance adds up the coordinates
    Infinity,     \* maxInt64Value
    NoID,         \* maxUint32Value
    Indexes,      \* the indexes searched, settings normalised
    Queries,      \* the quantized query vectors
    Scans         \* the scans considered, of "avx2" and "scalar": useIVFAVX2

ASSUME CountAssumption == K \in Nat \ {0} /\ DenyAt \in 1 .. K
ASSUME ProbeAssumption == MaxIVFProbe \in Nat \ {0}
ASSUME SentinelAssumption == Infinity \in Nat /\ NoID \in Nat
ASSUME ScansAssumption == Scans \subseteq {"avx2", "scalar"}

VARIABLES
    index, query, class,   \* the inputs of the search
    scan,     \* what the processor supports
    pc,       \* "rank", "probe", "repair" or "done"
    stage,    \* the expansion under way: "base", "wide", "approve" or "deny"
    cursor,   \* the loop variable over clusters of rank and repair
    ranked,   \* the nearest centroids found so far, nearest first
    todo,     \* ranked clusters the expansion has not reached yet
    rows,     \* rows of the current list not yet offered
    best,     \* bestDist, bestFraud, bestID
    probed,   \* probeMask
    cutoff,   \* the fifth distance when the repair began
    verdict,  \* the number of frauds returned
    \* History, read only by properties.
    offered,  \* the rows offered so far
    repaired  \* a repair has run to its end

inputs == <<index, query, class, scan>>
vars == <<inputs, pc, stage, cursor, ranked, todo, rows, best, probed,
          cutoff, verdict, offered, repaired>>

Cluster(ix) == 0 .. ix.clusters - 1
Row(ix) == UNION {{ix.list[c][i] : i \in DOMAIN ix.list[c]} : c \in Cluster(ix)}
-----------------------------------------------------------------------------
(* Distances.                                                              *)
Square(x) == x * x

\* The running sum of quantizedDistance, after each coordinate.
PartialSums(q, v) ==
    LET sum[n \in 0 .. Len(ScanOrder)] ==
          IF n = 0 THEN 0
          ELSE sum[n - 1] + Square(q[ScanOrder[n]] - v[ScanOrder[n]])
    IN sum

Distance(q, v) == PartialSums(q, v)[Len(ScanOrder)]

\* Faulty: the partial sum before the one that reaches the cutoff.
CutTooEarly(q, v, limit) ==
    LET sum == PartialSums(q, v)
        reached == {n \in 1 .. Len(ScanOrder) : sum[n] >= limit}
    IN IF reached = {} THEN Distance(q, v)
       ELSE sum[(CHOOSE n \in reached : \A m \in reached : n <= m) - 1]

\* The scalar code returns the first partial sum that reaches the cutoff.
CutDistance(q, v, limit) ==
    LET sum == PartialSums(q, v)
        reached == {n \in 1 .. Len(ScanOrder) : sum[n] >= limit}
    IN IF reached = {} THEN Distance(q, v)
       ELSE sum[CHOOSE n \in reached : \A m \in reached : n <= m]

\* ivfBBoxDistance: the distance to the box, coordinate by coordinate.
Gap(x, low, high) == IF x < low THEN low - x ELSE IF x > high THEN x - high ELSE 0
BBoxDistance(q, box) ==
    Distance([d \in DOMAIN q |-> Gap(q[d], box.low[d], box.high[d])],
             [d \in DOMAIN q |-> 0])

(* What the searches are given: vectors of as many coordinates as are      *)
(* added up, indexes whose lists have each row once, with an id of its own, *)
(* within the box of its cluster, and no distance too large for an int64.  *)
Coordinate == {ScanOrder[n] : n \in DOMAIN ScanOrder}

ASSUME QueriesAssumption ==
    ScanOrder \in Seq(Coordinate) /\ Queries \subseteq [Coordinate -> Int]
ASSUME SettingsAssumption ==
    \A ix \in Indexes :
        /\ ix.clusters \in Nat
        /\ ix.nprobe \in Nat \ {0} /\ ix.ambiguous \in Nat \ {0}
ASSUME ListsAssumption ==
    \A ix \in Indexes : \A c \in Cluster(ix) :
        /\ ix.list[c] \in Seq(Row(ix))
        /\ \A i \in DOMAIN ix.list[c] :
            \A d \in Cluster(ix) : \A j \in DOMAIN ix.list[d] :
                ix.list[c][i] = ix.list[d][j] => c = d /\ i = j
ASSUME RowsAssumption ==
    \A ix \in Indexes : \A r \in Row(ix) :
        /\ r.id \in 0 .. NoID - 1 /\ r.fraud \in BOOLEAN
        /\ \A s \in Row(ix) : r.id = s.id => r = s
        /\ \A q \in Queries : Distance(q, r.vec) < Infinity
ASSUME VectorsAssumption ==
    \A ix \in Indexes : \A c \in Cluster(ix) : \A k \in Coordinate :
        /\ ix.centroid[c][k] \in Int
        /\ ix.box[c].low[k] \in Int /\ ix.box[c].high[k] \in Int
        /\ \A i \in DOMAIN ix.list[c] :
            /\ ix.list[c][i].vec[k] \in Int
            /\ ix.box[c].low[k] <= ix.list[c][i].vec[k]
            /\ ix.list[c][i].vec[k] <= ix.box[c].high[k]
-----------------------------------------------------------------------------
(* The K best rows: sorted by distance, then by original id.               *)
Entry(row, dist) == [dist |-> dist, id |-> row.id, fraud |-> row.fraud]
Sentinel == [dist |-> Infinity, id |-> NoID, fraud |-> FALSE]

Less(e, f) == e.dist < f.dist \/ (e.dist = f.dist /\ e.id < f.id)

\* Faulty: the first entry that is greater is lost.
Overwrite(entries, e) ==
    [i \in 1 .. K |->
        IF Less(e, entries[i]) /\ \A j \in 1 .. i - 1 : ~Less(e, entries[j])
          THEN e ELSE entries[i]]

\* ivfSearchState.insert: before the first entry that is greater.
Insert(entries, e) ==
    [i \in 1 .. K |->
        IF \A j \in 1 .. i : ~Less(e, entries[j]) THEN entries[i]
        ELSE IF \A j \in 1 .. i - 1 : ~Less(e, entries[j]) THEN e
        ELSE entries[i - 1]]

\* The test before insert in scanIVFBlocks... and offerIVF.
Offer(entries, e) == IF Less(e, entries[K]) THEN Insert(entries, e) ELSE entries

ScanDistance(q, row, limit) ==
    IF scan = "avx2" THEN Distance(q, row.vec) ELSE CutDistance(q, row.vec, limit)

CountFrauds(entries) ==
    Cardinality({i \in 1 .. K : entries[i].dist # Infinity /\ entries[i].fraud})

\* The decisions of searchIVF.
IsAmbiguous(frauds) == (frauds > 1 /\ frauds < K) \/ (frauds = 1 /\ class.q9zero)

\* The classes the predicates of the source allow together.  A query of the
\* known late denials is one of the approval repairs, and an approval repair
\* with q[9] = 0 is a known boundary approval, so no late denial; a denial
\* repair has q[9] = 0 and a q[12] no approval repair has.
Classes ==
    {c \in [q9zero : BOOLEAN, approval : BOOLEAN, late : BOOLEAN,
            denial : BOOLEAN] :
        /\ c.late => c.approval /\ ~c.q9zero
        /\ c.denial => c.q9zero /\ ~c.approval}

Init ==
    /\ index \in Indexes
    /\ query \in Queries
    /\ class \in Classes
    /\ scan \in Scans
    /\ pc = "rank"
    /\ stage = "base"
    /\ cursor = 0
    /\ ranked = << >>
    /\ todo = << >>
    /\ rows = << >>
    /\ best = [i \in 1 .. K |-> Sentinel]
    /\ probed = {}
    /\ cutoff = Infinity
    /\ verdict = -1
    /\ offered = {}
    /\ repaired = FALSE
-----------------------------------------------------------------------------
(* topIVFCentroids: the nprobe nearest centroids, by insertion.            *)
Smaller(a, b) == IF a < b THEN a ELSE b

Probes ==
    LET asked == CASE stage = "base" -> index.nprobe
                   [] stage = "wide" -> index.ambiguous
                   [] OTHER -> MaxIVFProbe
    IN Smaller(Smaller(asked, index.clusters), MaxIVFProbe)

CentroidDistance(c) == Distance(query, index.centroid[c])

AppendCentroid(list, c) == Append(list, c)   \* faulty: not sorted

\* insertCentroid: centroids that are farther make room, from the last on.
InsertCentroid(list, c) ==
    LET Stays(i) == i <= Len(list) /\ CentroidDistance(list[i]) <= CentroidDistance(c)
    IN [i \in 1 .. Len(list) + 1 |->
          IF Stays(i) THEN list[i]
          ELSE IF i = 1 \/ Stays(i - 1) THEN c ELSE list[i - 1]]

Rank ==
    /\ pc = "rank"
    /\ cursor < index.clusters
    /\ ranked' =
         IF Len(ranked) < Probes THEN InsertCentroid(ranked, cursor)
         ELSE IF CentroidDistance(cursor) < CentroidDistance(ranked[Probes])
           THEN InsertCentroid(SubSeq(ranked, 1, Probes - 1), cursor)
         ELSE ranked
    /\ cursor' = cursor + 1
    /\ UNCHANGED <<inputs, pc, stage, todo, rows, best, probed, cutoff,
                   verdict, offered, repaired>>

RankEnd ==
    /\ pc = "rank"
    /\ cursor = index.clusters
    /\ todo' = ranked
    /\ pc' = "probe"
    /\ UNCHANGED <<inputs, stage, cursor, ranked, rows, best, probed, cutoff,
                   verdict, offered, repaired>>
-----------------------------------------------------------------------------
(* scanIVFList, one row at a time, whether a probe or the repair asked.    *)
ScanRow ==
    /\ rows # << >>
    /\ LET row == Head(rows)
           dist == ScanDistance(query, row, best[K].dist)
       IN /\ best' = Offer(best, Entry(row, dist))
          /\ offered' = offered \cup {row}
    /\ rows' = Tail(rows)
    /\ UNCHANGED <<inputs, pc, stage, cursor, ranked, todo, probed, cutoff,
                   verdict, repaired>>

\* The loop of searchIVFProbes and expandIVFProbes.
ProbeNext ==
    /\ pc = "probe"
    /\ rows = << >>
    /\ todo # << >>
    /\ todo' = Tail(todo)
    /\ rows' = IF Head(todo) \in probed THEN << >> ELSE index.list[Head(todo)]
    /\ probed' = probed \cup {Head(todo)}
    /\ UNCHANGED <<inputs, pc, stage, cursor, ranked, best, cutoff, verdict,
                   offered, repaired>>
-----------------------------------------------------------------------------
(* searchIVF: what follows a finished expansion or repair.                 *)
ExpandAgain(next) ==   \* faulty: the stage is forgotten
    /\ pc' = "rank"
    /\ cursor' = 0
    /\ ranked' = << >>
    /\ UNCHANGED <<stage, cutoff, verdict>>

Expand(next) ==
    /\ pc' = "rank"
    /\ stage' = next
    /\ cursor' = 0
    /\ ranked' = << >>
    /\ UNCHANGED <<cutoff, verdict>>

BeginRepair ==
    /\ pc' = "repair"
    /\ cursor' = 0
    /\ cutoff' = best[K].dist
    /\ UNCHANGED <<stage, ranked, verdict>>

Return(frauds) ==
    /\ pc' = "done"
    /\ verdict' = frauds
    /\ UNCHANGED <<stage, cursor, ranked, cutoff>>

\* Faulty: a denial by exactly DenyAt frauds is not looked at again.
ConcludeAbove(frauds) ==
    IF index.repair /\ frauds < DenyAt /\ class.approval THEN Expand("approve")
    ELSE IF index.repair /\ frauds > DenyAt /\ class.denial THEN Expand("deny")
    ELSE Return(frauds)

\* The second half: the classes of queries that get one more expansion.
Conclude(frauds) ==
    IF index.repair /\ frauds < DenyAt /\ class.approval THEN Expand("approve")
    ELSE IF index.repair /\ frauds >= DenyAt /\ class.denial THEN Expand("deny")
    ELSE Return(frauds)

ProbeEnd ==
    /\ pc = "probe"
    /\ rows = << >>
    /\ todo = << >>
    /\ LET frauds == CountFrauds(best) IN
         CASE stage = "base" ->
                IF IsAmbiguous(frauds) /\ index.ambiguous > index.nprobe
                  THEN Expand("wide")
                ELSE IF IsAmbiguous(frauds) /\ index.repair THEN BeginRepair
                ELSE Conclude(frauds)
           [] stage = "wide" ->
                IF index.repair THEN BeginRepair ELSE Conclude(frauds)
           [] stage = "approve" ->
                Return(IF frauds < DenyAt /\ class.late THEN DenyAt ELSE frauds)
           [] stage = "deny" -> Return(frauds)
    /\ UNCHANGED <<inputs, todo, rows, best, probed, offered, repaired>>

\* repairIVF: nothing to do without K rows, else every cluster not probed
\* whose box is within the cutoff.  It does not mark the cluster as probed.
\* (An index without boxes, which it leaves alone, is never built or loaded.)
BelowCutoff(c) == BBoxDistance(query, index.box[c]) < cutoff   \* faulty
WithinCutoff(c) == BBoxDistance(query, index.box[c]) <= cutoff

RepairNext ==
    /\ pc = "repair"
    /\ rows = << >>
    /\ cutoff # Infinity
    /\ cursor < index.clusters
    /\ cursor' = cursor + 1
    /\ rows' = IF cursor \notin probed /\ WithinCutoff(cursor)
                 THEN index.list[cursor] ELSE << >>
    /\ UNCHANGED <<inputs, pc, stage, ranked, todo, best, probed, cutoff,
                   verdict, offered, repaired>>

RepairEnd ==
    /\ pc = "repair"
    /\ rows = << >>
    /\ cutoff = Infinity \/ cursor = index.clusters
    /\ Conclude(CountFrauds(best))
    /\ repaired' = (cutoff # Infinity)
    /\ UNCHANGED <<inputs, todo, rows, best, probed, offered>>
-----------------------------------------------------------------------------
Next ==
    \/ Rank \/ RankEnd
    \/ ScanRow \/ ProbeNext \/ ProbeEnd
    \/ RepairNext \/ RepairEnd

Spec == Init /\ [][Next]_vars
FairSpec == Spec /\ WF_vars(Next)
-----------------------------------------------------------------------------
(* Properties.                                                             *)

\* The reference definition: the K least entries of a set of rows.
Exact(set) == {Entry(row, Distance(query, row.vec)) : row \in set}
Nearest(set) ==
    LET rank(e) == Cardinality({f \in Exact(set) : Less(f, e)}) + 1
    IN [i \in 1 .. K |-> IF \E e \in Exact(set) : rank(e) = i
                          THEN CHOOSE e \in Exact(set) : rank(e) = i
                          ELSE Sentinel]

\* Until a repair is followed by another expansion, the five slots of the AVX2
\* scan hold the five nearest of the rows offered: the running insertion with
\* its early rejection loses no row and keeps the ties in order of original id.
Rescanning == stage \in {"approve", "deny"} /\ repaired
BestOfOffered == scan = "avx2" /\ ~Rescanning => best = Nearest(offered)

\* A repair that had K rows to start from makes the search exact (the scalar
\* one in its distances), although it leaves out clusters and its cutoff is the
\* distance before the repair.
DistancesOf(entries) == [i \in 1 .. K |-> entries[i].dist]
RepairIsExact ==
    pc = "done" /\ repaired /\ ~Rescanning =>
        /\ DistancesOf(best) = DistancesOf(Nearest(Row(index)))
        /\ scan = "avx2" =>
              /\ best = Nearest(Row(index))
              /\ verdict = CountFrauds(Nearest(Row(index)))

\* The probed clusters are always the nearest ones, ties by number, through
\* every widening.
ProbedAreNearest ==
    \A c \in probed, d \in Cluster(index) \ probed :
        \/ CentroidDistance(c) < CentroidDistance(d)
        \/ CentroidDistance(c) = CentroidDistance(d) /\ c < d

\* An approval of the approval-repair class, and a denial of the denial-repair
\* class, are only given after the deepest expansion.
DecidedDeep ==
    /\ pc = "done" /\ index.repair
    /\ \/ verdict < DenyAt /\ class.approval
       \/ verdict >= DenyAt /\ class.denial
    => Cardinality(probed) >= Smaller(MaxIVFProbe, index.clusters)

\* Every search returns.
Terminates == <>(pc = "done")

\* The README's "5 nearest neighbors": no reference is counted twice.
NeighboursAreDistinct ==
    \A i, j \in 1 .. K :
        best[i].id = best[j].id /\ best[i].id # NoID => i = j

\* The scalar scan adds a distance up only until it reaches the cutoff.  The
\* distances it keeps are nevertheless the K least: what is cut short ties with
\* the worst slot, and displaces an entry of the same distance.
DistancesOfOffered ==
    ~Rescanning => DistancesOf(best) = DistancesOf(Nearest(offered))

\* What the tests say of the two scans: the scalar one ends with the distances,
\* labels and ids the full distances give.
ScanMatchesFullDistances == ~Rescanning => best = Nearest(offered)
=============================================================================
