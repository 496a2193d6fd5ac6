------------------------------ MODULE IVFBuild ------------------------------
(***************************************************************************)
(* BuildIVFIndex (apps/api/internal/fraud/ivf_build.go) as operators: from *)
(* a sequence of quantized references [vec, fraud] to the index a search   *)
(* reads.  A row keeps the position of its reference as id.  The blocks of *)
(* eight rows are a layout of the lists and are left out; the variances    *)
(* are compared exactly, where the code compares float64 values.           *)
(***************************************************************************)
EXTENDS Integers, Sequences, TLC

\* The sum of f[1] to f[n].
SumTo(f, n) ==
    LET sum[i \in 0 .. n] == IF i = 0 THEN 0 ELSE sum[i - 1] + f[i]
    IN sum[n]

LeastOf(set) == CHOOSE x \in set : \A y \in set : x <= y
GreatestOf(set) == CHOOSE x \in set : \A y \in set : x >= y

\* maxVarianceDimension: the first dimension of largest variance, times n^2.
MaxVarianceDimension(rows) ==
    LET Dims == DOMAIN rows[1].vec
        Sum(d) == SumTo([i \in DOMAIN rows |-> rows[i].vec[d]], Len(rows))
        SumSquares(d) == SumTo([i \in DOMAIN rows |-> rows[i].vec[d] * rows[i].vec[d]],
                               Len(rows))
        variance == [d \in Dims |-> Len(rows) * SumSquares(d) - Sum(d) * Sum(d)]
    IN CHOOSE d \in Dims : \A e \in Dims :
         variance[d] > variance[e] \/ (variance[d] = variance[e] /\ d <= e)

\* balancedSplit: halving[n] is the 2^n parts after n halvings.
Halves(rows) ==
    LET dim == MaxVarianceDimension(rows)
        Before(a, b) == \/ a.vec[dim] < b.vec[dim]
                        \/ a.vec[dim] = b.vec[dim] /\ a.id < b.id
        window == SortSeq(rows, Before)
        mid == Len(rows) \div 2
    IN <<SubSeq(window, 1, mid), SubSeq(window, mid + 1, Len(rows))>>

BalancedSplit(rows, depth) ==
    LET halving[n \in 0 .. depth] ==
          IF n = 0 THEN <<rows>>
          ELSE LET pairs == [j \in DOMAIN halving[n - 1] |-> Halves(halving[n - 1][j])]
               IN [j \in 1 .. 2^n |-> pairs[(j + 1) \div 2][IF j % 2 = 1 THEN 1 ELSE 2]]
    IN halving[depth]

\* The sizes of those parts, which depend on the number of rows only.
SplitSizes(count, depth) ==
    LET halving[n \in 0 .. depth] ==
          IF n = 0 THEN <<count>>
          ELSE [j \in 1 .. 2 * Len(halving[n - 1]) |->
                  LET rows == halving[n - 1][(j + 1) \div 2]
                  IN IF j % 2 = 1 THEN rows \div 2 ELSE rows - rows \div 2]
    IN halving[depth]

\* roundDivInt64ToInt16: to nearest, halves away from zero.
RoundDiv(sum, count) ==
    IF sum >= 0 THEN (sum + count \div 2) \div count
                ELSE -((-sum + count \div 2) \div count)

\* computeClusterStats.
Centroid(rows) ==
    [d \in DOMAIN rows[1].vec |->
        RoundDiv(SumTo([i \in DOMAIN rows |-> rows[i].vec[d]], Len(rows)), Len(rows))]

Spread(sets) == [low |-> [d \in DOMAIN sets |-> LeastOf(sets[d])],
                 high |-> [d \in DOMAIN sets |-> GreatestOf(sets[d])]]

Box(rows) ==
    Spread([d \in DOMAIN rows[1].vec |-> {rows[i].vec[d] : i \in DOMAIN rows}])

\* sortClusterByCentroidDistance.
SortByCentroid(rows) ==
    LET center == Centroid(rows)
        dist == [i \in DOMAIN rows |->
                   SumTo([d \in DOMAIN center |-> (rows[i].vec[d] - center[d])
                                                  * (rows[i].vec[d] - center[d])],
                         Len(center))]
        Before(a, b) == dist[a] < dist[b] \/ (dist[a] = dist[b] /\ rows[a].id < rows[b].id)
        order == SortSeq([i \in DOMAIN rows |-> i], Before)
    IN [i \in DOMAIN rows |-> rows[order[i]]]

\* The number of halvings: log2 of the cluster count.  BuildIVFIndex returns
\* an error for a count within range that is no power of two: -1 here.
Depth(asked, count) ==
    LET wanted == IF asked <= 0 THEN 8192 ELSE asked
        Powers == 0 .. 30
    IN IF wanted > count THEN GreatestOf({n \in Powers : 2^n <= count})
       ELSE IF \E n \in Powers : 2^n = wanted
              THEN CHOOSE n \in Powers : 2^n = wanted
       ELSE -1

\* normalizeIVFDefaults.
Capped(n, max) == IF n > max THEN max ELSE n
Normalised(opts, clusters) ==
    LET nprobe == IF opts.nprobe <= 0 THEN 8 ELSE opts.nprobe
        ambiguous == IF opts.ambiguous <= 0 THEN nprobe * 5 ELSE opts.ambiguous
        few == Capped(nprobe, clusters)
    IN [nprobe |-> few,
        ambiguous |-> Capped(IF ambiguous < few THEN few ELSE ambiguous, clusters),
        repair |-> opts.repair]

\* BuildIVFIndex and materializeIVF.
BuildIVFIndex(refs, opts) ==
    LET depth == Depth(opts.clusters, Len(refs))
        clusters == 2^depth
        all == [i \in DOMAIN refs |->
                  [id |-> i - 1, vec |-> refs[i].vec, fraud |-> refs[i].fraud]]
        split == BalancedSplit(all, depth)
        settings == Normalised(opts, clusters)
    IN [clusters |-> clusters,
        centroid |-> [c \in 0 .. clusters - 1 |-> Centroid(split[c + 1])],
        list |-> [c \in 0 .. clusters - 1 |-> SortByCentroid(split[c + 1])],
        box |-> [c \in 0 .. clusters - 1 |-> Box(split[c + 1])],
        nprobe |-> settings.nprobe,
        ambiguous |-> settings.ambiguous,
        repair |-> settings.repair]
=============================================================================
