---------------------------- MODULE MCIVFSearch -----------------------------
(***************************************************************************)
(* Instances of IVFSearch for TLC: indexes built by BuildIVFIndex from     *)
(* a small data set in the plane, with several choices of labels.          *)
(***************************************************************************)
EXTENDS IVFSearch, IVFBuild

References(places, frauds) ==
    [i \in DOMAIN places |-> [vec |-> places[i], fraud |-> i \in frauds]]

Options(clusters, nprobe, ambiguous, repair) ==
    [clusters |-> clusters, nprobe |-> nprobe, ambiguous |-> ambiguous,
     repair |-> repair]

\* Twelve references in four clusters whose boxes overlap, with ties between
\* references and between centroids; in the first set they are spread out, so
\* that boxes are large, in the second they tie more often.
Spaced == <<<<3, 5>>, <<0, 1>>, <<1, 7>>, <<1, 4>>, <<6, 1>>, <<5, 8>>,
            <<6, 2>>, <<9, 0>>, <<5, 5>>, <<7, 4>>, <<3, 2>>, <<0, 5>>>>
Dense == <<<<2, 3>>, <<3, 1>>, <<1, 0>>, <<4, 1>>, <<5, 0>>, <<1, 3>>,
           <<0, 5>>, <<0, 4>>, <<0, 1>>, <<7, 2>>, <<5, 5>>, <<3, 0>>>>

\* Base and wide probes: a wide expansion, none asked for, none wider.
Settings == {<<1, 2>>, <<2, 0>>, <<2, 2>>}

Built == {BuildIVFIndex(References(places, frauds),
                        Options(4, probes[1], probes[2], repair)) :
             places \in {Spaced, Dense},
             frauds \in {{1, 4, 7, 10}, {3, 5, 6, 8, 12}},
             probes \in Settings, repair \in BOOLEAN}
\* The sizes BuildIVFIndex gives its parts are those of SplitSizes.
ASSUME SplitSizesAssumption ==
    \A n \in 4 .. 12, halvings \in 0 .. 2 :
        LET numbered == [i \in 1 .. n |-> [id |-> i, vec |-> Spaced[i]]]
            parts == BalancedSplit(numbered, halvings)
        IN [i \in DOMAIN parts |-> Len(parts[i])] = SplitSizes(n, halvings)

Asked == {0, 2, 5, 7} \X {0, 1, 2, 5}
Order == <<2, 1>>
Both == {"avx2", "scalar"}
=============================================================================
