----------------------------- MODULE MCStartup -----------------------------
(***************************************************************************)
(* Instances of Startup for TLC.                                           *)
(***************************************************************************)
EXTENDS Startup

\* Two, four and eight clusters, for eight of which the probe mask has no room;
\* the number of the default, lowered to the references; no power of two; and
\* no references.
SomeOptions ==
    {[count |-> n, clusters |-> c, nprobe |-> 3, ambiguous |-> 1, repair |-> TRUE] :
        n \in {0, 3, 8}, c \in {0, 4, 6, 8}}
SomeSettings == {[nprobe |-> -1, ambiguous |-> 0, repair |-> FALSE],
                 [nprobe |-> 4, ambiguous |-> 3, repair |-> TRUE]}

\* Three rows in two lists: in the format of every version and of a wrong one,
\* whole and one byte short, and cut off after each section.
Sample == Written(<<0, 1, 3>>, [nprobe |-> 0, ambiguous |-> 0, repair |-> TRUE])
Cut ==
    LET Of(v) == [Sample EXCEPT !.version = v]
    IN {[index |-> Of(v), size |-> WholeSize(Of(v)) - n] : v \in 1 .. 4, n \in 0 .. 1}
       \cup {[index |-> Sample, size |-> EndOf(Sample, k)] : k \in 1 .. 12}

\* Whole files with one wrong offset, with no clusters, or too many.
Wrong ==
    LET Full(x) == [index |-> x, size |-> WholeSize(x)]
    IN {Full([Sample EXCEPT !.lists[i] = n]) : i \in 1 .. 3, n \in {1, 4}}
       \cup {Full([Sample EXCEPT !.blocks[i] = n]) : i \in 1 .. 3, n \in {0, 2, 3}}
       \cup {Full([Sample EXCEPT !.clusters = 0])}

\* No rows: in every format, the file ends with its sections or a byte later.
NoRows ==
    LET Of(v) == [Written(<<0, 0, 0>>, [nprobe |-> 0, ambiguous |-> 0, repair |-> TRUE])
                    EXCEPT !.version = v]
    IN {[index |-> Of(v), size |-> WholeSize(Of(v)) + n] : v \in 2 .. 4, n \in 0 .. 1}

\* A header without probe settings, as an older preprocess may have left it.
NoSettings ==
    LET x == [Sample EXCEPT !.search = [nprobe |-> 0, ambiguous |-> 0, repair |-> FALSE]]
    IN {[index |-> x, size |-> WholeSize(x)]}

AllFiles == {NoFile} \cup Cut \cup Wrong \cup NoRows \cup NoSettings
=============================================================================
