----------------------------- MODULE IndexFile -----------------------------
(***************************************************************************)
(* The index file (apps/api/internal/fraud/binary_index.go,                *)
(* binary_index_linux.go): its layout, what the two loaders make of a file *)
(* of any length and any offsets, and the settings of a loaded index.      *)
(*                                                                         *)
(* An index is its shape: version, count, clusters, the two sequences of   *)
(* clusters + 1 offsets, and the probe settings; vectors are only bytes.   *)
(***************************************************************************)
EXTENDS Integers, Sequences, SequencesExt

CONSTANTS
    Dimensions,   \* 14
    Lanes,        \* ivfBlockRows: 8 rows to a block
    WordBits,     \* 64 bits to a word of probeMask
    MaskWords     \* len(probeMask): 128

ASSUME IndexAssumption ==
    /\ Dimensions \in Nat \ {0} /\ Lanes \in Nat \ {0}
    /\ WordBits \in Nat \ {0} /\ MaskWords \in Nat \ {0}

Stride == Lanes * Dimensions
BlocksForRows(rows) == (rows + Lanes - 1) \div Lanes

HeaderSize == 24
IVFHeaderSize == 16

\* The bytes of each section, in the order of the file. Version 2 has rows of
\* vectors where the later ones have offsets of blocks, padding and blocks.
Sections(x) ==
    LET boxes == 2 * x.clusters * Dimensions
        offsets == 4 * (x.clusters + 1)
        From(version, n) == IF x.version >= version THEN n ELSE 0
    IN << HeaderSize, IVFHeaderSize, boxes,
          From(4, 2 * BlocksForRows(x.clusters) * Stride), offsets,
          From(3, offsets), boxes, boxes, 4 * x.count,
          IF x.version = 2 THEN 2 * x.count * Dimensions ELSE 0,
          x.count, From(3, x.count % 2),
          From(3, 2 * x.blocks[x.clusters + 1] * Stride) >>

\* How long the file is after its first k sections.
EndOf(x, k) == FoldLeft(+, 0, SubSeq(Sections(x), 1, k))
WholeSize(x) ==
    LET s == Sections(x)
    IN s[1] + s[2] + s[3] + s[4] + s[5] + s[6] + s[7] + s[8] + s[9] + s[10]
       + s[11] + s[12] + s[13]

\* What the fields of the two headers and the offsets can be.
Index ==
    {x \in [version : Nat, count : Nat, clusters : Nat, lists : Seq(Nat),
            blocks : Seq(Nat), search : [nprobe : Int, ambiguous : Int,
                                         repair : BOOLEAN]] :
        x.clusters < Len(x.lists) /\ x.clusters < Len(x.blocks)}

NoFile == [size |-> -1]
Holds(file) == file.size >= HeaderSize
-----------------------------------------------------------------------------
(* validateIVFOffsets, with the count the header gave.                     *)
Monotone(offsets) == \A i \in 1 .. Len(offsets) - 1 : offsets[i] <= offsets[i + 1]

AnyNumberOfClusters(n) == TRUE   \* faulty: no limit
FitsProbeMask(n) == n <= MaskWords * WordBits

SpansMatch(x) ==
    \A i \in 1 .. x.clusters :
        x.blocks[i + 1] - x.blocks[i] = BlocksForRows(x.lists[i + 1] - x.lists[i])

ValidOffsets(count, x) ==
    /\ FitsProbeMask(x.clusters)
    /\ x.lists[1] = 0 /\ x.lists[x.clusters + 1] = count
    /\ Monotone(x.lists)
    /\ x.version >= 3 => x.blocks[1] = 0 /\ Monotone(x.blocks) /\ SpansMatch(x)

\* loadIVFBinaryIndexHeap reads section after section.
HeapAccepts(x, size) ==
    /\ x.version \in 2 .. 4
    /\ x.clusters > 0
    /\ ValidOffsets(x.count, x)
    /\ \A k \in 1 .. Len(Sections(x)) : size >= EndOf(x, k)

\* loadIVFBinaryIndexMmap: `need` is everything but the blocks.
NoPadding(count) == 0   \* faulty: the padding byte is forgotten
Padding(count) == count % 2

MmapNeed(header, x) ==
    LET oldVectors == IF header.version = 2 THEN 2 * header.count * Dimensions ELSE 0
        offsets == 4 * (x.clusters + 1)
    IN  HeaderSize + IVFHeaderSize
        + 3 * (2 * x.clusters * Dimensions) + 4 * header.count + offsets
        + oldVectors + header.count
        + (IF header.version >= 3 THEN offsets + Padding(header.count) ELSE 0)
        + (IF header.version >= 4 THEN 2 * BlocksForRows(x.clusters) * Stride ELSE 0)

EndsBefore(end, size) == end < size   \* faulty: the last byte is not counted
EndsWithin(end, size) == end <= size

\* It takes the address of the first byte behind the boxes, also when there
\* are no rows: at the end of the data &data[pos] panics.
FirstByteThere(count, need, size) == count = 0 => need < size

MmapAccepts(header, x, size) ==
    /\ header.version \in 2 .. 4
    /\ size >= HeaderSize + IVFHeaderSize
    /\ x.clusters > 0
    /\ size >= MmapNeed(header, x)
    /\ ValidOffsets(header.count, x)
    /\ FirstByteThere(header.count, MmapNeed(header, x), size)
    /\ header.version >= 3 =>
        EndsWithin(MmapNeed(header, x) + 2 * x.blocks[x.clusters + 1] * Stride, size)
-----------------------------------------------------------------------------
(* NewIVFQuantizedIndex normalises the settings of the file; SetIVFSearch  *)
(* puts those of the environment over them and normalises again.           *)
Build == INSTANCE IVFBuild

Overridden(s, env) ==
    [nprobe |-> IF env.nprobe > 0 THEN env.nprobe ELSE s.nprobe,
     ambiguous |-> IF env.ambiguous > 0 THEN env.ambiguous ELSE s.ambiguous,
     repair |-> env.repair]
SetUncapped(s, env, clusters) ==   \* faulty: not capped again
    Overridden(Build!Normalised(s, clusters), env)
SetIVFSearch(s, env, clusters) ==
    Build!Normalised(Overridden(Build!Normalised(s, clusters), env), clusters)
-----------------------------------------------------------------------------
(* writeIVFQuantizedIndex writes what BuildIVFIndex made of the references *)
(* and the options: a power of two of clusters, none empty (any such split *)
(* here), their blocks one after another, the settings capped.             *)
Offsets(sizes) ==
    [i \in 1 .. Len(sizes) + 1 |-> FoldLeft(+, 0, SubSeq(sizes, 1, i - 1))]

ListOffsets(count, wanted) == Offsets(Build!SplitSizes(count, Build!Depth(wanted, count)))

FullBlocks(lists) ==   \* faulty: rounds down
    Offsets([i \in 1 .. Len(lists) - 1 |-> (lists[i + 1] - lists[i]) \div Lanes])
BlockOffsets(lists) ==
    Offsets([i \in 1 .. Len(lists) - 1 |-> BlocksForRows(lists[i + 1] - lists[i])])

Written(lists, options) ==
    [version |-> 4, count |-> lists[Len(lists)], clusters |-> Len(lists) - 1,
     lists |-> lists, blocks |-> BlockOffsets(lists),
     search |-> Build!Normalised(options, Len(lists) - 1)]
-----------------------------------------------------------------------------
(* What the search does with an index, which nothing checks there: it      *)
(* follows the lists and their blocks, and sets bits of the probe mask     *)
(* (ivf_search.go:211-326, :533-542).                                      *)
RowsOf(x, i) == x.lists[i] .. x.lists[i + 1] - 1

InBounds(count, x) ==
    /\ \A r \in 0 .. count - 1 : \E i \in 1 .. x.clusters : r \in RowsOf(x, i)
    /\ \A i \in 1 .. x.clusters :
        /\ RowsOf(x, i) \subseteq 0 .. count - 1
        /\ \A j \in 1 .. i - 1 : RowsOf(x, i) \cap RowsOf(x, j) = {}
        /\ x.version >= 3 => \A r \in RowsOf(x, i) :
            LET block == x.blocks[i] + (r - x.lists[i]) \div Lanes
            IN block < x.blocks[i + 1] /\ block < x.blocks[x.clusters + 1]
        /\ (i - 1) \div WordBits < MaskWords
=============================================================================
