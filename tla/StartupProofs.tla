--------------------------- MODULE StartupProofs ---------------------------
(***************************************************************************)
(* What the checks of the loader guarantee, for every dimension, lane      *)
(* count, probe mask and index; and what holds of every index an instance  *)
(* serves from, and of the instances when the load balancer starts, for    *)
(* any number of instances, any files, settings and sizes, and any deaths  *)
(* and rewritings on the way.                                              *)
(***************************************************************************)
EXTENDS Startup, FoldLemmas, FiniteSetTheorems

\* Offsets that never decrease from one to the next never decrease.
LEMMA MonotoneOffsets ==
    ASSUME NEW s \in Seq(Nat), Monotone(s),
           NEW i \in 1 .. Len(s), NEW j \in 1 .. Len(s), i <= j
    PROVE  s[i] <= s[j]
<1> DEFINE T == {k \in i .. j : s[k] < s[i]}
<1>1. SUFFICES ASSUME T # {} PROVE FALSE
  <2>1. \A k \in 1 .. Len(s) : s[k] \in Nat
    OBVIOUS
  <2> QED
    BY <2>1
<1>2. PICK k \in T : \A l \in T : k <= l
  <2>1. T \subseteq Nat
    OBVIOUS
  <2> QED
    BY <1>1, <2>1, Least
<1>3. k \in i .. j /\ s[k] < s[i] /\ k # i
  OBVIOUS
<1>4. k - 1 \in i .. j /\ k - 1 \in 1 .. Len(s) - 1 /\ (k - 1) + 1 = k
  BY <1>3
<1>5. k - 1 \notin T
  BY <1>2, <1>4
<1>6. s[k - 1] <= s[k]
  BY <1>4 DEF Monotone
<1>7. s[k - 1] \in Nat /\ s[k] \in Nat /\ s[i] \in Nat
  BY <1>3, <1>4
<1>8. ~(s[k - 1] < s[i])
  BY <1>4, <1>5
<1> QED
  BY <1>3, <1>6, <1>7, <1>8

\* A quotient is below another if its number is a divisor's length below.
LEMMA Quotients ==
    ASSUME NEW a \in Nat, NEW b \in Nat, NEW d \in Nat \ {0}, a + d <= b
    PROVE  a \div d < b \div d
<1> DEFINE p == a \div d
<1> DEFINE q == b \div d
<1>1. p \in Nat /\ p * d <= a /\ q \in Nat /\ b < q * d + d
  BY Division
<1>2. p * d < q * d
  BY <1>1
<1>3. SUFFICES ASSUME q <= p PROVE FALSE
  BY <1>1
<1>4. PICK e \in Nat : p = q + e
  BY <1>1, <1>3
<1>5. p * d = q * d + e * d
  BY <1>1, <1>4
<1>6. e * d \in Nat /\ q * d \in Nat
  BY <1>1
<1> QED
  BY <1>2, <1>5, <1>6
-----------------------------------------------------------------------------
(* validateIVFOffsets.                                                     *)

\* The offsets the loops of the search read.
LEMMA OffsetTypes ==
    ASSUME NEW x \in Index
    PROVE  /\ x.version \in Nat /\ x.count \in Nat /\ x.clusters \in Nat
           /\ x.lists \in Seq(Nat) /\ x.blocks \in Seq(Nat)
           /\ \A i \in 1 .. x.clusters + 1 :
                /\ i \in 1 .. Len(x.lists) /\ x.lists[i] \in Nat
                /\ i \in 1 .. Len(x.blocks) /\ x.blocks[i] \in Nat
<1>1. /\ x.version \in Nat /\ x.count \in Nat /\ x.clusters \in Nat
      /\ x.lists \in Seq(Nat) /\ x.blocks \in Seq(Nat)
      /\ x.clusters < Len(x.lists) /\ x.clusters < Len(x.blocks)
  BY DEF Index
<1>2. ASSUME NEW s \in Seq(Nat), x.clusters < Len(s), NEW i \in 1 .. x.clusters + 1
      PROVE  i \in 1 .. Len(s) /\ s[i] \in Nat
  <2>1. i \in 1 .. Len(s)
    BY <1>1, <1>2
  <2> QED
    BY <2>1
<1> QED
  BY <1>1, <1>2

\* Every row is in a list: the first one that ends after it.
LEMMA RowsAreListed ==
    ASSUME NEW x \in Index, NEW count \in Nat, x.clusters > 0,
           ValidOffsets(count, x), NEW r \in 0 .. count - 1
    PROVE  \E i \in 1 .. x.clusters : r \in RowsOf(x, i)
<1> DEFINE T == {i \in 1 .. x.clusters : x.lists[i + 1] > r}
<1>1. x.lists[1] = 0 /\ x.lists[x.clusters + 1] = count
  BY DEF ValidOffsets
<1>2. x.clusters \in Nat
  BY OffsetTypes
<1>3. x.clusters \in T
  BY <1>1, <1>2
<1>4. PICK i \in T : \A j \in T : i <= j
  <2>1. T \subseteq Nat
    BY <1>2
  <2> QED
    BY <1>3, <2>1, Least
<1>5. x.lists[i] \in Nat /\ x.lists[i + 1] \in Nat
  BY <1>2, OffsetTypes
<1>6. x.lists[i] <= r
  <2>1. CASE i = 1
    BY <1>1, <2>1
  <2>2. CASE i # 1
    <3>1. i - 1 \in 1 .. x.clusters /\ (i - 1) + 1 = i
      BY <1>2, <2>2
    <3>2. i - 1 \notin T
      BY <1>4, <3>1
    <3> QED
      BY <1>5, <3>1, <3>2
  <2> QED
    BY <2>1, <2>2
<1>7. r \in x.lists[i] .. x.lists[i + 1] - 1
  BY <1>5, <1>6
<1> QED
  BY <1>7 DEF RowsOf

\* The rows of a list are rows of the index, and of no other list.
LEMMA ListsAreApart ==
    ASSUME NEW x \in Index, NEW count \in Nat, x.clusters > 0,
           ValidOffsets(count, x), NEW i \in 1 .. x.clusters
    PROVE  /\ RowsOf(x, i) \subseteq 0 .. count - 1
           /\ \A j \in 1 .. i - 1 : RowsOf(x, i) \cap RowsOf(x, j) = {}
<1>1. Monotone(x.lists) /\ x.lists[x.clusters + 1] = count
  BY DEF ValidOffsets
<1>2. x.clusters \in Nat /\ x.lists \in Seq(Nat)
  BY OffsetTypes
<1>3. /\ i \in 1 .. x.clusters + 1 /\ i + 1 \in 1 .. x.clusters + 1
      /\ x.clusters + 1 \in 1 .. x.clusters + 1 /\ i + 1 <= x.clusters + 1
  BY <1>2
<1>4. /\ i + 1 \in 1 .. Len(x.lists) /\ x.clusters + 1 \in 1 .. Len(x.lists)
      /\ i \in 1 .. Len(x.lists) /\ x.lists[i] \in Nat /\ x.lists[i + 1] \in Nat
  BY <1>3, OffsetTypes
<1>5. x.lists[i + 1] <= count
  BY <1>1, <1>2, <1>3, <1>4, MonotoneOffsets
<1>6. ASSUME NEW j \in 1 .. i - 1
      PROVE  RowsOf(x, i) \cap RowsOf(x, j) = {}
  <2>1. /\ j \in 1 .. x.clusters + 1 /\ j + 1 \in 1 .. x.clusters + 1 /\ j + 1 <= i
    BY <1>2
  <2>2. /\ j + 1 \in 1 .. Len(x.lists)
        /\ x.lists[j] \in Nat /\ x.lists[j + 1] \in Nat
    BY <2>1, OffsetTypes
  <2>3. x.lists[j + 1] <= x.lists[i]
    BY <1>1, <1>2, <1>4, <2>1, <2>2, MonotoneOffsets
  <2>4. ASSUME NEW r \in RowsOf(x, i), r \in RowsOf(x, j)
        PROVE  FALSE
    <3> DEFINE a == x.lists[i]
    <3> DEFINE b == x.lists[j + 1]
    <3>1. r \in Int /\ a <= r /\ r < b
      BY <1>4, <2>2, <2>4 DEF RowsOf
    <3>2. a \in Nat /\ b \in Nat /\ b <= a
      BY <1>4, <2>2, <2>3
    <3> HIDE DEF a, b
    <3> QED
      BY <3>1, <3>2
  <2> QED
    BY <2>4
<1>7. RowsOf(x, i) \subseteq 0 .. count - 1
  BY <1>4, <1>5 DEF RowsOf
<1> QED
  BY <1>6, <1>7

\* The block of a row is one of its list, and so of the index.
LEMMA BlocksAreThere ==
    ASSUME NEW x \in Index, NEW count \in Nat, x.clusters > 0,
           ValidOffsets(count, x), x.version >= 3,
           NEW i \in 1 .. x.clusters, NEW r \in RowsOf(x, i)
    PROVE  LET block == x.blocks[i] + (r - x.lists[i]) \div Lanes
           IN block < x.blocks[i + 1] /\ block < x.blocks[x.clusters + 1]
<1> DEFINE n == x.lists[i + 1] - x.lists[i]
<1> DEFINE k == r - x.lists[i]
<1>1. Monotone(x.blocks) /\ SpansMatch(x)
  BY DEF ValidOffsets
<1>2. x.clusters \in Nat /\ x.blocks \in Seq(Nat)
  BY OffsetTypes
<1>3. /\ i \in 1 .. x.clusters + 1 /\ i + 1 \in 1 .. x.clusters + 1
      /\ x.clusters + 1 \in 1 .. x.clusters + 1 /\ i + 1 <= x.clusters + 1
  BY <1>2
<1>4. /\ x.lists[i] \in Nat /\ x.lists[i + 1] \in Nat
      /\ x.blocks[i] \in Nat /\ x.blocks[i + 1] \in Nat
      /\ x.blocks[x.clusters + 1] \in Nat
      /\ i + 1 \in 1 .. Len(x.blocks) /\ x.clusters + 1 \in 1 .. Len(x.blocks)
  BY <1>3, OffsetTypes
<1>5. k \in Nat /\ n \in Nat /\ k < n
  <2>1. r \in x.lists[i] .. x.lists[i + 1] - 1
    BY DEF RowsOf
  <2>2. \A a, b \in Nat : \A q \in a .. b - 1 :
            q - a \in Nat /\ b - a \in Nat /\ q - a < b - a
    OBVIOUS
  <2> QED
    BY <1>4, <2>1, <2>2
<1>6. Lanes \in Nat \ {0}
  BY IndexAssumption
<1>7. n + Lanes - 1 \in Nat /\ k + Lanes <= n + Lanes - 1
  BY <1>5, <1>6
<1> DEFINE within == k \div Lanes
<1> DEFINE span == (n + Lanes - 1) \div Lanes
<1> DEFINE from == x.blocks[i]
<1> DEFINE to == x.blocks[i + 1]
<1> DEFINE end == x.blocks[x.clusters + 1]
<1>8. within < span
  BY <1>5, <1>6, <1>7, Quotients
<1>9. to - from = span
  BY <1>1 DEF SpansMatch, BlocksForRows
<1>10. within \in Nat /\ span \in Nat
  BY <1>5, <1>6, <1>7, Division
<1>11. to <= end
  BY <1>1, <1>2, <1>3, <1>4, MonotoneOffsets
<1>12. from \in Nat /\ to \in Nat /\ end \in Nat
  BY <1>4
<1>13. from + within < to /\ from + within < end
  <2> HIDE DEF within, span, from, to, end
  <2> QED
    BY <1>8, <1>9, <1>10, <1>11, <1>12
<1> QED
  BY <1>13

\* The probe mask has a bit for every cluster.
LEMMA BitsAreThere ==
    ASSUME NEW x \in Index, FitsProbeMask(x.clusters), NEW i \in 1 .. x.clusters
    PROVE  (i - 1) \div WordBits < MaskWords
<1> DEFINE q == (i - 1) \div WordBits
<1>1. WordBits \in Nat \ {0} /\ MaskWords \in Nat \ {0} /\ x.clusters \in Nat
  BY IndexAssumption, OffsetTypes
<1>2. i - 1 \in Nat /\ i - 1 < MaskWords * WordBits
  <2>1. x.clusters <= MaskWords * WordBits
    BY DEF FitsProbeMask
  <2>2. MaskWords * WordBits \in Nat
    BY <1>1
  <2> QED
    BY <1>1, <2>1, <2>2
<1>3. q \in Nat /\ q * WordBits <= i - 1
  BY <1>1, <1>2, Division
<1>4. SUFFICES ASSUME MaskWords <= q PROVE FALSE
  BY <1>1, <1>3
<1>5. PICK e \in Nat : q = MaskWords + e
  BY <1>1, <1>3, <1>4
<1>6. q * WordBits = MaskWords * WordBits + e * WordBits
  BY <1>1, <1>5
<1>7. e * WordBits \in Nat /\ MaskWords * WordBits \in Nat /\ q * WordBits \in Nat
  BY <1>1, <1>3
<1> QED
  BY <1>2, <1>3, <1>6, <1>7

\* Offsets that pass the validation keep the search, which checks nothing
\* itself, within the lists, the blocks and the probe mask
\* (binary_index.go:239-270; ivf_search.go:211-326, :533-542).
THEOREM ValidatedIndexIsInBounds ==
    ASSUME NEW x \in Index, NEW count \in Nat, x.clusters > 0,
           ValidOffsets(count, x)
    PROVE  InBounds(count, x)
<1>1. \A r \in 0 .. count - 1 : \E i \in 1 .. x.clusters : r \in RowsOf(x, i)
  BY RowsAreListed
<1>2. ASSUME NEW i \in 1 .. x.clusters
      PROVE  /\ RowsOf(x, i) \subseteq 0 .. count - 1
             /\ \A j \in 1 .. i - 1 : RowsOf(x, i) \cap RowsOf(x, j) = {}
  BY ListsAreApart
<1>3. ASSUME NEW i \in 1 .. x.clusters, x.version >= 3, NEW r \in RowsOf(x, i)
      PROVE  LET block == x.blocks[i] + (r - x.lists[i]) \div Lanes
             IN block < x.blocks[i + 1] /\ block < x.blocks[x.clusters + 1]
  BY <1>3, BlocksAreThere
<1>4. ASSUME NEW i \in 1 .. x.clusters
      PROVE  (i - 1) \div WordBits < MaskWords
  <2>1. FitsProbeMask(x.clusters)
    BY DEF ValidOffsets
  <2> QED
    BY <2>1, BitsAreThere
<1> QED
  BY <1>1, <1>2, <1>3, <1>4 DEF InBounds
-----------------------------------------------------------------------------
(* The size of the mapping.                                                *)

\* The two sizes loadIVFBinaryIndexMmap computes are together those of all
\* sections, for each version of the format.
LEMMA SizesAddUp ==
    ASSUME NEW x \in Index, NEW header,
           header.version = x.version, header.count = x.count,
           x.version \in 2 .. 4
    PROVE  LET blocks == IF x.version >= 3 THEN 2 * x.blocks[x.clusters + 1] * Stride
                         ELSE 0
           IN  /\ MmapNeed(header, x) \in Nat /\ blocks \in Nat
               /\ MmapNeed(header, x) + blocks = WholeSize(x)
               /\ HeaderSize + IVFHeaderSize <= MmapNeed(header, x)
<1> DEFINE c == x.clusters
<1> DEFINE boxes == 2 * c * Dimensions
<1> DEFINE offsets == 4 * (c + 1)
<1> DEFINE rows == 2 * x.count * Dimensions
<1> DEFINE centroids == 2 * BlocksForRows(c) * Stride
<1> DEFINE blocks == 2 * x.blocks[c + 1] * Stride
<1>1. /\ x.count \in Nat /\ c \in Nat /\ x.blocks[c + 1] \in Nat
      /\ Dimensions \in Nat \ {0} /\ Lanes \in Nat \ {0}
  <2>1. x.count \in Nat /\ c \in Nat
    BY OffsetTypes
  <2>2. c + 1 \in 1 .. x.clusters + 1
    BY <2>1
  <2> QED
    BY <2>1, <2>2, OffsetTypes, IndexAssumption
<1>2. Stride \in Nat /\ BlocksForRows(c) \in Nat /\ x.count % 2 \in 0 .. 1
  <2>1. c + Lanes - 1 \in Nat
    BY <1>1
  <2> QED
    BY <1>1, <2>1, Division DEF Stride, BlocksForRows
<1>3. /\ boxes \in Nat /\ offsets \in Nat /\ rows \in Nat
      /\ centroids \in Nat /\ blocks \in Nat
  BY <1>1, <1>2
<1>4. MmapNeed(header, x)
        = 24 + 16 + 3 * boxes + 4 * x.count + offsets
          + (IF x.version = 2 THEN rows ELSE 0) + x.count
          + (IF x.version >= 3 THEN offsets + (x.count % 2) ELSE 0)
          + (IF x.version >= 4 THEN centroids ELSE 0)
  BY DEF MmapNeed, HeaderSize, IVFHeaderSize, Padding
<1>5. WholeSize(x)
        = 24 + 16 + boxes + (IF x.version >= 4 THEN centroids ELSE 0) + offsets
          + (IF x.version >= 3 THEN offsets ELSE 0) + boxes + boxes
          + 4 * x.count + (IF x.version = 2 THEN rows ELSE 0) + x.count
          + (IF x.version >= 3 THEN x.count % 2 ELSE 0)
          + (IF x.version >= 3 THEN blocks ELSE 0)
  BY DEF WholeSize, Sections, HeaderSize, IVFHeaderSize
<1>6. HeaderSize + IVFHeaderSize = 40
  BY DEF HeaderSize, IVFHeaderSize
<1> DEFINE more == IF x.version >= 3 THEN blocks ELSE 0
<1>7. /\ MmapNeed(header, x) \in Nat /\ more \in Nat
      /\ MmapNeed(header, x) + more = WholeSize(x)
      /\ 40 <= MmapNeed(header, x)
  <2> HIDE DEF boxes, offsets, rows, centroids, blocks, c
  <2>1. CASE x.version = 2
    BY <1>1, <1>2, <1>3, <1>4, <1>5, <2>1
  <2>2. CASE x.version = 3
    BY <1>1, <1>2, <1>3, <1>4, <1>5, <2>2
  <2>3. CASE x.version = 4
    BY <1>1, <1>2, <1>3, <1>4, <1>5, <2>3
  <2> QED
    BY <2>1, <2>2, <2>3
<1>8. more = IF x.version >= 3 THEN 2 * x.blocks[x.clusters + 1] * Stride ELSE 0
  OBVIOUS
<1> HIDE DEF more
<1> QED
  BY <1>6, <1>7, <1>8

\* No rows take no blocks: no list has any.
LEMMA NoRowsNoBlocks ==
    ASSUME NEW x \in Index, x.version >= 3, ValidOffsets(0, x)
    PROVE  x.blocks[x.clusters + 1] = 0
<1> DEFINE T == {i \in 1 .. x.clusters + 1 : x.blocks[i] # 0}
<1>1. x.clusters \in Nat /\ x.lists \in Seq(Nat)
  BY OffsetTypes
<1>2. SUFFICES ASSUME T # {} PROVE FALSE
  BY <1>1
<1>3. PICK k \in T : \A l \in T : k <= l
  <2>1. T \subseteq Nat
    BY <1>1
  <2> QED
    BY <1>2, <2>1, Least
<1>4. k \in 1 .. x.clusters + 1 /\ x.blocks[k] # 0 /\ k # 1
  BY DEF ValidOffsets
<1> DEFINE i == k - 1
<1>5. i \in 1 .. x.clusters /\ i + 1 = k /\ i < k
  BY <1>1, <1>4
<1>6. i \notin T
  BY <1>1, <1>3, <1>5
<1>7. x.blocks[i] = 0
  BY <1>1, <1>5, <1>6
<1> HIDE DEF T, i
<1>8. x.lists[i] = 0 /\ x.lists[i + 1] = 0
  <2>1. Monotone(x.lists) /\ x.lists[x.clusters + 1] = 0
    BY DEF ValidOffsets
  <2>2. ASSUME NEW j \in 1 .. x.clusters + 1 PROVE x.lists[j] = 0
    <3>1. /\ j \in 1 .. Len(x.lists) /\ x.lists[j] \in Nat
          /\ x.clusters + 1 \in 1 .. Len(x.lists) /\ j <= x.clusters + 1
      BY <1>1, OffsetTypes
    <3>2. x.lists[j] <= x.lists[x.clusters + 1]
      BY <1>1, <2>1, <3>1, MonotoneOffsets
    <3> QED
      BY <2>1, <3>1, <3>2
  <2>3. i \in 1 .. x.clusters + 1 /\ i + 1 \in 1 .. x.clusters + 1
    BY <1>1, <1>5
  <2> QED
    BY <2>2, <2>3
<1>9. BlocksForRows(0) = 0
  BY IndexAssumption DEF BlocksForRows
<1>10. x.blocks[i + 1] - x.blocks[i] = BlocksForRows(0)
  <2>1. SpansMatch(x)
    BY DEF ValidOffsets
  <2>2. x.blocks[i + 1] - x.blocks[i] = BlocksForRows(x.lists[i + 1] - x.lists[i])
    BY <1>5, <2>1 DEF SpansMatch
  <2> QED
    BY <1>8, <2>2
<1>11. x.blocks[i + 1] \in Nat
  BY <1>4, <1>5, OffsetTypes
<1> QED
  BY <1>4, <1>5, <1>7, <1>9, <1>10, <1>11

\* So the size tests of loadIVFBinaryIndexMmap ask for all sections, and of a
\* file without rows for a byte more, if the header it uses is the one in front
\* of them (binary_index_linux.go:53-136).
LEMMA MappingIsWhole ==
    ASSUME NEW x \in Index, NEW size \in Nat, NEW header,
           header.version = x.version, header.count = x.count
    PROVE  MmapAccepts(header, x, size)
             <=> /\ x.version \in 2 .. 4 /\ x.clusters > 0
                 /\ ValidOffsets(x.count, x)
                 /\ WholeSize(x) <= size
                 /\ RowsOrMore(x, size)
<1> SUFFICES ASSUME x.version \in 2 .. 4, ValidOffsets(x.count, x)
             PROVE  MmapAccepts(header, x, size)
                      <=> /\ x.clusters > 0
                          /\ WholeSize(x) <= size
                          /\ RowsOrMore(x, size)
  BY DEF MmapAccepts
<1> DEFINE need == MmapNeed(header, x)
<1> DEFINE rows == 2 * x.blocks[x.clusters + 1] * Stride
<1> DEFINE blocks == IF x.version >= 3 THEN rows ELSE 0
<1> DEFINE front == HeaderSize + IVFHeaderSize
<1>1. /\ need \in Nat /\ blocks \in Nat /\ need + blocks = WholeSize(x)
      /\ front <= need /\ front \in Nat
  <2>1. front \in Nat
    BY DEF HeaderSize, IVFHeaderSize
  <2> QED
    BY <2>1, SizesAddUp
<1>2. x.version >= 3 => blocks = rows
  OBVIOUS
<1>3. x.version < 3 => blocks = 0
  OBVIOUS
<1>4. MmapAccepts(header, x, size)
        <=> /\ size >= front /\ x.clusters > 0 /\ size >= need
            /\ x.count = 0 => need < size
            /\ x.version >= 3 => need + rows <= size
  BY DEF MmapAccepts, EndsWithin, FirstByteThere
<1>5. x.count = 0 => blocks = 0
  <2> SUFFICES ASSUME x.count = 0, x.version >= 3 PROVE rows = 0
    BY <1>2, <1>3
  <2>1. x.blocks[x.clusters + 1] = 0
    BY NoRowsNoBlocks
  <2>2. Stride \in Nat
    BY IndexAssumption DEF Stride
  <2> QED
    BY <2>1, <2>2
<1> HIDE DEF need, rows, blocks, front
<1>6. need <= size /\ (x.version >= 3 => need + rows <= size)
        <=> need + blocks <= size
  BY <1>1, <1>2, <1>3
<1>7. need <= size => front <= size
  BY <1>1
<1>8. x.count \in Nat
  BY OffsetTypes
<1>9. (x.count = 0 => need < size) <=> x.count > 0 \/ size > WholeSize(x)
  BY <1>1, <1>5, <1>8
<1> QED
  BY <1>1, <1>4, <1>6, <1>7, <1>9 DEF RowsOrMore

\* A mapping the loader accepts has all the sections of its index: nothing the
\* search reads through it lies beyond its end (binary_index_linux.go:53-136).
THEOREM AcceptedMappingIsWhole ==
    ASSUME NEW x \in Index, NEW size \in Nat, NEW header,
           header.version = x.version, header.count = x.count,
           MmapAccepts(header, x, size)
    PROVE  size >= WholeSize(x)
<1>1. WholeSize(x) <= size /\ x.version \in 2 .. 4
  BY MappingIsWhole
<1>2. WholeSize(x) \in Nat
  BY <1>1, SizesAddUp
<1> QED
  BY <1>1, <1>2

\* Every section has a size.
LEMMA SectionTypes ==
    ASSUME NEW x \in Index
    PROVE  Len(Sections(x)) = 13 /\ \A k \in 1 .. 13 : Sections(x)[k] \in Nat
<1> DEFINE s == Sections(x)
<1>1. /\ x.count \in Nat /\ x.clusters \in Nat /\ x.version \in Nat
      /\ x.blocks[x.clusters + 1] \in Nat
      /\ Dimensions \in Nat \ {0} /\ Lanes \in Nat \ {0}
  <2>1. x.count \in Nat /\ x.clusters \in Nat /\ x.version \in Nat
    BY OffsetTypes
  <2>2. x.clusters + 1 \in 1 .. x.clusters + 1
    BY <2>1
  <2> QED
    BY <2>1, <2>2, OffsetTypes, IndexAssumption
<1>2. Stride \in Nat /\ BlocksForRows(x.clusters) \in Nat /\ x.count % 2 \in Nat
  <2>1. x.clusters + Lanes - 1 \in Nat
    BY <1>1
  <2> QED
    BY <1>1, <2>1, Division DEF Stride, BlocksForRows
<1>3. /\ 2 * x.clusters * Dimensions \in Nat
      /\ 2 * BlocksForRows(x.clusters) * Stride \in Nat
      /\ 4 * (x.clusters + 1) \in Nat
      /\ 4 * x.count \in Nat
      /\ 2 * x.count * Dimensions \in Nat
      /\ 2 * x.blocks[x.clusters + 1] * Stride \in Nat
  BY <1>1, <1>2
<1>4. Len(s) = 13
  BY DEF Sections
<1>5. /\ s[1] \in Nat /\ s[2] \in Nat /\ s[3] \in Nat /\ s[4] \in Nat
      /\ s[5] \in Nat /\ s[6] \in Nat /\ s[7] \in Nat /\ s[8] \in Nat
      /\ s[9] \in Nat /\ s[10] \in Nat /\ s[11] \in Nat /\ s[12] \in Nat
      /\ s[13] \in Nat
  BY <1>1, <1>2, <1>3 DEF Sections, HeaderSize, IVFHeaderSize
<1> HIDE DEF s
<1>6. \A k \in 1 .. 13 : s[k] \in Nat
  BY <1>5
<1> QED
  BY <1>4, <1>6 DEF s

\* Where the sections end: nowhere before an earlier one, and the last at the
\* end of the file.
LEMMA SectionsEnd ==
    ASSUME NEW x \in Index
    PROVE  /\ WholeSize(x) \in Nat /\ EndOf(x, 13) = WholeSize(x)
           /\ \A k \in 1 .. 13 : EndOf(x, k) \in Nat /\ EndOf(x, k) <= WholeSize(x)
<1> DEFINE s == Sections(x)
<1> DEFINE e == [k \in 0 .. 13 |-> EndOf(x, k)]
<1>1. Len(s) = 13 /\ \A k \in 1 .. 13 : s[k] \in Nat
  BY SectionTypes
<1>2. s \in Seq(Nat)
  <2>1. s = [k \in 1 .. 13 |-> s[k]]
    BY DEF Sections
  <2> HIDE DEF s
  <2> QED
    BY <1>1, <2>1
<1>3. /\ e[0] = 0 /\ \A k \in 1 .. 13 : e[k] = e[k - 1] + s[k]
      /\ \A k \in 0 .. 13 : e[k] \in Nat
  <2>1. \A k \in 0 .. 13 : e[k] = SumOf(SubSeq(s, 1, k))
    BY DEF EndOf, SumOf
  <2> HIDE DEF s, e
  <2>2. /\ \A k \in 0 .. 13 : SumOf(SubSeq(s, 1, k)) \in Nat
        /\ SumOf(SubSeq(s, 1, 0)) = 0
        /\ \A k \in 1 .. 13 :
             SumOf(SubSeq(s, 1, k)) = SumOf(SubSeq(s, 1, k - 1)) + s[k]
    BY <1>1, <1>2, PartialSums
  <2>3. ASSUME NEW k \in 1 .. 13 PROVE k \in 0 .. 13 /\ k - 1 \in 0 .. 13
    OBVIOUS
  <2> QED
    BY <2>1, <2>2, <2>3
<1>4. WholeSize(x) = s[1] + s[2] + s[3] + s[4] + s[5] + s[6] + s[7] + s[8]
                     + s[9] + s[10] + s[11] + s[12] + s[13]
  BY DEF WholeSize
<1>5. \A k \in 0 .. 13 : EndOf(x, k) = e[k]
  OBVIOUS
<1> HIDE DEF s, e
<1>6. /\ e[1] = s[1] /\ e[2] = e[1] + s[2] /\ e[3] = e[2] + s[3]
      /\ e[4] = e[3] + s[4] /\ e[5] = e[4] + s[5] /\ e[6] = e[5] + s[6]
      /\ e[7] = e[6] + s[7] /\ e[8] = e[7] + s[8] /\ e[9] = e[8] + s[9]
      /\ e[10] = e[9] + s[10] /\ e[11] = e[10] + s[11]
      /\ e[12] = e[11] + s[12] /\ e[13] = e[12] + s[13]
  BY <1>1, <1>3
<1>7. WholeSize(x) = e[13] /\ e[13] \in Nat
  BY <1>1, <1>3, <1>4, <1>6
<1>8. \A k \in 1 .. 13 : e[k] <= e[13]
  <2>1. /\ e[1] <= e[2] /\ e[2] <= e[3] /\ e[3] <= e[4] /\ e[4] <= e[5]
        /\ e[5] <= e[6] /\ e[6] <= e[7] /\ e[7] <= e[8] /\ e[8] <= e[9]
        /\ e[9] <= e[10] /\ e[10] <= e[11] /\ e[11] <= e[12] /\ e[12] <= e[13]
    BY <1>1, <1>3, <1>6
  <2> QED
    BY <1>3, <2>1
<1>9. ASSUME NEW k \in 1 .. 13
      PROVE  EndOf(x, k) \in Nat /\ EndOf(x, k) <= WholeSize(x)
  <2>1. k \in 0 .. 13 /\ e[k] \in Nat /\ e[k] <= e[13]
    BY <1>3, <1>8
  <2> QED
    BY <1>5, <1>7, <2>1
<1>10. EndOf(x, 13) = WholeSize(x)
  BY <1>5, <1>7
<1> QED
  BY <1>7, <1>9, <1>10

\* The loader that maps the file takes the indexes the one takes that reads it
\* section by section, whatever their version, offsets and length, but for the
\* ones without rows that end with their sections, at which it panics: the two
\* formulas of the mapping are the layout the other reads
\* (binary_index.go:151-238, binary_index_linux.go:53-154).
THEOREM LoadersTakeTheSame ==
    ASSUME NEW x \in Index, NEW size \in Nat
    PROVE  MmapAccepts([version |-> x.version, count |-> x.count], x, size)
             <=> HeapAccepts(x, size) /\ RowsOrMore(x, size)
<1> DEFINE header == [version |-> x.version, count |-> x.count]
<1>1. MmapAccepts(header, x, size)
        <=> /\ x.version \in 2 .. 4 /\ x.clusters > 0
            /\ ValidOffsets(x.count, x)
            /\ WholeSize(x) <= size
            /\ RowsOrMore(x, size)
  <2>1. header.version = x.version /\ header.count = x.count
    OBVIOUS
  <2> HIDE DEF header
  <2> QED
    BY <2>1, MappingIsWhole
<1>2. (\A k \in 1 .. 13 : size >= EndOf(x, k)) <=> WholeSize(x) <= size
  <2>1. WholeSize(x) \in Nat /\ EndOf(x, 13) = WholeSize(x) /\ 13 \in 1 .. 13
    BY SectionsEnd
  <2>2. ASSUME NEW k \in 1 .. 13, WholeSize(x) <= size PROVE size >= EndOf(x, k)
    <3>1. EndOf(x, k) \in Nat /\ EndOf(x, k) <= WholeSize(x)
      BY SectionsEnd
    <3> QED
      BY <2>1, <2>2, <3>1
  <2> QED
    BY <2>1, <2>2
<1>3. Len(Sections(x)) = 13
  BY SectionTypes
<1> QED
  BY <1>1, <1>2, <1>3 DEF HeapAccepts

-----------------------------------------------------------------------------
(* What preprocess writes.                                                 *)

\* The halvings of BuildIVFIndex are counted, or it returns an error.
LEMMA DepthType ==
    ASSUME NEW asked \in Int, NEW count \in Nat \ {0}
    PROVE  Build!Depth(asked, count) \in -1 .. 30
<1> DEFINE wanted == IF asked <= 0 THEN 8192 ELSE asked
<1> DEFINE P == {n \in 0 .. 30 : 2^n <= count}
<1>1. Build!GreatestOf(P) \in 0 .. 30
  <2>1. 0 \in P
    <3>1. 2^0 = 1
      OBVIOUS
    <3> QED
      BY <3>1
  <2>2. P \subseteq 0 .. 30
    OBVIOUS
  <2> HIDE DEF P
  <2>3. \E x \in P : \A y \in P : x >= y
    <3>1. 30 \in Nat /\ P # {}
      BY <2>1
    <3> QED
      BY <2>2, <3>1, Greatest
  <2>4. Build!GreatestOf(P) \in P
    BY <2>3 DEF Build!GreatestOf
  <2> QED
    BY <2>2, <2>4
<1> DEFINE Is(n) == 2^n = wanted
<1>2. Build!Depth(asked, count)
        = IF wanted > count THEN Build!GreatestOf(P)
          ELSE IF \E n \in 0 .. 30 : Is(n) THEN CHOOSE n \in 0 .. 30 : Is(n)
          ELSE -1
  BY DEF Build!Depth
<1> HIDE DEF wanted, P, Is
<1>3. (\E n \in 0 .. 30 : Is(n)) => (CHOOSE n \in 0 .. 30 : Is(n)) \in 0 .. 30
  OBVIOUS
<1>4. 0 .. 30 \subseteq -1 .. 30 /\ -1 \in -1 .. 30
  OBVIOUS
<1> QED
  BY <1>1, <1>2, <1>3, <1>4

\* However often a number of rows is halved, the parts are some numbers, and
\* the last of them is not 0.
LEMMA SplitTypes ==
    ASSUME NEW count \in Nat \ {0}, NEW depth \in Nat
    PROVE  LET s == Build!SplitSizes(count, depth)
           IN s \in Seq(Nat) /\ Len(s) > 0 /\ s[Len(s)] > 0
<1> DEFINE A == {s \in Seq(Nat) : Len(s) > 0 /\ s[Len(s)] > 0}
<1> DEFINE Halved(s) == [j \in 1 .. 2 * Len(s) |->
                LET rows == s[(j + 1) \div 2]
                IN IF j % 2 = 1 THEN rows \div 2 ELSE rows - rows \div 2]
<1> DEFINE next == [s \in A |-> Halved(s)]
<1>1. ASSUME NEW s \in A PROVE Halved(s) \in A
  <2>1. s \in Seq(Nat) /\ Len(s) \in Nat /\ Len(s) > 0 /\ s[Len(s)] > 0
    OBVIOUS
  <2>2. ASSUME NEW j \in 1 .. 2 * Len(s)
        PROVE  (LET rows == s[(j + 1) \div 2]
                IN IF j % 2 = 1 THEN rows \div 2 ELSE rows - rows \div 2) \in Nat
    <3> DEFINE rows == s[(j + 1) \div 2]
    <3>1. (j + 1) \div 2 \in 1 .. Len(s)
      BY <2>1
    <3>2. rows \in Nat
      <4> HIDE DEF A
      <4> QED
        BY <2>1, <3>1
    <3> HIDE DEF rows
    <3>3. (IF j % 2 = 1 THEN rows \div 2 ELSE rows - rows \div 2) \in Nat
      BY <3>2
    <3> QED
      BY <3>3 DEF rows
  <2>3. 2 * Len(s) \in Nat /\ 2 * Len(s) > 0
    BY <2>1
  <2> DEFINE h == Halved(s)
  <2>4. h \in [1 .. 2 * Len(s) -> Nat]
    BY <2>2
  <2> DEFINE last == s[Len(s)]
  <2>5. h[2 * Len(s)] = last - last \div 2
    <3>1. /\ 2 * Len(s) \in 1 .. 2 * Len(s)
          /\ (2 * Len(s) + 1) \div 2 = Len(s) /\ (2 * Len(s)) % 2 # 1
      BY <2>1
    <3> QED
      BY <3>1
  <2>6. last \in Nat /\ last > 0
    BY <2>1
  <2> HIDE DEF h, last
  <2>7. h \in Seq(Nat) /\ Len(h) = 2 * Len(s)
    BY <2>3, <2>4
  <2>8. h[Len(h)] > 0
    BY <2>5, <2>6, <2>7
  <2>9. h \in A
    BY <2>3, <2>7, <2>8
  <2> QED
    BY <2>9 DEF h
<1>2. next \in [A -> A]
  <2> HIDE DEF A, Halved
  <2> QED
    BY <1>1
<1>3. <<count>> \in A
  OBVIOUS
<1>4. \A s \in A : next[s] = Halved(s)
  OBVIOUS
<1>5. PICK f \in [0 .. depth -> A] :
        f[0] = <<count>> /\ \A n \in 1 .. depth : f[n] = next[f[n - 1]]
  <2> HIDE DEF A, next
  <2>1. \E f \in [0 .. depth -> A] : Iterates(f, <<count>>, next, depth)
    BY <1>2, <1>3, Recursion
  <2> QED
    BY <2>1 DEF Iterates
<1> DEFINE Is(g) == g = [n \in 0 .. depth |->
                            IF n = 0 THEN <<count>> ELSE Halved(g[n - 1])]
<1> DEFINE halving == CHOOSE g : Is(g)
<1>6. Is(f)
  <2>1. ASSUME NEW n \in 0 .. depth
        PROVE  f[n] = IF n = 0 THEN <<count>> ELSE Halved(f[n - 1])
    <3>1. n # 0 => n \in 1 .. depth /\ n - 1 \in 0 .. depth
      OBVIOUS
    <3> HIDE DEF A, Halved, next
    <3> QED
      BY <1>4, <1>5, <3>1
  <2> HIDE DEF Halved, A
  <2> QED
    BY <1>5, <2>1
<1>7. Is(halving)
  <2> HIDE DEF Is
  <2> QED
    BY <1>6
<1>8. Build!SplitSizes(count, depth) = halving[depth]
  BY DEF Build!SplitSizes
<1> HIDE DEF halving
<1>9. \A n \in 0 .. depth :
        halving[n] = IF n = 0 THEN <<count>> ELSE Halved(halving[n - 1])
  <2> HIDE DEF Halved
  <2> QED
    BY <1>7
<1> HIDE DEF A, Halved, next, Is
<1> DEFINE S == {n \in Nat : n <= depth => halving[n] \in A}
<1>10. 0 \in S
  BY <1>3, <1>9
<1>11. ASSUME NEW n \in Nat, n \in S PROVE n + 1 \in S
  <2> SUFFICES ASSUME n + 1 <= depth PROVE halving[n + 1] \in A
    OBVIOUS
  <2>1. n + 1 \in 0 .. depth /\ n + 1 # 0 /\ n + 1 - 1 = n /\ n <= depth
    OBVIOUS
  <2>2. halving[n + 1] = Halved(halving[n]) /\ halving[n] \in A
    BY <1>9, <1>11, <2>1
  <2> QED
    BY <1>1, <2>2
<1>12. depth \in S
  <2> HIDE DEF S
  <2> QED
    BY <1>10, <1>11, Induction
<1>13. halving[depth] \in A
  BY <1>12
<1> QED
  BY <1>8, <1>13 DEF A

\* Offsets of sizes: from 0, one after the other.
LEMMA OffsetsAre ==
    ASSUME NEW sizes \in Seq(Nat)
    PROVE  /\ Offsets(sizes) \in Seq(Nat) /\ Len(Offsets(sizes)) = Len(sizes) + 1
           /\ Offsets(sizes)[1] = 0
           /\ \A i \in 1 .. Len(sizes) :
                Offsets(sizes)[i + 1] = Offsets(sizes)[i] + sizes[i]
<1> DEFINE o == Offsets(sizes)
<1>1. Len(sizes) \in Nat /\ Len(sizes) + 1 \in Nat
  OBVIOUS
<1>2. o = [i \in 1 .. Len(sizes) + 1 |-> SumOf(SubSeq(sizes, 1, i - 1))]
  BY DEF Offsets, SumOf
<1> HIDE DEF o
<1>3. /\ \A k \in 0 .. Len(sizes) : SumOf(SubSeq(sizes, 1, k)) \in Nat
      /\ SumOf(SubSeq(sizes, 1, 0)) = 0
      /\ \A k \in 1 .. Len(sizes) :
           SumOf(SubSeq(sizes, 1, k)) = SumOf(SubSeq(sizes, 1, k - 1)) + sizes[k]
  BY PartialSums
<1>4. ASSUME NEW i \in 1 .. Len(sizes) + 1
      PROVE  o[i] = SumOf(SubSeq(sizes, 1, i - 1)) /\ i - 1 \in 0 .. Len(sizes)
  BY <1>1, <1>2
<1>5. o \in [1 .. Len(sizes) + 1 -> Nat]
  BY <1>2, <1>3, <1>4
<1>6. o \in Seq(Nat) /\ Len(o) = Len(sizes) + 1
  BY <1>1, <1>5
<1>7. o[1] = 0
  <2>1. 1 \in 1 .. Len(sizes) + 1 /\ 1 - 1 = 0
    BY <1>1
  <2> QED
    BY <1>3, <1>4, <2>1
<1>8. ASSUME NEW i \in 1 .. Len(sizes) PROVE o[i + 1] = o[i] + sizes[i]
  <2>1. i \in 1 .. Len(sizes) + 1 /\ i + 1 \in 1 .. Len(sizes) + 1 /\ i + 1 - 1 = i
    BY <1>1
  <2>2. /\ o[i] = SumOf(SubSeq(sizes, 1, i - 1))
        /\ o[i + 1] = SumOf(SubSeq(sizes, 1, i))
    BY <1>4, <2>1
  <2> QED
    BY <1>3, <2>2
<1> QED
  BY <1>6, <1>7, <1>8 DEF o

\* The blocks of lists are the offsets of the numbers of blocks they take.
LEMMA BlockOffsetsAre ==
    ASSUME NEW lists \in Seq(Nat), Len(lists) > 0, Monotone(lists)
    PROVE  /\ BlockOffsets(lists) \in Seq(Nat)
           /\ Len(BlockOffsets(lists)) = Len(lists)
           /\ BlockOffsets(lists)[1] = 0 /\ Monotone(BlockOffsets(lists))
           /\ \A i \in 1 .. Len(lists) - 1 :
                BlockOffsets(lists)[i + 1] - BlockOffsets(lists)[i]
                  = BlocksForRows(lists[i + 1] - lists[i])
<1> DEFINE sizes == [i \in 1 .. Len(lists) - 1 |->
                        BlocksForRows(lists[i + 1] - lists[i])]
<1> DEFINE b == Offsets(sizes)
<1>1. Len(lists) \in Nat /\ Len(lists) - 1 \in Nat
  OBVIOUS
<1>2. ASSUME NEW i \in 1 .. Len(lists) - 1
      PROVE  BlocksForRows(lists[i + 1] - lists[i]) \in Nat
  <2>1. i \in 1 .. Len(lists) /\ i + 1 \in 1 .. Len(lists)
    BY <1>1
  <2>2. lists[i] \in Nat /\ lists[i + 1] \in Nat /\ lists[i] <= lists[i + 1]
    BY <2>1 DEF Monotone
  <2>3. lists[i + 1] - lists[i] + Lanes - 1 \in Nat /\ Lanes \in Nat \ {0}
    BY <2>2, IndexAssumption
  <2> QED
    BY <2>3, Division DEF BlocksForRows
<1>3. sizes \in [1 .. Len(lists) - 1 -> Nat]
  BY <1>2
<1>4. \A i \in 1 .. Len(lists) - 1 :
        sizes[i] = BlocksForRows(lists[i + 1] - lists[i])
  OBVIOUS
<1>5. BlockOffsets(lists) = b
  BY DEF BlockOffsets
<1> HIDE DEF sizes
<1>6. sizes \in Seq(Nat) /\ Len(sizes) = Len(lists) - 1
  BY <1>1, <1>3
<1>7. /\ b \in Seq(Nat) /\ Len(b) = Len(sizes) + 1 /\ b[1] = 0
      /\ \A i \in 1 .. Len(sizes) : b[i + 1] = b[i] + sizes[i]
  BY <1>6, OffsetsAre
<1> HIDE DEF b
<1>8. Len(b) = Len(lists)
  BY <1>1, <1>6, <1>7
<1>9. ASSUME NEW i \in 1 .. Len(lists) - 1
      PROVE  b[i] <= b[i + 1] /\ b[i + 1] - b[i] = sizes[i]
  <2>1. i \in 1 .. Len(b) /\ i + 1 \in 1 .. Len(b)
    BY <1>1, <1>8
  <2>2. b[i] \in Nat /\ b[i + 1] \in Nat
    BY <1>7, <2>1
  <2>3. sizes[i] \in Nat
    BY <1>3
  <2>4. b[i + 1] = b[i] + sizes[i]
    BY <1>6, <1>7
  <2> QED
    BY <2>2, <2>3, <2>4
<1>10. Monotone(b)
  BY <1>8, <1>9 DEF Monotone
<1> QED
  BY <1>4, <1>5, <1>7, <1>8, <1>9, <1>10

\* What preprocess writes is an index, its lists and blocks are one after the
\* other, and it has clusters.
LEMMA ProductsFit ==
    ASSUME NEW x \in Products
    PROVE  /\ x \in Index /\ x.version = 4 /\ x.clusters > 0 /\ x.count > 0
           /\ FitsProbeMask(x.clusters) => ValidOffsets(x.count, x)
<1>1. PICK o \in Options : /\ o.count > 0 /\ Build!Depth(o.clusters, o.count) >= 0
                           /\ x = Written(ListOffsets(o.count, o.clusters), o)
  BY DEF Products
<1> DEFINE depth == Build!Depth(o.clusters, o.count)
<1> DEFINE sizes == Build!SplitSizes(o.count, depth)
<1> DEFINE lists == Offsets(sizes)
<1>2. /\ o.count \in Nat \ {0} /\ o.clusters \in Int /\ o.nprobe \in Int
      /\ o.ambiguous \in Int /\ o.repair \in BOOLEAN
  BY <1>1, StartupAssumption
<1>3. depth \in Nat
  <2>1. depth \in -1 .. 30
    BY <1>2, DepthType
  <2>2. depth >= 0
    BY <1>1
  <2> HIDE DEF depth
  <2> QED
    BY <2>1, <2>2
<1>4. x = Written(lists, o)
  BY <1>1 DEF ListOffsets
<1> HIDE DEF depth
<1>5. sizes \in Seq(Nat) /\ Len(sizes) > 0 /\ sizes[Len(sizes)] > 0
  BY <1>2, <1>3, SplitTypes
<1> HIDE DEF sizes
<1>6. /\ lists \in Seq(Nat) /\ Len(lists) = Len(sizes) + 1 /\ lists[1] = 0
      /\ \A i \in 1 .. Len(sizes) : lists[i + 1] = lists[i] + sizes[i]
  BY <1>5, OffsetsAre
<1> HIDE DEF lists
<1>7. Len(sizes) \in Nat /\ Len(lists) - 1 = Len(sizes) /\ Len(lists) > 1
  BY <1>5, <1>6
<1>8. Monotone(lists)
  <2>1. ASSUME NEW i \in 1 .. Len(lists) - 1 PROVE lists[i] <= lists[i + 1]
    <3>1. i \in 1 .. Len(lists) /\ i \in 1 .. Len(sizes)
      BY <1>6, <1>7
    <3>2. lists[i] \in Nat /\ sizes[i] \in Nat /\ lists[i + 1] = lists[i] + sizes[i]
      BY <1>5, <1>6, <3>1
    <3> QED
      BY <3>2
  <2> QED
    BY <2>1 DEF Monotone
<1> DEFINE blocks == BlockOffsets(lists)
<1>9. /\ blocks \in Seq(Nat) /\ Len(blocks) = Len(lists)
      /\ blocks[1] = 0 /\ Monotone(blocks)
      /\ \A i \in 1 .. Len(lists) - 1 :
           blocks[i + 1] - blocks[i] = BlocksForRows(lists[i + 1] - lists[i])
  <2>1. lists \in Seq(Nat) /\ Len(lists) > 0
    BY <1>6, <1>7
  <2> QED
    BY <1>8, <2>1, BlockOffsetsAre
<1>10. Build!Normalised(o, Len(lists) - 1)
         \in [nprobe : Int, ambiguous : Int, repair : BOOLEAN]
  BY <1>2, <1>7 DEF Build!Normalised, Build!Capped
<1> DEFINE search == Build!Normalised(o, Len(lists) - 1)
<1>11. /\ x = [version |-> 4, count |-> lists[Len(lists)],
               clusters |-> Len(lists) - 1, lists |-> lists,
               blocks |-> blocks, search |-> search]
  BY <1>4 DEF Written
<1> HIDE DEF blocks, search
<1>12. /\ x.version = 4 /\ x.count = lists[Len(lists)]
       /\ x.clusters = Len(sizes) /\ x.clusters + 1 = Len(lists)
       /\ x.lists = lists /\ x.blocks = blocks
  BY <1>7, <1>11
<1>13. lists[Len(lists)] \in Nat
  BY <1>6, <1>7
<1>14. x \in Index
  <2>1. x \in [version : Nat, count : Nat, clusters : Nat, lists : Seq(Nat),
               blocks : Seq(Nat), search : [nprobe : Int, ambiguous : Int,
                                            repair : BOOLEAN]]
    BY <1>6, <1>7, <1>9, <1>10, <1>11, <1>13 DEF search
  <2>2. x.clusters < Len(x.lists) /\ x.clusters < Len(x.blocks)
    BY <1>6, <1>7, <1>9, <1>12
  <2> QED
    BY <2>1, <2>2 DEF Index
<1>15. SpansMatch(x)
  BY <1>7, <1>9, <1>12 DEF SpansMatch
<1>16. FitsProbeMask(x.clusters) => ValidOffsets(x.count, x)
  BY <1>6, <1>8, <1>9, <1>12, <1>15 DEF ValidOffsets
<1>17. x.clusters > 0
  BY <1>5, <1>12
<1>18. x.count > 0
  <2> DEFINE n == Len(sizes)
  <2>1. n \in 1 .. Len(sizes) /\ n \in 1 .. Len(lists) /\ Len(lists) = n + 1
    BY <1>5, <1>6, <1>7
  <2>2. lists[n] \in Nat /\ sizes[n] \in Nat
    BY <1>5, <1>6, <2>1
  <2>3. lists[n + 1] = lists[n] + sizes[n]
    BY <1>6, <2>1
  <2> QED
    BY <1>5, <1>12, <2>1, <2>2, <2>3
<1> QED
  BY <1>12, <1>14, <1>16, <1>17, <1>18
-----------------------------------------------------------------------------
(* The server and its index file.                                          *)

\* The variables as far as the proofs need their types.
FileOK ==
    /\ file \in [index : Index, size : Nat] \cup {NoFile}
    /\ writer \in -1 .. 12
    /\ writer >= 0 => file # NoFile
    /\ api = [a \in Instance |-> api[a]]
    /\ socket = [a \in Instance |-> socket[a]]

\* The header an instance has read, and that there has been a file since.
HeaderOK(header) ==
    /\ file # NoFile
    /\ header.version \in Nat
    /\ header.count \in Nat

\* An index as it was loaded.
Probes(search, x) ==
    /\ 1 <= search.nprobe
    /\ search.nprobe <= search.ambiguous
    /\ search.ambiguous <= x.clusters
Safe(process) ==
    /\ process.size >= WholeSize(process.index)
    /\ InBounds(process.header.count, process.index)
    /\ Probes(process.search, process.index)

LoadedPC == {"loaded", "removed", "bound", "serving"}
ProcessOK(process) ==
    \/ process = Stopped \/ process = Killed
    \/ /\ process = [pc |-> "header", header |-> process.header]
       /\ HeaderOK(process.header)
    \/ /\ process = [pc |-> process.pc, header |-> process.header,
                     size |-> process.size]
       /\ process.pc \in {"mapped", "touched"}
       /\ HeaderOK(process.header)
       /\ process.size \in Nat
    \/ /\ process = [pc |-> process.pc, header |-> process.header,
                     size |-> process.size, index |-> process.index,
                     search |-> process.search]
       /\ process.pc \in LoadedPC
       /\ Safe(process)

LoadInv == FileOK /\ \A a \in Instance : ProcessOK(api[a])
-----------------------------------------------------------------------------
(* Lemmas.                                                                 *)

\* normalizeIVFDefaults, after whatever the file and the environment ask for.
LEMMA SettingsFit ==
    ASSUME NEW s \in [nprobe : Int, ambiguous : Int, repair : BOOLEAN],
           NEW env \in [nprobe : Int, ambiguous : Int, repair : BOOLEAN], NEW x,
           x.clusters \in Nat, x.clusters > 0
    PROVE  Probes(SetIVFSearch(s, env, x.clusters), x)
<1> DEFINE n == Build!Normalised(s, x.clusters)
<1> DEFINE o == Overridden(n, env)
<1>1. n.nprobe \in Int /\ n.ambiguous \in Int
  BY DEF Build!Normalised, Build!Capped
<1> HIDE DEF n
<1>2. o.nprobe \in Int /\ o.ambiguous \in Int
  BY <1>1 DEF Overridden
<1> HIDE DEF o
<1>3. Probes(Build!Normalised(o, x.clusters), x)
  BY <1>2 DEF Probes, Build!Normalised, Build!Capped
<1> QED
  BY <1>3 DEF SetIVFSearch, o, n

\* What is read of a number is no more than the number.
LEMMA AsReadIs ==
    ASSUME NEW at \in Nat, NEW size \in Nat
    PROVE  /\ \A v \in Nat : AsRead(v, at, size) \in 0 .. v
           /\ \A v \in Int : AsRead(v, at, size) \in Int
<1>1. CASE size >= at + 4 \/ size <= at
  BY <1>1 DEF AsRead
<1>2. CASE ~(size >= at + 4 \/ size <= at)
  <2>1. size - at \in 1 .. 3
    BY <1>2
  <2>2. <<256, 65536, 16777216>>[size - at] \in Nat \ {0}
    BY <2>1
  <2>3. ASSUME NEW v \in Int, NEW d \in Nat \ {0}
        PROVE  v % d \in Int /\ (v >= 0 => v % d \in 0 .. v)
    BY <2>3
  <2> QED
    BY <1>2, <2>2, <2>3 DEF AsRead
<1> QED
  BY <1>1, <1>2

\* Splits never decrease.
LEMMA SplitsAre ==
    ASSUME NEW count \in Nat, NEW clusters \in Nat, NEW s \in Splits(count, clusters)
    PROVE  s \in Seq(Nat) /\ Len(s) = clusters + 1 /\ Monotone(s)
<1>1. PICK list \in [1 .. count -> 1 .. clusters] :
        s = [i \in 1 .. clusters + 1 |-> Cardinality({r \in 1 .. count : list[r] < i})]
  BY DEF Splits
<1> DEFINE Before(i) == {r \in 1 .. count : list[r] < i}
<1>2. ASSUME NEW i \in 1 .. clusters + 1
      PROVE  IsFiniteSet(Before(i)) /\ Cardinality(Before(i)) \in Nat
  <2>1. IsFiniteSet(1 .. count)
    BY FS_Interval
  <2>2. Before(i) \in SUBSET (1 .. count)
    OBVIOUS
  <2> HIDE DEF Before
  <2>3. IsFiniteSet(Before(i))
    BY <2>1, <2>2, FS_Subset
  <2> QED
    BY <2>3, FS_CardinalityType
<1>3. \A i \in 1 .. clusters + 1 : s[i] = Cardinality(Before(i))
  BY <1>1
<1>4. s \in [1 .. clusters + 1 -> Nat]
  <2>1. s = [i \in 1 .. clusters + 1 |-> Cardinality(Before(i))]
    BY <1>1
  <2> HIDE DEF Before
  <2> QED
    BY <1>2, <2>1
<1>5. s \in Seq(Nat) /\ Len(s) = clusters + 1
  BY <1>4
<1>6. ASSUME NEW i \in 1 .. clusters PROVE s[i] <= s[i + 1]
  <2>1. i \in 1 .. clusters + 1 /\ i + 1 \in 1 .. clusters + 1
    OBVIOUS
  <2>2. Before(i) \in SUBSET Before(i + 1)
    <3>1. \A r \in 1 .. count : list[r] \in Int
      OBVIOUS
    <3> QED
      BY <2>1, <3>1
  <2> HIDE DEF Before
  <2>3. Cardinality(Before(i)) <= Cardinality(Before(i + 1))
    BY <1>2, <2>1, <2>2, FS_Subset
  <2> QED
    BY <1>3, <2>1, <2>3
<1> QED
  BY <1>5, <1>6 DEF Monotone

\* What is read with any offsets is an index with the numbers of the header.
LEMMA ReadIs ==
    ASSUME FileOK, NEW header, HeaderOK(header),
           NEW lists \in Seq(Nat), NEW blocks \in Seq(Nat)
    PROVE  LET x == ReadWith(header, lists, blocks)
           IN  /\ x.version = header.version /\ x.count = header.count
               /\ x.lists = lists /\ x.blocks = blocks
               /\ x.clusters \in Nat /\ x.clusters <= file.index.clusters
               /\ x.clusters = AsRead(file.index.clusters, HeaderSize, file.size)
               /\ x.clusters < Len(lists) /\ x.clusters < Len(blocks) => x \in Index
<1> DEFINE f == file.index
<1> DEFINE n == file.size
<1> DEFINE clusters == AsRead(f.clusters, HeaderSize, n)
<1> DEFINE nprobe == AsRead(f.search.nprobe, HeaderSize + 4, n)
<1> DEFINE ambiguous == AsRead(f.search.ambiguous, HeaderSize + 8, n)
<1> DEFINE repair == f.search.repair /\ n > HeaderSize + 12
<1> DEFINE search == [nprobe |-> nprobe, ambiguous |-> ambiguous, repair |-> repair]
<1>1. f \in Index /\ n \in Nat
  BY DEF FileOK, HeaderOK
<1>2. /\ f.clusters \in Nat
      /\ f.search.nprobe \in Int /\ f.search.ambiguous \in Int
  BY <1>1 DEF Index
<1>3. HeaderSize \in Nat /\ HeaderSize + 4 \in Nat /\ HeaderSize + 8 \in Nat
  BY DEF HeaderSize
<1>4. clusters \in Nat /\ clusters <= f.clusters
  <2>1. clusters \in 0 .. f.clusters
    BY <1>1, <1>2, <1>3, AsReadIs
  <2> HIDE DEF clusters, f
  <2> QED
    BY <1>2, <2>1
<1>5. nprobe \in Int /\ ambiguous \in Int
  BY <1>1, <1>2, <1>3, AsReadIs
<1>6. repair \in BOOLEAN
  OBVIOUS
<1> DEFINE x == ReadWith(header, lists, blocks)
<1>7. x = [version |-> header.version, count |-> header.count, clusters |-> clusters,
           lists |-> lists, blocks |-> blocks, search |-> search]
  BY DEF ReadWith
<1> HIDE DEF clusters, nprobe, ambiguous, repair
<1>8. search \in [nprobe : Int, ambiguous : Int, repair : BOOLEAN]
  BY <1>5, <1>6
<1> HIDE DEF search, x
<1>9. /\ x.version = header.version /\ x.count = header.count
      /\ x.lists = lists /\ x.blocks = blocks /\ x.clusters = clusters
  BY <1>7
<1>10. header.version \in Nat /\ header.count \in Nat
  BY DEF HeaderOK
<1>11. ASSUME clusters < Len(lists), clusters < Len(blocks) PROVE x \in Index
  <2>1. x \in [version : Nat, count : Nat, clusters : Nat, lists : Seq(Nat),
               blocks : Seq(Nat), search : [nprobe : Int, ambiguous : Int,
                                            repair : BOOLEAN]]
    BY <1>4, <1>7, <1>8, <1>10
  <2> QED
    BY <1>9, <1>11, <2>1 DEF Index
<1> QED
  BY <1>4, <1>9, <1>11 DEF x, clusters

\* Whatever a load finds in the mapping is an index with the numbers of the
\* header.
LEMMA SeenAreIndexes ==
    ASSUME FileOK, NEW header, HeaderOK(header), NEW x \in Seen(header)
    PROVE  x \in Index /\ x.version = header.version /\ x.count = header.count
<1> DEFINE f == file.index
<1> DEFINE n == file.size
<1> DEFINE y == ReadWith(header, f.lists, f.blocks)
<1> DEFINE At(offsets, start) ==
            [i \in DOMAIN offsets |-> AsRead(offsets[i], start + 4 * (i - 1), n)]
<1>1. f \in Index /\ n \in Nat
  BY DEF FileOK, HeaderOK
<1>2. /\ f.lists \in Seq(Nat) /\ f.blocks \in Seq(Nat)
      /\ f.clusters < Len(f.lists) /\ f.clusters < Len(f.blocks) /\ f.clusters \in Nat
  BY <1>1 DEF Index
<1>3. /\ y.lists = f.lists /\ y.blocks = f.blocks
      /\ y.clusters \in Nat /\ y.clusters <= f.clusters
      /\ y.clusters = AsRead(f.clusters, HeaderSize, n)
  BY <1>2, ReadIs
<1>4. y.clusters < Len(f.lists) /\ y.clusters < Len(f.blocks)
  BY <1>2, <1>3
<1>5. y \in Index
  BY <1>2, <1>3, <1>4, ReadIs
<1>6. ASSUME NEW l \in Seq(Nat), NEW b \in Seq(Nat),
             y.clusters < Len(l), y.clusters < Len(b),
             x = ReadWith(header, l, b)
      PROVE  x \in Index /\ x.version = header.version /\ x.count = header.count
  BY <1>3, <1>6, ReadIs
<1>7. ASSUME NEW offsets \in Seq(Nat), NEW start \in Nat
      PROVE  At(offsets, start) \in Seq(Nat) /\ Len(At(offsets, start)) = Len(offsets)
  <2>1. DOMAIN offsets = 1 .. Len(offsets) /\ Len(offsets) \in Nat
    OBVIOUS
  <2>2. ASSUME NEW i \in 1 .. Len(offsets)
        PROVE  AsRead(offsets[i], start + 4 * (i - 1), n) \in Nat
    <3> DEFINE v == offsets[i]
    <3> DEFINE p == start + 4 * (i - 1)
    <3>1. v \in Nat /\ p \in Nat
      OBVIOUS
    <3> HIDE DEF v, p
    <3>2. AsRead(v, p, n) \in 0 .. v
      BY <1>1, <3>1, AsReadIs
    <3>3. AsRead(v, p, n) \in Nat
      BY <3>1, <3>2
    <3> QED
      BY <3>3 DEF v, p
  <2> DEFINE h == At(offsets, start)
  <2> DEFINE m == Len(offsets)
  <2>3. h \in [1 .. m -> Nat] /\ m \in Nat
    BY <2>1, <2>2
  <2>4. At(offsets, start) = h /\ Len(offsets) = m
    OBVIOUS
  <2> HIDE DEF h, m, At
  <2>5. h \in Seq(Nat)
    BY <2>3
  <2>6. Len(h) = m
    BY <2>3
  <2> QED
    BY <2>4, <2>5, <2>6
<1>8. CASE header.version = f.version
  <2> DEFINE p == OffsetsAt(y)
  <2> DEFINE q == OffsetsAt(y) + Sections(y)[5]
  <2>1. x = ReadWith(header, At(y.lists, p), At(y.blocks, q))
    <3>1. PICK places \in {<<p, q>>} :
            x = ReadWith(header, At(y.lists, places[1]), At(y.blocks, places[2]))
      BY <1>8, Zenon DEF Seen
    <3>2. places = <<p, q>>
      BY <3>1
    <3>3. places[1] = p /\ places[2] = q
      <4> HIDE DEF p, q
      <4> QED
        BY <3>2
    <3> HIDE DEF At, y
    <3> QED
      BY <3>1, <3>3
  <2> HIDE DEF y
  <2>2. p \in Nat /\ q \in Nat
    <3>1. /\ Sections(y)[1] \in Nat /\ Sections(y)[2] \in Nat /\ Sections(y)[3] \in Nat
          /\ Sections(y)[4] \in Nat /\ Sections(y)[5] \in Nat
      BY <1>5, SectionTypes
    <3> QED
      BY <3>1 DEF OffsetsAt
  <2> HIDE DEF p, q, At
  <2>3. /\ At(y.lists, p) \in Seq(Nat) /\ Len(At(y.lists, p)) = Len(f.lists)
        /\ At(y.blocks, q) \in Seq(Nat) /\ Len(At(y.blocks, q)) = Len(f.blocks)
    BY <1>2, <1>3, <1>7, <2>2
  <2> QED
    BY <1>4, <1>6, <2>1, <2>3
<1>9. CASE header.version # f.version
  <2>1. PICK s \in Splits(header.count, y.clusters) :
            x = ReadWith(header, s, BlockOffsets(s))
    BY <1>9 DEF Seen
  <2> HIDE DEF y
  <2>2. s \in Seq(Nat) /\ Len(s) = y.clusters + 1 /\ Monotone(s)
    BY <1>3, SplitsAre DEF HeaderOK
  <2>3. Len(s) > 0
    BY <1>3, <2>2
  <2>4. BlockOffsets(s) \in Seq(Nat) /\ Len(BlockOffsets(s)) = Len(s)
    BY <2>2, <2>3, BlockOffsetsAre
  <2>5. y.clusters < Len(s) /\ y.clusters < Len(BlockOffsets(s))
    BY <1>3, <2>2, <2>4
  <2> QED
    BY <1>6, <2>1, <2>2, <2>4, <2>5
<1> QED
  BY <1>8, <1>9

\* What the loader accepts is safe to serve from.
LEMMA AcceptedIsSafe ==
    ASSUME NEW header, NEW size \in Nat, NEW env \in Settings, NEW x \in Index,
           x.version = header.version, x.count = header.count,
           MmapAccepts(header, x, size)
    PROVE  Safe([pc |-> "loaded", header |-> header, size |-> size, index |-> x,
                 search |-> SetIVFSearch(x.search, env, x.clusters)])
<1>1. x.clusters > 0 /\ ValidOffsets(x.count, x)
  BY DEF MmapAccepts
<1>2. InBounds(header.count, x)
  BY <1>1, ValidatedIndexIsInBounds, OffsetTypes
<1>3. size >= WholeSize(x)
  BY AcceptedMappingIsWhole
<1>4. /\ x.search \in [nprobe : Int, ambiguous : Int, repair : BOOLEAN]
      /\ x.clusters \in Nat
      /\ env \in [nprobe : Int, ambiguous : Int, repair : BOOLEAN]
  BY StartupAssumption DEF Index
<1>5. Probes(SetIVFSearch(x.search, env, x.clusters), x)
  BY <1>1, <1>4, SettingsFit
<1> QED
  BY <1>2, <1>3, <1>5 DEF Safe

-----------------------------------------------------------------------------
(* The invariant of loading.                                               *)

\* A step of one instance leaves the others as they are.
LEMMA OneProcess ==
    ASSUME LoadInv, NEW a \in Instance, NEW process, Becomes(a, process),
           UNCHANGED file, UNCHANGED writer,
           socket' = [b \in Instance |-> socket'[b]],
           ProcessOK(process)
    PROVE  LoadInv'
<1>1. api' = [api EXCEPT ![a] = process]
  BY DEF Becomes
<1>2. api = [b \in Instance |-> api[b]]
  BY DEF LoadInv, FileOK
<1>3. /\ api' = [b \in Instance |-> api'[b]]
      /\ api'[a] = process /\ \A b \in Instance \ {a} : api'[b] = api[b]
  BY <1>1, <1>2
<1>4. FileOK'
  BY <1>3 DEF LoadInv, FileOK
<1>5. ASSUME NEW b \in Instance PROVE ProcessOK(api[b])'
  <2>1. ProcessOK(api'[b])
    BY <1>3 DEF LoadInv
  <2> QED
    BY <2>1 DEF ProcessOK, HeaderOK
<1> QED
  BY <1>4, <1>5 DEF LoadInv

LEMMA InitLoad == Init => LoadInv
<1>1. SUFFICES ASSUME Init PROVE LoadInv
  OBVIOUS
<1>2. FileOK
  BY <1>1, StartupAssumption DEF Init, FileOK
<1>3. \A a \in Instance : ProcessOK(api[a])
  BY <1>1 DEF Init, ProcessOK
<1> QED
  BY <1>2, <1>3 DEF LoadInv

\* preprocess changes the file, not the processes.
LEMMA WriterLoad ==
    ASSUME LoadInv, Create \/ WriteSection \/ WriterDies
    PROVE  LoadInv'
<1>1. FileOK /\ \A a \in Instance : ProcessOK(api[a])
  BY DEF LoadInv
<1>2. UNCHANGED <<api, socket>>
  BY DEF Create, WriteSection, WriterDies
<1>3. CASE Create
  <2>1. PICK x \in Products : file' = Created(x)
    BY <1>3 DEF Create
  <2>2. x \in Index
    BY ProductsFit
  <2>3. file' = [index |-> x, size |-> 0] /\ file' \in [index : Index, size : Nat]
    BY <2>1, <2>2 DEF Created
  <2>4. file' # NoFile /\ file'.index = x
    <3>1. file'.size = 0 /\ NoFile.size = -1
      BY <2>3 DEF NoFile
    <3> QED
      BY <2>3, <3>1
  <2>5. writer' = 0
    BY <1>3 DEF Create
  <2>6. FileOK'
    BY <1>1, <1>2, <2>3, <2>4, <2>5 DEF FileOK
  <2>7. ASSUME NEW a \in Instance PROVE ProcessOK(api[a])'
    <3>1. ProcessOK(api[a]) /\ api'[a] = api[a]
      BY <1>1, <1>2
    <3>2. HeaderOK(api[a].header) => HeaderOK(api[a].header)'
      BY <1>2, <2>4 DEF HeaderOK
    <3> QED
      BY <3>1, <3>2 DEF ProcessOK
  <2> QED
    BY <2>6, <2>7 DEF LoadInv
<1>4. CASE WriteSection \/ WriterDies
  <2>1. writer \in 0 .. 12 /\ file \in [index : Index, size : Nat]
    BY <1>1, <1>4 DEF FileOK, WriteSection, WriterDies
  <2>2. Sections(file.index)[writer + 1] \in Nat /\ Len(Sections(file.index)) = 13
    BY <2>1, SectionTypes
  <2>3. PICK n \in Nat : file' = [file EXCEPT !.size = @ + n]
    BY <1>4, <2>2 DEF WriteSection, WriterDies
  <2>4. /\ file' \in [index : Index, size : Nat] /\ file'.index = file.index
        /\ file'.size \in Nat
    BY <2>1, <2>3
  <2>5. file' # NoFile /\ file # NoFile
    BY <2>1, <2>4 DEF NoFile
  <2>6. writer' \in -1 .. 12
    BY <1>4, <2>1, <2>2 DEF WriteSection, WriterDies
  <2>7. FileOK'
    BY <1>1, <1>2, <2>4, <2>5, <2>6 DEF FileOK
  <2>8. ASSUME NEW a \in Instance PROVE ProcessOK(api[a])'
    <3>1. ProcessOK(api[a]) /\ api'[a] = api[a]
      BY <1>1, <1>2
    <3>2. HeaderOK(api[a].header) => HeaderOK(api[a].header)'
      BY <1>2, <2>5 DEF HeaderOK
    <3> QED
      BY <3>1, <3>2 DEF ProcessOK
  <2> QED
    BY <2>7, <2>8 DEF LoadInv
<1> QED
  BY <1>3, <1>4

\* Every step of an instance is one of OneProcess.
LEMMA StartsUpLoad ==
    ASSUME LoadInv, NEW a \in Instance, StartsUp(a) \/ Die(a)
    PROVE  LoadInv'
<1>1. FileOK /\ ProcessOK(api[a])
  BY DEF LoadInv
<1>2. socket = [b \in Instance |-> socket[b]]
  BY <1>1 DEF FileOK
<1>3. CASE Open(a)
  <2> DEFINE p == [pc |-> "header", header |-> [version |-> file.index.version,
                                                count |-> file.index.count]]
  <2>1. Holds(file) /\ Becomes(a, p) /\ UNCHANGED <<file, writer, socket>>
    BY <1>3 DEF Open, Static
  <2>2. file \in [index : Index, size : Nat] /\ file # NoFile
    BY <1>1, <2>1 DEF FileOK, Holds, HeaderSize, NoFile
  <2>3. file.index.count \in Nat /\ file.index.version \in Nat
    BY <2>2, OffsetTypes
  <2>4. HeaderOK(p.header) /\ p = [pc |-> "header", header |-> p.header]
    BY <2>2, <2>3 DEF HeaderOK
  <2>5. ProcessOK(p)
    BY <2>4 DEF ProcessOK
  <2> HIDE DEF p
  <2> QED
    BY <1>2, <2>1, <2>5, OneProcess
<1>4. CASE Map(a)
  <2> DEFINE p == [pc |-> "mapped", header |-> api[a].header, size |-> file.size]
  <2>1. /\ api[a].pc = "header" /\ file.size > 0
        /\ Becomes(a, p) /\ UNCHANGED <<file, writer, socket>>
    BY <1>4 DEF Map, Static
  <2>2. HeaderOK(api[a].header)
    BY <1>1, <2>1 DEF ProcessOK, Stopped, Killed, LoadedPC
  <2>3. file.size \in Nat
    BY <1>1, <2>2 DEF FileOK, HeaderOK
  <2>4. ProcessOK(p)
    BY <2>2, <2>3 DEF ProcessOK
  <2> HIDE DEF p
  <2> QED
    BY <1>2, <2>1, <2>4, OneProcess
<1>5. CASE Preload(a)
  <2> DEFINE p == [api[a] EXCEPT !.pc = "touched"]
  <2>1. api[a].pc = "mapped" /\ Becomes(a, p) /\ UNCHANGED <<file, writer, socket>>
    BY <1>5 DEF Preload, Static
  <2>2. /\ api[a] = [pc |-> api[a].pc, header |-> api[a].header, size |-> api[a].size]
        /\ HeaderOK(api[a].header) /\ api[a].size \in Nat
    BY <1>1, <2>1 DEF ProcessOK, Stopped, Killed, LoadedPC
  <2>3. /\ p.pc = "touched" /\ p.header = api[a].header /\ p.size = api[a].size
        /\ p = [pc |-> p.pc, header |-> p.header, size |-> p.size]
    BY <2>2
  <2> HIDE DEF p
  <2>4. ProcessOK(p)
    BY <2>2, <2>3 DEF ProcessOK
  <2> QED
    BY <1>2, <2>1, <2>4, OneProcess
<1>6. CASE Load(a)
  <2> DEFINE Result(x, env) ==
        [pc |-> "loaded", header |-> api[a].header, size |-> api[a].size,
         index |-> x, search |-> SetIVFSearch(x.search, env, x.clusters)]
  <2>1. PICK x \in Seen(api[a].header), env \in Settings :
            Accepts(a, x) /\ Becomes(a, Result(x, env))
    BY <1>6 DEF Load
  <2> DEFINE p == Result(x, env)
  <2>2. api[a].pc = "touched" /\ UNCHANGED <<file, writer, socket>>
    BY <1>6 DEF Load, Static
  <2>3. HeaderOK(api[a].header) /\ api[a].size \in Nat
    BY <1>1, <2>2 DEF ProcessOK, Stopped, Killed, LoadedPC
  <2>4. /\ x \in Index /\ x.version = api[a].header.version
        /\ x.count = api[a].header.count
    BY <1>1, <2>3, SeenAreIndexes
  <2>5. MmapAccepts(api[a].header, x, api[a].size)
    BY <2>1 DEF Accepts
  <2>6. Safe(p)
    BY <2>3, <2>4, <2>5, AcceptedIsSafe
  <2>7. /\ p = [pc |-> p.pc, header |-> p.header, size |-> p.size,
                index |-> p.index, search |-> p.search]
        /\ p.pc \in LoadedPC
    BY DEF LoadedPC
  <2>8. Becomes(a, p)
    BY <2>1
  <2> HIDE DEF p
  <2>9. ProcessOK(p)
    BY <2>6, <2>7 DEF ProcessOK
  <2> QED
    BY <1>2, <2>2, <2>8, <2>9, OneProcess
<1>7. CASE Refuse(a)
  <2>1. Becomes(a, Stopped) /\ UNCHANGED <<file, writer, socket>>
    BY <1>7 DEF Refuse, Static
  <2>2. ProcessOK(Stopped)
    BY DEF ProcessOK
  <2> QED
    BY <1>2, <2>1, <2>2, OneProcess
<1>8. CASE Bind(a) /\ socket[a] # "absent"
  <2>1. Becomes(a, Stopped) /\ UNCHANGED <<file, writer, socket>>
    BY <1>8 DEF Bind, Static
  <2>2. ProcessOK(Stopped)
    BY DEF ProcessOK
  <2> QED
    BY <1>2, <2>1, <2>2, OneProcess
<1>9. CASE RemoveSocket(a) \/ Serve(a) \/ (Bind(a) /\ socket[a] = "absent")
  <2>0. PICK from \in LoadedPC, to \in LoadedPC : \E left : Advance(a, from, to, left)
    BY <1>9 DEF RemoveSocket, Bind, Serve, LoadedPC
  <2>1. PICK left : Advance(a, from, to, left)
    BY <2>0
  <2> DEFINE p == [api[a] EXCEPT !.pc = to]
  <2>2. /\ api[a].pc = from /\ Becomes(a, p) /\ UNCHANGED <<file, writer>>
        /\ socket' = [socket EXCEPT ![a] = left]
    BY <2>1 DEF Advance, Static
  <2>3. /\ api[a] = [pc |-> api[a].pc, header |-> api[a].header,
                     size |-> api[a].size, index |-> api[a].index,
                     search |-> api[a].search]
        /\ Safe(api[a])
    BY <1>1, <2>2 DEF ProcessOK, Stopped, Killed, LoadedPC
  <2>4. /\ p.pc = to /\ p.header = api[a].header /\ p.size = api[a].size
        /\ p.index = api[a].index /\ p.search = api[a].search
        /\ p = [pc |-> p.pc, header |-> p.header, size |-> p.size,
                index |-> p.index, search |-> p.search]
    BY <2>3
  <2> HIDE DEF p
  <2>5. Safe(p)
    BY <2>3, <2>4 DEF Safe
  <2>6. ProcessOK(p)
    BY <2>4, <2>5 DEF ProcessOK
  <2>7. socket' = [b \in Instance |-> socket'[b]]
    BY <1>2, <2>2
  <2> QED
    BY <2>2, <2>6, <2>7, OneProcess
<1>10. CASE Die(a)
  <2>1. /\ Becomes(a, Killed) /\ UNCHANGED <<file, writer>>
        /\ socket' = [b \in Instance |-> socket'[b]]
    BY <1>2, <1>10 DEF Die, Static
  <2>2. ProcessOK(Killed)
    BY DEF ProcessOK
  <2> QED
    BY <2>1, <2>2, OneProcess
<1> QED
  BY <1>3, <1>4, <1>5, <1>6, <1>7, <1>8, <1>9, <1>10 DEF StartsUp

LEMMA NextLoad == LoadInv /\ [Next]_vars => LoadInv'
<1>1. SUFFICES ASSUME LoadInv, [Next]_vars PROVE LoadInv'
  OBVIOUS
<1>2. ASSUME UNCHANGED <<file, writer, api, socket>> PROVE LoadInv'
  BY <1>1, <1>2 DEF LoadInv, FileOK, ProcessOK, HeaderOK
<1>3. CASE Create \/ WriteSection \/ WriterDies
  BY <1>1, <1>3, WriterLoad
<1>4. CASE StartLoadBalancer
  BY <1>2, <1>4 DEF StartLoadBalancer
<1>5. ASSUME NEW a \in Instance, StartsUp(a) \/ Die(a) PROVE LoadInv'
  BY <1>1, <1>5, StartsUpLoad
<1>6. ASSUME NEW a \in Instance, HealthCheck(a) PROVE LoadInv'
  BY <1>2, <1>6 DEF HealthCheck, Static
<1>7. CASE UNCHANGED vars
  BY <1>2, <1>7 DEF vars
<1> QED
  BY <1>1, <1>3, <1>4, <1>5, <1>6, <1>7 DEF Next

LEMMA LoadInvariant == Spec => []LoadInv
  BY InitLoad, NextLoad, PTL DEF Spec

\* The shapes of a process are told apart by where it is.
LEMMA LoadedIsSafe ==
    ASSUME LoadInv, NEW a \in Instance, Loaded(a)
    PROVE  Safe(api[a])
<1> DEFINE p == api[a]
<1>1. ProcessOK(p) /\ p.pc \in LoadedPC
  BY DEF LoadInv, Loaded, LoadedPC
<1> HIDE DEF p
<1>2. ASSUME p = Stopped \/ p = Killed PROVE FALSE
  <2>1. p.pc \in {"down", "killed"}
    BY <1>2 DEF Stopped, Killed
  <2> QED
    BY <1>1, <2>1 DEF LoadedPC
<1>3. ASSUME p = [pc |-> "header", header |-> p.header] PROVE FALSE
  <2>1. \A h : [pc |-> "header", header |-> h].pc = "header"
    OBVIOUS
  <2>2. p.pc = "header"
    BY <1>3, <2>1
  <2> QED
    BY <1>1, <2>2 DEF LoadedPC
<1>4. p.pc \notin {"mapped", "touched"}
  BY <1>1 DEF LoadedPC
<1>5. Safe(p)
  BY <1>1, <1>2, <1>3, <1>4, Zenon DEF ProcessOK
<1> QED
  BY <1>5 DEF p

\* Whatever file is there or is being written while an instance loads it, what
\* the instance serves from is whole, and every list, block and probe bit of it
\* is in bounds (binary_index_linux.go:14-154, binary_index.go:239-270).
THEOREM LoadedIndexIsSafe == Spec => []LoadedIsWholeAndInBounds
<1>1. LoadInv => LoadedIsWholeAndInBounds
  BY LoadedIsSafe DEF Safe, LoadedIsWholeAndInBounds
<1> QED
  BY LoadInvariant, <1>1, PTL

\* Whatever the file and the environment ask for, a loaded index probes at
\* least one cluster and never more than it has (quantized.go:77-118).
THEOREM LoadedProbesFit == Spec => []ProbesFitClusters
<1>1. LoadInv => ProbesFitClusters
  BY LoadedIsSafe DEF Safe, Probes, ProbesFitClusters
<1> QED
  BY LoadInvariant, <1>1, PTL

\* At any time the two loaders would agree about the file as it is then, also
\* one cut short or half written, unless it has no rows and ends with its
\* sections (binary_index.go:151-238, binary_index_linux.go:53-154).
THEOREM LoadersAlwaysAgree == Spec => []LoadersAgree
<1>1. LoadInv => LoadersAgree
  <2> SUFFICES ASSUME LoadInv, Holds(file)
               PROVE  MmapAccepts([version |-> file.index.version,
                                   count |-> file.index.count],
                                  file.index, file.size)
                        <=> /\ HeapAccepts(file.index, file.size)
                            /\ RowsOrMore(file.index, file.size)
    BY DEF LoadersAgree
  <2>1. file \in [index : Index, size : Nat] \cup {NoFile}
    BY DEF LoadInv, FileOK
  <2>2. file # NoFile
    BY DEF Holds, NoFile, HeaderSize
  <2>3. file.index \in Index /\ file.size \in Nat
    BY <2>1, <2>2
  <2> QED
    BY <2>3, LoadersTakeTheSame
<1> QED
  BY LoadInvariant, <1>1, PTL
-----------------------------------------------------------------------------
(* What preprocess has written.                                            *)

\* Once preprocess has been started, the file is one of its making, up to its
\* length.
WriteInv == writes > 0 => file # NoFile /\ file.index \in Products

LEMMA NextWrite == LoadInv /\ WriteInv /\ [Next]_vars => WriteInv'
<1>1. SUFFICES ASSUME LoadInv, WriteInv, [Next]_vars PROVE WriteInv'
  OBVIOUS
<1>2. FileOK
  BY <1>1 DEF LoadInv
<1>3. CASE Create
  <2>1. PICK x \in Products : file' = [index |-> x, size |-> 0]
    BY <1>3 DEF Create, Created
  <2>2. file'.index = x /\ file'.size = 0 /\ NoFile.size = -1
    BY <2>1 DEF NoFile
  <2> QED
    BY <2>2 DEF WriteInv
<1>4. CASE WriteSection \/ WriterDies
  <2>1. writes' = writes /\ writer \in 0 .. 12 /\ file \in [index : Index, size : Nat]
    BY <1>2, <1>4 DEF FileOK, WriteSection, WriterDies
  <2>2. Sections(file.index)[writer + 1] \in Nat
    BY <2>1, SectionTypes
  <2>3. PICK n \in Nat : file' = [file EXCEPT !.size = @ + n]
    BY <1>4, <2>2 DEF WriteSection, WriterDies
  <2>4. file'.index = file.index /\ file'.size \in Nat /\ NoFile.size = -1
    BY <2>1, <2>3 DEF NoFile
  <2>5. file' # NoFile
    BY <2>4
  <2> QED
    BY <1>1, <2>1, <2>4, <2>5 DEF WriteInv
<1>5. CASE UNCHANGED <<file, writes>>
  BY <1>1, <1>5 DEF WriteInv
<1>6. Create \/ WriteSection \/ WriterDies \/ UNCHANGED <<file, writes>>
  <2>1. CASE UNCHANGED vars
    BY <2>1 DEF vars
  <2>2. CASE StartLoadBalancer
    BY <2>2 DEF StartLoadBalancer
  <2>3. ASSUME NEW a \in Instance, StartsUp(a) \/ Die(a) \/ HealthCheck(a)
        PROVE  UNCHANGED <<file, writes>>
    <3>1. Static
      BY <2>3 DEF StartsUp, Open, Map, Preload, Load, Refuse, RemoveSocket, Bind,
                  Serve, Advance, Die, HealthCheck
    <3> QED
      BY <3>1 DEF Static
  <2> QED
    BY <1>1, <2>1, <2>2, <2>3 DEF Next
<1> QED
  BY <1>3, <1>4, <1>5, <1>6

\* What preprocess wrote to its end is loaded, for any number of references,
\* clusters and settings, if the probe mask has room for the clusters: the
\* writer's layout and offsets are those the loaders ask for
\* (binary_index.go:37-109, ivf_build.go:15-74).
THEOREM WrittenIsLoaded == Spec => []WrittenFilesLoad
<1>1. LoadInv /\ WriteInv => WrittenFilesLoad
  <2> SUFFICES ASSUME LoadInv, WriteInv, writes > 0,
                      file.size = WholeSize(file.index),
                      file.index.clusters <= MaskWords * WordBits
               PROVE  MmapAccepts([version |-> 4, count |-> file.index.count],
                                  file.index, file.size)
    BY DEF WrittenFilesLoad
  <2> DEFINE x == file.index
  <2> DEFINE header == [version |-> 4, count |-> x.count]
  <2>1. x \in Products /\ file.size \in Nat
    <3>1. file \in [index : Index, size : Nat] \cup {NoFile}
      BY DEF LoadInv, FileOK
    <3> QED
      BY <3>1 DEF WriteInv
  <2>2. /\ x \in Index /\ x.version = 4 /\ x.clusters > 0 /\ x.count > 0
        /\ FitsProbeMask(x.clusters) => ValidOffsets(x.count, x)
    BY <2>1, ProductsFit
  <2>3. ValidOffsets(x.count, x)
    BY <2>2 DEF FitsProbeMask
  <2>4. header.version = x.version /\ header.count = x.count /\ x.version \in 2 .. 4
    BY <2>2
  <2>5. WholeSize(x) <= file.size /\ RowsOrMore(x, file.size)
    BY <2>1, <2>2 DEF RowsOrMore
  <2> HIDE DEF x, header
  <2>6. MmapAccepts(header, x, file.size)
    BY <2>1, <2>2, <2>3, <2>4, <2>5, MappingIsWhole
  <2> QED
    BY <2>6 DEF x, header
<1>2. Init => WriteInv
  BY DEF Init, WriteInv
<1>3. Spec => []WriteInv
  BY LoadInvariant, <1>2, NextWrite, PTL DEF Spec
<1> QED
  BY LoadInvariant, <1>1, <1>3, PTL
-----------------------------------------------------------------------------
(* The load balancer and the instances it finds.                           *)
Serving(a) == api[a].pc = "serving"
ServeInv ==
    /\ \A a \in Instance : Serving(a) => socket[a] = "open"
    /\ healthy \subseteq Instance
    /\ calm => \A a \in healthy : Serving(a)
    /\ calm /\ lb => \A a \in Instance : Serving(a)

\* A step of a start-up is of an instance that does not serve yet, and touches
\* nothing of another; the last of them opens the socket.
LEMMA OneStartsUp ==
    ASSUME LoadInv, NEW a \in Instance, StartsUp(a)
    PROVE  /\ ~Serving(a)
           /\ \A b \in Instance \ {a} : api'[b] = api[b] /\ socket'[b] = socket[b]
           /\ Serving(a)' => socket'[a] = "open"
           /\ UNCHANGED <<healthy, lb, calm>>
<1>1. FileOK /\ ProcessOK(api[a])
  BY DEF LoadInv
<1>2. ASSUME NEW p, Becomes(a, p)
      PROVE  api'[a] = p /\ \A b \in Instance \ {a} : api'[b] = api[b]
  BY <1>1, <1>2 DEF Becomes, FileOK
<1>3. CASE Open(a)
  <2> DEFINE p == [pc |-> "header", header |-> [version |-> file.index.version,
                                                count |-> file.index.count]]
  <2>1. /\ ~Runs(a) /\ Becomes(a, p)
        /\ UNCHANGED <<socket, healthy, lb, calm>>
    BY <1>3 DEF Open, Static
  <2>2. p.pc = "header"
    OBVIOUS
  <2> HIDE DEF p
  <2> QED
    BY <1>2, <2>1, <2>2 DEF Serving, Runs
<1>4. CASE Map(a)
  <2> DEFINE p == [pc |-> "mapped", header |-> api[a].header, size |-> file.size]
  <2>1. /\ api[a].pc = "header" /\ Becomes(a, p)
        /\ UNCHANGED <<socket, healthy, lb, calm>>
    BY <1>4 DEF Map, Static
  <2>2. p.pc = "mapped"
    OBVIOUS
  <2> HIDE DEF p
  <2> QED
    BY <1>2, <2>1, <2>2 DEF Serving
<1>5. CASE Preload(a)
  <2> DEFINE p == [api[a] EXCEPT !.pc = "touched"]
  <2>1. /\ api[a].pc = "mapped" /\ Becomes(a, p)
        /\ UNCHANGED <<socket, healthy, lb, calm>>
    BY <1>5 DEF Preload, Static
  <2>2. api[a] = [pc |-> api[a].pc, header |-> api[a].header, size |-> api[a].size]
    BY <1>1, <2>1 DEF ProcessOK, Stopped, Killed, LoadedPC
  <2>3. p.pc = "touched"
    BY <2>2
  <2> HIDE DEF p
  <2> QED
    BY <1>2, <2>1, <2>3 DEF Serving
<1>6. CASE Load(a)
  <2> DEFINE Result(x, env) ==
        [pc |-> "loaded", header |-> api[a].header, size |-> api[a].size,
         index |-> x, search |-> SetIVFSearch(x.search, env, x.clusters)]
  <2>1. PICK x \in Seen(api[a].header), env \in Settings : Becomes(a, Result(x, env))
    BY <1>6 DEF Load
  <2> DEFINE p == Result(x, env)
  <2>2. api[a].pc = "touched" /\ UNCHANGED <<socket, healthy, lb, calm>>
    BY <1>6 DEF Load, Static
  <2>3. p.pc = "loaded" /\ Becomes(a, p)
    BY <2>1
  <2> HIDE DEF p
  <2> QED
    BY <1>2, <2>2, <2>3 DEF Serving
<1>7. CASE Refuse(a) \/ (Bind(a) /\ socket[a] # "absent")
  <2>1. /\ api[a].pc \in {"header", "mapped", "touched", "removed"}
        /\ Becomes(a, Stopped)
        /\ UNCHANGED <<socket, healthy, lb, calm>>
    BY <1>7 DEF Refuse, Bind, Static
  <2>2. Stopped.pc = "down"
    BY DEF Stopped
  <2> QED
    BY <1>2, <2>1, <2>2 DEF Serving
<1>8. CASE RemoveSocket(a) \/ Serve(a) \/ (Bind(a) /\ socket[a] = "absent")
  <2>0. PICK from \in LoadedPC \ {"serving"}, to \in LoadedPC :
            \E left : Advance(a, from, to, left) /\ (to = "serving" => left = "open")
    BY <1>8 DEF RemoveSocket, Bind, Serve, LoadedPC
  <2>1. PICK left : Advance(a, from, to, left) /\ (to = "serving" => left = "open")
    BY <2>0
  <2> DEFINE p == [api[a] EXCEPT !.pc = to]
  <2>2. /\ api[a].pc = from /\ Becomes(a, p)
        /\ socket' = [socket EXCEPT ![a] = left]
        /\ UNCHANGED <<healthy, lb, calm>>
    BY <2>1 DEF Advance, Static
  <2>3. api[a] = [pc |-> api[a].pc, header |-> api[a].header,
                  size |-> api[a].size, index |-> api[a].index,
                  search |-> api[a].search]
    BY <1>1, <2>2 DEF ProcessOK, Stopped, Killed, LoadedPC
  <2>4. p.pc = to
    BY <2>3
  <2> HIDE DEF p
  <2>5. socket'[a] = left /\ \A b \in Instance \ {a} : socket'[b] = socket[b]
    BY <1>1, <2>2 DEF FileOK
  <2> QED
    BY <1>2, <2>1, <2>2, <2>4, <2>5 DEF Serving
<1> QED
  BY <1>3, <1>4, <1>5, <1>6, <1>7, <1>8 DEF StartsUp

LEMMA NextServe == LoadInv /\ ServeInv /\ [Next]_vars => ServeInv'
<1>1. SUFFICES ASSUME LoadInv, ServeInv, [Next]_vars PROVE ServeInv'
  OBVIOUS
<1>2. ASSUME UNCHANGED <<api, socket, healthy, lb>>, calm' => calm
      PROVE  ServeInv'
  BY <1>1, <1>2 DEF ServeInv, Serving
<1>3. CASE Create \/ WriteSection \/ WriterDies
  <2>1. CASE Create
    <3>1. UNCHANGED <<api, socket, healthy, lb>> /\ calm' = FALSE
      BY <2>1 DEF Create
    <3> QED
      BY <1>2, <3>1
  <2>2. CASE WriteSection \/ WriterDies
    <3>1. UNCHANGED <<api, socket, healthy, lb, calm>>
      BY <2>2 DEF WriteSection, WriterDies
    <3> QED
      BY <1>2, <3>1
  <2> QED
    BY <1>3, <2>1, <2>2
<1>4. CASE StartLoadBalancer
  <2>1. healthy = Instance /\ UNCHANGED <<api, socket, healthy, calm>>
    BY <1>4 DEF StartLoadBalancer
  <2>2. \A a \in Instance : Serving(a)' = Serving(a)
    BY <2>1 DEF Serving
  <2> QED
    BY <1>1, <2>1, <2>2 DEF ServeInv
<1>5. ASSUME NEW a \in Instance, StartsUp(a) PROVE ServeInv'
  <2>1. /\ ~Serving(a)
        /\ \A b \in Instance \ {a} : api'[b] = api[b] /\ socket'[b] = socket[b]
        /\ Serving(a)' => socket'[a] = "open"
        /\ UNCHANGED <<healthy, lb, calm>>
    BY <1>1, <1>5, OneStartsUp
  <2>2. \A b \in Instance : Serving(b) => b # a /\ Serving(b)'
    BY <2>1 DEF Serving
  <2> QED
    BY <1>1, <2>1, <2>2 DEF ServeInv, Serving
<1>6. ASSUME NEW a \in Instance, Die(a) PROVE ServeInv'
  <2>1. calm' = FALSE /\ UNCHANGED healthy /\ Becomes(a, Killed)
        /\ \A b \in Instance \ {a} : socket'[b] = socket[b]
    BY <1>1, <1>6 DEF Die, LoadInv, FileOK
  <2>2. api'[a].pc = "killed" /\ \A b \in Instance \ {a} : api'[b] = api[b]
    BY <1>1, <2>1 DEF Becomes, LoadInv, FileOK, Killed
  <2> QED
    BY <1>1, <2>1, <2>2 DEF ServeInv, Serving
<1>7. ASSUME NEW a \in Instance, HealthCheck(a) PROVE ServeInv'
  <2>1. /\ UNCHANGED <<api, socket, lb, calm>>
        /\ \/ Serving(a) /\ healthy' = healthy \cup {a}
           \/ healthy' = healthy \ {a}
    BY <1>7 DEF HealthCheck, Static, Answers, Serving
  <2> QED
    BY <1>1, <2>1 DEF ServeInv, Serving
<1>8. CASE UNCHANGED vars
  BY <1>2, <1>8 DEF vars
<1> QED
  BY <1>1, <1>3, <1>4, <1>5, <1>6, <1>7, <1>8 DEF Next

\* While no process dies and no file is rewritten, a load balancer that runs
\* finds every instance loaded, serving and its socket open to others
\* (server.go:70-92, healthcheck/main.go:11, docker-compose.yml).
THEOREM BalancerStartsLast == Spec => []BalancerFindsServers
<1>1. Init => ServeInv
  BY DEF Init, ServeInv, Serving, Stopped
<1>2. LoadInv /\ ServeInv => BalancerFindsServers
  BY DEF ServeInv, Serving, BalancerFindsServers, Loaded
<1> QED
  BY LoadInvariant, <1>1, NextServe, <1>2, PTL DEF Spec
=============================================================================
