----------------------------- MODULE HeapProofs -----------------------------
(***************************************************************************)
(* Proofs about Heap, for every size of the block, every set of requests   *)
(* and whatever clients write; and about Memgrind: whatever the workloads  *)
(* do, for arrays of any length, the heap keeps its invariant, and a       *)
(* workload that returns leaves it as initialize made it.                  *)
(***************************************************************************)
EXTENDS Memgrind, TLAPS

Tag(n, bit) == [size |-> n, alloc |-> bit]

(***************************************************************************)
(* The blocks B tile the memory m.  Beyond BoundaryTags: every block but   *)
(* the first ends the one before it, which is what getPrevious relies on.  *)
(***************************************************************************)
Tiled(m, B) ==
  /\ m \in [Addresses -> Word]
  /\ m[0] = Tag(0, 1)
  /\ m[Words - 1] = Tag(0, 1)
  /\ B \subseteq 2..(Words - 1)
  /\ FirstPtr \in B
  /\ \A p \in B :
       /\ m[p - 1].size >= 3
       /\ p + m[p - 1].size \in B \union {Words}
       /\ m[p + m[p - 1].size - 2] = m[p - 1]
  /\ \A p, q \in B : p < q => p + m[p - 1].size <= q
  /\ \A q \in B : q = FirstPtr \/ \E p \in B : p + m[p - 1].size = q

\* No two neighbours are free.
Alternating(m, B) ==
  \A p \in B : p + m[p - 1].size \in B =>
     m[p - 1].alloc = 1 \/ m[(p + m[p - 1].size) - 1].alloc = 1

HeapTypeOK ==
  /\ myBlock \in [Addresses -> Word]
  /\ isInitialized \in BOOLEAN
  /\ pc \in {"idle", "findFit"}
  /\ size \in Nat
  /\ ptr \in Nat
  /\ live \subseteq Addresses
  /\ stale \subseteq Addresses
  /\ blocks \subseteq Addresses
  /\ data \in [Addresses -> Word]
  /\ length \in [Addresses -> Nat]

\* Before the first mymalloc there is nothing.
Untouched == blocks = {} /\ live = {} /\ stale = {} /\ pc = "idle"

\* The words a client asked for lie between its block's tags.
RoomForData == \A p \in live : length[p] + 2 <= getSize(myBlock, p)

OnlyLiveIsWritten == \A p \in Addresses \ live : data[p] = Unwritten

\* A pointer that was freed is a free block or lies inside one, and then the
\* words a second free takes for its tags are zero.
InsideFree(m, B, p) ==
  /\ p \notin B
  /\ m[p - 1] = Tag(0, 0)
  /\ m[p - 2] = Tag(0, 0)
  /\ \E b \in B : /\ m[b - 1].alloc = 0
                  /\ b + 3 <= p
                  /\ p + 3 <= b + m[b - 1].size

StaleFree(m, B, S) ==
  \A p \in S : (p \in B /\ m[p - 1].alloc = 0) \/ InsideFree(m, B, p)

\* findFit stands at a block or the epilogue, and passed no block that fits.
SearchInv ==
  pc = "findFit" =>
    /\ size > 0
    /\ ptr \in blocks \union {Words}
    /\ \A q \in blocks : q < ptr => \/ getAllocation(myBlock, q) = 1
                                    \/ getSize(myBlock, q) < extendedSize

HeapInv ==
  /\ HeapTypeOK
  /\ IF isInitialized THEN Tiled(myBlock, blocks) ELSE Untouched
  /\ Alternating(myBlock, blocks)
  /\ UsedIsLive
  /\ LiveDataIntact
  /\ RoomForData
  /\ OnlyLiveIsWritten
  /\ StaleFree(myBlock, blocks, stale)
  /\ SearchInv

-----------------------------------------------------------------------------
(***************************************************************************)
(* Facts about tilings.                                                    *)
(***************************************************************************)
LEMMA WordsNat == Words \in Nat /\ Words > 5
BY MemsizeAssumption DEF Words, HDRSIZE

LEMMA TagType ==
  ASSUME NEW n \in 0..Words, NEW bit \in {0, 1}
  PROVE  Tag(n, bit) \in Word
BY DEF Tag, Word

\* Where a block's tags lie.
LEMMA BlockBounds ==
  ASSUME NEW m, NEW B, Tiled(m, B), NEW p \in B
  PROVE  /\ p \in Nat /\ p >= 2
         /\ m[p - 1].size \in Nat /\ m[p - 1].size >= 3
         /\ p + m[p - 1].size <= Words
         /\ m[p - 1] \in Word
         /\ m[p - 1].alloc \in {0, 1}
         /\ p - 1 \in Addresses
         /\ p \in Addresses
         /\ p + m[p - 1].size - 2 \in Addresses
         /\ p + m[p - 1].size - 1 \in Addresses
  <1>1. p \in 2..(Words - 1) /\ p \in Nat
    BY WordsNat DEF Tiled
  <1>2. p - 1 \in Addresses
    BY <1>1, WordsNat DEF Addresses
  <1>3. m[p - 1] \in Word
    BY <1>2 DEF Tiled
  <1>4. m[p - 1].size \in 0..Words /\ m[p - 1].alloc \in {0, 1}
    BY <1>3 DEF Word
  <1>5. m[p - 1].size >= 3 /\ p + m[p - 1].size \in B \union {Words}
    BY DEF Tiled
  <1>6. p + m[p - 1].size <= Words
    <2>1. B \subseteq 2..(Words - 1)
      BY DEF Tiled
    <2>2. CASE p + m[p - 1].size \in B
      BY <2>1, <2>2, WordsNat
    <2>3. CASE p + m[p - 1].size = Words
      BY <2>3, WordsNat
    <2> QED
      BY <1>5, <2>2, <2>3
  <1>7. p \in Addresses
    BY <1>1, WordsNat DEF Addresses
  <1>8. /\ p + m[p - 1].size - 2 \in Addresses
        /\ p + m[p - 1].size - 1 \in Addresses
    BY <1>1, <1>4, <1>5, <1>6, WordsNat DEF Addresses
  <1> QED
    BY <1>1, <1>2, <1>3, <1>4, <1>5, <1>6, <1>7, <1>8

\* Two blocks do not overlap.
LEMMA BlocksApart ==
  ASSUME NEW m, NEW B, Tiled(m, B), NEW p \in B, NEW q \in B, p # q
  PROVE  p + m[p - 1].size <= q \/ q + m[q - 1].size <= p
  <1>1. p \in Nat /\ q \in Nat
    BY BlockBounds
  <1> QED
    BY <1>1 DEF Tiled

\* A memory in which all tags have the sizes they had tiles the same way.
LEMMA SameTags ==
  ASSUME NEW m, NEW B, Tiled(m, B), NEW m2 \in [Addresses -> Word],
         m2[0] = m[0], m2[Words - 1] = m[Words - 1],
         \A p \in B : /\ m2[p - 1].size = m[p - 1].size
                      /\ m2[p + m[p - 1].size - 2] = m2[p - 1]
  PROVE  Tiled(m2, B)
BY DEF Tiled

\* A block is marked used or free.
LEMMA MarkTiled ==
  ASSUME NEW m, NEW B, Tiled(m, B), NEW p \in B, NEW bit \in {0, 1},
         NEW m2 \in [Addresses -> Word],
         m2[p - 1] = Tag(m[p - 1].size, bit),
         m2[p + m[p - 1].size - 2] = Tag(m[p - 1].size, bit),
         \A a \in Addresses \ {p - 1, p + m[p - 1].size - 2} : m2[a] = m[a]
  PROVE  /\ Tiled(m2, B)
         /\ \A q \in B : q # p => m2[q - 1] = m[q - 1]
  <1>1. ASSUME NEW q \in B, q # p
        PROVE  /\ m2[q - 1] = m[q - 1]
               /\ m2[q + m[q - 1].size - 2] = m2[q - 1]
    <2>1. q - 1 \notin {p - 1, p + m[p - 1].size - 2}
      BY <1>1, BlockBounds, BlocksApart
    <2>2. q + m[q - 1].size - 2 \notin {p - 1, p + m[p - 1].size - 2}
      BY <1>1, BlockBounds, BlocksApart
    <2>3. m2[q - 1] = m[q - 1] /\ m2[q + m[q - 1].size - 2] = m[q + m[q - 1].size - 2]
      BY <2>1, <2>2, BlockBounds
    <2> QED
      BY <2>3 DEF Tiled
  <1>2. m2[p - 1].size = m[p - 1].size /\ m2[p + m[p - 1].size - 2] = m2[p - 1]
    BY DEF Tag
  <1>3. m2[0] = m[0] /\ m2[Words - 1] = m[Words - 1]
    <2>1. /\ p \in Nat /\ p >= 2 /\ m[p - 1].size \in Nat
          /\ m[p - 1].size >= 3 /\ p + m[p - 1].size <= Words
      BY BlockBounds
    <2>2. 0 \in Addresses /\ Words - 1 \in Addresses
      BY WordsNat DEF Addresses
    <2>3. /\ 0 \notin {p - 1, p + m[p - 1].size - 2}
          /\ Words - 1 \notin {p - 1, p + m[p - 1].size - 2}
      BY <2>1, WordsNat
    <2> QED
      BY <2>2, <2>3
  <1>4. \A q \in B : /\ m2[q - 1].size = m[q - 1].size
                     /\ m2[q + m[q - 1].size - 2] = m2[q - 1]
    BY <1>1, <1>2
  <1>5. Tiled(m2, B)
    BY <1>3, <1>4, SameTags
  <1> QED
    BY <1>1, <1>5

\* The first e words of a free block are used, the rest becomes a block.
LEMMA SplitTiled ==
  ASSUME NEW m, NEW B, Tiled(m, B), NEW p \in B,
         NEW e \in Nat, e >= 3, m[p - 1].size - e >= 3,
         NEW m2 \in [Addresses -> Word],
         m2[p - 1] = Tag(e, 1),
         m2[p + e - 2] = Tag(e, 1),
         m2[p + e - 1] = Tag(m[p - 1].size - e, 0),
         m2[p + m[p - 1].size - 2] = Tag(m[p - 1].size - e, 0),
         \A a \in Addresses \ {p - 1, p + e - 2, p + e - 1, p + m[p - 1].size - 2} :
            m2[a] = m[a]
  PROVE  /\ Tiled(m2, B \union {p + e})
         /\ p + e \notin B
         /\ \A q \in B : q # p => m2[q - 1] = m[q - 1]
  <1> DEFINE n == p + e
             s == m[p - 1].size
             written == {p - 1, p + e - 2, p + e - 1, p + s - 2}
             C == B \union {n}
  <1>0. /\ p \in Nat /\ p >= 2 /\ s \in Nat /\ p + s <= Words
        /\ n \in Nat /\ s - e \in Nat
    BY BlockBounds
  <1>1. ASSUME NEW q \in B, q # p
        PROVE  /\ m2[q - 1] = m[q - 1]
               /\ m2[q + m[q - 1].size - 2] = m[q - 1]
               /\ q \in Nat /\ m[q - 1].size \in Nat
               /\ q >= p + s \/ q + m[q - 1].size <= p
    <2>1. q >= p + s \/ q + m[q - 1].size <= p
      BY <1>1, BlocksApart, BlockBounds
    <2>2. /\ q \in Nat /\ m[q - 1].size \in Nat /\ m[q - 1].size >= 3
          /\ q - 1 \in Addresses /\ q + m[q - 1].size - 2 \in Addresses
      BY BlockBounds
    <2>3. q - 1 \notin written /\ q + m[q - 1].size - 2 \notin written
      BY <2>1, <2>2, <1>0
    <2>4. m2[q - 1] = m[q - 1] /\ m2[q + m[q - 1].size - 2] = m[q + m[q - 1].size - 2]
      BY <2>2, <2>3
    <2> QED
      BY <2>1, <2>2, <2>4 DEF Tiled
  <1>2. n \notin B
    BY <1>0, <1>1
  <1>3. m2[p - 1].size = e /\ m2[n - 1].size = s - e
    BY <1>0 DEF Tag
  <1>4. m2[0] = Tag(0, 1) /\ m2[Words - 1] = Tag(0, 1)
    <2>1. 0 \in Addresses /\ Words - 1 \in Addresses
      BY WordsNat DEF Addresses
    <2>2. 0 \notin written /\ Words - 1 \notin written
      BY <1>0, WordsNat
    <2> QED
      BY <2>1, <2>2 DEF Tiled
  <1>5. C \subseteq 2..(Words - 1) /\ FirstPtr \in C
    BY <1>0, WordsNat DEF Tiled
  <1>6. ASSUME NEW q \in C
        PROVE  /\ m2[q - 1].size >= 3
               /\ q + m2[q - 1].size \in C \union {Words}
               /\ m2[q + m2[q - 1].size - 2] = m2[q - 1]
    <2>1. CASE q = p
      BY <2>1, <1>0, <1>3
    <2>2. CASE q = n
      <3>1. q + m2[q - 1].size = p + s
        BY <2>2, <1>0, <1>3
      <3>2. p + s \in B \union {Words}
        BY DEF Tiled
      <3> QED
        BY <2>2, <3>1, <3>2, <1>0, <1>3
    <2>3. CASE q \in B /\ q # p
      BY <2>3, <1>1 DEF Tiled
    <2> QED
      BY <2>1, <2>2, <2>3
  <1>7. ASSUME NEW q \in C, NEW r \in C, q < r
        PROVE  q + m2[q - 1].size <= r
    <2>1. CASE q = p /\ r = n
      BY <2>1, <1>0, <1>3
    <2>2. CASE q = p /\ r \in B
      BY <2>2, <1>0, <1>1, <1>3, <1>7
    <2>3. CASE q = n /\ r \in B
      BY <2>3, <1>0, <1>1, <1>3, <1>7
    <2>4. CASE q \in B /\ q # p /\ r = n
      BY <2>4, <1>0, <1>1, <1>3, <1>7
    <2>5. CASE q \in B /\ q # p /\ r \in B
      BY <2>5, <1>1, <1>7 DEF Tiled
    <2>6. ~(q = n /\ r = n)
      BY <1>0, <1>7
    <2> QED
      BY <2>1, <2>2, <2>3, <2>4, <2>5, <2>6
  <1>8. ASSUME NEW r \in C
        PROVE  r = FirstPtr \/ \E q \in C : q + m2[q - 1].size = r
    <2>1. CASE r = n
      BY <2>1, <1>0, <1>3
    <2>2. CASE r \in B /\ r # FirstPtr
      <3>1. PICK q \in B : q + m[q - 1].size = r
        BY <2>2 DEF Tiled
      <3>2. CASE q = p
        BY <3>1, <3>2, <1>0, <1>3
      <3>3. CASE q # p
        BY <3>1, <3>3, <1>1
      <3> QED
        BY <3>2, <3>3
    <2> QED
      BY <2>1, <2>2
  <1>9. Tiled(m2, C)
    <2> HIDE DEF C
    <2> QED
      BY <1>4, <1>5, <1>6, <1>7, <1>8 DEF Tiled
  <1> QED
    BY <1>1, <1>2, <1>9

\* Neighbours p and n become one block; the tags between them are cleared.
MergedWords(m, p, n) ==
  {p - 1, p + m[p - 1].size - 2, n - 1, n + m[n - 1].size - 2}

Merged(m, p, n, m2) ==
  /\ m2 \in [Addresses -> Word]
  /\ m2[p - 1] = Tag(m[p - 1].size + m[n - 1].size, 0)
  /\ m2[n + m[n - 1].size - 2] = Tag(m[p - 1].size + m[n - 1].size, 0)
  /\ m2[p + m[p - 1].size - 2] = Tag(0, 0)
  /\ m2[n - 1] = Tag(0, 0)
  /\ \A a \in Addresses \ MergedWords(m, p, n) : m2[a] = m[a]

LEMMA MergeTiled ==
  ASSUME NEW m, NEW B, Tiled(m, B), NEW p \in B, NEW n \in B,
         n = p + m[p - 1].size, NEW m2, Merged(m, p, n, m2)
  PROVE  /\ Tiled(m2, B \ {n})
         /\ \A q \in B \ {p, n} : m2[q - 1] = m[q - 1]
  <1> DEFINE s == m[p - 1].size
             t == m[n - 1].size
             C == B \ {n}
  <1>0. /\ p \in Nat /\ p >= 2 /\ s \in Nat /\ s >= 3
        /\ n \in Nat /\ t \in Nat /\ t >= 3 /\ n + t <= Words
    BY BlockBounds
  <1>1. ASSUME NEW q \in B, q # p, q # n
        PROVE  /\ m2[q - 1] = m[q - 1]
               /\ m2[q + m[q - 1].size - 2] = m[q - 1]
               /\ q \in Nat /\ m[q - 1].size \in Nat
               /\ q >= n + t \/ q + m[q - 1].size <= p
    <2>1. q >= p + s \/ q + m[q - 1].size <= p
      BY <1>1, BlocksApart
    <2>2. q >= n + t \/ q + m[q - 1].size <= n
      BY <1>1, BlocksApart
    <2>3. /\ q \in Nat /\ m[q - 1].size \in Nat /\ m[q - 1].size >= 3
          /\ q - 1 \in Addresses /\ q + m[q - 1].size - 2 \in Addresses
      BY BlockBounds
    <2>4. q >= n + t \/ q + m[q - 1].size <= p
      BY <2>1, <2>2, <2>3, <1>0
    <2>5. /\ q - 1 \notin MergedWords(m, p, n)
          /\ q + m[q - 1].size - 2 \notin MergedWords(m, p, n)
      BY <2>3, <2>4, <1>0 DEF MergedWords
    <2>6. m2[q - 1] = m[q - 1] /\ m2[q + m[q - 1].size - 2] = m[q + m[q - 1].size - 2]
      BY <2>3, <2>5 DEF Merged
    <2> QED
      BY <2>3, <2>4, <2>6 DEF Tiled
  <1>2. m2[p - 1].size = s + t /\ p + (s + t) = n + t
    BY <1>0 DEF Merged, Tag
  <1>3. m2[0] = Tag(0, 1) /\ m2[Words - 1] = Tag(0, 1)
    <2>1. 0 \in Addresses /\ Words - 1 \in Addresses
      BY WordsNat DEF Addresses
    <2>2. 0 \notin MergedWords(m, p, n) /\ Words - 1 \notin MergedWords(m, p, n)
      BY <1>0, WordsNat DEF MergedWords
    <2> QED
      BY <2>1, <2>2 DEF Tiled, Merged
  <1>4. C \subseteq 2..(Words - 1) /\ FirstPtr \in C
    <2>1. n # FirstPtr
      BY <1>0 DEF FirstPtr
    <2> QED
      BY <2>1 DEF Tiled
  <1>5. ASSUME NEW q \in C
        PROVE  /\ m2[q - 1].size >= 3
               /\ q + m2[q - 1].size \in C \union {Words}
               /\ m2[q + m2[q - 1].size - 2] = m2[q - 1]
    <2>1. CASE q = p
      <3>1. n + t \in B \union {Words} /\ n + t # n
        BY <1>0 DEF Tiled
      <3> QED
        BY <2>1, <3>1, <1>0, <1>2 DEF Merged
    <2>2. CASE q # p
      <3>1. q + m[q - 1].size # n
        BY <2>2, <1>0, <1>1
      <3> QED
        BY <2>2, <3>1, <1>1 DEF Tiled
    <2> QED
      BY <2>1, <2>2
  <1>6. ASSUME NEW q \in C, NEW r \in C, q < r
        PROVE  q + m2[q - 1].size <= r
    <2>1. CASE q = p
      BY <2>1, <1>0, <1>1, <1>2, <1>6
    <2>2. CASE q # p
      BY <2>2, <1>1, <1>6 DEF Tiled
    <2> QED
      BY <2>1, <2>2
  <1>7. ASSUME NEW r \in C
        PROVE  r = FirstPtr \/ \E q \in C : q + m2[q - 1].size = r
    <2>1. CASE r # FirstPtr
      <3>1. PICK q \in B : q + m[q - 1].size = r
        BY <2>1 DEF Tiled
      <3>2. CASE q = n
        BY <3>1, <3>2, <1>0, <1>2
      <3>3. CASE q # n
        <4>1. q # p
          BY <3>1
        <4> QED
          BY <3>1, <3>3, <4>1, <1>1
      <3> QED
        BY <3>2, <3>3
    <2> QED
      BY <2>1
  <1>8. Tiled(m2, C)
    <2>1. m2 \in [Addresses -> Word]
      BY DEF Merged
    <2> HIDE DEF C
    <2> QED
      BY <2>1, <1>3, <1>4, <1>5, <1>6, <1>7 DEF Tiled
  <1> QED
    BY <1>1, <1>8

-----------------------------------------------------------------------------
(***************************************************************************)
(* What the allocator's helpers compute on a tiled memory.                 *)
(***************************************************************************)
LEMMA SetValue ==
  ASSUME NEW m \in [Addresses -> Word], NEW w \in Addresses,
         NEW n \in 0..Words, NEW bit \in {0, 1}
  PROVE  /\ setValue(m, w, n, bit) \in [Addresses -> Word]
         /\ setValue(m, w, n, bit)[w] = Tag(n, bit)
         /\ \A a \in Addresses : a # w => setValue(m, w, n, bit)[a] = m[a]
BY TagType DEF setValue, Tag

LEMMA InitializeTiled ==
  ASSUME myBlock \in [Addresses -> Word]
  PROVE  /\ Tiled(initialize, {FirstPtr})
         /\ initialize[FirstPtr - 1] = Tag(Words - 2, 0)
         /\ \A a \in Addresses \ {0, 1, Words - 2, Words - 1} :
              initialize[a] = myBlock[a]
  <1> DEFINE m1 == setValue(myBlock, 0, 0, 1)
             m2 == setValue(m1, Words - 1, 0, 1)
             k  == Words - 2
             m3 == setValue(m2, 1, k, 0)
             m4 == setValue(m3, k, k, 0)
  <1>1. /\ 0 \in Addresses /\ 1 \in Addresses
        /\ Words - 1 \in Addresses /\ k \in Addresses
        /\ 0 \in 0..Words /\ k \in 0..Words
    BY WordsNat DEF Addresses
  <1>2. initialize = m4
    <2>1. (Words - 1) - 1 = Words - 2
      BY WordsNat
    <2> QED
      BY <2>1 DEF initialize
  <1>3. /\ m1 \in [Addresses -> Word] /\ m1[0] = Tag(0, 1)
        /\ \A a \in Addresses : a # 0 => m1[a] = myBlock[a]
    BY <1>1, SetValue
  <1>4. /\ m2 \in [Addresses -> Word] /\ m2[Words - 1] = Tag(0, 1)
        /\ \A a \in Addresses : a # Words - 1 => m2[a] = m1[a]
    <2> HIDE DEF m1
    <2> QED
      BY <1>1, <1>3, SetValue
  <1>5. /\ m3 \in [Addresses -> Word] /\ m3[1] = Tag(k, 0)
        /\ \A a \in Addresses : a # 1 => m3[a] = m2[a]
    <2> HIDE DEF m2, k
    <2> QED
      BY <1>1, <1>4, SetValue
  <1>6. /\ m4 \in [Addresses -> Word] /\ m4[0] = Tag(0, 1)
        /\ m4[Words - 1] = Tag(0, 1) /\ m4[1] = Tag(k, 0)
        /\ m4[k] = Tag(k, 0)
        /\ \A a \in Addresses \ {0, 1, k, Words - 1} : m4[a] = myBlock[a]
    <2>1. /\ m4 \in [Addresses -> Word] /\ m4[k] = Tag(k, 0)
          /\ \A a \in Addresses : a # k => m4[a] = m3[a]
      <3> HIDE DEF m3, k
      <3> QED
        BY <1>1, <1>5, SetValue
    <2> HIDE DEF m1, m2, m3, m4
    <2> QED
      BY <1>1, <1>3, <1>4, <1>5, <2>1, WordsNat
  <1>7. /\ FirstPtr = 2 /\ FirstPtr - 1 = 1
        /\ m4[FirstPtr - 1].size = Words - 2
        /\ FirstPtr + (Words - 2) = Words
    BY <1>6, WordsNat DEF FirstPtr, Tag
  <1>8. Tiled(m4, {FirstPtr})
    <2> HIDE DEF m4
    <2> QED
      BY <1>6, <1>7, WordsNat DEF Tiled
  <1> QED
    BY <1>2, <1>6, <1>7, <1>8

\* getPrevious and getNext find the neighbours.
LEMMA PreviousBlock ==
  ASSUME NEW m, NEW B, Tiled(m, B), NEW p \in B, NEW v \in B,
         v + m[v - 1].size = p
  PROVE  getPrevious(m, p) = v /\ v # NULL
  <1>1. /\ v \in Nat /\ v >= 2 /\ p \in Nat
        /\ m[v - 1].size \in Nat /\ m[v - 1].size >= 3
    BY BlockBounds
  <1>2. m[p - 2] = m[v - 1]
    <2>1. m[v + m[v - 1].size - 2] = m[v - 1] /\ v + m[v - 1].size - 2 = p - 2
      BY <1>1 DEF Tiled
    <2> QED
      BY <2>1
  <1> QED
    BY <1>1, <1>2 DEF getPrevious, NULL

LEMMA NoPrevious ==
  ASSUME NEW m, NEW B, Tiled(m, B)
  PROVE  getPrevious(m, FirstPtr) = NULL
BY DEF Tiled, getPrevious, FirstPtr, Tag

LEMMA NextBlock ==
  ASSUME NEW m, NEW B, Tiled(m, B), NEW p \in B, p + m[p - 1].size \in B
  PROVE  getNext(m, p) = p + m[p - 1].size /\ getNext(m, p) # NULL
  <1> DEFINE n == p + m[p - 1].size
  <1>1. n \in Nat /\ n >= 2 /\ m[n - 1].size >= 3 /\ m[n - 1].size \in Nat
    BY BlockBounds
  <1> QED
    BY <1>1 DEF getNext, getSize, getAllocation, getHeader, NULL

LEMMA NoNext ==
  ASSUME NEW m, NEW B, Tiled(m, B), NEW p \in B, p + m[p - 1].size = Words
  PROVE  getNext(m, p) = NULL
BY DEF Tiled, getNext, getSize, getAllocation, getHeader, Tag

\* The previous block is free, the next one is not.
LEMMA CoalescePrevious ==
  ASSUME NEW m, NEW B, Tiled(m, B), NEW p \in B, NEW v \in B,
         v + m[v - 1].size = p, m[v - 1].alloc = 0,
         getNext(m, p) = NULL \/ getAllocation(m, getNext(m, p)) = 1
  PROVE  Merged(m, v, p, coalesce(m, p))
  <1> DEFINE s  == m[v - 1].size
             t  == m[p - 1].size
             m1 == setValue(m, p - 2, 0, 0)
             m2 == setValue(m1, v - 1, t + s, 0)
             m3 == setValue(m2, p + t - 2, t + s, 0)
             m4 == setValue(m3, p - 1, 0, 0)
  <1>1. /\ v \in Nat /\ v >= 2 /\ s \in Nat /\ s >= 3
        /\ p \in Nat /\ t \in Nat /\ t >= 3 /\ p + t <= Words
        /\ m \in [Addresses -> Word]
    BY BlockBounds DEF Tiled
  <1>2. /\ p - 2 \in Addresses /\ v - 1 \in Addresses
        /\ p + t - 2 \in Addresses /\ p - 1 \in Addresses
        /\ 0 \in 0..Words /\ t + s \in 0..Words
    <2>1. v + s = p
      OBVIOUS
    <2> HIDE DEF s, t
    <2> QED
      BY <1>1, <2>1, WordsNat DEF Addresses
  <1>3. /\ m1 \in [Addresses -> Word] /\ m1[p - 2] = Tag(0, 0)
        /\ \A a \in Addresses : a # p - 2 => m1[a] = m[a]
    BY <1>1, <1>2, SetValue
  <1>4. /\ m2 \in [Addresses -> Word] /\ m2[v - 1] = Tag(t + s, 0)
        /\ \A a \in Addresses : a # v - 1 => m2[a] = m1[a]
    <2> HIDE DEF m1
    <2> QED
      BY <1>2, <1>3, SetValue
  <1>5. /\ m3 \in [Addresses -> Word] /\ m3[p + t - 2] = Tag(t + s, 0)
        /\ \A a \in Addresses : a # p + t - 2 => m3[a] = m2[a]
    <2> HIDE DEF m2
    <2> QED
      BY <1>2, <1>4, SetValue
  <1>6. /\ m4 \in [Addresses -> Word] /\ m4[p - 1] = Tag(0, 0)
        /\ \A a \in Addresses : a # p - 1 => m4[a] = m3[a]
    <2> HIDE DEF m3
    <2> QED
      BY <1>2, <1>5, SetValue
  <1>7. coalesce(m, p) = m4
    <2>1. getPrevious(m, p) = v /\ v # NULL
      BY PreviousBlock
    <2>2. getSize(m, p) = t /\ getSize(m, v) = s /\ getAllocation(m, v) = 0
      BY DEF getSize, getAllocation, getHeader
    <2>3. getFooter(m, v) = p - 2
      BY <2>2, <1>1 DEF getFooter
    <2>4. getFooter(m2, p) = p + t - 2
      <3>1. m2[p - 1] = m[p - 1]
        BY <1>1, <1>2, <1>3, <1>4
      <3> QED
        BY <3>1 DEF getFooter, getSize, getHeader
    <2> QED
      BY <2>1, <2>2, <2>3, <2>4 DEF coalesce, getHeader
  <1>8. /\ m4[v - 1] = Tag(s + t, 0)
        /\ m4[p + t - 2] = Tag(s + t, 0)
        /\ m4[p - 2] = Tag(0, 0)
    <2> HIDE DEF m1, m2, m3, m4
    <2>1. t + s = s + t
      BY <1>1
    <2> QED
      BY <2>1, <1>1, <1>2, <1>3, <1>4, <1>5, <1>6
  <1>9. v + s - 2 = p - 2
    BY <1>1
  <1>10. \A a \in Addresses \ MergedWords(m, v, p) : m4[a] = m[a]
    <2> HIDE DEF m1, m2, m3, m4
    <2> QED
      BY <1>3, <1>4, <1>5, <1>6, <1>9 DEF MergedWords
  <1> HIDE DEF m4
  <1> QED
    BY <1>6, <1>7, <1>8, <1>9, <1>10 DEF Merged

\* The next block is free, the previous one is not.
LEMMA CoalesceNext ==
  ASSUME NEW m, NEW B, Tiled(m, B), NEW p \in B, NEW n \in B,
         n = p + m[p - 1].size, m[n - 1].alloc = 0,
         getPrevious(m, p) = NULL \/ getAllocation(m, getPrevious(m, p)) = 1
  PROVE  Merged(m, p, n, coalesce(m, p))
  <1> DEFINE s  == m[p - 1].size
             t  == m[n - 1].size
             m1 == setValue(m, n - 2, 0, 0)
             m2 == setValue(m1, p - 1, s + t, 0)
             m3 == setValue(m2, n + t - 2, s + t, 0)
             m4 == setValue(m3, n - 1, 0, 0)
  <1>1. /\ p \in Nat /\ p >= 2 /\ s \in Nat /\ s >= 3
        /\ n \in Nat /\ t \in Nat /\ t >= 3 /\ n + t <= Words
        /\ m \in [Addresses -> Word]
    BY BlockBounds DEF Tiled
  <1>2. /\ n - 2 \in Addresses /\ p - 1 \in Addresses
        /\ n + t - 2 \in Addresses /\ n - 1 \in Addresses
        /\ 0 \in 0..Words /\ s + t \in 0..Words
    <2>1. p + s = n
      OBVIOUS
    <2> HIDE DEF s, t
    <2>2. 0 \in 0..Words /\ s + t \in 0..Words
      BY <1>1, <2>1, WordsNat
    <2>3. n - 2 \in Addresses /\ p - 1 \in Addresses
      BY <1>1, <2>1, WordsNat DEF Addresses
    <2>4. n + t - 2 \in Addresses /\ n - 1 \in Addresses
      BY BlockBounds DEF t
    <2> QED
      BY <2>2, <2>3, <2>4
  <1>3. /\ m1 \in [Addresses -> Word] /\ m1[n - 2] = Tag(0, 0)
        /\ \A a \in Addresses : a # n - 2 => m1[a] = m[a]
    BY <1>1, <1>2, SetValue
  <1>4. /\ m2 \in [Addresses -> Word] /\ m2[p - 1] = Tag(s + t, 0)
        /\ \A a \in Addresses : a # p - 1 => m2[a] = m1[a]
    <2> HIDE DEF m1, s, t
    <2> QED
      BY <1>2, <1>3, SetValue
  <1>5. /\ m3 \in [Addresses -> Word] /\ m3[n + t - 2] = Tag(s + t, 0)
        /\ \A a \in Addresses : a # n + t - 2 => m3[a] = m2[a]
    <2> HIDE DEF m2, s, t
    <2> QED
      BY <1>2, <1>4, SetValue
  <1>6. /\ m4 \in [Addresses -> Word] /\ m4[n - 1] = Tag(0, 0)
        /\ \A a \in Addresses : a # n - 1 => m4[a] = m3[a]
    <2> HIDE DEF m3, s, t
    <2> QED
      BY <1>2, <1>5, SetValue
  <1>7. coalesce(m, p) = m4
    <2>1. getNext(m, p) = n /\ n # NULL
      BY NextBlock
    <2>2. getSize(m, p) = s /\ getSize(m, n) = t /\ getAllocation(m, n) = 0
      BY DEF getSize, getAllocation, getHeader
    <2>3. getFooter(m, p) = n - 2
      BY <2>2, <1>1 DEF getFooter
    <2>4. getFooter(m2, n) = n + t - 2
      <3>1. m2[n - 1] = m[n - 1]
        BY <1>1, <1>2, <1>3, <1>4
      <3> QED
        BY <3>1 DEF getFooter, getSize, getHeader
    <2> QED
      BY <2>1, <2>2, <2>3, <2>4 DEF coalesce, getHeader
  <1>8. /\ m4[p - 1] = Tag(s + t, 0)
        /\ m4[n + t - 2] = Tag(s + t, 0)
        /\ m4[n - 2] = Tag(0, 0)
    <2> HIDE DEF m1, m2, m3, m4
    <2> QED
      BY <1>1, <1>2, <1>3, <1>4, <1>5, <1>6
  <1>9. p + s - 2 = n - 2
    BY <1>1
  <1>10. \A a \in Addresses \ MergedWords(m, p, n) : m4[a] = m[a]
    <2> HIDE DEF m1, m2, m3, m4
    <2> QED
      BY <1>3, <1>4, <1>5, <1>6, <1>9 DEF MergedWords
  <1> HIDE DEF m4
  <1> QED
    BY <1>6, <1>7, <1>8, <1>9, <1>10 DEF Merged

\* Both neighbours are free: as if p were merged first with the previous block
\* and the result with the next one.
LEMMA CoalesceBoth ==
  ASSUME NEW m, NEW B, Tiled(m, B), NEW p \in B, NEW v \in B, NEW n \in B,
         v + m[v - 1].size = p, n = p + m[p - 1].size,
         m[v - 1].alloc = 0, m[n - 1].alloc = 0
  PROVE  \E k : Merged(m, v, p, k) /\ Merged(k, v, n, coalesce(m, p))
  <1> DEFINE r  == m[v - 1].size
             s  == m[p - 1].size
             t  == m[n - 1].size
             u  == s + r + t
             m1 == setValue(m, p - 2, 0, 0)
             m2 == setValue(m1, v - 1, u, 0)
             m3 == setValue(m2, n - 2, 0, 0)
             m4 == setValue(m3, p - 1, 0, 0)
             m5 == setValue(m4, n + t - 2, u, 0)
             m6 == setValue(m5, n - 1, 0, 0)
             k1 == setValue(m, p - 2, 0, 0)
             k2 == setValue(k1, v - 1, r + s, 0)
             k3 == setValue(k2, n - 2, r + s, 0)
             k4 == setValue(k3, p - 1, 0, 0)
  <1>1. /\ v \in Nat /\ v >= 2 /\ r \in Nat /\ r >= 3
        /\ p \in Nat /\ s \in Nat /\ s >= 3
        /\ n \in Nat /\ t \in Nat /\ t >= 3 /\ n + t <= Words
        /\ v + r = p /\ p + s = n
        /\ m \in [Addresses -> Word]
    BY BlockBounds DEF Tiled
  <1>2. /\ p - 2 \in Addresses /\ v - 1 \in Addresses
        /\ n - 2 \in Addresses /\ p - 1 \in Addresses
        /\ n + t - 2 \in Addresses /\ n - 1 \in Addresses
        /\ 0 \in 0..Words /\ u \in 0..Words /\ r + s \in 0..Words
    <2> HIDE DEF r, s, t
    <2>1. 0 \in 0..Words /\ u \in 0..Words /\ r + s \in 0..Words
      BY <1>1, WordsNat
    <2>2. p - 2 \in Addresses /\ v - 1 \in Addresses
      BY <1>1, WordsNat DEF Addresses
    <2>3. n - 2 \in Addresses /\ p - 1 \in Addresses
      BY <1>1, WordsNat DEF Addresses
    <2>4. n + t - 2 \in Addresses /\ n - 1 \in Addresses
      BY BlockBounds DEF t
    <2> QED
      BY <2>1, <2>2, <2>3, <2>4
  <1>3. /\ m1 \in [Addresses -> Word] /\ m1[p - 2] = Tag(0, 0)
        /\ \A a \in Addresses : a # p - 2 => m1[a] = m[a]
    BY <1>1, <1>2, SetValue
  <1>4. /\ m2 \in [Addresses -> Word] /\ m2[v - 1] = Tag(u, 0)
        /\ \A a \in Addresses : a # v - 1 => m2[a] = m1[a]
    <2> HIDE DEF m1
    <2> QED
      BY <1>2, <1>3, SetValue
  <1>5. /\ m3 \in [Addresses -> Word] /\ m3[n - 2] = Tag(0, 0)
        /\ \A a \in Addresses : a # n - 2 => m3[a] = m2[a]
    <2> HIDE DEF m2
    <2> QED
      BY <1>2, <1>4, SetValue
  <1>6. /\ m4 \in [Addresses -> Word] /\ m4[p - 1] = Tag(0, 0)
        /\ \A a \in Addresses : a # p - 1 => m4[a] = m3[a]
    <2> HIDE DEF m3
    <2> QED
      BY <1>2, <1>5, SetValue
  <1>7. /\ m5 \in [Addresses -> Word] /\ m5[n + t - 2] = Tag(u, 0)
        /\ \A a \in Addresses : a # n + t - 2 => m5[a] = m4[a]
    <2> HIDE DEF m4, u, t
    <2> QED
      BY <1>2, <1>6, SetValue
  <1>8. /\ m6 \in [Addresses -> Word] /\ m6[n - 1] = Tag(0, 0)
        /\ \A a \in Addresses : a # n - 1 => m6[a] = m5[a]
    <2> HIDE DEF m5
    <2> QED
      BY <1>2, <1>7, SetValue
  <1>9. /\ k1 \in [Addresses -> Word] /\ k1[p - 2] = Tag(0, 0)
        /\ \A a \in Addresses : a # p - 2 => k1[a] = m[a]
    BY <1>1, <1>2, SetValue
  <1>10. /\ k2 \in [Addresses -> Word] /\ k2[v - 1] = Tag(r + s, 0)
        /\ \A a \in Addresses : a # v - 1 => k2[a] = k1[a]
    <2> HIDE DEF k1
    <2> QED
      BY <1>2, <1>9, SetValue
  <1>11. /\ k3 \in [Addresses -> Word] /\ k3[n - 2] = Tag(r + s, 0)
        /\ \A a \in Addresses : a # n - 2 => k3[a] = k2[a]
    <2> HIDE DEF k2
    <2> QED
      BY <1>2, <1>10, SetValue
  <1>12. /\ k4 \in [Addresses -> Word] /\ k4[p - 1] = Tag(0, 0)
        /\ \A a \in Addresses : a # p - 1 => k4[a] = k3[a]
    <2> HIDE DEF k3
    <2> QED
      BY <1>2, <1>11, SetValue
  <1>13. coalesce(m, p) = m6
    <2>1. getPrevious(m, p) = v /\ v # NULL
      BY PreviousBlock
    <2>2. getNext(m, p) = n /\ n # NULL
      BY NextBlock
    <2>3. /\ getSize(m, p) = s /\ getSize(m, v) = r /\ getSize(m, n) = t
          /\ getAllocation(m, v) = 0 /\ getAllocation(m, n) = 0
      BY DEF getSize, getAllocation, getHeader
    <2>4. getFooter(m, v) = p - 2
      BY <2>3, <1>1 DEF getFooter
    <2>5. getFooter(m2, p) = n - 2
      <3>1. m2[p - 1] = m[p - 1]
        BY <1>1, <1>2, <1>3, <1>4
      <3> QED
        BY <3>1, <1>1 DEF getFooter, getSize, getHeader
    <2>6. getFooter(m4, n) = n + t - 2
      <3>1. m4[n - 1] = m[n - 1]
        <4> HIDE DEF m1, m2, m3, m4
        <4> QED
          BY <1>1, <1>2, <1>3, <1>4, <1>5, <1>6
      <3> QED
        BY <3>1 DEF getFooter, getSize, getHeader
    <2> QED
      BY <2>1, <2>2, <2>3, <2>4, <2>5, <2>6 DEF coalesce, getHeader
  <1>14. v + r - 2 = p - 2 /\ p + s - 2 = n - 2 /\ v + (r + s) - 2 = n - 2
    BY <1>1
  <1>15. Merged(m, v, p, k4)
    <2> HIDE DEF k1, k2, k3, k4
    <2>1. /\ k4[v - 1] = Tag(r + s, 0) /\ k4[n - 2] = Tag(r + s, 0)
          /\ k4[p - 2] = Tag(0, 0)
      BY <1>1, <1>2, <1>9, <1>10, <1>11, <1>12
    <2>2. \A a \in Addresses \ MergedWords(m, v, p) : k4[a] = m[a]
      BY <1>9, <1>10, <1>11, <1>12, <1>14 DEF MergedWords
    <2> QED
      BY <1>12, <1>14, <2>1, <2>2 DEF Merged
  <1>16. Merged(k4, v, n, m6)
    <2> HIDE DEF k1, k2, k3, k4, m1, m2, m3, m4, m5, m6
    <2>1. /\ k4[v - 1] = Tag(r + s, 0) /\ k4[n - 1] = m[n - 1]
          /\ k4[p - 2] = Tag(0, 0) /\ k4[p - 1] = Tag(0, 0)
      BY <1>1, <1>2, <1>9, <1>10, <1>11, <1>12
    <2>2. k4[v - 1].size = r + s /\ k4[n - 1].size = t /\ u = (r + s) + t
      BY <2>1, <1>1 DEF Tag
    <2>3. /\ m6[v - 1] = Tag(u, 0) /\ m6[n + t - 2] = Tag(u, 0)
          /\ m6[n - 2] = Tag(0, 0) /\ m6[n - 1] = Tag(0, 0)
          /\ m6[p - 2] = Tag(0, 0) /\ m6[p - 1] = Tag(0, 0)
      BY <1>1, <1>2, <1>3, <1>4, <1>5, <1>6, <1>7, <1>8
    <2>4. ASSUME NEW a \in Addresses \ {v - 1, n - 2, n - 1, n + t - 2}
          PROVE  m6[a] = k4[a]
      <3>1. CASE a = p - 1
        BY <3>1, <2>1, <2>3
      <3>2. CASE a = p - 2
        BY <3>2, <2>1, <2>3
      <3>3. CASE a # p - 1 /\ a # p - 2
        <4>1. m6[a] = m[a]
          BY <3>3, <1>3, <1>4, <1>5, <1>6, <1>7, <1>8
        <4>2. k4[a] = m[a]
          BY <3>3, <1>9, <1>10, <1>11, <1>12
        <4> QED
          BY <4>1, <4>2
      <3> QED
        BY <3>1, <3>2, <3>3
    <2>5. MergedWords(k4, v, n) = {v - 1, n - 2, n - 1, n + t - 2}
      BY <2>2, <1>14 DEF MergedWords
    <2> HIDE DEF u
    <2> QED
      BY <1>8, <1>14, <2>2, <2>3, <2>4, <2>5 DEF Merged
  <1> QED
    BY <1>13, <1>15, <1>16

\* No neighbour is free.
LEMMA CoalesceNone ==
  ASSUME NEW m, NEW p,
         getNext(m, p) = NULL \/ getAllocation(m, getNext(m, p)) = 1,
         getPrevious(m, p) = NULL \/ getAllocation(m, getPrevious(m, p)) = 1
  PROVE  coalesce(m, p) = m
BY DEF coalesce

-----------------------------------------------------------------------------
(***************************************************************************)
(* What marking, splitting and merging leave alone.                        *)
(***************************************************************************)
Used(m, B) == {q \in B : m[q - 1].alloc = 1}

\* The words of block q, tags included, are the same in m and m2.
SameOn(m, m2, q) == \A a \in (q - 1)..(q + m[q - 1].size - 2) : m2[a] = m[a]

\* Neighbours q and the one after it are not both free, unless q is in X.
AlternatingBut(m, B, X) ==
  \A q \in B \ X : q + m[q - 1].size \in B =>
     m[q - 1].alloc = 1 \/ m[(q + m[q - 1].size) - 1].alloc = 1

\* A word that is no tag is zero, as long as no client writes.
IsTag(m, B, a) ==
  \/ a \in {0, Words - 1}
  \/ \E p \in B : a = p - 1 \/ a = (p + m[p - 1].size) - 2

Clean(m, B) == \A a \in Addresses : ~IsTag(m, B, a) => m[a] = Tag(0, 0)

LEMMA SameOnType ==
  ASSUME NEW m, NEW B, Tiled(m, B), NEW q \in B,
         NEW a \in (q - 1)..(q + m[q - 1].size - 2)
  PROVE  a \in Addresses
  <1>1. /\ q \in Nat /\ q >= 2 /\ m[q - 1].size \in Nat
        /\ q + m[q - 1].size <= Words
    BY BlockBounds
  <1> QED
    BY <1>1, WordsNat DEF Addresses

\* A pointer inside a free block stays there while that block's words do not
\* change and it stays a block.
LEMMA InsideKept ==
  ASSUME NEW m, NEW B, Tiled(m, B), NEW m2, NEW C, NEW x \in Addresses,
         x \notin B, x \notin C, m[x - 1] = Tag(0, 0), m[x - 2] = Tag(0, 0),
         NEW b \in B, b \in C, m[b - 1].alloc = 0,
         b + 3 <= x, x + 3 <= b + m[b - 1].size, SameOn(m, m2, b)
  PROVE  InsideFree(m2, C, x)
  <1>1. /\ b \in Nat /\ x \in Nat /\ m[b - 1].size \in Nat
        /\ m[b - 1].size >= 3
    BY BlockBounds DEF Addresses
  <1>2. /\ x - 1 \in (b - 1)..(b + m[b - 1].size - 2)
        /\ x - 2 \in (b - 1)..(b + m[b - 1].size - 2)
        /\ b - 1 \in (b - 1)..(b + m[b - 1].size - 2)
    BY <1>1
  <1>3. m2[x - 1] = m[x - 1] /\ m2[x - 2] = m[x - 2] /\ m2[b - 1] = m[b - 1]
    BY <1>2 DEF SameOn
  <1> QED
    BY <1>3 DEF InsideFree

LEMMA NeighboursApart ==
  ASSUME NEW m, NEW B, Tiled(m, B), NEW p \in B, NEW n \in B,
         n = p + m[p - 1].size, NEW q \in B, q # p, q # n
  PROVE  q >= n + m[n - 1].size \/ q + m[q - 1].size <= p
  <1>1. q >= p + m[p - 1].size \/ q + m[q - 1].size <= p
    BY BlocksApart
  <1>2. q >= n + m[n - 1].size \/ q + m[q - 1].size <= n
    BY BlocksApart
  <1>3. /\ q \in Nat /\ m[q - 1].size \in Nat /\ m[q - 1].size >= 3
        /\ p \in Nat /\ n \in Nat /\ m[n - 1].size \in Nat
    BY BlockBounds
  <1> QED
    BY <1>1, <1>2, <1>3

LEMMA MergeSame ==
  ASSUME NEW m, NEW B, Tiled(m, B), NEW p \in B, NEW n \in B,
         n = p + m[p - 1].size, NEW m2, Merged(m, p, n, m2),
         NEW q \in B, q # p, q # n
  PROVE  SameOn(m, m2, q)
  <1>1. q >= n + m[n - 1].size \/ q + m[q - 1].size <= p
    BY NeighboursApart
  <1>2. /\ q \in Nat /\ m[q - 1].size \in Nat /\ m[q - 1].size >= 3
        /\ p \in Nat /\ n \in Nat /\ m[n - 1].size \in Nat
        /\ m[n - 1].size >= 3 /\ m[p - 1].size \in Nat /\ m[p - 1].size >= 3
    BY BlockBounds
  <1>3. ASSUME NEW a \in (q - 1)..(q + m[q - 1].size - 2)
        PROVE  m2[a] = m[a]
    <2>1. a \in Addresses
      BY SameOnType
    <2>2. a \notin MergedWords(m, p, n)
      BY <1>1, <1>2 DEF MergedWords
    <2> QED
      BY <2>1, <2>2 DEF Merged
  <1> QED
    BY <1>3 DEF SameOn

LEMMA MergeTag ==
  ASSUME NEW m, NEW B, Tiled(m, B), NEW p \in B, NEW n \in B,
         n = p + m[p - 1].size, NEW m2, Merged(m, p, n, m2),
         NEW q \in B, q # p, q # n
  PROVE  m2[q - 1] = m[q - 1]
  <1>1. q \in Nat /\ m[q - 1].size \in Nat /\ m[q - 1].size >= 3
    BY BlockBounds
  <1>2. q - 1 \in (q - 1)..(q + m[q - 1].size - 2)
    BY <1>1
  <1> QED
    BY <1>2, MergeSame DEF SameOn

LEMMA MergeUsed ==
  ASSUME NEW m, NEW B, Tiled(m, B), NEW p \in B, NEW n \in B,
         n = p + m[p - 1].size, m[p - 1].alloc = 0, m[n - 1].alloc = 0,
         NEW m2, Merged(m, p, n, m2)
  PROVE  /\ Used(m2, B \ {n}) = Used(m, B)
         /\ \A q \in Used(m, B) : SameOn(m, m2, q)
  <1>1. m2[p - 1].alloc = 0
    BY DEF Merged, Tag
  <1>2. \A q \in B : q # p /\ q # n => m2[q - 1] = m[q - 1]
    BY MergeTag
  <1>3. Used(m2, B \ {n}) = Used(m, B)
    <2>1. \A q \in B : m2[q - 1].alloc = 1 /\ q # n <=> m[q - 1].alloc = 1
      BY <1>1, <1>2
    <2> QED
      BY <2>1 DEF Used
  <1>4. \A q \in Used(m, B) : SameOn(m, m2, q)
    BY MergeSame DEF Used
  <1> QED
    BY <1>3, <1>4

LEMMA MergeStale ==
  ASSUME NEW m, NEW B, Tiled(m, B), NEW p \in B, NEW n \in B,
         n = p + m[p - 1].size, m[p - 1].alloc = 0, m[n - 1].alloc = 0,
         NEW m2, Merged(m, p, n, m2),
         NEW S \in SUBSET Addresses, StaleFree(m, B, S)
  PROVE  StaleFree(m2, B \ {n}, S)
  <1> DEFINE s == m[p - 1].size
             t == m[n - 1].size
             C == B \ {n}
  <1>0. /\ p \in Nat /\ p >= 2 /\ s \in Nat /\ s >= 3 /\ p # n
        /\ n \in Nat /\ t \in Nat /\ t >= 3 /\ n + t <= Words
        /\ p + s = n
    BY BlockBounds
  <1>1. /\ m2[p - 1].alloc = 0 /\ m2[p - 1].size = s + t
        /\ m2[n - 1] = Tag(0, 0) /\ m2[n - 2] = Tag(0, 0)
    <2>1. p + s - 2 = n - 2
      BY <1>0
    <2> QED
      BY <2>1 DEF Merged, Tag
  <1>2. SUFFICES ASSUME NEW x \in S
                 PROVE  (x \in C /\ m2[x - 1].alloc = 0) \/ InsideFree(m2, C, x)
    BY DEF StaleFree
  <1>3. x \in Addresses /\ x \in Nat
    BY WordsNat DEF Addresses
  <1>4. CASE x = n
    <2>1. p \in C /\ p + 3 <= n /\ n + 3 <= p + m2[p - 1].size
      BY <1>0, <1>1
    <2> QED
      BY <1>4, <1>1, <2>1 DEF InsideFree
  <1>5. CASE x \in B /\ x # n
    <2>1. m[x - 1].alloc = 0
      BY <1>5 DEF StaleFree, InsideFree
    <2>2. x # p => m2[x - 1] = m[x - 1]
      BY <1>5, MergeTag
    <2> QED
      BY <1>1, <1>5, <2>1, <2>2
  <1>6. CASE x \notin B
    <2>1. /\ m[x - 1] = Tag(0, 0) /\ m[x - 2] = Tag(0, 0)
          /\ \E b \in B : /\ m[b - 1].alloc = 0 /\ b + 3 <= x
                          /\ x + 3 <= b + m[b - 1].size
      BY <1>6 DEF StaleFree, InsideFree
    <2>2. PICK b \in B : /\ m[b - 1].alloc = 0 /\ b + 3 <= x
                         /\ x + 3 <= b + m[b - 1].size
      BY <2>1
    <2>3. CASE b # p /\ b # n
      <3>1. SameOn(m, m2, b)
        BY <2>3, MergeSame
      <3> QED
        BY <2>1, <2>2, <2>3, <3>1, <1>3, <1>6, InsideKept
    <2>4. CASE b = p \/ b = n
      <3>1. p + 3 <= x /\ x + 3 <= p + (s + t)
        BY <2>2, <2>4, <1>0, <1>3
      <3>2. x - 1 \notin MergedWords(m, p, n) /\ x - 2 \notin MergedWords(m, p, n)
        BY <2>2, <2>4, <1>0, <1>3 DEF MergedWords
      <3>3. x - 1 \in Addresses /\ x - 2 \in Addresses
        <4>1. x >= 2 /\ x <= Words - 1
          BY <3>1, <1>0, <1>3, WordsNat DEF Addresses
        <4> QED
          BY <4>1, <1>3, WordsNat DEF Addresses
      <3>4. m2[x - 1] = Tag(0, 0) /\ m2[x - 2] = Tag(0, 0)
        BY <3>2, <3>3, <2>1 DEF Merged
      <3> QED
        BY <3>1, <3>4, <1>0, <1>1, <1>6 DEF InsideFree
    <2> QED
      BY <2>3, <2>4
  <1> QED
    BY <1>4, <1>5, <1>6

LEMMA MergeAlternating ==
  ASSUME NEW m, NEW B, Tiled(m, B), NEW p \in B, NEW n \in B,
         n = p + m[p - 1].size, m[p - 1].alloc = 0, m[n - 1].alloc = 0,
         NEW m2, Merged(m, p, n, m2), NEW X, AlternatingBut(m, B, X)
  PROVE  /\ n \notin X => AlternatingBut(m2, B \ {n}, X \ {p})
         /\ p \in X => AlternatingBut(m2, B \ {n}, X)
  <1> DEFINE t == m[n - 1].size
  <1>0. /\ p \in Nat /\ m[p - 1].size \in Nat /\ n \in Nat /\ t \in Nat
        /\ t >= 3 /\ p + (m[p - 1].size + t) = n + t
    BY BlockBounds
  <1>1. m2[p - 1].alloc = 0 /\ p + m2[p - 1].size = n + t
    BY <1>0 DEF Merged, Tag
  <1>2. \A q \in B : q # p /\ q # n => m2[q - 1] = m[q - 1]
    BY MergeTag
  <1>3. ASSUME NEW q \in B \ {n}, q # p, q \notin X,
               q + m2[q - 1].size \in B \ {n}
        PROVE  m2[q - 1].alloc = 1 \/ m2[(q + m2[q - 1].size) - 1].alloc = 1
    <2>1. m2[q - 1] = m[q - 1]
      BY <1>2, <1>3
    <2>2. m[q - 1].alloc = 1 \/ m[(q + m[q - 1].size) - 1].alloc = 1
      BY <1>3, <2>1 DEF AlternatingBut
    <2> DEFINE r == q + m[q - 1].size
    <2>3. r \in B /\ r # n /\ r = q + m2[q - 1].size
      BY <2>1, <1>3
    <2>4. m[q - 1].alloc = 1 \/ m[r - 1].alloc = 1
      BY <2>2
    <2>5. CASE r = p
      BY <2>4, <2>5, <2>1
    <2>6. CASE r # p
      <3>1. m2[r - 1] = m[r - 1]
        BY <2>3, <2>6, <1>2
      <3> QED
        BY <2>1, <2>3, <2>4, <3>1
    <2> QED
      BY <2>5, <2>6
  <1>4. ASSUME n \notin X, n + t \in B \ {n}
        PROVE  m2[(n + t) - 1].alloc = 1
    <2>1. m[(n + t) - 1].alloc = 1
      BY <1>4 DEF AlternatingBut
    <2>2. n + t # p
      BY <1>0
    <2> DEFINE r == n + t
    <2>3. r \in B /\ r # n /\ r # p
      BY <2>2, <1>4
    <2>4. m2[r - 1] = m[r - 1]
      BY <2>3, <1>2
    <2> QED
      BY <2>1, <2>4
  <1>5. ASSUME n \notin X
        PROVE  AlternatingBut(m2, B \ {n}, X \ {p})
    <2>1. SUFFICES ASSUME NEW q \in (B \ {n}) \ (X \ {p}),
                          q + m2[q - 1].size \in B \ {n}
                   PROVE  m2[q - 1].alloc = 1 \/ m2[(q + m2[q - 1].size) - 1].alloc = 1
      BY DEF AlternatingBut
    <2>2. CASE q = p
      BY <2>1, <2>2, <1>1, <1>4, <1>5
    <2>3. CASE q # p
      BY <2>1, <2>3, <1>3
    <2> QED
      BY <2>2, <2>3
  <1>6. ASSUME p \in X
        PROVE  AlternatingBut(m2, B \ {n}, X)
    BY <1>3, <1>6 DEF AlternatingBut
  <1> QED
    BY <1>5, <1>6

LEMMA MergeClean ==
  ASSUME NEW m, NEW B, Tiled(m, B), NEW p \in B, NEW n \in B,
         n = p + m[p - 1].size, NEW m2, Merged(m, p, n, m2), Clean(m, B)
  PROVE  Clean(m2, B \ {n})
  <1> DEFINE s == m[p - 1].size
             t == m[n - 1].size
  <1>0. /\ p \in Nat /\ s \in Nat /\ n \in Nat /\ t \in Nat /\ t >= 3
        /\ s >= 3 /\ p # n /\ p + (s + t) = n + t /\ p + s = n
    BY BlockBounds
  <1>1. m2[p - 1].size = s + t
    BY DEF Merged, Tag
  <1>2. SUFFICES ASSUME NEW a \in Addresses, ~IsTag(m2, B \ {n}, a)
                 PROVE  m2[a] = Tag(0, 0)
    BY DEF Clean
  <1>3. a # p - 1 /\ a # (n + t) - 2
    BY <1>0, <1>1, <1>2 DEF IsTag
  <1>4. CASE a \in MergedWords(m, p, n)
    <2>1. a = (p + s) - 2 \/ a = n - 1
      BY <1>0, <1>3, <1>4 DEF MergedWords
    <2> QED
      BY <2>1, <1>0 DEF Merged
  <1>5. CASE a \notin MergedWords(m, p, n)
    <2>1. m2[a] = m[a]
      BY <1>5 DEF Merged
    <2>2. a # n - 1 /\ a # (p + s) - 2
      BY <1>0, <1>5 DEF MergedWords
    <2>3. ASSUME NEW q \in B, a = q - 1 \/ a = (q + m[q - 1].size) - 2
          PROVE  FALSE
      <3>1. q # p /\ q # n
        BY <1>3, <2>2, <2>3
      <3>2. m2[q - 1] = m[q - 1]
        BY <3>1, MergeTag
      <3> QED
        BY <1>2, <2>3, <3>1, <3>2 DEF IsTag
    <2>4. ~IsTag(m, B, a)
      BY <1>2, <2>3 DEF IsTag
    <2> QED
      BY <2>1, <2>4 DEF Clean
  <1> QED
    BY <1>4, <1>5

LEMMA MarkClean ==
  ASSUME NEW m, NEW B, Tiled(m, B), NEW p \in B, NEW bit \in {0, 1},
         NEW m2 \in [Addresses -> Word],
         m2[p - 1] = Tag(m[p - 1].size, bit),
         m2[p + m[p - 1].size - 2] = Tag(m[p - 1].size, bit),
         \A a \in Addresses \ {p - 1, p + m[p - 1].size - 2} : m2[a] = m[a],
         Clean(m, B)
  PROVE  Clean(m2, B)
  <1>1. SUFFICES ASSUME NEW a \in Addresses, ~IsTag(m2, B, a)
                 PROVE  m2[a] = Tag(0, 0)
    BY DEF Clean
  <1>2. \A q \in B : m2[q - 1].size = m[q - 1].size
    <2>1. \A q \in B : q # p => m2[q - 1] = m[q - 1]
      BY MarkTiled
    <2> QED
      BY <2>1 DEF Tag
  <1>3. ~IsTag(m, B, a)
    BY <1>1, <1>2 DEF IsTag
  <1>4. p \in Nat /\ m[p - 1].size \in Nat
    BY BlockBounds
  <1>5. a \notin {p - 1, p + m[p - 1].size - 2}
    BY <1>3, <1>4 DEF IsTag
  <1> QED
    BY <1>3, <1>5 DEF Clean

LEMMA SplitClean ==
  ASSUME NEW m, NEW B, Tiled(m, B), NEW p \in B,
         NEW e \in Nat, e >= 3, m[p - 1].size - e >= 3,
         NEW m2 \in [Addresses -> Word],
         m2[p - 1] = Tag(e, 1),
         m2[p + e - 2] = Tag(e, 1),
         m2[p + e - 1] = Tag(m[p - 1].size - e, 0),
         m2[p + m[p - 1].size - 2] = Tag(m[p - 1].size - e, 0),
         \A a \in Addresses \ {p - 1, p + e - 2, p + e - 1, p + m[p - 1].size - 2} :
            m2[a] = m[a],
         Clean(m, B)
  PROVE  Clean(m2, B \union {p + e})
  <1> DEFINE n == p + e
             s == m[p - 1].size
  <1>0. p \in Nat /\ s \in Nat /\ n \in Nat /\ n - 1 = p + e - 1 /\ s - e \in Nat
    BY BlockBounds
  <1>0a. Tiled(m2, B \union {p + e}) /\ \A q \in B : q # p => m2[q - 1] = m[q - 1]
    BY SplitTiled
  <1>1. SUFFICES ASSUME NEW a \in Addresses, ~IsTag(m2, B \union {n}, a)
                 PROVE  m2[a] = Tag(0, 0)
    BY DEF Clean
  <1>2. m2[p - 1].size = e /\ m2[n - 1].size = s - e
    BY <1>0 DEF Tag
  <1>3. a # p - 1 /\ a # (p + e) - 2 /\ a # n - 1 /\ a # (n + (s - e)) - 2
    BY <1>1, <1>2 DEF IsTag
  <1>4. a \notin {p - 1, p + e - 2, p + e - 1, p + s - 2}
    BY <1>0, <1>3
  <1>5. m2[a] = m[a]
    BY <1>4
  <1>6. ASSUME NEW q \in B, a = q - 1 \/ a = (q + m[q - 1].size) - 2
        PROVE  FALSE
    <2>1. q # p
      BY <1>0, <1>4, <1>6
    <2>2. m2[q - 1] = m[q - 1]
      BY <2>1, <1>0a
    <2> QED
      BY <1>1, <1>6, <2>2 DEF IsTag
  <1>7. ~IsTag(m, B, a)
    BY <1>1, <1>6 DEF IsTag
  <1> QED
    BY <1>5, <1>7 DEF Clean

\* myfree first marks the block free.
LEMMA MarkFree ==
  ASSUME NEW m, NEW B, Tiled(m, B), NEW p \in B, m[p - 1].alloc = 1,
         NEW m2 \in [Addresses -> Word],
         m2[p - 1] = Tag(m[p - 1].size, 0),
         m2[p + m[p - 1].size - 2] = Tag(m[p - 1].size, 0),
         \A a \in Addresses \ {p - 1, p + m[p - 1].size - 2} : m2[a] = m[a],
         NEW S \in SUBSET Addresses, StaleFree(m, B, S)
  PROVE  /\ Tiled(m2, B)
         /\ \A q \in B : q # p => SameOn(m, m2, q) /\ m2[q - 1] = m[q - 1]
         /\ Used(m2, B) = Used(m, B) \ {p}
         /\ StaleFree(m2, B, S \union {p})
  <1>0. /\ p \in Nat /\ m[p - 1].size \in Nat /\ m[p - 1].size >= 3
    BY BlockBounds
  <1>1. Tiled(m2, B) /\ \A q \in B : q # p => m2[q - 1] = m[q - 1]
    BY MarkTiled
  <1>2. ASSUME NEW q \in B, q # p
        PROVE  SameOn(m, m2, q)
    <2>1. p + m[p - 1].size <= q \/ q + m[q - 1].size <= p
      BY <1>2, BlocksApart
    <2>2. q \in Nat /\ m[q - 1].size \in Nat
      BY BlockBounds
    <2>3. ASSUME NEW a \in (q - 1)..(q + m[q - 1].size - 2)
          PROVE  m2[a] = m[a]
      <3>1. a \in Addresses
        BY SameOnType
      <3>2. a \notin {p - 1, p + m[p - 1].size - 2}
        BY <2>1, <2>2, <1>0
      <3> QED
        BY <3>1, <3>2
    <2> QED
      BY <2>3 DEF SameOn
  <1>3. m2[p - 1].alloc = 0
    BY DEF Tag
  <1>4. Used(m2, B) = Used(m, B) \ {p}
    <2>1. \A q \in B : m2[q - 1].alloc = 1 <=> m[q - 1].alloc = 1 /\ q # p
      BY <1>1, <1>3
    <2> QED
      BY <2>1 DEF Used
  <1>5. ASSUME NEW x \in S
        PROVE  (x \in B /\ m2[x - 1].alloc = 0) \/ InsideFree(m2, B, x)
    <2>1. CASE x \in B
      BY <2>1, <1>1, <1>3 DEF StaleFree, InsideFree
    <2>2. CASE x \notin B
      <3>1. /\ m[x - 1] = Tag(0, 0) /\ m[x - 2] = Tag(0, 0)
            /\ \E b \in B : /\ m[b - 1].alloc = 0 /\ b + 3 <= x
                            /\ x + 3 <= b + m[b - 1].size
        BY <2>2 DEF StaleFree, InsideFree
      <3>2. PICK b \in B : /\ m[b - 1].alloc = 0 /\ b + 3 <= x
                           /\ x + 3 <= b + m[b - 1].size
        BY <3>1
      <3>3. SameOn(m, m2, b)
        BY <3>2, <1>2
      <3> QED
        BY <3>1, <3>2, <3>3, <2>2, InsideKept
    <2> QED
      BY <2>1, <2>2
  <1>6. StaleFree(m2, B, S \union {p})
    BY <1>3, <1>5 DEF StaleFree
  <1> QED
    BY <1>1, <1>2, <1>4, <1>6

\* Agreement on a block is transitive.
LEMMA SameOnTrans ==
  ASSUME NEW m, NEW m2, NEW m3, NEW q, m2[q - 1] = m[q - 1],
         SameOn(m, m2, q), SameOn(m2, m3, q)
  PROVE  SameOn(m, m3, q)
BY DEF SameOn

\* The memory in which myfree runs coalesce.
MarkedFree(m, p) ==
  setValue(setValue(m, getHeader(p), getSize(m, p), 0), getFooter(m, p),
           getSize(m, p), 0)

LEMMA MarkedFreeWords ==
  ASSUME NEW m, NEW B, Tiled(m, B), NEW p \in B
  PROVE  /\ MarkedFree(m, p) \in [Addresses -> Word]
         /\ MarkedFree(m, p)[p - 1] = Tag(m[p - 1].size, 0)
         /\ MarkedFree(m, p)[p + m[p - 1].size - 2] = Tag(m[p - 1].size, 0)
         /\ \A a \in Addresses \ {p - 1, p + m[p - 1].size - 2} :
              MarkedFree(m, p)[a] = m[a]
  <1> DEFINE s == m[p - 1].size
             f == p + m[p - 1].size - 2
             m1 == setValue(m, p - 1, s, 0)
             m2 == setValue(m1, f, s, 0)
  <1>1. MarkedFree(m, p) = m2
    BY DEF MarkedFree, getHeader, getFooter, getSize
  <1>2. /\ m \in [Addresses -> Word] /\ p - 1 \in Addresses /\ f \in Addresses
        /\ s \in 0..Words /\ f # p - 1
    <2>1. p - 1 \in Addresses /\ f \in Addresses /\ m \in [Addresses -> Word]
      BY BlockBounds DEF Tiled
    <2>2. p \in Nat /\ p >= 2 /\ s \in Nat /\ s >= 3 /\ p + s <= Words
      BY BlockBounds
    <2> QED
      BY <2>1, <2>2, WordsNat
  <1> HIDE DEF s, f
  <1>3. /\ m1 \in [Addresses -> Word] /\ m1[p - 1] = Tag(s, 0)
        /\ \A a \in Addresses : a # p - 1 => m1[a] = m[a]
    BY <1>2, SetValue
  <1>4. /\ m2 \in [Addresses -> Word] /\ m2[f] = Tag(s, 0)
        /\ \A a \in Addresses : a # f => m2[a] = m1[a]
    <2> HIDE DEF m1
    <2> QED
      BY <1>2, <1>3, SetValue
  <1>5. m2[p - 1] = Tag(s, 0) /\ \A a \in Addresses \ {p - 1, f} : m2[a] = m[a]
    <2> HIDE DEF m1, m2
    <2> QED
      BY <1>2, <1>3, <1>4
  <1> HIDE DEF m2
  <1> QED
    BY <1>1, <1>4, <1>5 DEF s, f

\* Freeing a used block: the memory stays tiled, no free neighbours remain, no
\* other used block changes, and freed pointers stay harmless.
Freed(m, B, p, S, c, C) ==
  /\ Tiled(c, C)
  /\ Alternating(c, C)
  /\ Used(c, C) = Used(m, B) \ {p}
  /\ \A q \in Used(m, B) \ {p} : SameOn(m, c, q)
  /\ StaleFree(c, C, S \union {p})
  /\ Clean(m, B) => Clean(c, C)

LEMMA FreeBlock ==
  ASSUME NEW m, NEW B, Tiled(m, B), Alternating(m, B),
         NEW p \in B, m[p - 1].alloc = 1,
         NEW S \in SUBSET Addresses, StaleFree(m, B, S),
         NEW c, c = coalesce(MarkedFree(m, p), p),
         NEW C, C = B \ Swallowed(MarkedFree(m, p), p)
  PROVE  Freed(m, B, p, S, c, C)
  <1> DEFINE k == MarkedFree(m, p)
             n == p + k[p - 1].size
             T == S \union {p}
             FreePrevious(v) == v + k[v - 1].size = p /\ k[v - 1].alloc = 0
             Conclusion == /\ Tiled(c, C)
                           /\ AlternatingBut(c, C, {})
                           /\ Used(c, C) = Used(k, B)
                           /\ \A q \in Used(k, B) : SameOn(k, c, q)
                           /\ StaleFree(c, C, T)
                           /\ Clean(k, B) => Clean(c, C)
  <1>1. /\ Tiled(k, B)
        /\ \A q \in B : q # p => SameOn(m, k, q) /\ k[q - 1] = m[q - 1]
        /\ Used(k, B) = Used(m, B) \ {p}
        /\ StaleFree(k, B, T)
        /\ k[p - 1] = Tag(m[p - 1].size, 0)
        /\ Clean(m, B) => Clean(k, B)
    <2>1. /\ k \in [Addresses -> Word]
          /\ k[p - 1] = Tag(m[p - 1].size, 0)
          /\ k[p + m[p - 1].size - 2] = Tag(m[p - 1].size, 0)
          /\ \A a \in Addresses \ {p - 1, p + m[p - 1].size - 2} : k[a] = m[a]
      BY MarkedFreeWords
    <2> HIDE DEF k
    <2>2. Clean(m, B) => Clean(k, B)
      BY <2>1, MarkClean
    <2>3. /\ Tiled(k, B)
          /\ \A q \in B : q # p => SameOn(m, k, q) /\ k[q - 1] = m[q - 1]
          /\ Used(k, B) = Used(m, B) \ {p}
          /\ StaleFree(k, B, T)
      BY <2>1, MarkFree
    <2> QED
      BY <2>1, <2>2, <2>3
  <1>2. k[p - 1].alloc = 0 /\ k[p - 1].size = m[p - 1].size
    BY <1>1 DEF Tag
  <1> HIDE DEF k
  <1>3. /\ p \in Nat /\ p >= 2 /\ k[p - 1].size \in Nat /\ k[p - 1].size >= 3
        /\ n \in Nat /\ n # p /\ p \in Addresses
    BY <1>1, BlockBounds
  <1>4. ASSUME NEW X, \A q \in B : q = p \/ q + k[q - 1].size = p => q \in X
        PROVE  AlternatingBut(k, B, X)
    <2>1. SUFFICES ASSUME NEW q \in B, q \notin X, q + k[q - 1].size \in B
                   PROVE  k[q - 1].alloc = 1 \/ k[(q + k[q - 1].size) - 1].alloc = 1
      BY DEF AlternatingBut
    <2>2. q # p /\ q + k[q - 1].size # p
      BY <1>4, <2>1
    <2>3. k[q - 1] = m[q - 1]
      BY <1>1, <2>2
    <2>4. m[q - 1].alloc = 1 \/ m[(q + m[q - 1].size) - 1].alloc = 1
      BY <2>1, <2>3 DEF Alternating
    <2>5. k[(q + k[q - 1].size) - 1] = m[(q + k[q - 1].size) - 1]
      BY <1>1, <2>1, <2>2
    <2> QED
      BY <2>3, <2>4, <2>5
  <1>5. T \in SUBSET Addresses
    BY <1>3
  \* The next block.
  <1>6. ASSUME n \in B
        PROVE  /\ getNext(k, p) = n /\ n # NULL
               /\ getAllocation(k, n) = k[n - 1].alloc
               /\ k[n - 1].alloc \in {0, 1}
    BY <1>1, <1>6, NextBlock, BlockBounds DEF getAllocation, getHeader
  <1>7. ASSUME n \notin B
        PROVE  getNext(k, p) = NULL
    <2>1. n = Words
      BY <1>1, <1>7 DEF Tiled
    <2> QED
      BY <1>1, <2>1, NoNext
  \* The previous block.
  <1>8. ASSUME \A v \in B : ~FreePrevious(v)
        PROVE  \/ getPrevious(k, p) = NULL
               \/ getAllocation(k, getPrevious(k, p)) = 1
    <2>1. CASE p = FirstPtr
      BY <2>1, <1>1, NoPrevious
    <2>2. CASE p # FirstPtr
      <3>1. PICK v \in B : v + k[v - 1].size = p
        BY <2>2, <1>1 DEF Tiled
      <3>2. k[v - 1].alloc = 1
        BY <3>1, <1>1, <1>8, BlockBounds
      <3>3. getPrevious(k, p) = v
        BY <3>1, <1>1, PreviousBlock
      <3> QED
        BY <3>2, <3>3 DEF getAllocation, getHeader
    <2> QED
      BY <2>1, <2>2
  <1>9. ASSUME NEW v \in B, FreePrevious(v)
        PROVE  /\ getPrevious(k, p) = v /\ v # NULL
               /\ getAllocation(k, getPrevious(k, p)) = 0
    BY <1>1, <1>9, PreviousBlock DEF getAllocation, getHeader
  <1>10. c = coalesce(k, p) /\ C = B \ Swallowed(k, p)
    BY DEF k
  \* Only one block can end at p.
  <1>11. ASSUME NEW v \in B, v + k[v - 1].size = p, NEW q \in B,
                q + k[q - 1].size = p
         PROVE  q = v
    <2>1. /\ v \in Nat /\ k[v - 1].size \in Nat /\ k[v - 1].size >= 3
          /\ q \in Nat /\ k[q - 1].size \in Nat /\ k[q - 1].size >= 3
      BY <1>1, BlockBounds
    <2>2. q # v => v + k[v - 1].size <= q \/ q + k[q - 1].size <= v
      BY <1>1, BlocksApart
    <2> QED
      BY <2>1, <2>2, <1>3, <1>11
  \* A pair of neighbours of which one is used is no exception.
  <1>12. ASSUME NEW X, AlternatingBut(k, B, X \union {p}),
                n \in B => k[n - 1].alloc = 1
         PROVE  AlternatingBut(k, B, X)
    BY <1>12 DEF AlternatingBut
  <1>13. ASSUME NEW X, AlternatingBut(k, B, X),
                \A q \in X \cap B : q + k[q - 1].size = p /\ k[q - 1].alloc = 1
         PROVE  AlternatingBut(k, B, {})
    BY <1>13 DEF AlternatingBut
  <1> HIDE DEF FreePrevious
  <1>14. ASSUME \A v \in B : ~FreePrevious(v), ~(n \in B /\ k[n - 1].alloc = 0)
         PROVE  Conclusion
    <2>1. getNext(k, p) = NULL \/ getAllocation(k, getNext(k, p)) = 1
      BY <1>6, <1>7, <1>14
    <2>2. getPrevious(k, p) = NULL \/ getAllocation(k, getPrevious(k, p)) = 1
      BY <1>8, <1>14
    <2>3. c = k
      BY <2>1, <2>2, <1>10, CoalesceNone
    <2>4. C = B
      BY <2>1, <2>2, <1>10 DEF Swallowed
    <2>5. AlternatingBut(k, B, {})
      <3> DEFINE X == {q \in B : q + k[q - 1].size = p}
      <3>1. AlternatingBut(k, B, X \union {p})
        BY <1>4
      <3>2. n \in B => k[n - 1].alloc = 1
        BY <1>6, <1>14
      <3>3. AlternatingBut(k, B, X)
        BY <3>1, <3>2, <1>12
      <3>4. \A q \in X : q + k[q - 1].size = p /\ k[q - 1].alloc = 1
        BY <1>1, <1>14, BlockBounds DEF FreePrevious
      <3> QED
        BY <3>3, <3>4, <1>13
    <2> QED
      BY <2>3, <2>4, <2>5, <1>1 DEF SameOn
  <1>15. ASSUME \A v \in B : ~FreePrevious(v), n \in B, k[n - 1].alloc = 0
         PROVE  Conclusion
    <2>0. n = p + k[p - 1].size
      OBVIOUS
    <2>1. getNext(k, p) = n /\ n # NULL /\ getAllocation(k, n) = 0
      BY <1>6, <1>15
    <2>2. getPrevious(k, p) = NULL \/ getAllocation(k, getPrevious(k, p)) = 1
      BY <1>8, <1>15
    <2>3. Merged(k, p, n, c)
      BY <2>2, <1>1, <1>10, <1>15, CoalesceNext
    <2>4. C = B \ {n}
      BY <2>1, <2>2, <1>10 DEF Swallowed
    <2>5. AlternatingBut(k, B, {p})
      <3> DEFINE X == {q \in B : q + k[q - 1].size = p}
      <3>1. \A q \in X : k[q - 1].alloc = 1
        BY <1>1, <1>15, BlockBounds DEF FreePrevious
      <3>2. AlternatingBut(k, B, X \union {p})
        BY <1>4
      <3> QED
        BY <3>1, <3>2 DEF AlternatingBut
    <2> HIDE DEF n
    <2>6. AlternatingBut(c, B \ {n}, {p} \ {p})
      BY <2>0, <2>3, <2>5, <1>1, <1>2, <1>3, <1>15, MergeAlternating
    <2>7. Tiled(c, B \ {n})
      BY <2>0, <2>3, <1>1, <1>15, MergeTiled
    <2>8. Used(c, B \ {n}) = Used(k, B) /\ \A q \in Used(k, B) : SameOn(k, c, q)
      BY <2>0, <2>3, <1>1, <1>2, <1>15, MergeUsed
    <2>9. StaleFree(c, B \ {n}, T)
      BY <2>0, <2>3, <1>1, <1>2, <1>5, <1>15, MergeStale
    <2>10. {p} \ {p} = {}
      OBVIOUS
    <2>11. Clean(k, B) => Clean(c, B \ {n})
      BY <2>0, <2>3, <1>1, <1>15, MergeClean
    <2> QED
      BY <2>4, <2>6, <2>7, <2>8, <2>9, <2>10, <2>11
  <1>16. ASSUME NEW v \in B, FreePrevious(v), ~(n \in B /\ k[n - 1].alloc = 0)
         PROVE  Conclusion
    <2>0. v + k[v - 1].size = p /\ k[v - 1].alloc = 0 /\ p = v + k[v - 1].size
      BY <1>16 DEF FreePrevious
    <2>1. getNext(k, p) = NULL \/ getAllocation(k, getNext(k, p)) = 1
      BY <1>6, <1>7, <1>16
    <2>2. getPrevious(k, p) = v /\ v # NULL /\ getAllocation(k, v) = 0
      BY <1>9, <1>16
    <2>3. Merged(k, v, p, c)
      BY <2>0, <2>1, <1>1, <1>10, CoalescePrevious
    <2>4. C = B \ {p}
      BY <2>1, <2>2, <1>10 DEF Swallowed
    <2>5. AlternatingBut(k, B, {v})
      <3>1. AlternatingBut(k, B, {v} \union {p})
        BY <2>0, <1>4, <1>11
      <3>2. n \in B => k[n - 1].alloc = 1
        BY <1>6, <1>16
      <3> QED
        BY <3>1, <3>2, <1>12
    <2>6. AlternatingBut(c, B \ {p}, {v} \ {v})
      <3>1. p \notin {v}
        BY <2>0, <1>3, <1>1, BlockBounds
      <3> QED
        BY <2>0, <2>3, <2>5, <3>1, <1>1, <1>2, MergeAlternating
    <2>7. Tiled(c, B \ {p})
      BY <2>0, <2>3, <1>1, MergeTiled
    <2>8. Used(c, B \ {p}) = Used(k, B) /\ \A q \in Used(k, B) : SameOn(k, c, q)
      BY <2>0, <2>3, <1>1, <1>2, MergeUsed
    <2>9. StaleFree(c, B \ {p}, T)
      BY <2>0, <2>3, <1>1, <1>2, <1>5, MergeStale
    <2>10. {v} \ {v} = {}
      OBVIOUS
    <2>11. Clean(k, B) => Clean(c, B \ {p})
      BY <2>0, <2>3, <1>1, MergeClean
    <2> QED
      BY <2>4, <2>6, <2>7, <2>8, <2>9, <2>10, <2>11
  <1>17. ASSUME NEW v \in B, FreePrevious(v), n \in B, k[n - 1].alloc = 0
         PROVE  Conclusion
    <2>0. v + k[v - 1].size = p /\ k[v - 1].alloc = 0 /\ p = v + k[v - 1].size
      BY <1>17 DEF FreePrevious
    <2>1. getNext(k, p) = n /\ n # NULL /\ getAllocation(k, n) = 0
      BY <1>6, <1>17
    <2>2. getPrevious(k, p) = v /\ v # NULL /\ getAllocation(k, v) = 0
      BY <1>9, <1>17
    <2>3. PICK j : Merged(k, v, p, j) /\ Merged(j, v, n, c)
      BY <2>0, <1>1, <1>10, <1>17, CoalesceBoth
    <2>4. C = (B \ {p}) \ {n}
      BY <2>1, <2>2, <1>10 DEF Swallowed
    <2>5. v # p /\ v # n /\ v \in Nat /\ k[v - 1].size \in Nat
      BY <2>0, <1>1, <1>3, BlockBounds
    <2>6. Tiled(j, B \ {p})
      BY <2>0, <2>3, <1>1, MergeTiled
    <2>6a. Used(j, B \ {p}) = Used(k, B) /\ \A q \in Used(k, B) : SameOn(k, j, q)
      BY <2>0, <2>3, <1>1, <1>2, MergeUsed
    <2>6b. StaleFree(j, B \ {p}, T)
      BY <2>0, <2>3, <1>1, <1>2, <1>5, MergeStale
    <2>6c. Clean(k, B) => Clean(j, B \ {p})
      BY <2>0, <2>3, <1>1, MergeClean
    <2>7. AlternatingBut(j, B \ {p}, {v, p})
      <3>1. AlternatingBut(k, B, {v, p})
        BY <2>0, <1>4, <1>11
      <3> QED
        BY <2>0, <2>3, <3>1, <1>1, <1>2, MergeAlternating
    <2>8. /\ n = v + j[v - 1].size /\ j[v - 1].alloc = 0
          /\ j[n - 1].alloc = 0 /\ v \in B \ {p} /\ n \in B \ {p}
      <3>1. j[v - 1] = Tag(k[v - 1].size + k[p - 1].size, 0)
        BY <2>3 DEF Merged
      <3>2. j[n - 1] = k[n - 1]
        <4> HIDE DEF n
        <4> QED
          BY <2>0, <2>3, <2>5, <1>1, <1>3, <1>17, MergeTag
      <3> QED
        BY <3>1, <3>2, <2>0, <2>5, <1>3, <1>17 DEF Tag
    <2> HIDE DEF n
    <2>9. Tiled(c, (B \ {p}) \ {n})
      BY <2>3, <2>6, <2>8, MergeTiled
    <2>10. /\ Used(c, (B \ {p}) \ {n}) = Used(j, B \ {p})
           /\ \A q \in Used(j, B \ {p}) : SameOn(j, c, q)
      <3> DEFINE D == B \ {p}
      <3>1. Tiled(j, D) /\ v \in D /\ n \in D
        BY <2>6, <2>8
      <3> HIDE DEF D
      <3>2. Used(c, D \ {n}) = Used(j, D) /\ \A q \in Used(j, D) : SameOn(j, c, q)
        BY <2>3, <2>8, <3>1, MergeUsed
      <3> QED
        BY <3>2 DEF D
    <2>11. StaleFree(c, (B \ {p}) \ {n}, T)
      BY <2>3, <2>6, <2>8, <2>6b, <1>5, MergeStale
    <2>12. AlternatingBut(c, (B \ {p}) \ {n}, {v, p} \ {v})
      <3>1. n \notin {v, p}
        BY <2>5, <1>3
      <3> QED
        BY <2>3, <2>6, <2>7, <2>8, <3>1, MergeAlternating
    <2>13. AlternatingBut(c, C, {})
      BY <2>4, <2>12 DEF AlternatingBut
    <2>14. ASSUME NEW q \in Used(k, B)
           PROVE  SameOn(k, c, q)
      <3>1. j[q - 1] = k[q - 1]
        BY <2>0, <2>3, <1>1, <1>2, <2>14, MergeTag DEF Used
      <3> QED
        BY <2>6a, <2>10, <3>1, SameOnTrans
    <2>15. Clean(k, B) => Clean(c, (B \ {p}) \ {n})
      BY <2>3, <2>6, <2>6c, <2>8, MergeClean
    <2> QED
      BY <2>4, <2>6a, <2>9, <2>10, <2>11, <2>13, <2>14, <2>15
  <1>18. Conclusion
    BY <1>14, <1>15, <1>16, <1>17
  <1>19. Alternating(c, C)
    BY <1>18 DEF Alternating, AlternatingBut
  <1>20. ASSUME NEW q \in Used(m, B) \ {p}
         PROVE  SameOn(m, c, q)
    <2>1. q \in B /\ q # p /\ q \in Used(k, B)
      BY <1>1, <1>20 DEF Used
    <2> QED
      BY <2>1, <1>1, <1>18, SameOnTrans
  <1> QED
    BY <1>1, <1>18, <1>19, <1>20 DEF Freed

LEMMA SetSame ==
  ASSUME NEW m \in [Addresses -> Word], NEW w \in Addresses, NEW n, NEW bit,
         m[w] = Tag(n, bit)
  PROVE  setValue(m, w, n, bit) = m
BY DEF setValue, Tag

\* Freeing a pointer once more changes nothing.
LEMMA FreeAgain ==
  ASSUME NEW m, NEW B, Tiled(m, B), Alternating(m, B),
         NEW S \in SUBSET Addresses, StaleFree(m, B, S), NEW p \in S
  PROVE  /\ coalesce(MarkedFree(m, p), p) = m
         /\ B \ Swallowed(MarkedFree(m, p), p) = B
  <1>0. m \in [Addresses -> Word] /\ p \in Addresses /\ p \in Nat
    BY WordsNat DEF Tiled, Addresses
  <1>1. CASE p \in B /\ m[p - 1].alloc = 0
    <2> DEFINE s == m[p - 1].size
               f == p + m[p - 1].size - 2
               n == p + m[p - 1].size
    <2>1. /\ m[p - 1] = Tag(s, 0) /\ m[f] = Tag(s, 0)
          /\ p - 1 \in Addresses /\ f \in Addresses
      <3>1. m[p - 1] \in Word /\ m[f] = m[p - 1]
        BY <1>1, BlockBounds DEF Tiled
      <3>2. m[p - 1] = Tag(s, 0)
        BY <3>1, <1>1 DEF Word, Tag
      <3> QED
        BY <3>1, <3>2, <1>1, BlockBounds
    <2>2. MarkedFree(m, p) = m
      <3>1. MarkedFree(m, p) = setValue(setValue(m, p - 1, s, 0), f, s, 0)
        BY DEF MarkedFree, getHeader, getFooter, getSize
      <3> HIDE DEF s, f
      <3> QED
        BY <3>1, <2>1, <1>0, SetSame
    <2>3. getNext(m, p) = NULL \/ getAllocation(m, getNext(m, p)) = 1
      <3>1. CASE n \in B
        <4>1. m[n - 1].alloc = 1
          BY <3>1, <1>1 DEF Alternating
        <4>2. getNext(m, p) = n
          BY <3>1, <1>1, NextBlock
        <4> QED
          BY <4>1, <4>2 DEF getAllocation, getHeader
      <3>2. CASE n = Words
        BY <3>2, <1>1, NoNext
      <3> QED
        BY <3>1, <3>2, <1>1 DEF Tiled
    <2>4. getPrevious(m, p) = NULL \/ getAllocation(m, getPrevious(m, p)) = 1
      <3>1. CASE p = FirstPtr
        BY <3>1, NoPrevious
      <3>2. CASE p # FirstPtr
        <4>1. PICK v \in B : v + m[v - 1].size = p
          BY <3>2, <1>1 DEF Tiled
        <4>2. m[v - 1].alloc = 1
          <5>1. v + m[v - 1].size \in B /\ m[(v + m[v - 1].size) - 1].alloc # 1
            BY <4>1, <1>1
          <5> QED
            BY <5>1 DEF Alternating
        <4>3. getPrevious(m, p) = v
          BY <4>1, <1>1, PreviousBlock
        <4> QED
          BY <4>2, <4>3 DEF getAllocation, getHeader
      <3> QED
        BY <3>1, <3>2
    <2>5. coalesce(m, p) = m
      BY <2>3, <2>4, CoalesceNone
    <2>6. Swallowed(m, p) = {}
      BY <2>3, <2>4 DEF Swallowed
    <2> QED
      BY <2>2, <2>5, <2>6
  <1>2. CASE InsideFree(m, B, p)
    <2>1. /\ m[p - 1] = Tag(0, 0) /\ m[p - 2] = Tag(0, 0) /\ p \notin B
      BY <1>2 DEF InsideFree
    <2>2. p >= 5
      <3>1. PICK b \in B : b + 3 <= p
        BY <1>2 DEF InsideFree
      <3>2. b \in Nat /\ b >= 2
        BY BlockBounds
      <3> QED
        BY <3>1, <3>2, <1>0
    <2>3. p - 1 \in Addresses /\ p - 2 \in Addresses
      BY <2>2, <1>0, WordsNat DEF Addresses
    <2>4. /\ getSize(m, p) = 0 /\ getHeader(p) = p - 1
          /\ getFooter(m, p) = p - 2 /\ getAllocation(m, p) = 0
      BY <2>1, <1>0 DEF getSize, getHeader, getFooter, getAllocation, Tag
    <2>5. setValue(m, p - 1, 0, 0) = m /\ setValue(m, p - 2, 0, 0) = m
      BY <2>1, <2>3, <1>0, SetSame
    <2>6. MarkedFree(m, p) = m
      BY <2>4, <2>5 DEF MarkedFree
    <2>7. getPrevious(m, p) = NULL
      BY <2>1 DEF getPrevious, Tag
    <2>8. getNext(m, p) = p /\ p # NULL
      BY <2>2, <2>4, <1>0 DEF getNext, NULL
    <2>9. coalesce(m, p) = m
      BY <2>4, <2>5, <2>7, <2>8 DEF coalesce
    <2>10. Swallowed(m, p) = {p}
      BY <2>4, <2>7, <2>8 DEF Swallowed
    <2> QED
      BY <2>1, <2>6, <2>9, <2>10
  <1> QED
    BY <1>1, <1>2 DEF StaleFree

-----------------------------------------------------------------------------
(***************************************************************************)
(* place: a free block that is large enough is used, and split if more     *)
(* than two words remain.                                                  *)
(***************************************************************************)
PlacedBlocks(m, B) ==
  IF Splits(getSize(m, ptr)) THEN B \union {ptr + extendedSize} ELSE B

LEMMA PlaceSplit ==
  ASSUME NEW m, NEW B, Tiled(m, B), ptr \in B,
         extendedSize \in Nat, extendedSize >= 3,
         m[ptr - 1].size - extendedSize >= 3
  PROVE  /\ place(m) \in [Addresses -> Word]
         /\ place(m)[ptr - 1] = Tag(extendedSize, 1)
         /\ place(m)[ptr + extendedSize - 2] = Tag(extendedSize, 1)
         /\ place(m)[ptr + extendedSize - 1] = Tag(m[ptr - 1].size - extendedSize, 0)
         /\ place(m)[ptr + m[ptr - 1].size - 2] = Tag(m[ptr - 1].size - extendedSize, 0)
         /\ \A a \in Addresses \ {ptr - 1, ptr + extendedSize - 2,
                                   ptr + extendedSize - 1, ptr + m[ptr - 1].size - 2} :
              place(m)[a] = m[a]
  <1> DEFINE s  == m[ptr - 1].size
             e  == extendedSize
             d  == s - e
             g  == ptr + s - 2
             f  == ptr + e - 2
             m1 == setValue(m, g, d, 0)
             m2 == setValue(m1, ptr - 1, e, 1)
             m3 == setValue(m2, f, e, 1)
             m4 == setValue(m3, f + 1, d, 0)
  <1>0. /\ ptr \in Nat /\ ptr >= 2 /\ s \in Nat /\ ptr + s <= Words
        /\ m \in [Addresses -> Word]
    BY BlockBounds DEF Tiled
  <1>1. place(m) = m4
    <2>1. getSize(m, ptr) = s /\ getFooter(m, ptr) = g /\ getHeader(ptr) = ptr - 1
      BY DEF getSize, getFooter, getHeader
    <2>2. Splits(s)
      BY <1>0 DEF Splits
    <2> QED
      BY <2>1, <2>2 DEF place
  <1>2. s \in Nat /\ e \in Nat /\ e >= 3 /\ d \in 0..Words /\ e \in 0..Words /\ d >= 3
    <2> HIDE DEF s
    <2>1. s - e >= 3
      BY DEF s
    <2> QED
      BY <1>0, <2>1, WordsNat
  <1>3. /\ g \in Addresses /\ ptr - 1 \in Addresses /\ f \in Addresses
        /\ f + 1 \in Addresses /\ f \in Nat /\ f + 1 < g /\ ptr - 1 < f
        /\ f + 1 = ptr + e - 1 /\ g \in Nat
    <2> HIDE DEF s, e
    <2> QED
      BY <1>0, <1>2, WordsNat DEF Addresses
  <1> HIDE DEF s, d, g, f
  <1>4. /\ m1 \in [Addresses -> Word] /\ m1[g] = Tag(d, 0)
        /\ \A a \in Addresses : a # g => m1[a] = m[a]
    BY <1>0, <1>2, <1>3, SetValue
  <1>5. /\ m2 \in [Addresses -> Word] /\ m2[ptr - 1] = Tag(e, 1)
        /\ \A a \in Addresses : a # ptr - 1 => m2[a] = m1[a]
    <2> HIDE DEF m1, e
    <2>1. ptr - 1 \in Addresses /\ e \in 0..Words
      BY <1>2, <1>3
    <2> QED
      BY <1>4, <2>1, SetValue
  <1>6. /\ m3 \in [Addresses -> Word] /\ m3[f] = Tag(e, 1)
        /\ \A a \in Addresses : a # f => m3[a] = m2[a]
    <2> HIDE DEF m2, e
    <2> QED
      BY <1>2, <1>3, <1>5, SetValue
  <1>7. /\ m4 \in [Addresses -> Word] /\ m4[f + 1] = Tag(d, 0)
        /\ \A a \in Addresses : a # f + 1 => m4[a] = m3[a]
    <2> HIDE DEF m3, e
    <2> QED
      BY <1>2, <1>3, <1>6, SetValue
  <1> HIDE DEF m1, m2, m3, m4
  <1>8. m4[ptr - 1] = Tag(e, 1) /\ m4[f] = Tag(e, 1) /\ m4[g] = Tag(d, 0)
    <2> HIDE DEF e
    <2> QED
      BY <1>0, <1>3, <1>4, <1>5, <1>6, <1>7
  <1>9. \A a \in Addresses : a \notin {ptr - 1, f, f + 1, g} => m4[a] = m[a]
    BY <1>4, <1>5, <1>6, <1>7
  <1> QED
    BY <1>1, <1>3, <1>7, <1>8, <1>9 DEF s, d, g, f

LEMMA PlaceWhole ==
  ASSUME NEW m, NEW B, Tiled(m, B), ptr \in B,
         extendedSize \in Nat, ~(m[ptr - 1].size - extendedSize >= 3)
  PROVE  /\ place(m) \in [Addresses -> Word]
         /\ place(m)[ptr - 1] = Tag(m[ptr - 1].size, 1)
         /\ place(m)[ptr + m[ptr - 1].size - 2] = Tag(m[ptr - 1].size, 1)
         /\ \A a \in Addresses \ {ptr - 1, ptr + m[ptr - 1].size - 2} :
              place(m)[a] = m[a]
  <1> DEFINE s  == m[ptr - 1].size
             g  == ptr + m[ptr - 1].size - 2
             m1 == setValue(m, ptr - 1, s, 1)
             m2 == setValue(m1, g, s, 1)
  <1>0. /\ ptr \in Nat /\ ptr >= 2 /\ s \in Nat /\ s >= 3 /\ ptr + s <= Words
        /\ m \in [Addresses -> Word] /\ ptr - 1 \in Addresses /\ g \in Addresses
    BY BlockBounds DEF Tiled
  <1>1. place(m) = m2
    <2>1. getSize(m, ptr) = s /\ getFooter(m, ptr) = g /\ getHeader(ptr) = ptr - 1
      BY DEF getSize, getFooter, getHeader
    <2>2. ~Splits(s)
      BY <1>0 DEF Splits
    <2> QED
      BY <2>1, <2>2 DEF place
  <1>2. s \in 0..Words /\ g # ptr - 1
    BY <1>0, WordsNat
  <1> HIDE DEF s, g
  <1>3. /\ m1 \in [Addresses -> Word] /\ m1[ptr - 1] = Tag(s, 1)
        /\ \A a \in Addresses : a # ptr - 1 => m1[a] = m[a]
    BY <1>0, <1>2, SetValue
  <1>4. /\ m2 \in [Addresses -> Word] /\ m2[g] = Tag(s, 1)
        /\ \A a \in Addresses : a # g => m2[a] = m1[a]
    <2> HIDE DEF m1
    <2> QED
      BY <1>0, <1>2, <1>3, SetValue
  <1> HIDE DEF m1, m2
  <1>5. m2[ptr - 1] = Tag(s, 1) /\ \A a \in Addresses \ {ptr - 1, g} : m2[a] = m[a]
    BY <1>0, <1>2, <1>3, <1>4
  <1> QED
    BY <1>1, <1>4, <1>5 DEF s, g

LEMMA PlaceBlock ==
  ASSUME NEW m, NEW B, Tiled(m, B), Alternating(m, B), ptr \in B,
         m[ptr - 1].alloc = 0, extendedSize \in Nat, extendedSize >= 3,
         m[ptr - 1].size >= extendedSize,
         NEW c, c = place(m), NEW C, C = PlacedBlocks(m, B)
  PROVE  /\ Tiled(c, C)
         /\ Alternating(c, C)
         /\ Used(c, C) = Used(m, B) \union {ptr}
         /\ \A q \in B : q # ptr => SameOn(m, c, q) /\ c[q - 1] = m[q - 1]
         /\ c[ptr - 1].size = IF m[ptr - 1].size - extendedSize > 2
                              THEN extendedSize ELSE m[ptr - 1].size
         /\ Clean(m, B) => Clean(c, C)
  <1> DEFINE s == m[ptr - 1].size
             e == extendedSize
             n == ptr + e
  <1>0. /\ ptr \in Nat /\ ptr >= 2 /\ s \in Nat /\ s >= 3 /\ ptr + s <= Words
        /\ e \in Nat /\ e >= 3 /\ e <= s /\ s - e \in Nat
    BY BlockBounds
  <1>1. ASSUME NEW W, \A w \in W : w \in Nat /\ ptr - 1 <= w /\ w <= ptr + s - 2,
               \A a \in Addresses \ W : c[a] = m[a], NEW q \in B, q # ptr
        PROVE  SameOn(m, c, q)
    <2>1. ptr + s <= q \/ q + m[q - 1].size <= ptr
      BY <1>1, BlocksApart
    <2>2. q \in Nat /\ m[q - 1].size \in Nat
      BY BlockBounds
    <2>3. ASSUME NEW a \in (q - 1)..(q + m[q - 1].size - 2)
          PROVE  c[a] = m[a]
      <3>1. a \in Addresses
        BY SameOnType
      <3>2. a \notin W
        <4>1. ~(ptr - 1 <= a /\ a <= ptr + s - 2)
          BY <2>1, <2>2, <1>0
        <4> QED
          BY <4>1, <1>1
      <3> QED
        BY <3>1, <3>2, <1>1
    <2> QED
      BY <2>3 DEF SameOn
  <1>2. ASSUME s - e >= 3
        PROVE  /\ Tiled(c, C) /\ Alternating(c, C)
               /\ Used(c, C) = Used(m, B) \union {ptr}
               /\ \A q \in B : q # ptr => SameOn(m, c, q) /\ c[q - 1] = m[q - 1]
               /\ c[ptr - 1].size = e
               /\ Clean(m, B) => Clean(c, C)
    <2>1. /\ c \in [Addresses -> Word]
          /\ c[ptr - 1] = Tag(e, 1) /\ c[ptr + e - 2] = Tag(e, 1)
          /\ c[ptr + e - 1] = Tag(s - e, 0) /\ c[ptr + s - 2] = Tag(s - e, 0)
          /\ \A a \in Addresses \ {ptr - 1, ptr + e - 2, ptr + e - 1, ptr + s - 2} :
               c[a] = m[a]
      BY <1>2, PlaceSplit
    <2>2. C = B \union {n}
      BY <1>0, <1>2 DEF PlacedBlocks, Splits, getSize, getHeader
    <2>3. /\ Tiled(c, C) /\ n \notin B
          /\ \A q \in B : q # ptr => c[q - 1] = m[q - 1]
      BY <1>2, <2>1, <2>2, SplitTiled
    <2>4. c[ptr - 1].alloc = 1 /\ c[ptr - 1].size = e
      BY <2>1 DEF Tag
    <2>5. c[n - 1].alloc = 0 /\ c[n - 1].size = s - e
      BY <2>1, <1>0 DEF Tag
    <2>6. Used(c, C) = Used(m, B) \union {ptr}
      <3>1. \A q \in C : c[q - 1].alloc = 1 <=>
                           (q \in B /\ m[q - 1].alloc = 1) \/ q = ptr
        BY <2>2, <2>3, <2>4, <2>5
      <3> QED
        BY <3>1, <2>2 DEF Used
    <2>7. ASSUME NEW q \in C, q + c[q - 1].size \in C, c[q - 1].alloc # 1
          PROVE  c[(q + c[q - 1].size) - 1].alloc = 1
      <3>1. CASE q = n
        <4> DEFINE r == ptr + s
        <4>1. q + c[q - 1].size = r /\ r # n /\ r # ptr
          BY <3>1, <2>5, <1>0, <1>2
        <4>2. r \in B
          BY <4>1, <2>2, <2>7
        <4>3. m[r - 1].alloc = 1
          BY <4>2 DEF Alternating
        <4> QED
          BY <4>1, <4>2, <4>3, <2>3
      <3>2. CASE q \in B /\ q # ptr
        <4> DEFINE r == q + m[q - 1].size
        <4>1. c[q - 1] = m[q - 1]
          BY <3>2, <2>3
        <4>2. r \in B
          <5>1. r \in B \union {Words} /\ r \in C
            BY <3>2, <4>1, <2>7 DEF Tiled
          <5>2. C \subseteq 2..(Words - 1)
            BY <2>3 DEF Tiled
          <5>3. r # Words
            BY <5>1, <5>2, WordsNat
          <5> QED
            BY <5>1, <5>3
        <4>3. m[r - 1].alloc = 1
          BY <3>2, <4>1, <4>2, <2>7 DEF Alternating
        <4>4. r # ptr
          BY <4>3
        <4>5. c[r - 1].alloc = 1
          BY <4>2, <4>3, <4>4, <2>3
        <4> QED
          BY <4>1, <4>5
      <3> QED
        BY <3>1, <3>2, <2>2, <2>4, <2>7
    <2>8. Alternating(c, C)
      BY <2>7 DEF Alternating
    <2>9. \A q \in B : q # ptr => SameOn(m, c, q)
      <3> DEFINE W == {ptr - 1, ptr + e - 2, ptr + e - 1, ptr + s - 2}
      <3>1. \A w \in W : w \in Nat /\ ptr - 1 <= w /\ w <= ptr + s - 2
        <4> HIDE DEF s, e
        <4> QED
          BY <1>0, <1>2
      <3>2. \A a \in Addresses \ W : c[a] = m[a]
        BY <2>1
      <3> HIDE DEF W
      <3> QED
        BY <3>1, <3>2, <1>1
    <2>10. Clean(m, B) => Clean(c, C)
      BY <1>2, <2>1, <2>2, SplitClean
    <2> QED
      BY <2>3, <2>4, <2>6, <2>8, <2>9, <2>10
  <1>3. ASSUME ~(s - e >= 3)
        PROVE  /\ Tiled(c, C) /\ Alternating(c, C)
               /\ Used(c, C) = Used(m, B) \union {ptr}
               /\ \A q \in B : q # ptr => SameOn(m, c, q) /\ c[q - 1] = m[q - 1]
               /\ c[ptr - 1].size = s
               /\ Clean(m, B) => Clean(c, C)
    <2>1. /\ c \in [Addresses -> Word]
          /\ c[ptr - 1] = Tag(s, 1) /\ c[ptr + s - 2] = Tag(s, 1)
          /\ \A a \in Addresses \ {ptr - 1, ptr + s - 2} : c[a] = m[a]
      BY <1>3, PlaceWhole
    <2>2. C = B
      BY <1>0, <1>3 DEF PlacedBlocks, Splits, getSize, getHeader
    <2>3. Tiled(c, B) /\ \A q \in B : q # ptr => c[q - 1] = m[q - 1]
      BY <2>1, MarkTiled
    <2>4. c[ptr - 1].alloc = 1 /\ c[ptr - 1].size = s
      BY <2>1 DEF Tag
    <2>5. Used(c, B) = Used(m, B) \union {ptr}
      <3>1. \A q \in B : c[q - 1].alloc = 1 <=> m[q - 1].alloc = 1 \/ q = ptr
        BY <2>3, <2>4
      <3> QED
        BY <3>1 DEF Used
    <2>6. Alternating(c, B)
      <3>1. \A q \in B : c[q - 1].size = m[q - 1].size
        BY <2>3, <2>4
      <3>2. \A q \in B : m[q - 1].alloc = 1 => c[q - 1].alloc = 1
        BY <2>3, <2>4
      <3> QED
        BY <3>1, <3>2 DEF Alternating
    <2>7. \A q \in B : q # ptr => SameOn(m, c, q)
      <3> DEFINE W == {ptr - 1, ptr + s - 2}
      <3>1. \A w \in W : w \in Nat /\ ptr - 1 <= w /\ w <= ptr + s - 2
        <4> HIDE DEF s, e
        <4> QED
          BY <1>0
      <3>2. \A a \in Addresses \ W : c[a] = m[a]
        BY <2>1
      <3> HIDE DEF W
      <3> QED
        BY <3>1, <3>2, <1>1
    <2>8. Clean(m, B) => Clean(c, B)
      BY <2>1, MarkClean
    <2> QED
      BY <2>2, <2>3, <2>4, <2>5, <2>6, <2>7, <2>8
  <1>4. m[ptr - 1].size - extendedSize > 2 <=> s - e >= 3
    BY <1>0
  <1> QED
    BY <1>2, <1>3, <1>4

-----------------------------------------------------------------------------
(***************************************************************************)
(* Every step keeps HeapInv: one lemma per action.                         *)
(***************************************************************************)
LEMMA ExtendedSizeBounds ==
  ASSUME size \in Nat, size > 0
  PROVE  /\ extendedSize \in Nat /\ extendedSize >= 3
         /\ PayloadWords(size) \in Nat /\ extendedSize = PayloadWords(size) + 2
  <1>1. PayloadWords(size) \in Nat /\ PayloadWords(size) >= 1
    BY DEF PayloadWords, HDRSIZE
  <1> QED
    BY <1>1 DEF extendedSize, ExtendedSize

\* A client's words are within its block.
LEMMA LiveWords ==
  ASSUME HeapInv, isInitialized, NEW q \in live,
         NEW a \in q..(q + length[q] - 1)
  PROVE  /\ q \in blocks
         /\ a \in (q - 1)..(q + myBlock[q - 1].size - 2)
         /\ q <= a /\ a < q + myBlock[q - 1].size - 2 /\ a \in Nat
  <1>1. q \in blocks
    BY DEF HeapInv, UsedIsLive
  <1>2. q \in Nat /\ myBlock[q - 1].size \in Nat
    BY <1>1, BlockBounds DEF HeapInv
  <1>3. length[q] \in Nat /\ length[q] + 2 <= myBlock[q - 1].size
    BY DEF HeapInv, HeapTypeOK, RoomForData, getSize, getHeader
  <1> QED
    BY <1>1, <1>2, <1>3

LEMMA HeapInit == Init => HeapInv
  <1> SUFFICES ASSUME Init PROVE HeapInv
    OBVIOUS
  <1>1. HeapTypeOK
    <2>1. [size |-> 0, alloc |-> 0] \in Word
      BY WordsNat DEF Word
    <2> QED
      BY <2>1 DEF Init, HeapTypeOK, Unwritten, NULL
  <1>2. OnlyLiveIsWritten
    BY DEF Init, OnlyLiveIsWritten
  <1>3. /\ Untouched /\ Alternating(myBlock, blocks) /\ UsedIsLive
        /\ LiveDataIntact /\ RoomForData /\ SearchInv
        /\ StaleFree(myBlock, blocks, stale)
    BY DEF Init, Untouched, Alternating, UsedIsLive, LiveDataIntact,
           RoomForData, StaleFree, SearchInv
  <1> QED
    BY <1>1, <1>2, <1>3 DEF HeapInv, Init

\* What clients hold is as before if their blocks are.
LEMMA LiveKept ==
  ASSUME HeapInv, isInitialized, live' \subseteq live,
         \A q \in live' : /\ data'[q] = data[q] /\ length'[q] = length[q]
                          /\ SameOn(myBlock, myBlock', q)
  PROVE  LiveDataIntact' /\ RoomForData'
  <1>1. ASSUME NEW q \in live'
        PROVE  myBlock'[q - 1] = myBlock[q - 1]
    <2>1. q \in blocks
      BY DEF HeapInv, UsedIsLive
    <2>2. q \in Nat /\ myBlock[q - 1].size \in Nat /\ myBlock[q - 1].size >= 3
      BY <2>1, BlockBounds DEF HeapInv
    <2>3. q - 1 \in (q - 1)..(q + myBlock[q - 1].size - 2)
      BY <2>2
    <2> QED
      BY <2>3 DEF SameOn
  <1>2. RoomForData'
    BY <1>1 DEF HeapInv, RoomForData, getSize, getHeader
  <1>3. ASSUME NEW q \in live', data'[q] # Unwritten,
               NEW a \in q..(q + length'[q] - 1)
        PROVE  myBlock'[a] = data'[q]
    <2>1. q \in live /\ a \in q..(q + length[q] - 1)
      BY <1>3
    <2>2. myBlock[a] = data[q]
      BY <2>1, <1>3 DEF HeapInv, LiveDataIntact
    <2>3. a \in (q - 1)..(q + myBlock[q - 1].size - 2)
      BY <2>1, LiveWords
    <2> QED
      BY <2>2, <2>3, <1>3 DEF SameOn
  <1>4. LiveDataIntact'
    BY <1>3 DEF LiveDataIntact
  <1> QED
    BY <1>2, <1>4

LEMMA MymallocStep ==
  ASSUME HeapInv, NEW n \in Nat, mymalloc(n)
  PROVE  HeapInv'
  <1>1. /\ UNCHANGED <<live, stale, data, length>> /\ isInitialized' = TRUE
        /\ \/ UNCHANGED <<pc, size, ptr>>
           \/ n # 0 /\ size' = n /\ ptr' = FirstPtr /\ pc' = "findFit"
    BY DEF mymalloc
  <1>2. pc = "idle"
    BY DEF mymalloc
  <1>3. /\ Tiled(myBlock', blocks') /\ Alternating(myBlock', blocks')
        /\ UsedIsLive' /\ StaleFree(myBlock', blocks', stale')
        /\ LiveDataIntact' /\ RoomForData'
    <2>1. CASE isInitialized
      <3>1. myBlock' = myBlock /\ blocks' = blocks
        BY <2>1 DEF mymalloc
      <3>2. Tiled(myBlock', blocks') /\ Alternating(myBlock', blocks')
        BY <2>1, <3>1 DEF HeapInv
      <3>3. UsedIsLive' /\ StaleFree(myBlock', blocks', stale')
        BY <3>1, <1>1 DEF HeapInv, UsedIsLive, getAllocation
      <3>4. LiveDataIntact' /\ RoomForData'
        BY <3>1, <1>1 DEF HeapInv, LiveDataIntact, RoomForData, getSize
      <3> QED
        BY <3>2, <3>3, <3>4
    <2>2. CASE ~isInitialized
      <3>1. myBlock' = initialize /\ blocks' = {FirstPtr}
        BY <2>2 DEF mymalloc
      <3>2. live' = {} /\ stale' = {}
        BY <2>2, <1>1 DEF HeapInv, Untouched
      <3>3. Tiled(myBlock', blocks') /\ myBlock'[FirstPtr - 1] = Tag(Words - 2, 0)
        BY <3>1, InitializeTiled DEF HeapInv, HeapTypeOK
      <3>4. UsedIsLive'
        <4>1. \A p \in blocks' : getAllocation(myBlock', p) # 1
          BY <3>1, <3>3 DEF getAllocation, getHeader, Tag
        <4> QED
          BY <3>2, <4>1 DEF UsedIsLive
      <3>5. Alternating(myBlock', blocks')
        <4>1. /\ FirstPtr \in Nat /\ myBlock'[FirstPtr - 1].size \in Nat
              /\ myBlock'[FirstPtr - 1].size >= 3
          BY <3>1, <3>3, BlockBounds
        <4>2. FirstPtr + myBlock'[FirstPtr - 1].size # FirstPtr
          BY <4>1
        <4> QED
          BY <3>1, <4>2 DEF Alternating
      <3> QED
        BY <3>2, <3>3, <3>4, <3>5
          DEF LiveDataIntact, RoomForData, StaleFree
    <2> QED
      BY <2>1, <2>2
  <1>4. SearchInv'
    <2>1. CASE pc' = "idle"
      BY <2>1 DEF SearchInv
    <2>2. CASE pc' # "idle"
      <3>1. size' > 0 /\ ptr' = FirstPtr
        BY <1>1, <1>2, <2>2
      <3>2. FirstPtr \in blocks' /\ \A q \in blocks' : ~(q < FirstPtr)
        BY <1>3, BlockBounds DEF Tiled, FirstPtr
      <3> QED
        BY <3>1, <3>2 DEF SearchInv
    <2> QED
      BY <2>1, <2>2
  <1>5. HeapTypeOK'
    <2>1. myBlock' \in [Addresses -> Word] /\ blocks' \subseteq Addresses
      BY <1>3, BlockBounds DEF Tiled
    <2> QED
      BY <1>1, <2>1 DEF HeapInv, HeapTypeOK, FirstPtr
  <1>6. OnlyLiveIsWritten'
    BY <1>1 DEF HeapInv, OnlyLiveIsWritten
  <1> QED
    BY <1>1, <1>3, <1>4, <1>5, <1>6 DEF HeapInv

\* While a search runs the memory is initialised.
LEMMA SearchFacts ==
  ASSUME HeapInv, pc = "findFit"
  PROVE  /\ isInitialized = TRUE /\ Tiled(myBlock, blocks)
         /\ size \in Nat /\ size > 0 /\ ptr \in blocks \union {Words}
         /\ getSize(myBlock, ptr) # 0 <=> ptr \in blocks
  <1>1. isInitialized = TRUE
    BY DEF HeapInv, HeapTypeOK, Untouched
  <1>2. Tiled(myBlock, blocks)
    BY <1>1 DEF HeapInv
  <1>3. size \in Nat /\ size > 0 /\ ptr \in blocks \union {Words}
    BY DEF HeapInv, HeapTypeOK, SearchInv
  <1>4. ASSUME ptr \in blocks
        PROVE  getSize(myBlock, ptr) # 0
    BY <1>2, <1>4, BlockBounds DEF getSize, getHeader
  <1>5. ASSUME ptr = Words
        PROVE  getSize(myBlock, ptr) = 0 /\ ptr \notin blocks
    <2>1. Words \notin blocks
      BY <1>2, BlockBounds, WordsNat DEF Addresses
    <2>2. myBlock[Words - 1].size = 0
      BY <1>2 DEF Tiled, Tag
    <2> QED
      BY <1>5, <2>1, <2>2 DEF getSize, getHeader
  <1> QED
    BY <1>1, <1>2, <1>3, <1>4, <1>5

LEMMA FindFitNextStep ==
  ASSUME HeapInv, findFitNext
  PROVE  HeapInv'
  <1>1. /\ pc = "findFit" /\ getSize(myBlock, ptr) # 0 /\ ~Fits
        /\ ptr' = ptr + getSize(myBlock, ptr)
        /\ UNCHANGED <<myBlock, isInitialized, pc, size, live, stale, data,
                       length, blocks>>
    BY DEF findFitNext
  <1>2. Tiled(myBlock, blocks) /\ ptr \in blocks
    BY <1>1, SearchFacts
  <1>3. /\ ptr \in Nat /\ myBlock[ptr - 1].size \in Nat
        /\ myBlock[ptr - 1].alloc \in {0, 1}
    BY <1>2, BlockBounds
  <1>4. ptr' \in blocks \union {Words}
    BY <1>1, <1>2 DEF Tiled, getSize, getHeader
  <1>5. ASSUME NEW q \in blocks, q < ptr'
        PROVE  getAllocation(myBlock, q) = 1 \/ getSize(myBlock, q) < extendedSize
    <2>1. CASE q < ptr
      BY <2>1, <1>1 DEF HeapInv, SearchInv
    <2>2. CASE q = ptr
      <3>1. getSize(myBlock, q) \in Nat /\ extendedSize \in Nat
        BY <2>2, <1>1, <1>3, SearchFacts, ExtendedSizeBounds DEF getSize, getHeader
      <3> QED
        BY <2>2, <3>1, <1>1 DEF Fits
    <2>3. CASE q > ptr
      <3>1. q \in Nat /\ ptr + myBlock[ptr - 1].size <= q
        BY <2>3, <1>2, <1>3, BlockBounds DEF Tiled
      <3> QED
        BY <3>1, <1>1, <1>3, <1>5 DEF getSize, getHeader
    <2>4. q \in Nat
      BY <1>2, BlockBounds
    <2> QED
      BY <2>1, <2>2, <2>3, <2>4, <1>3
  <1>6. SearchInv'
    <2>1. extendedSize' = extendedSize
      BY <1>1 DEF extendedSize
    <2> QED
      BY <1>1, <1>4, <1>5, <2>1, SearchFacts
        DEF SearchInv, getAllocation, getSize, getHeader
  <1>7. HeapTypeOK'
    BY <1>1, <1>3 DEF HeapInv, HeapTypeOK, getSize, getHeader
  <1>8. /\ UsedIsLive' /\ LiveDataIntact' /\ RoomForData' /\ OnlyLiveIsWritten'
    BY <1>1 DEF HeapInv, UsedIsLive, LiveDataIntact, RoomForData,
                OnlyLiveIsWritten, getAllocation, getSize
  <1> QED
    BY <1>1, <1>2, <1>6, <1>7, <1>8, SearchFacts DEF HeapInv

LEMMA MallocNullStep ==
  ASSUME HeapInv, mallocNull
  PROVE  HeapInv'
  <1>1. /\ pc' = "idle" /\ ptr' = NULL /\ size' = 0
        /\ UNCHANGED <<myBlock, isInitialized, live, stale, data, length, blocks>>
    BY DEF mallocNull
  <1>2. UsedIsLive' /\ LiveDataIntact' /\ RoomForData' /\ OnlyLiveIsWritten'
    BY <1>1 DEF HeapInv, UsedIsLive, LiveDataIntact, RoomForData,
                OnlyLiveIsWritten, getAllocation, getSize
  <1>3. HeapTypeOK' /\ SearchInv'
    BY <1>1 DEF HeapInv, HeapTypeOK, SearchInv, NULL
  <1> QED
    BY <1>1, <1>2, <1>3 DEF HeapInv, Untouched

LEMMA MallocPlaceStep ==
  ASSUME HeapInv, mallocPlace
  PROVE  HeapInv'
  <1>1. /\ pc = "findFit" /\ getSize(myBlock, ptr) # 0 /\ Fits
        /\ myBlock' = place(myBlock)
        /\ live' = live \union {ptr} /\ stale' = {}
        /\ length' = [length EXCEPT ![ptr] = PayloadWords(size)]
        /\ pc' = "idle" /\ ptr' = NULL /\ size' = 0
        /\ UNCHANGED <<isInitialized, data>>
    BY DEF mallocPlace
  <1>2. /\ isInitialized = TRUE /\ Tiled(myBlock, blocks) /\ ptr \in blocks
        /\ extendedSize \in Nat /\ extendedSize >= 3
        /\ PayloadWords(size) \in Nat /\ extendedSize = PayloadWords(size) + 2
    BY <1>1, SearchFacts, ExtendedSizeBounds
  <1>3. /\ ptr \in Addresses /\ myBlock[ptr - 1].alloc \in {0, 1}
        /\ myBlock[ptr - 1].size \in Nat
    BY <1>2, BlockBounds
  <1>4. myBlock[ptr - 1].alloc = 0 /\ myBlock[ptr - 1].size >= extendedSize
    BY <1>1, <1>3 DEF Fits, getAllocation, getSize, getHeader
  <1>5. blocks' = PlacedBlocks(myBlock, blocks)
    BY DEF mallocPlace, PlacedBlocks
  <1>6. Alternating(myBlock, blocks) /\ Used(myBlock, blocks) = live
    BY DEF HeapInv, UsedIsLive, Used, getAllocation, getHeader
  <1>7. /\ Tiled(myBlock', blocks') /\ Alternating(myBlock', blocks')
        /\ Used(myBlock', blocks') = Used(myBlock, blocks) \union {ptr}
        /\ \A q \in blocks : q # ptr =>
             SameOn(myBlock, myBlock', q) /\ myBlock'[q - 1] = myBlock[q - 1]
        /\ myBlock'[ptr - 1].size =
             IF myBlock[ptr - 1].size - extendedSize > 2
             THEN extendedSize ELSE myBlock[ptr - 1].size
    BY <1>1, <1>2, <1>4, <1>5, <1>6, PlaceBlock
  <1>8. UsedIsLive'
    BY <1>1, <1>6, <1>7 DEF UsedIsLive, Used, getAllocation, getHeader
  <1>9. ptr \notin live /\ live \subseteq blocks /\ live \subseteq Addresses
    BY <1>4, <1>6 DEF Used, HeapInv, HeapTypeOK
  <1>10. RoomForData'
    <2>1. ASSUME NEW q \in live
          PROVE  length'[q] + 2 <= getSize(myBlock', q)
      <3>1. length'[q] = length[q] /\ myBlock'[q - 1] = myBlock[q - 1]
        BY <1>1, <1>7, <1>9 DEF HeapInv, HeapTypeOK
      <3> QED
        BY <3>1 DEF HeapInv, RoomForData, getSize, getHeader
    <2>2. length'[ptr] + 2 <= getSize(myBlock', ptr)
      <3>1. length'[ptr] = PayloadWords(size)
        BY <1>1, <1>3 DEF HeapInv, HeapTypeOK
      <3>2. myBlock'[ptr - 1].size >= extendedSize
        BY <1>2, <1>3, <1>4, <1>7
      <3>3. myBlock'[ptr - 1].size \in Nat
        BY <1>2, <1>3, <1>7
      <3> QED
        BY <3>1, <3>2, <3>3, <1>2 DEF getSize, getHeader
    <2> QED
      BY <1>1, <2>1, <2>2 DEF RoomForData
  <1>11. LiveDataIntact'
    <2>1. data[ptr] = Unwritten
      BY <1>3, <1>9 DEF HeapInv, OnlyLiveIsWritten
    <2>2. ASSUME NEW q \in live, data[q] # Unwritten,
                 NEW a \in q..(q + length'[q] - 1)
          PROVE  myBlock'[a] = data[q]
      <3>1. length'[q] = length[q]
        BY <1>1, <1>9 DEF HeapInv, HeapTypeOK
      <3>2. a \in q..(q + length[q] - 1)
        BY <2>2, <3>1
      <3>3. myBlock[a] = data[q]
        BY <2>2, <3>2 DEF HeapInv, LiveDataIntact
      <3>4. a \in (q - 1)..(q + myBlock[q - 1].size - 2)
        BY <3>2, <1>2, LiveWords
      <3>5. SameOn(myBlock, myBlock', q)
        BY <1>7, <1>9
      <3> QED
        BY <3>3, <3>4, <3>5 DEF SameOn
    <2> QED
      BY <1>1, <2>1, <2>2 DEF LiveDataIntact
  <1>12. OnlyLiveIsWritten'
    BY <1>1 DEF HeapInv, OnlyLiveIsWritten
  <1>13. StaleFree(myBlock', blocks', stale') /\ SearchInv'
    BY <1>1 DEF StaleFree, SearchInv
  <1>14. HeapTypeOK'
    <2>1. myBlock' \in [Addresses -> Word] /\ blocks' \subseteq Addresses
      BY <1>7, BlockBounds DEF Tiled
    <2>2. length' \in [Addresses -> Nat]
      BY <1>1, <1>2, <1>3 DEF HeapInv, HeapTypeOK
    <2> QED
      BY <1>1, <1>3, <2>1, <2>2 DEF HeapInv, HeapTypeOK, NULL
  <1> QED
    BY <1>1, <1>2, <1>7, <1>8, <1>10, <1>11, <1>12, <1>13, <1>14 DEF HeapInv

LEMMA MyfreeStep ==
  ASSUME HeapInv, NEW p \in Addresses, myfree(p)
  PROVE  HeapInv'
  <1>1. /\ pc = "idle" /\ p \in live \union stale
        /\ myBlock' = coalesce(MarkedFree(myBlock, p), p)
        /\ blocks' = blocks \ Swallowed(MarkedFree(myBlock, p), p)
        /\ live' = live \ {p} /\ stale' = stale \union {p}
        /\ data' = [data EXCEPT ![p] = Unwritten]
        /\ length' = [length EXCEPT ![p] = 0]
        /\ UNCHANGED <<isInitialized, pc, size, ptr>>
    BY DEF myfree, MarkedFree
  <1>2. isInitialized = TRUE /\ Tiled(myBlock, blocks)
    BY <1>1 DEF HeapInv, HeapTypeOK, Untouched
  <1>3. /\ Alternating(myBlock, blocks) /\ Used(myBlock, blocks) = live
        /\ stale \in SUBSET Addresses /\ StaleFree(myBlock, blocks, stale)
    BY DEF HeapInv, HeapTypeOK, UsedIsLive, Used, getAllocation, getHeader
  <1>4. /\ Tiled(myBlock', blocks') /\ Alternating(myBlock', blocks')
        /\ Used(myBlock', blocks') = live'
        /\ \A q \in live' : SameOn(myBlock, myBlock', q)
        /\ StaleFree(myBlock', blocks', stale')
    <2>1. CASE p \in live
      <3>1. p \in blocks /\ myBlock[p - 1].alloc = 1
        BY <2>1, <1>3 DEF Used
      <3>2. Freed(myBlock, blocks, p, stale, myBlock', blocks')
        BY <3>1, <1>1, <1>2, <1>3, FreeBlock
      <3> QED
        BY <3>2, <1>1, <1>3 DEF Freed
    <2>2. CASE p \in stale
      <3>1. myBlock' = myBlock /\ blocks' = blocks
        BY <2>2, <1>1, <1>2, <1>3, FreeAgain
      <3>2. p \notin live
        BY <2>2, <1>3 DEF StaleFree, InsideFree, Used
      <3>3. live' = live /\ stale' = stale
        BY <2>2, <3>2, <1>1
      <3> QED
        BY <3>1, <3>3, <1>2, <1>3 DEF SameOn
    <2> QED
      BY <2>1, <2>2, <1>1
  <1>5. UsedIsLive'
    BY <1>4 DEF UsedIsLive, Used, getAllocation, getHeader
  <1>6. \A q \in live' : data'[q] = data[q] /\ length'[q] = length[q]
    BY <1>1 DEF HeapInv, HeapTypeOK
  <1>7. LiveDataIntact' /\ RoomForData'
    BY <1>1, <1>2, <1>4, <1>6, LiveKept
  <1>8. OnlyLiveIsWritten'
    BY <1>1 DEF HeapInv, HeapTypeOK, OnlyLiveIsWritten
  <1>9. SearchInv'
    BY <1>1 DEF SearchInv
  <1>10. HeapTypeOK'
    <2>1. myBlock' \in [Addresses -> Word] /\ blocks' \subseteq Addresses
      BY <1>4, BlockBounds DEF Tiled
    <2>2. Unwritten \in Word
      BY WordsNat DEF Unwritten, Word
    <2>3. data' \in [Addresses -> Word] /\ length' \in [Addresses -> Nat]
      BY <1>1, <2>2 DEF HeapInv, HeapTypeOK
    <2> QED
      BY <1>1, <2>1, <2>3 DEF HeapInv, HeapTypeOK
  <1> QED
    BY <1>1, <1>2, <1>4, <1>5, <1>7, <1>8, <1>9, <1>10 DEF HeapInv

LEMMA WriteStep ==
  ASSUME HeapInv, NEW p \in Addresses, NEW w \in Junk, Write(p, w)
  PROVE  HeapInv'
  <1>1. /\ pc = "idle" /\ p \in live
        /\ myBlock' = [a \in Addresses |->
                         IF a \in p..(p + length[p] - 1) THEN w ELSE myBlock[a]]
        /\ data' = [data EXCEPT ![p] = w]
        /\ UNCHANGED <<isInitialized, pc, size, ptr, live, stale, length, blocks>>
    BY DEF Write
  <1>2. isInitialized = TRUE /\ Tiled(myBlock, blocks)
    BY <1>1 DEF HeapInv, HeapTypeOK, Untouched
  <1>3. /\ Used(myBlock, blocks) = live /\ p \in blocks
        /\ myBlock[p - 1].alloc = 1 /\ w \in Word
    BY <1>1, JunkAssumption DEF HeapInv, UsedIsLive, Used, getAllocation, getHeader
  <1>4. /\ p \in Nat /\ p >= 2 /\ myBlock[p - 1].size \in Nat
        /\ p - 1 \in Addresses /\ p + myBlock[p - 1].size - 2 \in Addresses
        /\ p + myBlock[p - 1].size <= Words
    BY <1>2, <1>3, BlockBounds
  <1>5. length[p] \in Nat /\ length[p] + 2 <= myBlock[p - 1].size
    BY <1>1 DEF HeapInv, HeapTypeOK, RoomForData, getSize, getHeader
  <1>6. ASSUME NEW q \in blocks, q # p
        PROVE  SameOn(myBlock, myBlock', q)
    <2>1. p + myBlock[p - 1].size <= q \/ q + myBlock[q - 1].size <= p
      BY <1>2, <1>3, <1>6, BlocksApart
    <2>2. q \in Nat /\ myBlock[q - 1].size \in Nat
      BY <1>2, BlockBounds
    <2>3. ASSUME NEW a \in (q - 1)..(q + myBlock[q - 1].size - 2)
          PROVE  myBlock'[a] = myBlock[a]
      <3>1. a \in Addresses
        BY <1>2, SameOnType
      <3>2. a \notin p..(p + length[p] - 1)
        BY <2>1, <2>2, <1>4, <1>5
      <3> QED
        BY <3>1, <3>2, <1>1
    <2> QED
      BY <2>3 DEF SameOn
  <1>7. /\ myBlock'[p - 1] = myBlock[p - 1]
        /\ myBlock'[p + myBlock[p - 1].size - 2] = myBlock[p + myBlock[p - 1].size - 2]
        /\ myBlock'[0] = myBlock[0] /\ myBlock'[Words - 1] = myBlock[Words - 1]
    <2> DEFINE W == p..(p + length[p] - 1)
    <2>1. /\ p - 1 \notin W /\ p + myBlock[p - 1].size - 2 \notin W
          /\ 0 \notin W /\ Words - 1 \notin W
      BY <1>4, <1>5, WordsNat
    <2>2. 0 \in Addresses /\ Words - 1 \in Addresses
      BY WordsNat DEF Addresses
    <2> QED
      BY <2>1, <2>2, <1>1, <1>4
  <1>8. ASSUME NEW q \in blocks
        PROVE  /\ myBlock'[q - 1] = myBlock[q - 1]
               /\ myBlock'[q + myBlock[q - 1].size - 2] = myBlock[q - 1]
    <2>1. myBlock[q + myBlock[q - 1].size - 2] = myBlock[q - 1]
      BY <1>2 DEF Tiled
    <2>2. CASE q # p
      <3>1. q \in Nat /\ myBlock[q - 1].size \in Nat /\ myBlock[q - 1].size >= 3
        BY <1>2, BlockBounds
      <3>2. /\ q - 1 \in (q - 1)..(q + myBlock[q - 1].size - 2)
            /\ q + myBlock[q - 1].size - 2 \in (q - 1)..(q + myBlock[q - 1].size - 2)
        BY <3>1
      <3> QED
        BY <2>1, <2>2, <3>2, <1>6 DEF SameOn
    <2> QED
      BY <2>1, <2>2, <1>7
  <1>9. myBlock' \in [Addresses -> Word]
    BY <1>1, <1>3 DEF HeapInv, HeapTypeOK
  <1>10. Tiled(myBlock', blocks')
    BY <1>1, <1>2, <1>7, <1>8, <1>9, SameTags
  <1>11. Alternating(myBlock', blocks')
    BY <1>1, <1>8 DEF HeapInv, Alternating
  <1>12. UsedIsLive'
    BY <1>1, <1>8 DEF HeapInv, UsedIsLive, getAllocation, getHeader
  <1>13. RoomForData'
    <2>1. live \subseteq blocks
      BY <1>3 DEF Used
    <2> QED
      BY <1>1, <1>8, <2>1 DEF HeapInv, RoomForData, getSize, getHeader
  <1>14. LiveDataIntact'
    <2>1. ASSUME NEW q \in live, data'[q] # Unwritten,
                 NEW a \in q..(q + length[q] - 1)
          PROVE  myBlock'[a] = data'[q]
      <3>1. CASE q = p
        <4>1. a \in Addresses
          BY <3>1, <1>4, <1>5, WordsNat DEF Addresses
        <4> QED
          BY <3>1, <4>1, <1>1, <2>1 DEF HeapInv, HeapTypeOK
      <3>2. CASE q # p
        <4>1. data'[q] = data[q] /\ q \in blocks
          BY <3>2, <1>1, <1>3 DEF HeapInv, HeapTypeOK, Used
        <4>2. myBlock[a] = data[q]
          BY <4>1, <2>1 DEF HeapInv, LiveDataIntact
        <4>3. a \in (q - 1)..(q + myBlock[q - 1].size - 2)
          BY <1>2, <2>1, LiveWords
        <4> QED
          BY <3>2, <4>1, <4>2, <4>3, <1>6 DEF SameOn
      <3> QED
        BY <3>1, <3>2
    <2> QED
      BY <1>1, <2>1 DEF LiveDataIntact
  <1>15. OnlyLiveIsWritten'
    BY <1>1 DEF HeapInv, HeapTypeOK, OnlyLiveIsWritten
  <1>16. StaleFree(myBlock', blocks', stale')
    <2>1. ASSUME NEW x \in stale
          PROVE  \/ x \in blocks /\ myBlock'[x - 1].alloc = 0
                 \/ InsideFree(myBlock', blocks, x)
      <3>1. CASE x \in blocks
        BY <3>1, <1>8 DEF HeapInv, StaleFree, InsideFree
      <3>2. CASE x \notin blocks
        <4>1. InsideFree(myBlock, blocks, x) /\ x \in Addresses
          BY <3>2 DEF HeapInv, HeapTypeOK, StaleFree
        <4>2. PICK b \in blocks : /\ myBlock[b - 1].alloc = 0 /\ b + 3 <= x
                                  /\ x + 3 <= b + myBlock[b - 1].size
          BY <4>1 DEF InsideFree
        <4>3. SameOn(myBlock, myBlock', b)
          BY <4>2, <1>3, <1>6
        <4>4. myBlock[x - 1] = Tag(0, 0) /\ myBlock[x - 2] = Tag(0, 0)
          BY <4>1 DEF InsideFree
        <4> QED
          BY <3>2, <4>1, <4>2, <4>3, <4>4, <1>2, InsideKept
      <3> QED
        BY <3>1, <3>2
    <2> QED
      BY <1>1, <2>1 DEF StaleFree
  <1>17. SearchInv'
    BY <1>1 DEF SearchInv
  <1>18. HeapTypeOK'
    BY <1>1, <1>3, <1>9 DEF HeapInv, HeapTypeOK
  <1> QED
    BY <1>1, <1>2, <1>10, <1>11, <1>12, <1>13, <1>14, <1>15, <1>16, <1>17,
       <1>18 DEF HeapInv

-----------------------------------------------------------------------------
(***************************************************************************)
(* The theorems.                                                           *)
(***************************************************************************)
LEMMA HeapStutter ==
  ASSUME HeapInv, UNCHANGED heapVars
  PROVE  HeapInv'
BY DEF heapVars, HeapInv, HeapTypeOK, Untouched, UsedIsLive, LiveDataIntact,
       RoomForData, OnlyLiveIsWritten, SearchInv, getAllocation, getSize,
       extendedSize

LEMMA HeapStep == HeapInv /\ [Next]_heapVars => HeapInv'
  <1> SUFFICES ASSUME HeapInv, [Next]_heapVars PROVE HeapInv'
    OBVIOUS
  <1>1. CASE \E n \in Sizes : mymalloc(n)
    BY <1>1, SizesAssumption, MymallocStep
  <1>2. CASE findFitNext
    BY <1>2, FindFitNextStep
  <1>3. CASE mallocNull
    BY <1>3, MallocNullStep
  <1>4. CASE mallocPlace
    BY <1>4, MallocPlaceStep
  <1>5. CASE \E p \in Addresses : myfree(p)
    BY <1>5, MyfreeStep
  <1>6. CASE \E p \in Addresses, w \in Junk : Write(p, w)
    BY <1>6, WriteStep
  <1>7. CASE UNCHANGED heapVars
    BY <1>7, HeapStutter
  <1> QED
    BY <1>1, <1>2, <1>3, <1>4, <1>5, <1>6, <1>7 DEF Next

\* HeapInv holds in every reachable state.
THEOREM HeapInvariant == Spec => []HeapInv
BY HeapInit, HeapStep, PTL DEF Spec

\* Headers and footers always describe a row of blocks without gaps or overlaps.
THEOREM BoundaryTagsHold == Spec => []BoundaryTags
  <1>1. HeapInv => BoundaryTags
    <2> SUFFICES ASSUME HeapInv, isInitialized PROVE BoundaryTags
      BY DEF BoundaryTags
    <2>1. Tiled(myBlock, blocks)
      BY DEF HeapInv
    <2>2. myBlock[0].size = 0 /\ myBlock[Words - 1] = [size |-> 0, alloc |-> 1]
      BY <2>1 DEF Tiled, Tag
    <2>3. ASSUME NEW p \in blocks
          PROVE  /\ getSize(myBlock, p) >= 3
                 /\ myBlock[getHeader(p)] = myBlock[getFooter(myBlock, p)]
                 /\ End(p) \in blocks \union {Words}
      BY <2>1 DEF Tiled, getSize, getHeader, getFooter, End
    <2>4. ASSUME NEW p \in blocks, NEW q \in blocks
          PROVE  q <= p \/ q >= End(p)
      BY <2>1, BlockBounds DEF Tiled, getSize, getHeader, End
    <2> QED
      BY <2>1, <2>2, <2>3, <2>4 DEF BoundaryTags, Tiled
  <1> QED
    BY <1>1, HeapInvariant, PTL

\* No two free blocks are adjacent, after any sequence of calls.
THEOREM CoalescedHolds == Spec => []Coalesced
  <1>1. HeapInv => Coalesced
    BY DEF HeapInv, Alternating, Coalesced, End, getSize, getAllocation, getHeader
  <1> QED
    BY <1>1, HeapInvariant, PTL

\* The blocks marked used are those that clients hold, also after a second free.
THEOREM UsedIsLiveHolds == Spec => []UsedIsLive
  <1>1. HeapInv => UsedIsLive
    BY DEF HeapInv
  <1> QED
    BY <1>1, HeapInvariant, PTL

\* Nothing the allocator or another client does changes a client's words.
THEOREM LiveDataIsIntact == Spec => []LiveDataIntact
  <1>1. HeapInv => LiveDataIntact
    BY DEF HeapInv
  <1> QED
    BY <1>1, HeapInvariant, PTL

\* mymalloc returns NULL from its search only if no free block is large enough.
THEOREM NullOnlyIfNoFit == Spec => NullMeansNoFit
  <1> DEFINE Step == (pc = "findFit" /\ pc' = "idle" /\ live' = live) =>
                        \A p \in blocks : \/ getAllocation(myBlock, p) = 1
                                          \/ getSize(myBlock, p) < extendedSize
  <1>1. HeapInv /\ [Next]_heapVars => [Step]_heapVars
    <2> SUFFICES ASSUME HeapInv, Next, pc = "findFit", pc' = "idle", live' = live
                 PROVE  \A p \in blocks : \/ getAllocation(myBlock, p) = 1
                                          \/ getSize(myBlock, p) < extendedSize
      OBVIOUS
    <2>1. CASE mallocNull
      <3>1. ptr = Words /\ Tiled(myBlock, blocks)
        BY <2>1, SearchFacts DEF mallocNull
      <3>2. \A p \in blocks : p < ptr
        BY <3>1, BlockBounds, WordsNat DEF Addresses
      <3> QED
        BY <3>2 DEF HeapInv, SearchInv
    <2>2. CASE mallocPlace
      <3>1. ptr \in live
        BY <2>2 DEF mallocPlace
      <3>2. getAllocation(myBlock, ptr) = 1
        BY <3>1 DEF HeapInv, UsedIsLive
      <3> QED
        BY <2>2, <3>2 DEF mallocPlace, Fits
    <2> QED
      BY <2>1, <2>2 DEF Next, mymalloc, findFitNext, myfree, Write
  <1> QED
    BY <1>1, HeapInvariant, PTL DEF Spec, NullMeansNoFit

-----------------------------------------------------------------------------
(***************************************************************************)
(* Heap implements FirstFit.                                               *)
(***************************************************************************)
\* The running search is for one of the sizes that may be asked for.
SizeAsked == pc = "findFit" => size \in Sizes

LEMMA SizeAskedStep == SizeAsked /\ [Next]_heapVars => SizeAsked'
BY DEF SizeAsked, Next, heapVars, mymalloc, findFitNext, mallocNull,
       mallocPlace, myfree, Write

\* The words of block p of memory m, as FirstFit's record.
Interval(m, p) == [lo |-> p - 1, hi |-> (p + m[p - 1].size) - 2]

Intervals(m, L) == {Interval(m, p) : p \in L}

LEMMA AllocatedIs ==
  {[lo |-> p - 1, hi |-> End(p) - 2] : p \in live} = Intervals(myBlock, live)
BY DEF End, getSize, getHeader, Intervals, Interval

\* A word is free in FirstFit's sense if no client's block covers it.
LEMMA FreeWord ==
  ASSUME NEW w
  PROVE  Abstract!Free(w) <=>
           \A q \in live : w < q - 1 \/ (q + myBlock[q - 1].size) - 2 < w
  <1>1. Abstract!Free(w) <=> \A b \in Intervals(myBlock, live) : w < b.lo \/ b.hi < w
    BY AllocatedIs DEF Abstract!Free
  <1>2. \A q : /\ Interval(myBlock, q).lo = q - 1
               /\ Interval(myBlock, q).hi = (q + myBlock[q - 1].size) - 2
    BY DEF Interval
  <1>3. (\A b \in Intervals(myBlock, live) : w < b.lo \/ b.hi < w) <=>
          \A q \in live : w < Interval(myBlock, q).lo \/ Interval(myBlock, q).hi < w
    BY Zenon DEF Intervals
  <1> QED
    BY <1>1, <1>2, <1>3

\* Steps that leave clients' blocks alone stutter.
LEMMA AllocatedSame ==
  ASSUME live' = live, \A q \in live : myBlock'[q - 1].size = myBlock[q - 1].size
  PROVE  Intervals(myBlock', live') = Intervals(myBlock, live)
BY DEF Intervals, Interval

\* The block that findFit stops at is a gap, and the lowest one that fits.
LEMMA FitIsGap ==
  ASSUME HeapInv, pc = "findFit", ptr \in blocks, Fits
  PROVE  /\ Interval(myBlock, ptr) \in Abstract!Fitting(extendedSize)
         /\ \A h \in Abstract!Fitting(extendedSize) :
              Interval(myBlock, ptr).lo <= h.lo
  <1> DEFINE g == Interval(myBlock, ptr)
             s == myBlock[ptr - 1].size
             e == extendedSize
  <1>1. /\ Tiled(myBlock, blocks) /\ Alternating(myBlock, blocks)
        /\ e \in Nat /\ e >= 3
    BY SearchFacts, ExtendedSizeBounds DEF HeapInv
  <1>2. /\ ptr \in Nat /\ ptr >= 2 /\ s \in Nat /\ s >= 3 /\ ptr + s <= Words
        /\ myBlock[ptr - 1].alloc \in {0, 1}
    BY <1>1, BlockBounds
  <1>3. /\ myBlock[ptr - 1].alloc = 0 /\ s >= e
    BY <1>2 DEF Fits, getAllocation, getSize, getHeader
  <1>4. \A q : q \in live <=> q \in blocks /\ myBlock[q - 1].alloc = 1
    BY DEF HeapInv, UsedIsLive, getAllocation, getHeader
  <1>5. g.lo = ptr - 1 /\ g.hi = (ptr + s) - 2 /\ g.hi - g.lo + 1 = s
    BY <1>2 DEF Interval
  <1>6. /\ g \in Abstract!Block
        /\ Abstract!Length(g) >= e
    <2>1. g.lo \in 1..(Words - 2) /\ g.hi \in 1..(Words - 2) /\ g.lo <= g.hi
      BY <1>2, <1>5, WordsNat
    <2>2. g = [lo |-> g.lo, hi |-> g.hi]
      BY DEF Interval
    <2> HIDE DEF g
    <2> QED
      BY <2>1, <2>2, <1>3, <1>5 DEF Abstract!Block, Abstract!Length
  <1>7. ASSUME NEW w \in g.lo..g.hi
        PROVE  Abstract!Free(w)
    <2>1. ASSUME NEW q \in live
          PROVE  w < q - 1 \/ (q + myBlock[q - 1].size) - 2 < w
      <3>1. q \in blocks /\ q # ptr
        BY <1>3, <1>4
      <3>2. q \in Nat /\ myBlock[q - 1].size \in Nat
        BY <3>1, <1>1, BlockBounds
      <3>3. ptr + s <= q \/ q + myBlock[q - 1].size <= ptr
        BY <3>1, <1>1, BlocksApart
      <3>4. w \in (ptr - 1)..((ptr + s) - 2)
        BY <1>5
      <3> HIDE DEF s, g
      <3> QED
        BY <3>2, <3>3, <3>4, <1>2
    <2> QED
      BY <2>1, FreeWord
  <1>8. g.lo = 1 \/ ~Abstract!Free(g.lo - 1)
    <2>1. CASE ptr = FirstPtr
      BY <2>1, <1>5 DEF FirstPtr
    <2>2. CASE ptr # FirstPtr
      <3>1. PICK v \in blocks : v + myBlock[v - 1].size = ptr
        BY <2>2, <1>1 DEF Tiled
      <3>2. v \in live
        BY <3>1, <1>1, <1>3, <1>4 DEF Alternating
      <3>3. /\ v \in Nat /\ myBlock[v - 1].size \in Nat
            /\ myBlock[v - 1].size >= 3
        BY <1>1, BlockBounds
      <3>4. ~(g.lo - 1 < v - 1) /\ ~((v + myBlock[v - 1].size) - 2 < g.lo - 1)
        BY <3>1, <3>3, <1>2, <1>5
      <3> QED
        BY <3>2, <3>4, FreeWord
    <2> QED
      BY <2>1, <2>2
  <1>9. g.hi = Words - 2 \/ ~Abstract!Free(g.hi + 1)
    <2> DEFINE r == ptr + s
    <2>1. CASE r = Words
      BY <2>1, <1>5
    <2>2. CASE r \in blocks
      <3>1. r \in live
        BY <2>2, <1>1, <1>3, <1>4 DEF Alternating
      <3>2. /\ r \in Nat /\ myBlock[r - 1].size \in Nat
            /\ myBlock[r - 1].size >= 3
        BY <2>2, <1>1, BlockBounds
      <3>3. g.hi + 1 = r - 1
        BY <1>2, <1>5
      <3> HIDE DEF r
      <3>4. ~(r - 1 < r - 1) /\ ~((r + myBlock[r - 1].size) - 2 < r - 1)
        BY <3>2
      <3> QED
        BY <3>1, <3>3, <3>4, FreeWord
    <2> QED
      BY <2>1, <2>2, <1>1 DEF Tiled
  <1>10. g \in Abstract!Fitting(e)
    BY <1>6, <1>7, <1>8, <1>9 DEF Abstract!Fitting, Abstract!Gaps
  <1>11. ASSUME NEW h \in Abstract!Fitting(e), h.lo < g.lo
         PROVE  FALSE
    <2>1. /\ h.lo \in 1..(Words - 2) /\ h.hi \in 1..(Words - 2) /\ h.lo <= h.hi
          /\ \A w \in h.lo..h.hi : Abstract!Free(w)
          /\ h.lo = 1 \/ ~Abstract!Free(h.lo - 1)
          /\ h.hi - h.lo + 1 >= e
      BY DEF Abstract!Fitting, Abstract!Gaps, Abstract!Block, Abstract!Length
    <2>2. Abstract!Free(h.lo)
      BY <2>1
    <2> DEFINE q == h.lo + 1
    <2>3. q \in blocks
      <3>1. CASE h.lo = 1
        BY <3>1, <1>1 DEF Tiled, FirstPtr
      <3>2. CASE ~Abstract!Free(h.lo - 1)
        <4>1. PICK b \in live : /\ ~(h.lo - 1 < b - 1)
                                /\ ~((b + myBlock[b - 1].size) - 2 < h.lo - 1)
          BY <3>2, FreeWord
        <4>2. h.lo < b - 1 \/ (b + myBlock[b - 1].size) - 2 < h.lo
          BY <2>2, FreeWord
        <4>3. b \in blocks
          BY <1>4
        <4>4. b \in Nat /\ myBlock[b - 1].size \in Nat
          BY <4>3, <1>1, BlockBounds
        <4>5. b + myBlock[b - 1].size = q
          BY <2>1, <4>1, <4>2, <4>4
        <4>6. q \in blocks \union {Words}
          BY <4>3, <4>5, <1>1 DEF Tiled
        <4>7. q # Words
          BY <2>1, WordsNat
        <4> QED
          BY <4>6, <4>7
      <3> QED
        BY <2>1, <3>1, <3>2
    <2>4. /\ q \in Nat /\ q - 1 = h.lo /\ myBlock[q - 1].size \in Nat
          /\ myBlock[q - 1].size >= 3 /\ myBlock[q - 1].alloc \in {0, 1}
      BY <2>1, <2>3, <1>1, BlockBounds
    <2> HIDE DEF q
    <2>5. q \notin live
      <3>1. ASSUME q \in live PROVE FALSE
        <4>1. h.lo < q - 1 \/ (q + myBlock[q - 1].size) - 2 < h.lo
          BY <2>2, <3>1, FreeWord
        <4> QED
          BY <4>1, <2>1, <2>4
      <3> QED
        BY <3>1
    <2>6. myBlock[q - 1].alloc = 0
      BY <2>3, <2>4, <2>5, <1>4
    <2>7. q < ptr
      BY <2>1, <2>4, <1>2, <1>5, <1>11
    <2>8. myBlock[q - 1].size < e
      <3>1. getAllocation(myBlock, q) = 1 \/ getSize(myBlock, q) < extendedSize
        BY <2>3, <2>7 DEF HeapInv, SearchInv
      <3> QED
        BY <2>6, <3>1 DEF getAllocation, getSize, getHeader
    <2> DEFINE r == q + myBlock[q - 1].size
    <2>9. r \in Nat /\ r - 1 \in h.lo..h.hi
      <3>1. h.hi >= r - 1
        BY <2>1, <2>4, <2>8, <1>1
      <3> QED
        BY <3>1, <2>1, <2>4
    <2>10. Abstract!Free(r - 1)
      BY <2>1, <2>9
    <2>11. r \in blocks
      <3>1. r \in blocks \union {Words}
        BY <2>3, <1>1 DEF Tiled
      <3>2. r # Words
        <4> HIDE DEF r
        <4> QED
          BY <2>1, <2>9, WordsNat
      <3> QED
        BY <3>1, <3>2
    <2>12. r \in live
      BY <2>3, <2>6, <2>11, <1>1, <1>4 DEF Alternating
    <2> HIDE DEF r
    <2>13. myBlock[r - 1].size \in Nat /\ myBlock[r - 1].size >= 3
      BY <2>11, <1>1, BlockBounds
    <2>14. r - 1 < r - 1 \/ (r + myBlock[r - 1].size) - 2 < r - 1
      BY <2>10, <2>12, FreeWord
    <2> QED
      BY <2>9, <2>13, <2>14
  <1>12. ASSUME NEW h \in Abstract!Fitting(e)
         PROVE  g.lo <= h.lo
    <2>1. h.lo \in 1..(Words - 2) /\ g.lo \in Nat
      BY <1>2, <1>5 DEF Abstract!Fitting, Abstract!Gaps, Abstract!Block
    <2> QED
      BY <2>1, <1>11
  <1> QED
    BY <1>10, <1>12

\* A search that ends at a block allocates the lowest gap that fits.
LEMMA PlaceAllocates ==
  ASSUME HeapInv, SizeAsked, mallocPlace
  PROVE  Abstract!AllocNext
  <1> DEFINE g == Interval(myBlock, ptr)
             s == myBlock[ptr - 1].size
             e == extendedSize
  <1>1. /\ pc = "findFit" /\ getSize(myBlock, ptr) # 0 /\ Fits
        /\ myBlock' = place(myBlock) /\ live' = live \union {ptr}
        /\ blocks' = PlacedBlocks(myBlock, blocks)
    BY DEF mallocPlace, PlacedBlocks
  <1>2. /\ Tiled(myBlock, blocks) /\ ptr \in blocks
        /\ extendedSize \in Nat /\ extendedSize >= 3
        /\ Alternating(myBlock, blocks)
    BY <1>1, SearchFacts, ExtendedSizeBounds DEF HeapInv
  <1>3. /\ ptr \in Nat /\ s \in Nat /\ myBlock[ptr - 1].alloc \in {0, 1}
    BY <1>2, BlockBounds
  <1>4. myBlock[ptr - 1].alloc = 0 /\ s >= extendedSize
    BY <1>1, <1>3 DEF Fits, getAllocation, getSize, getHeader
  <1>5. /\ \A q \in blocks : q # ptr => myBlock'[q - 1] = myBlock[q - 1]
        /\ myBlock'[ptr - 1].size = IF s - e > 2 THEN e ELSE s
    BY <1>1, <1>2, <1>4, PlaceBlock
  <1>6. live \subseteq blocks /\ ptr \notin live
    BY <1>4 DEF HeapInv, UsedIsLive, getAllocation, getHeader
  <1>7. Intervals(myBlock', live') =
          Intervals(myBlock, live) \union {Interval(myBlock', ptr)}
    <2>1. \A q \in live : Interval(myBlock', q) = Interval(myBlock, q)
      BY <1>5, <1>6 DEF Interval
    <2> QED
      BY <2>1, <1>1 DEF Intervals
  <1>8. Interval(myBlock', ptr) =
          [lo |-> g.lo, hi |-> IF Abstract!Length(g) - e > 2
                               THEN g.lo + e - 1 ELSE g.hi]
    <2>1. g.lo = ptr - 1 /\ g.hi = (ptr + s) - 2
      BY DEF Interval
    <2>2. Abstract!Length(g) = s
      BY <2>1, <1>3 DEF Abstract!Length
    <2>3. (ptr + myBlock'[ptr - 1].size) - 2 =
            IF s - e > 2 THEN g.lo + e - 1 ELSE g.hi
      BY <2>1, <1>2, <1>3, <1>5
    <2> QED
      BY <2>1, <2>2, <2>3 DEF Interval
  <1>9. /\ g \in Abstract!Fitting(e)
        /\ \A h \in Abstract!Fitting(e) : g.lo <= h.lo
    BY <1>1, <1>2, FitIsGap
  <1>10. /\ {[lo |-> p - 1, hi |-> End(p) - 2] : p \in live} = Intervals(myBlock, live)
         /\ {[lo |-> p - 1, hi |-> End(p) - 2] : p \in live}' = Intervals(myBlock', live')
    BY DEF End, getSize, getHeader, Intervals, Interval
  <1>11. PICK k \in {ExtendedSize(n) : n \in Sizes} : k = e
    BY <1>1 DEF SizeAsked, extendedSize
  <1> HIDE DEF g, e
  <1>12. Abstract!Allocate(k)
    BY <1>7, <1>8, <1>9, <1>10, <1>11 DEF Abstract!Allocate, Abstract!Scrap
  <1> QED
    BY <1>12 DEF Abstract!AllocNext

\* Every step is one of FirstFit's, or leaves the clients' blocks alone.
LEMMA FirstFitStep ==
  ASSUME HeapInv, HeapInv', SizeAsked, [Next]_heapVars
  PROVE  [Abstract!AllocNext]_{[lo |-> p - 1, hi |-> End(p) - 2] : p \in live}
  <1>1. /\ {[lo |-> p - 1, hi |-> End(p) - 2] : p \in live} = Intervals(myBlock, live)
        /\ {[lo |-> p - 1, hi |-> End(p) - 2] : p \in live}' = Intervals(myBlock', live')
    BY DEF End, getSize, getHeader, Intervals, Interval
  <1>2. ASSUME live' = live, \A q \in live : myBlock'[q - 1].size = myBlock[q - 1].size
        PROVE  [Abstract!AllocNext]_{[lo |-> p - 1, hi |-> End(p) - 2] : p \in live}
    BY <1>1, <1>2, AllocatedSame
  <1>3. CASE \E n \in Sizes : mymalloc(n)
    <2>1. live' = live /\ (isInitialized => myBlock' = myBlock)
      BY <1>3 DEF mymalloc
    <2>2. ~isInitialized => live = {}
      BY DEF HeapInv, Untouched
    <2> QED
      BY <2>1, <2>2, <1>2
  <1>4. CASE findFitNext \/ mallocNull \/ UNCHANGED heapVars
    <2>1. live' = live /\ myBlock' = myBlock
      BY <1>4 DEF findFitNext, mallocNull, heapVars
    <2> QED
      BY <2>1, <1>2
  <1>5. CASE mallocPlace
    BY <1>5, PlaceAllocates
  <1>6. ASSUME NEW p \in Addresses, myfree(p)
        PROVE  [Abstract!AllocNext]_{[lo |-> q - 1, hi |-> End(q) - 2] : q \in live}
    <2>1. /\ pc = "idle" /\ p \in live \union stale
          /\ myBlock' = coalesce(MarkedFree(myBlock, p), p)
          /\ blocks' = blocks \ Swallowed(MarkedFree(myBlock, p), p)
          /\ live' = live \ {p}
      BY <1>6 DEF myfree, MarkedFree
    <2>2. Tiled(myBlock, blocks)
      BY <2>1 DEF HeapInv, HeapTypeOK, Untouched
    <2>3. /\ Alternating(myBlock, blocks) /\ Used(myBlock, blocks) = live
          /\ stale \in SUBSET Addresses /\ StaleFree(myBlock, blocks, stale)
      BY DEF HeapInv, HeapTypeOK, UsedIsLive, Used, getAllocation, getHeader
    <2>4. CASE p \in live
      <3>1. p \in blocks /\ myBlock[p - 1].alloc = 1
        BY <2>3, <2>4 DEF Used
      <3>2. Freed(myBlock, blocks, p, stale, myBlock', blocks')
        BY <2>1, <2>2, <2>3, <3>1, FreeBlock
      <3>3. ASSUME NEW q \in live, q # p
            PROVE  Interval(myBlock', q) = Interval(myBlock, q)
        <4>1. SameOn(myBlock, myBlock', q)
          BY <2>3, <3>2, <3>3 DEF Freed
        <4>2. /\ q \in Nat /\ myBlock[q - 1].size \in Nat
              /\ myBlock[q - 1].size >= 3
          BY <2>2, <2>3, BlockBounds DEF Used
        <4>3. q - 1 \in (q - 1)..(q + myBlock[q - 1].size - 2)
          BY <4>2
        <4>4. myBlock'[q - 1] = myBlock[q - 1]
          BY <4>1, <4>3 DEF SameOn
        <4> QED
          BY <4>4 DEF Interval
      <3>4. ASSUME NEW q \in live, Interval(myBlock, q) = Interval(myBlock, p)
            PROVE  q = p
        <4>1. q \in Nat /\ p \in Nat
          BY <2>2, <2>3, <2>4, BlockBounds DEF Used
        <4>2. q - 1 = p - 1
          BY <3>4 DEF Interval
        <4> QED
          BY <4>1, <4>2
      <3>5. Intervals(myBlock', live') = Intervals(myBlock, live) \ {Interval(myBlock, p)}
        BY <2>1, <3>3, <3>4 DEF Intervals
      <3>6. Interval(myBlock, p) \in Intervals(myBlock, live)
        BY <2>4 DEF Intervals
      <3> QED
        BY <1>1, <3>5, <3>6 DEF Abstract!AllocNext, Abstract!Deallocate
    <2>5. CASE p \in stale
      <3>1. myBlock' = myBlock
        BY <2>1, <2>2, <2>3, <2>5, FreeAgain
      <3>2. live' = live
        BY <2>1, <2>3, <2>5 DEF StaleFree, InsideFree, Used
      <3> QED
        BY <3>1, <3>2, <1>2
    <2> QED
      BY <2>1, <2>4, <2>5
  <1>7. ASSUME NEW p \in Addresses, NEW w \in Junk, Write(p, w)
        PROVE  [Abstract!AllocNext]_{[lo |-> q - 1, hi |-> End(q) - 2] : q \in live}
    <2>1. live' = live
      BY <1>7 DEF Write
    <2>2. ASSUME NEW q \in live
          PROVE  myBlock'[q - 1].size = myBlock[q - 1].size
      <3>1. /\ p \in live
            /\ myBlock' = [a \in Addresses |->
                 IF a \in p..(p + length[p] - 1) THEN w ELSE myBlock[a]]
            /\ Tiled(myBlock, blocks)
        BY <1>7 DEF Write, HeapInv, Untouched
      <3>2. p \in blocks /\ q \in blocks
        BY <3>1 DEF HeapInv, UsedIsLive
      <3>3. /\ q \in Nat /\ q - 1 \in Addresses /\ p \in Nat
            /\ myBlock[p - 1].size \in Nat /\ myBlock[q - 1].size \in Nat
            /\ myBlock[q - 1].size >= 3
        BY <3>1, <3>2, BlockBounds
      <3>4. q # p => \/ p + myBlock[p - 1].size <= q
                     \/ q + myBlock[q - 1].size <= p
        BY <3>1, <3>2, BlocksApart
      <3>5. length[p] \in Nat /\ length[p] + 2 <= myBlock[p - 1].size
        BY <3>1 DEF HeapInv, HeapTypeOK, RoomForData, getSize, getHeader
      <3>6. q - 1 \notin p..(p + length[p] - 1)
        BY <3>3, <3>4, <3>5
      <3> QED
        BY <3>1, <3>3, <3>6
    <2> QED
      BY <2>1, <2>2, <1>2
  <1> QED
    BY <1>3, <1>4, <1>5, <1>6, <1>7 DEF Next

\* Whatever calls are made, the blocks that clients hold change only as first
\* fit on intervals allows.
THEOREM HeapImplementsFirstFit == Spec => ImplementsFirstFit
  <1>1. Init => Abstract!AllocInit
    BY DEF Init, Abstract!AllocInit
  <1>2. Init => SizeAsked
    BY DEF Init, SizeAsked
  <1>3. HeapInv /\ HeapInv' /\ SizeAsked /\ [Next]_heapVars =>
          [Abstract!AllocNext]_{[lo |-> p - 1, hi |-> End(p) - 2] : p \in live}
    BY FirstFitStep
  <1> QED
    BY <1>1, <1>2, <1>3, SizeAskedStep, HeapInvariant, PTL
      DEF Spec, ImplementsFirstFit, Abstract!AllocSpec

-----------------------------------------------------------------------------
(* The workloads of memgrind.c.                                            *)

Element == {Uninitialised} \union Nat

GrindTypeOK ==
  /\ workload \in Workloads \union {"none", "any", "undefined"}
  /\ pointers \in [Indices -> Element]
  /\ mallocCount \in 0..MAX
  /\ freeCount \in 0..MAX

\* The workloads do not write to what they allocate.
CleanHeap ==
  IF isInitialized THEN Clean(myBlock, blocks)
                   ELSE \A a \in Addresses : myBlock[a] = Tag(0, 0)

NothingWritten == workload \in Workloads \union {"none"} => CleanHeap

\* What is not freed yet is still in the array.
Held == {pointers[k] : k \in freeCount..(mallocCount - 1)}

HeldIsLive == workload \in Workloads => live \subseteq Held

\* Frees do not overtake mallocs, except that grindB frees one pointer again
\* and again; and no malloc is running when all is freed.
Progress ==
  workload \in Workloads =>
    /\ workload # "B" => freeCount <= mallocCount
    /\ workload = "B" => mallocCount <= 1 /\ (mallocCount = 0 => freeCount = 0)
    /\ pc = "findFit" => mallocCount < MAX /\ (workload = "B" => mallocCount = 0)

BetweenWorkloads ==
  workload = "none" => /\ live = {} /\ pc = "idle"
                       /\ mallocCount = 0 /\ freeCount = 0

UndefinedIsIdle == workload = "undefined" => pc = "idle"

GrindInv ==
  /\ HeapInv
  /\ GrindTypeOK
  /\ NothingWritten
  /\ HeldIsLive
  /\ Progress
  /\ BetweenWorkloads
  /\ UndefinedIsIdle

-----------------------------------------------------------------------------
(***************************************************************************)
(* Without client writes, every word that is no tag stays zero.            *)
(***************************************************************************)
LEMMA MymallocClean ==
  ASSUME HeapInv, CleanHeap, NEW n \in Nat, mymalloc(n)
  PROVE  CleanHeap'
  <1>1. isInitialized' = TRUE
    BY DEF mymalloc
  <1>2. CASE isInitialized
    <2>1. myBlock' = myBlock /\ blocks' = blocks
      BY <1>2 DEF mymalloc
    <2> QED
      BY <1>1, <1>2, <2>1 DEF CleanHeap
  <1>3. CASE ~isInitialized
    <2>1. myBlock' = initialize /\ blocks' = {FirstPtr}
      BY <1>3 DEF mymalloc
    <2>2. \A a \in Addresses : myBlock[a] = Tag(0, 0)
      BY <1>3 DEF CleanHeap
    <2>3. /\ initialize[FirstPtr - 1] = Tag(Words - 2, 0)
          /\ \A a \in Addresses \ {0, 1, Words - 2, Words - 1} :
               initialize[a] = myBlock[a]
      BY InitializeTiled DEF HeapInv, HeapTypeOK
    <2>4. initialize[FirstPtr - 1].size = Words - 2
      BY <2>3 DEF Tag
    <2>5. ASSUME NEW a \in Addresses, ~IsTag(initialize, {FirstPtr}, a)
          PROVE  initialize[a] = Tag(0, 0)
      <3>1. a \notin {0, Words - 1} /\ a # FirstPtr - 1
            /\ a # (FirstPtr + (Words - 2)) - 2
        BY <2>4, <2>5 DEF IsTag
      <3>2. a \notin {0, 1, Words - 2, Words - 1}
        BY <3>1, WordsNat DEF FirstPtr
      <3> QED
        BY <2>2, <2>3, <3>2
    <2>6. Clean(initialize, {FirstPtr})
      BY <2>5 DEF Clean
    <2> QED
      BY <1>1, <2>1, <2>6 DEF CleanHeap
  <1> QED
    BY <1>2, <1>3

LEMMA PlaceClean ==
  ASSUME HeapInv, CleanHeap, mallocPlace
  PROVE  CleanHeap'
  <1>1. /\ pc = "findFit" /\ getSize(myBlock, ptr) # 0 /\ Fits
        /\ myBlock' = place(myBlock)
        /\ blocks' = PlacedBlocks(myBlock, blocks)
        /\ isInitialized' = isInitialized
    BY DEF mallocPlace, PlacedBlocks
  <1>2. /\ isInitialized = TRUE /\ Tiled(myBlock, blocks) /\ ptr \in blocks
        /\ extendedSize \in Nat /\ extendedSize >= 3
        /\ Alternating(myBlock, blocks)
    BY <1>1, SearchFacts, ExtendedSizeBounds DEF HeapInv
  <1>3. myBlock[ptr - 1].alloc \in {0, 1} /\ myBlock[ptr - 1].size \in Nat
    BY <1>2, BlockBounds
  <1>4. myBlock[ptr - 1].alloc = 0 /\ myBlock[ptr - 1].size >= extendedSize
    BY <1>1, <1>3 DEF Fits, getAllocation, getSize, getHeader
  <1>5. Clean(myBlock, blocks) => Clean(myBlock', blocks')
    BY <1>1, <1>2, <1>4, PlaceBlock
  <1> QED
    BY <1>1, <1>2, <1>5 DEF CleanHeap

LEMMA MyfreeClean ==
  ASSUME HeapInv, CleanHeap, NEW p \in Addresses, myfree(p)
  PROVE  CleanHeap'
  <1>1. /\ pc = "idle" /\ p \in live \union stale
        /\ myBlock' = coalesce(MarkedFree(myBlock, p), p)
        /\ blocks' = blocks \ Swallowed(MarkedFree(myBlock, p), p)
        /\ isInitialized' = isInitialized
    BY DEF myfree, MarkedFree
  <1>2. isInitialized = TRUE /\ Tiled(myBlock, blocks)
    BY <1>1 DEF HeapInv, HeapTypeOK, Untouched
  <1>3. /\ Alternating(myBlock, blocks) /\ Used(myBlock, blocks) = live
        /\ stale \in SUBSET Addresses /\ StaleFree(myBlock, blocks, stale)
    BY DEF HeapInv, HeapTypeOK, UsedIsLive, Used, getAllocation, getHeader
  <1>4. Clean(myBlock, blocks)
    BY <1>2 DEF CleanHeap
  <1>5. Clean(myBlock', blocks')
    <2>1. CASE p \in live
      <3>1. p \in blocks /\ myBlock[p - 1].alloc = 1
        BY <2>1, <1>3 DEF Used
      <3>2. Freed(myBlock, blocks, p, stale, myBlock', blocks')
        BY <3>1, <1>1, <1>2, <1>3, FreeBlock
      <3> QED
        BY <3>2, <1>4 DEF Freed
    <2>2. CASE p \in stale
      BY <2>2, <1>1, <1>2, <1>3, <1>4, FreeAgain
    <2> QED
      BY <2>1, <2>2, <1>1
  <1> QED
    BY <1>1, <1>2, <1>5 DEF CleanHeap

LEMMA SearchClean ==
  ASSUME CleanHeap, findFitNext \/ mallocNull
  PROVE  CleanHeap'
BY DEF CleanHeap, findFitNext, mallocNull

-----------------------------------------------------------------------------
(***************************************************************************)
(* The array.                                                              *)
(***************************************************************************)
LEMMA MaxNat == MAX \in Nat /\ MAX > 0
BY MaxAssumption

\* A stored pointer joins those that are held.
LEMMA StoreHeld ==
  ASSUME GrindTypeOK, mallocCount < MAX, freeCount <= mallocCount,
         NEW p \in Element, StorePointer(p)
  PROVE  /\ Held \subseteq Held' /\ p \in Held'
         /\ GrindTypeOK' /\ workload' = workload
         /\ mallocCount' = mallocCount + 1 /\ freeCount' = freeCount
  <1>1. /\ pointers' = [pointers EXCEPT ![mallocCount] = p]
        /\ mallocCount' = mallocCount + 1
        /\ workload' = workload /\ freeCount' = freeCount
    BY DEF StorePointer
  <1>2. mallocCount \in Nat /\ freeCount \in Nat /\ mallocCount \in Indices
    BY MaxNat DEF GrindTypeOK, Indices
  <1>3. pointers'[mallocCount] = p
    BY <1>1, <1>2 DEF GrindTypeOK
  <1>4. \A k \in freeCount..(mallocCount - 1) : pointers'[k] = pointers[k]
    <2> TAKE k \in freeCount..(mallocCount - 1)
    <2>1. k \in Indices /\ k # mallocCount
      BY <1>2, MaxNat DEF Indices
    <2> QED
      BY <1>1, <2>1 DEF GrindTypeOK
  <1>5. freeCount'..(mallocCount' - 1) = (freeCount..(mallocCount - 1)) \union {mallocCount}
    BY <1>1, <1>2
  <1>6. Held \subseteq Held' /\ p \in Held'
    BY <1>3, <1>4, <1>5 DEF Held
  <1>7. GrindTypeOK'
    BY <1>1, <1>2, MaxNat DEF GrindTypeOK
  <1> QED
    BY <1>1, <1>6, <1>7

\* Pointers that clients hold are neither NULL nor unassigned elements.
LEMMA LiveIsPointer ==
  ASSUME HeapInv
  PROVE  NULL \notin live /\ Uninitialised \notin live
  <1>1. CASE isInitialized
    <2>1. live \subseteq blocks /\ Tiled(myBlock, blocks)
      BY <1>1 DEF HeapInv, UsedIsLive
    <2>2. \A p \in live : p \in Nat /\ p >= 2
      BY <2>1, BlockBounds
    <2> QED
      BY <2>2 DEF NULL, Uninitialised
  <1>2. CASE ~isInitialized
    BY <1>2 DEF HeapInv, Untouched
  <1> QED
    BY <1>1, <1>2

LEMMA MallocCase ==
  ASSUME GrindInv, workload \in Workloads, mallocCount < MAX,
         workload = "B" => mallocCount = 0, NEW n \in Nat, Malloc(n)
  PROVE  GrindInv'
  <1>1. mymalloc(n)
    BY DEF Malloc
  <1>2. HeapInv' /\ CleanHeap'
    BY <1>1, MymallocStep, MymallocClean DEF GrindInv, NothingWritten
  <1>3. live' = live /\ pc' \in {"idle", "findFit"} /\ pc = "idle"
    BY <1>1 DEF mymalloc
  <1>4. freeCount <= mallocCount /\ mallocCount \in Nat /\ freeCount \in Nat
    BY MaxNat DEF GrindInv, GrindTypeOK, Progress
  <1>5. workload # "none" /\ workload # "undefined"
    BY DEF Workloads
  <1>6. CASE pc' = "idle"
    <2>1. StorePointer(NULL)
      BY <1>6 DEF Malloc
    <2>2. /\ Held \subseteq Held' /\ GrindTypeOK' /\ workload' = workload
          /\ mallocCount' = mallocCount + 1 /\ freeCount' = freeCount
      BY <2>1, <1>4, StoreHeld DEF GrindInv, Element, NULL
    <2>3. HeldIsLive'
      BY <2>2, <1>3 DEF GrindInv, HeldIsLive
    <2>4. Progress'
      BY <2>2, <1>4, <1>6 DEF GrindInv, Progress
    <2> QED
      BY <2>2, <2>3, <2>4, <1>2, <1>5 DEF GrindInv, NothingWritten,
         BetweenWorkloads, UndefinedIsIdle
  <1>7. CASE pc' = "findFit"
    <2>1. UNCHANGED grindVars
      BY <1>7 DEF Malloc
    <2>2. /\ workload' = workload /\ pointers' = pointers
          /\ mallocCount' = mallocCount /\ freeCount' = freeCount
      BY <2>1 DEF grindVars
    <2>3. Held' = Held
      BY <2>2 DEF Held
    <2>4. GrindTypeOK'
      BY <2>2 DEF GrindInv, GrindTypeOK
    <2>5. HeldIsLive'
      BY <2>2, <2>3, <1>3 DEF GrindInv, HeldIsLive
    <2>6. Progress'
      BY <2>2, <1>3 DEF GrindInv, Progress
    <2> QED
      BY <2>2, <2>4, <2>5, <2>6, <1>2, <1>5 DEF GrindInv, NothingWritten,
         BetweenWorkloads, UndefinedIsIdle
  <1> QED
    BY <1>3, <1>6, <1>7

LEMMA MallocReturnsCase ==
  ASSUME GrindInv, MallocReturns
  PROVE  GrindInv'
  <1>1. pc = "findFit" /\ workload # "any"
    BY DEF MallocReturns, findFitNext, mallocNull, mallocPlace
  <1>2. workload \in Workloads
    BY <1>1 DEF GrindInv, GrindTypeOK, BetweenWorkloads, UndefinedIsIdle
  <1>3. workload # "none" /\ workload # "undefined"
    BY <1>2 DEF Workloads
  <1>4. /\ freeCount <= mallocCount /\ mallocCount \in Nat /\ freeCount \in Nat
        /\ mallocCount < MAX
    BY <1>1, <1>2, MaxNat DEF GrindInv, GrindTypeOK, Progress
  <1>5. CASE findFitNext /\ UNCHANGED grindVars
    <2>1. /\ workload' = workload /\ pointers' = pointers
          /\ mallocCount' = mallocCount /\ freeCount' = freeCount
          /\ live' = live /\ pc' = pc
      BY <1>5 DEF grindVars, findFitNext
    <2>2. HeapInv' /\ CleanHeap'
      BY <1>2, <1>5, FindFitNextStep, SearchClean DEF GrindInv, NothingWritten
    <2>3. Held' = Held /\ GrindTypeOK'
      BY <2>1 DEF Held, GrindInv, GrindTypeOK
    <2>4. HeldIsLive' /\ Progress'
      BY <2>1, <2>3 DEF GrindInv, HeldIsLive, Progress
    <2> QED
      BY <2>1, <2>2, <2>3, <2>4, <1>3 DEF GrindInv, NothingWritten,
         BetweenWorkloads, UndefinedIsIdle
  <1>6. ASSUME NEW p \in Element, StorePointer(p), live' \subseteq live \union {p},
               pc' = "idle", HeapInv', CleanHeap'
        PROVE  GrindInv'
    <2>1. /\ Held \subseteq Held' /\ p \in Held' /\ GrindTypeOK'
          /\ workload' = workload
          /\ mallocCount' = mallocCount + 1 /\ freeCount' = freeCount
      BY <1>4, <1>6, StoreHeld DEF GrindInv
    <2>2. HeldIsLive'
      BY <2>1, <1>2, <1>6 DEF GrindInv, HeldIsLive
    <2>3. Progress'
      BY <2>1, <1>1, <1>2, <1>4, <1>6 DEF GrindInv, Progress
    <2> QED
      BY <2>1, <2>2, <2>3, <1>3, <1>6 DEF GrindInv, NothingWritten,
         BetweenWorkloads, UndefinedIsIdle
  <1>7. CASE mallocNull /\ StorePointer(NULL)
    <2>1. HeapInv' /\ CleanHeap'
      BY <1>2, <1>7, MallocNullStep, SearchClean DEF GrindInv, NothingWritten
    <2>2. live' = live /\ pc' = "idle"
      BY <1>7 DEF mallocNull
    <2>3. NULL \in Element
      BY DEF NULL, Element
    <2> QED
      BY <2>1, <2>2, <2>3, <1>6, <1>7
  <1>8. CASE mallocPlace /\ StorePointer(ptr)
    <2>1. HeapInv' /\ CleanHeap'
      BY <1>2, <1>8, MallocPlaceStep, PlaceClean DEF GrindInv, NothingWritten
    <2>2. live' = live \union {ptr} /\ pc' = "idle"
      BY <1>8 DEF mallocPlace
    <2>3. ptr \in Element
      BY DEF GrindInv, HeapInv, HeapTypeOK, Element
    <2> QED
      BY <2>1, <2>2, <2>3, <1>6, <1>8
  <1> QED
    BY <1>5, <1>7, <1>8 DEF MallocReturns

LEMMA FreeCase ==
  ASSUME GrindInv, workload \in Workloads, freeCount < MAX, NEW k \in Indices,
         workload # "B" => k = freeCount /\ freeCount < mallocCount,
         workload = "B" => k = 0 /\ mallocCount = 1, Free(k)
  PROVE  GrindInv'
  <1>0. /\ mallocCount \in Nat /\ freeCount \in Nat /\ pc = "idle"
        /\ workload # "none"
    BY MaxNat DEF GrindInv, GrindTypeOK, Free, Workloads
  <1>1. ASSUME HeapInv', CleanHeap', live' = live \ {pointers[k]}, pc' = "idle",
               CountFree
        PROVE  GrindInv'
    <2>1. /\ freeCount' = freeCount + 1 /\ workload' = workload
          /\ pointers' = pointers /\ mallocCount' = mallocCount
      BY <1>1 DEF CountFree
    <2>2. HeldIsLive'
      <3>1. ASSUME NEW p \in live, p # pointers[k]
            PROVE  p \in Held'
        <4>1. PICK i \in freeCount..(mallocCount - 1) : p = pointers[i]
          BY DEF GrindInv, HeldIsLive, Held
        <4>2. i # k
          BY <3>1, <4>1
        <4>3. i # freeCount
          <5>1. CASE workload # "B"
            BY <4>2, <5>1
          <5>2. CASE workload = "B"
            BY <4>1, <4>2, <5>2, <1>0
          <5> QED
            BY <5>1, <5>2
        <4>4. i \in (freeCount + 1)..(mallocCount - 1)
          BY <4>1, <4>3, <1>0
        <4> QED
          BY <4>1, <4>4, <2>1 DEF Held
      <3> QED
        BY <3>1, <1>1 DEF HeldIsLive
    <2>3. Progress'
      BY <2>1, <1>0, <1>1 DEF GrindInv, Progress
    <2>4. GrindTypeOK'
      BY <2>1, <1>0, MaxNat DEF GrindInv, GrindTypeOK
    <2> QED
      BY <2>1, <2>2, <2>3, <2>4, <1>0, <1>1 DEF GrindInv, NothingWritten,
         BetweenWorkloads, UndefinedIsIdle
  <1>2. CASE pointers[k] \in Addresses \ {NULL} /\ myfree(pointers[k]) /\ CountFree
    <2>1. HeapInv' /\ CleanHeap'
      BY <1>2, MyfreeStep, MyfreeClean DEF GrindInv, NothingWritten
    <2>2. live' = live \ {pointers[k]} /\ pc' = "idle"
      BY <1>0, <1>2 DEF myfree
    <2> QED
      BY <2>1, <2>2, <1>1, <1>2
  <1>3. ASSUME UNCHANGED heapVars
        PROVE  HeapInv' /\ CleanHeap' /\ live' = live /\ pc' = "idle"
    <2>1. HeapInv'
      BY <1>3, HeapStutter DEF GrindInv
    <2>2. CleanHeap'
      BY <1>3 DEF GrindInv, NothingWritten, CleanHeap, heapVars
    <2> QED
      BY <2>1, <2>2, <1>0, <1>3 DEF heapVars
  <1>4. CASE pointers[k] = NULL /\ CountFree /\ UNCHANGED heapVars
    <2>1. NULL \notin live
      BY LiveIsPointer DEF GrindInv
    <2> QED
      BY <2>1, <1>1, <1>3, <1>4
  <1>5. CASE /\ pointers[k] = Uninitialised /\ FreeUninitialised
             /\ UNCHANGED heapVars
    <2>1. Uninitialised \notin live
      BY LiveIsPointer DEF GrindInv
    <2>2. CASE CountFree
      BY <2>1, <2>2, <1>1, <1>3, <1>5
    <2>3. CASE /\ workload' = "undefined"
               /\ UNCHANGED <<pointers, mallocCount, freeCount>>
      <3>1. workload' \notin Workloads /\ workload' # "none"
        BY <2>3 DEF Workloads
      <3>2. GrindTypeOK'
        BY <2>3 DEF GrindInv, GrindTypeOK
      <3> QED
        BY <3>1, <3>2, <1>3, <1>5 DEF GrindInv, NothingWritten, HeldIsLive,
           Progress, BetweenWorkloads, UndefinedIsIdle
    <2> QED
      BY <2>2, <2>3, <1>5 DEF FreeUninitialised
  <1> QED
    BY <1>2, <1>4, <1>5 DEF Free

-----------------------------------------------------------------------------
(***************************************************************************)
(* The workloads.                                                          *)
(***************************************************************************)
\* In grindE an element can stay unassigned.
LEMMA SkipCase ==
  ASSUME GrindInv, workload = "E", mallocCount < MAX, pc = "idle",
         StorePointer(Uninitialised), UNCHANGED heapVars
  PROVE  GrindInv'
  <1>1. /\ freeCount <= mallocCount /\ mallocCount \in Nat /\ freeCount \in Nat
        /\ workload \in Workloads
    BY MaxNat DEF GrindInv, GrindTypeOK, Progress, Workloads
  <1>2. /\ Held \subseteq Held' /\ GrindTypeOK' /\ workload' = workload
        /\ mallocCount' = mallocCount + 1 /\ freeCount' = freeCount
    BY <1>1, StoreHeld DEF GrindInv, Element
  <1>3. HeapInv' /\ CleanHeap' /\ live' = live /\ pc' = "idle"
    <2>1. HeapInv'
      BY HeapStutter DEF GrindInv
    <2> QED
      BY <2>1, <1>1 DEF GrindInv, NothingWritten, CleanHeap, heapVars
  <1>4. HeldIsLive'
    BY <1>1, <1>2, <1>3 DEF GrindInv, HeldIsLive
  <1>5. Progress'
    BY <1>1, <1>2, <1>3 DEF GrindInv, Progress
  <1> QED
    BY <1>2, <1>3, <1>4, <1>5 DEF GrindInv, NothingWritten, BetweenWorkloads,
       UndefinedIsIdle

LEMMA RandomOrderCase ==
  ASSUME GrindInv, workload \in Workloads, workload # "B",
         NEW sizes \in SUBSET Nat, RandomOrder(sizes)
  PROVE  GrindInv'
  <1>0. freeCount \in 0..MAX /\ mallocCount \in 0..MAX
    BY DEF GrindInv, GrindTypeOK
  <1>1. CASE mallocCount < MAX /\ \E n \in sizes : Malloc(n)
    BY <1>1, MallocCase
  <1>2. CASE freeCount < mallocCount /\ Free(freeCount)
    <2>1. freeCount < MAX /\ freeCount \in Indices
      BY <1>0, <1>2, MaxNat DEF Indices
    <2> QED
      BY <2>1, <1>2, FreeCase
  <1> QED
    BY <1>1, <1>2 DEF RandomOrder

\* One rule for grindA and grindE: all mallocs come before all frees.
LEMMA FreeAllCase ==
  ASSUME GrindInv, workload \in Workloads, workload # "B",
         mallocCount = MAX, freeCount < MAX, Free(freeCount)
  PROVE  GrindInv'
  <1>1. freeCount \in Indices
    BY MaxNat DEF GrindInv, GrindTypeOK, Indices
  <1> QED
    BY <1>1, FreeCase

LEMMA GrindCase ==
  ASSUME GrindInv, Grind
  PROVE  GrindInv'
  <1>0. /\ freeCount \in 0..MAX /\ mallocCount \in 0..MAX
        /\ MAX \in Nat /\ MAX > 0 /\ MAX \div 2 <= MAX /\ MAX \div 2 \in Nat
    BY MaxNat DEF GrindInv, GrindTypeOK
  <1>1. CASE workload = "A" /\ grindA
    <2>1. workload \in Workloads /\ workload # "B"
      BY <1>1 DEF Workloads
    <2>2. CASE mallocCount < MAX /\ Malloc(1)
      BY <2>1, <2>2, MallocCase
    <2> QED
      BY <2>1, <2>2, <1>1, FreeAllCase DEF grindA
  <1>2. CASE workload = "B" /\ grindB
    <2>1. workload \in Workloads
      BY <1>2 DEF Workloads
    <2>2. CASE mallocCount = 0 /\ Malloc(1)
      BY <2>1, <2>2, <1>0, MallocCase
    <2>3. CASE mallocCount = 1 /\ freeCount < MAX /\ Free(0)
      <3>1. 0 \in Indices
        BY <1>0 DEF Indices
      <3> QED
        BY <2>1, <2>3, <3>1, <1>2, FreeCase
    <2> QED
      BY <2>2, <2>3, <1>2 DEF grindB
  <1>3. CASE workload = "C" /\ grindC
    <2>1. workload \in Workloads /\ workload # "B"
      BY <1>3 DEF Workloads
    <2>2. {1} \in SUBSET Nat
      OBVIOUS
    <2> QED
      BY <2>1, <2>2, <1>3, RandomOrderCase DEF grindC
  <1>4. CASE workload = "D" /\ grindD
    <2>1. workload \in Workloads /\ workload # "B"
      BY <1>4 DEF Workloads
    <2>2. {n \in Sizes : n <= MEMSIZE} \in SUBSET Nat
      BY SizesAssumption
    <2> QED
      BY <2>1, <2>2, <1>4, RandomOrderCase DEF grindD
  <1>5. CASE workload = "E" /\ grindE
    <2>1. workload \in Workloads /\ workload # "B"
      BY <1>5 DEF Workloads
    <2>2. ASSUME mallocCount < MAX, NEW r \in RandSizes, NEW z \in sizeofs,
                 Malloc(r * z)
          PROVE  GrindInv'
      <3>1. r * z \in Nat
        <4>1. r \in Nat /\ z \in Nat
          BY RandSizesAssumption DEF sizeofs
        <4> QED
          BY <4>1
      <3> QED
        BY <2>1, <2>2, <3>1, MallocCase
    <2>3. CASE /\ mallocCount < MAX /\ pc = "idle"
               /\ StorePointer(Uninitialised) /\ UNCHANGED heapVars
      BY <2>3, <1>5, SkipCase
    <2> QED
      BY <2>1, <2>2, <2>3, <1>5, FreeAllCase DEF grindE
  <1>6. CASE workload = "F" /\ grindF
    <2>1. workload \in Workloads /\ workload # "B"
      BY <1>6 DEF Workloads
    <2>2. CASE mallocCount < MAX /\ Malloc(grindFSize(mallocCount))
      <3>1. grindFSize(mallocCount) \in Nat
        <4>1. CASE mallocCount < MAX \div 2
          BY <4>1, <1>0 DEF grindFSize
        <4>2. CASE ~(mallocCount < MAX \div 2)
          <5>1. MAX - mallocCount \in Nat
            BY <2>2, <1>0
          <5>2. grindFSize(mallocCount) = 10 + 5 * (MAX - mallocCount)
            BY <4>2 DEF grindFSize
          <5> QED
            BY <5>1, <5>2
        <4> QED
          BY <4>1, <4>2
      <3> QED
        BY <2>1, <2>2, <3>1, MallocCase
    <2>3. CASE freeCount < mallocCount /\ Free(freeCount)
      <3>1. freeCount < MAX /\ freeCount \in Indices
        BY <2>3, <1>0 DEF Indices
      <3> QED
        BY <2>1, <2>3, <3>1, FreeCase
    <2> QED
      BY <2>2, <2>3, <1>6 DEF grindF
  <1> QED
    BY <1>1, <1>2, <1>3, <1>4, <1>5, <1>6 DEF Grind

LEMMA CallGrindCase ==
  ASSUME GrindInv, NEW w \in Workloads, callGrind(w)
  PROVE  GrindInv'
  <1>1. /\ workload = "none" /\ workload' = w /\ UNCHANGED heapVars
        /\ UNCHANGED <<pointers, mallocCount, freeCount>>
    BY DEF callGrind
  <1>2. HeapInv'
    BY <1>1, HeapStutter DEF GrindInv
  <1>3. CleanHeap' /\ live' = {} /\ pc' = "idle" /\ mallocCount' = 0 /\ freeCount' = 0
    BY <1>1 DEF GrindInv, NothingWritten, CleanHeap, heapVars, BetweenWorkloads
  <1>4. GrindTypeOK'
    BY <1>1 DEF GrindInv, GrindTypeOK
  <1>5. w # "none" /\ w # "undefined"
    BY DEF Workloads
  <1> QED
    BY <1>1, <1>2, <1>3, <1>4, <1>5 DEF GrindInv, NothingWritten, HeldIsLive,
       Progress, BetweenWorkloads, UndefinedIsIdle

LEMMA GrindReturnsCase ==
  ASSUME GrindInv, GrindReturns
  PROVE  GrindInv'
  <1>1. /\ workload \in Workloads /\ freeCount = MAX /\ workload' = "none"
        /\ pointers' = [k \in Indices |-> Uninitialised]
        /\ mallocCount' = 0 /\ freeCount' = 0 /\ UNCHANGED heapVars
    BY DEF GrindReturns
  <1>2. mallocCount \in 0..MAX /\ MAX \in Nat /\ MAX > 0
    BY MaxNat DEF GrindInv, GrindTypeOK
  <1>3. live = {}
    <2>1. freeCount..(mallocCount - 1) = {}
      BY <1>1, <1>2
    <2> QED
      BY <1>1, <2>1 DEF GrindInv, HeldIsLive, Held
  <1>4. pc = "idle"
    <2>1. ASSUME pc = "findFit"
          PROVE  FALSE
      BY <1>1, <1>2, <2>1 DEF GrindInv, Progress
    <2> QED
      BY <2>1 DEF GrindInv, HeapInv, HeapTypeOK
  <1>5. HeapInv'
    BY <1>1, HeapStutter DEF GrindInv
  <1>6. CleanHeap' /\ live' = {} /\ pc' = "idle"
    BY <1>1, <1>3, <1>4 DEF GrindInv, NothingWritten, CleanHeap, heapVars
  <1>7. GrindTypeOK'
    BY <1>1, <1>2 DEF GrindTypeOK, Element
  <1>8. "none" \notin Workloads
    BY DEF Workloads
  <1> QED
    BY <1>1, <1>5, <1>6, <1>7, <1>8 DEF GrindInv, NothingWritten, HeldIsLive,
       Progress, BetweenWorkloads, UndefinedIsIdle

LEMMA AnyCase ==
  ASSUME GrindInv, AnyClient
  PROVE  GrindInv'
  <1>1. workload = "any" /\ Next /\ UNCHANGED grindVars
    BY DEF AnyClient
  <1>2. HeapInv'
    BY <1>1, HeapStep DEF GrindInv
  <1>3. GrindTypeOK' /\ workload' = "any"
    BY <1>1 DEF grindVars, GrindInv, GrindTypeOK
  <1>4. "any" \notin Workloads
    BY DEF Workloads
  <1> QED
    BY <1>2, <1>3, <1>4 DEF GrindInv, NothingWritten, HeldIsLive, Progress,
       BetweenWorkloads, UndefinedIsIdle

LEMMA GrindStutter ==
  ASSUME GrindInv, UNCHANGED memgrindVars
  PROVE  GrindInv'
  <1>1. UNCHANGED heapVars /\ UNCHANGED grindVars
    BY DEF memgrindVars
  <1>2. HeapInv'
    BY <1>1, HeapStutter DEF GrindInv
  <1>3. CleanHeap' = CleanHeap /\ live' = live /\ pc' = pc
    BY <1>1 DEF CleanHeap, heapVars
  <1>4. /\ workload' = workload /\ pointers' = pointers
        /\ mallocCount' = mallocCount /\ freeCount' = freeCount
    BY <1>1 DEF grindVars
  <1> QED
    BY <1>2, <1>3, <1>4 DEF GrindInv, GrindTypeOK, NothingWritten, HeldIsLive,
       Held, Progress, BetweenWorkloads, UndefinedIsIdle

LEMMA GrindInit == MemgrindInit => GrindInv
  <1> SUFFICES ASSUME MemgrindInit PROVE GrindInv
    OBVIOUS
  <1>1. HeapInv
    BY HeapInit DEF MemgrindInit
  <1>2. GrindTypeOK
    BY MaxNat DEF MemgrindInit, GrindTypeOK, Element
  <1>3. CleanHeap
    BY DEF MemgrindInit, Init, CleanHeap, Tag
  <1>4. /\ workload \in {"none", "any"} /\ live = {} /\ pc = "idle"
        /\ mallocCount = 0 /\ freeCount = 0
    BY DEF MemgrindInit, Init
  <1>5. workload \notin Workloads /\ workload # "undefined"
    BY <1>4 DEF Workloads
  <1> QED
    BY <1>1, <1>2, <1>3, <1>4, <1>5 DEF GrindInv, NothingWritten, HeldIsLive,
       Progress, BetweenWorkloads, UndefinedIsIdle

LEMMA GrindStep == GrindInv /\ [MemgrindNext]_memgrindVars => GrindInv'
  <1> SUFFICES ASSUME GrindInv, [MemgrindNext]_memgrindVars PROVE GrindInv'
    OBVIOUS
  <1>1. CASE Grind
    BY <1>1, GrindCase
  <1>2. CASE MallocReturns
    BY <1>2, MallocReturnsCase
  <1>3. CASE \E w \in Workloads : callGrind(w)
    BY <1>3, CallGrindCase
  <1>4. CASE GrindReturns
    BY <1>4, GrindReturnsCase
  <1>5. CASE AnyClient
    BY <1>5, AnyCase
  <1>6. CASE WildFree \/ UNCHANGED memgrindVars
    BY <1>6, GrindStutter DEF WildFree
  <1> QED
    BY <1>1, <1>2, <1>3, <1>4, <1>5, <1>6 DEF MemgrindNext

-----------------------------------------------------------------------------
(***************************************************************************)
(* The theorems.                                                           *)
(***************************************************************************)
\* GrindInv holds in every state of memgrind, and of any other client.
THEOREM GrindInvariant == MemgrindSpec => []GrindInv
BY GrindInit, GrindStep, PTL DEF MemgrindSpec

\* If nobody holds a block, all memory is one free block.
LEMMA EmptyHeapIsOneBlock ==
  ASSUME HeapInv, isInitialized, live = {}
  PROVE  blocks = {FirstPtr} /\ myBlock[FirstPtr - 1] = Tag(Words - 2, 0)
  <1> DEFINE s == myBlock[FirstPtr - 1].size
  <1>1. Tiled(myBlock, blocks) /\ Alternating(myBlock, blocks) /\ FirstPtr \in blocks
    BY DEF HeapInv, Tiled
  <1>2. ASSUME NEW q \in blocks
        PROVE  myBlock[q - 1].alloc = 0
    <2>1. myBlock[q - 1].alloc # 1
      BY DEF HeapInv, UsedIsLive, getAllocation, getHeader
    <2> QED
      BY <2>1, <1>1, BlockBounds
  <1>3. FirstPtr + s \notin blocks
    BY <1>1, <1>2 DEF Alternating
  <1>4. FirstPtr + s = Words
    BY <1>1, <1>3 DEF Tiled
  <1>5. s \in Nat /\ FirstPtr = 2 /\ s = Words - 2
    <2>1. s \in Nat
      BY <1>1, BlockBounds
    <2> HIDE DEF s
    <2> QED
      BY <1>4, <2>1, WordsNat DEF FirstPtr
  <1>6. ASSUME NEW q \in blocks, q # FirstPtr
        PROVE  FALSE
    <2>1. q \in Nat /\ q >= 2 /\ myBlock[q - 1].size \in Nat
          /\ myBlock[q - 1].size >= 3 /\ q + myBlock[q - 1].size <= Words
      BY <1>1, BlockBounds
    <2>2. FirstPtr + s <= q \/ q + myBlock[q - 1].size <= FirstPtr
      BY <1>1, <1>6, BlocksApart
    <2> HIDE DEF s
    <2> QED
      BY <2>1, <2>2, <1>4, <1>5, WordsNat
  <1>7. myBlock[FirstPtr - 1] = Tag(Words - 2, 0)
    <2>1. myBlock[FirstPtr - 1] \in Word
      BY <1>1, BlockBounds
    <2>2. myBlock[FirstPtr - 1].alloc = 0
      BY <1>1, <1>2
    <2>3. myBlock[FirstPtr - 1] = Tag(s, 0)
      BY <2>1, <2>2 DEF Word, Tag
    <2> QED
      BY <2>3, <1>5
  <1> QED
    BY <1>1, <1>6, <1>7

\* Whatever workload ran, with arrays of any length and blocks of any size, the
\* memory is afterwards what initialize made of it.
THEOREM GrindRestores == MemgrindSpec => []GrindRestoresHeap
  <1>1. GrindInv => GrindRestoresHeap
    <2> SUFFICES ASSUME GrindInv, workload = "none", isInitialized
                 PROVE  /\ live = {} /\ blocks = {FirstPtr}
                        /\ \A a \in Addresses :
                             myBlock[a] =
                               CASE a \in {0, Words - 1} -> [size |-> 0, alloc |-> 1]
                                 [] a \in {1, Words - 2} -> [size |-> Words - 2, alloc |-> 0]
                                 [] OTHER -> [size |-> 0, alloc |-> 0]
      BY DEF GrindRestoresHeap
    <2>1. live = {} /\ Clean(myBlock, blocks) /\ Tiled(myBlock, blocks)
      BY DEF GrindInv, BetweenWorkloads, NothingWritten, CleanHeap, HeapInv
    <2>2. blocks = {FirstPtr} /\ myBlock[FirstPtr - 1] = Tag(Words - 2, 0)
      BY <2>1, EmptyHeapIsOneBlock DEF GrindInv
    <2>3. /\ myBlock[0] = Tag(0, 1) /\ myBlock[Words - 1] = Tag(0, 1)
          /\ myBlock[1] = Tag(Words - 2, 0) /\ myBlock[Words - 2] = Tag(Words - 2, 0)
      <3>1. FirstPtr - 1 = 1 /\ myBlock[FirstPtr - 1].size = Words - 2
            /\ FirstPtr + (Words - 2) - 2 = Words - 2
        BY <2>2, WordsNat DEF FirstPtr, Tag
      <3>2. myBlock[FirstPtr + myBlock[FirstPtr - 1].size - 2] = myBlock[FirstPtr - 1]
        BY <2>1, <2>2 DEF Tiled
      <3>3. myBlock[Words - 2] = myBlock[FirstPtr - 1]
        BY <3>1, <3>2
      <3> QED
        BY <2>1, <2>2, <3>1, <3>3 DEF Tiled
    <2>4. ASSUME NEW a \in Addresses, a \notin {0, 1, Words - 2, Words - 1}
          PROVE  myBlock[a] = Tag(0, 0)
      <3>1. ~IsTag(myBlock, blocks, a)
        <4>1. myBlock[FirstPtr - 1].size = Words - 2
          BY <2>2 DEF Tag
        <4>2. a # FirstPtr - 1 /\ a # (FirstPtr + (Words - 2)) - 2
          BY <2>4, WordsNat DEF FirstPtr
        <4> QED
          BY <2>2, <2>4, <4>1, <4>2 DEF IsTag
      <3> QED
        BY <2>1, <3>1 DEF Clean
    <2> QED
      BY <2>1, <2>2, <2>3, <2>4, WordsNat DEF Tag
  <1> QED
    BY <1>1, GrindInvariant, PTL
=============================================================================
