-------------------------------- MODULE Heap --------------------------------
(***************************************************************************)
(* VSmymalloc/mymalloc.c: a first-fit allocator over a static block of     *)
(* MEMSIZE bytes with boundary tags.  Everything the allocator reads and   *)
(* writes is aligned to HDRSIZE = 4 bytes, so memory is a row of words and *)
(* sizes and pointers are counted in words; only the client's request is   *)
(* in bytes.  A word is a size and an allocation bit, for the client's     *)
(* data too: what a client writes may look like a tag.                     *)
(*                                                                         *)
(* findFit's walk is one step per block.  There is one thread.             *)
(***************************************************************************)
EXTENDS Integers, FiniteSets

CONSTANTS
  MEMSIZE,       \* size of the block in bytes
  Sizes,         \* arguments of mymalloc, in bytes
  Junk           \* words that clients write

HDRSIZE == 4

Words == MEMSIZE \div HDRSIZE

ASSUME MemsizeAssumption ==
  /\ MEMSIZE \in Nat
  /\ MEMSIZE % HDRSIZE = 0
  /\ Words > 5

ASSUME SizesAssumption == Sizes \subseteq Nat

Word == [size : 0..Words, alloc : {0, 1}]

\* Stands for "not written yet" in data below.
Unwritten == [size |-> 0, alloc |-> 0]

ASSUME JunkAssumption == Junk \subseteq Word \ {Unwritten}

Addresses == 0..(Words - 1)

NULL == 0

VARIABLES
  myBlock,         \* the memory
  isInitialized,
  pc,              \* "idle", or "findFit" while a mymalloc is searching
  size,            \* the running mymalloc's argument, in bytes
  ptr,             \* findFit's local variable
  live,            \* pointers handed out and not freed
  stale,           \* pointers freed since the last block was handed out
  data,            \* what the client last wrote through each live pointer
  length,          \* how many words the client asked for
  blocks           \* history: the pointers of all blocks, used or free

heapVars == <<myBlock, isInitialized, pc, size, ptr, live, stale, data, length,
              blocks>>

-----------------------------------------------------------------------------
(***************************************************************************)
(* Tags.  A block's pointer is the word after its header; m is a memory.   *)
(***************************************************************************)
getHeader(p) == p - 1

getSize(m, p) == m[getHeader(p)].size

getAllocation(m, p) == m[getHeader(p)].alloc

getFooter(m, p) == p + getSize(m, p) - 2

setValue(m, w, n, bit) == [m EXCEPT ![w] = [size |-> n, alloc |-> bit]]

\* (mutant: the prologue is taken for a block)
getPrevious_NoPrologue(m, p) == p - m[p - 2].size

\* NULL at the prologue, whose size is 0.
getPrevious(m, p) ==
  LET n == m[p - 2].size IN IF n = 0 THEN NULL ELSE p - n

\* (mutant: the next block is never looked at)
getNext_Null(m, p) == NULL

\* NULL at the epilogue.
getNext(m, p) ==
  LET next == p + getSize(m, p) IN
  IF getSize(m, next) = 0 /\ getAllocation(m, next) = 1 THEN NULL ELSE next

initialize ==
  LET memorySize == Words - 2
      epilogue   == Words - 1
      m1 == setValue(myBlock, 0, 0, 1)
      m2 == setValue(m1, epilogue, 0, 1)
      m3 == setValue(m2, 1, memorySize, 0)
  IN  setValue(m3, epilogue - 1, memorySize, 0)

FirstPtr == 2

Init ==
  /\ myBlock = [w \in Addresses |-> [size |-> 0, alloc |-> 0]]
  /\ isInitialized = FALSE
  /\ pc = "idle"
  /\ size = 0
  /\ ptr = NULL
  /\ live = {}
  /\ stale = {}
  /\ data = [w \in Addresses |-> Unwritten]
  /\ length = [w \in Addresses |-> 0]
  /\ blocks = {}

-----------------------------------------------------------------------------
(***************************************************************************)
(* mymalloc: the size is rounded up to words and gets a header and footer. *)
(***************************************************************************)
PayloadWords(n) == (n + HDRSIZE - 1) \div HDRSIZE

\* (mutant: no room for the footer)
ExtendedSize_NoFooter(n) == PayloadWords(n) + 1

ExtendedSize(n) == PayloadWords(n) + 2

extendedSize == ExtendedSize(size)

mymalloc(n) ==
  /\ pc = "idle"
  /\ myBlock' = IF isInitialized THEN myBlock ELSE initialize
  /\ blocks' = IF isInitialized THEN blocks ELSE {FirstPtr}
  /\ isInitialized' = TRUE
  /\ IF n = 0 \/ n > MEMSIZE
       THEN UNCHANGED <<pc, size, ptr>>
       ELSE /\ size' = n
            /\ ptr' = FirstPtr
            /\ pc' = "findFit"
  /\ UNCHANGED <<live, stale, data, length>>

\* (mutant: an exact fit is not accepted)
Fits_Strict ==
  getAllocation(myBlock, ptr) # 1 /\ getSize(myBlock, ptr) > extendedSize

Fits == getAllocation(myBlock, ptr) # 1 /\ getSize(myBlock, ptr) >= extendedSize

\* (mutant: the walk does not move)
findFitNext_Stuck ==
  /\ pc = "findFit"
  /\ getSize(myBlock, ptr) # 0
  /\ ~Fits
  /\ UNCHANGED heapVars

\* findFit goes on to the next block.
findFitNext ==
  /\ pc = "findFit"
  /\ getSize(myBlock, ptr) # 0
  /\ ~Fits
  /\ ptr' = ptr + getSize(myBlock, ptr)
  /\ UNCHANGED <<myBlock, isInitialized, pc, size, live, stale, data,
                 length, blocks>>

\* findFit reached the epilogue: mymalloc returns NULL.
mallocNull ==
  /\ pc = "findFit"
  /\ getSize(myBlock, ptr) = 0
  /\ pc' = "idle"
  /\ ptr' = NULL
  /\ size' = 0
  /\ UNCHANGED <<myBlock, isInitialized, live, stale, data,
                 length, blocks>>

\* (mutants: any remainder is split off; a remainder of three words is not)
Splits_Any(oldSize) == oldSize - extendedSize > 0

Splits_Late(oldSize) == oldSize - extendedSize > 3

\* findFit returned a block: it is split when more than two words remain.
Splits(oldSize) == oldSize - extendedSize > 2

\* (mutant: a block used as a whole is not marked)
place_Unmarked(m) ==
  LET oldSize == getSize(m, ptr) IN
  setValue(setValue(m, getHeader(ptr), oldSize, 0), getFooter(m, ptr), oldSize, 0)

place(m) ==
  LET oldSize    == getSize(m, ptr)
      difference == oldSize - extendedSize
      footer     == ptr + extendedSize - 2
      m1 == setValue(m, getFooter(m, ptr), difference, 0)
      m2 == setValue(m1, getHeader(ptr), extendedSize, 1)
      m3 == setValue(m2, footer, extendedSize, 1)
  IN  IF Splits(oldSize)
      THEN setValue(m3, footer + 1, difference, 0)
      ELSE setValue(setValue(m, getHeader(ptr), oldSize, 1),
                    getFooter(m, ptr), oldSize, 1)

mallocPlace ==
  /\ pc = "findFit"
  /\ getSize(myBlock, ptr) # 0
  /\ Fits
  /\ myBlock' = place(myBlock)
  /\ blocks' = IF Splits(getSize(myBlock, ptr))
               THEN blocks \union {ptr + extendedSize} ELSE blocks
  /\ live' = live \union {ptr}
  /\ stale' = {}
  /\ length' = [length EXCEPT ![ptr] = PayloadWords(size)]
  /\ pc' = "idle"
  /\ ptr' = NULL
  /\ size' = 0
  /\ UNCHANGED <<isInitialized, data>>

-----------------------------------------------------------------------------
(***************************************************************************)
(* myfree and coalesce.                                                    *)
(***************************************************************************)
coalesce(m, p) ==
  LET previous      == getPrevious(m, p)
      next          == getNext(m, p)
      allocPrevious == IF previous = NULL THEN 1 ELSE getAllocation(m, previous)
      allocNext     == IF next = NULL THEN 1 ELSE getAllocation(m, next)
      size2 == getSize(m, p) + getSize(m, previous)
      size3 == getSize(m, p) + getSize(m, next)
      size4 == getSize(m, p) + getSize(m, previous) + getSize(m, next)
  IN
  CASE allocPrevious = 1 /\ allocNext = 1 -> m
    [] allocPrevious = 0 /\ allocNext = 1 ->
         LET m1 == setValue(m, getFooter(m, previous), 0, 0)
             m2 == setValue(m1, getHeader(previous), size2, 0)
             m3 == setValue(m2, getFooter(m2, p), size2, 0)
         IN  setValue(m3, getHeader(p), 0, 0)
    [] allocPrevious = 1 /\ allocNext = 0 ->
         LET m1 == setValue(m, getFooter(m, p), 0, 0)
             m2 == setValue(m1, getHeader(p), size3, 0)
             m3 == setValue(m2, getFooter(m2, next), size3, 0)
         IN  setValue(m3, getHeader(next), 0, 0)
    [] allocPrevious = 0 /\ allocNext = 0 ->
         LET m1 == setValue(m, getFooter(m, previous), 0, 0)
             m2 == setValue(m1, getHeader(previous), size4, 0)
             m3 == setValue(m2, getFooter(m2, p), 0, 0)
             m4 == setValue(m3, getHeader(p), 0, 0)
             m5 == setValue(m4, getFooter(m4, next), size4, 0)
         IN  setValue(m5, getHeader(next), 0, 0)

\* The blocks that a coalesce at p swallows.
Swallowed(m, p) ==
  LET previous == getPrevious(m, p)
      next     == getNext(m, p)
  IN  {q \in {p} : previous # NULL /\ getAllocation(m, previous) = 0}
        \union {q \in {next} : next # NULL /\ getAllocation(m, next) = 0}

InRange(p) == p <= Words - 2 /\ p >= 1

\* The client frees a live pointer, or once more one that it already freed:
\* an already free block is not refused (the test for it has an empty body).
myfree(p) ==
  LET m == setValue(setValue(myBlock, getHeader(p), getSize(myBlock, p), 0),
                    getFooter(myBlock, p), getSize(myBlock, p), 0)
  IN
  /\ pc = "idle"
  /\ p \in live \union stale
  /\ InRange(p)
  /\ myBlock' = coalesce(m, p)
  /\ blocks' = blocks \ Swallowed(m, p)
  /\ live' = live \ {p}
  /\ stale' = stale \union {p}
  /\ data' = [data EXCEPT ![p] = Unwritten]
  /\ length' = [length EXCEPT ![p] = 0]
  /\ UNCHANGED <<isInitialized, pc, size, ptr>>

\* The client fills the words it asked for.
Write(p, w) ==
  /\ pc = "idle"
  /\ p \in live
  /\ myBlock' = [a \in Addresses |->
                   IF a \in p..(p + length[p] - 1) THEN w ELSE myBlock[a]]
  /\ data' = [data EXCEPT ![p] = w]
  /\ UNCHANGED <<isInitialized, pc, size, ptr, live, stale, length,
                 blocks>>

Next ==
  \/ \E n \in Sizes : mymalloc(n)
  \/ findFitNext
  \/ mallocNull
  \/ mallocPlace
  \/ \E p \in Addresses : myfree(p)
  \/ \E p \in Addresses, w \in Junk : Write(p, w)

Spec == Init /\ [][Next]_heapVars

\* mymalloc's search goes on until it is over.
FairSpec == Spec /\ WF_heapVars(findFitNext \/ mallocNull \/ mallocPlace)

-----------------------------------------------------------------------------
(***************************************************************************)
(* Properties.                                                             *)
(***************************************************************************)
End(p) == p + getSize(myBlock, p)

\* The blocks fill the memory between prologue and epilogue without gaps or
\* overlaps, and each block's header and footer say the same.
BoundaryTags ==
  isInitialized =>
    /\ myBlock[0].size = 0
    /\ myBlock[Words - 1] = [size |-> 0, alloc |-> 1]
    /\ FirstPtr \in blocks
    /\ \A p \in blocks :
         /\ getSize(myBlock, p) >= 3
         /\ myBlock[getHeader(p)] = myBlock[getFooter(myBlock, p)]
         /\ End(p) \in blocks \union {Words}
         /\ \A q \in blocks : q <= p \/ q >= End(p)

\* Freeing merges with both neighbours: no two free blocks are adjacent.
Coalesced ==
  \A p, q \in blocks :
     q = End(p) => getAllocation(myBlock, p) = 1 \/ getAllocation(myBlock, q) = 1

\* The blocks marked allocated are exactly those that clients hold: none is
\* handed out twice and none leaks, also after a second free.
UsedIsLive == {p \in blocks : getAllocation(myBlock, p) = 1} = live

\* Whatever the allocator writes, and whatever other clients write, a client's
\* words keep what it wrote there.
LiveDataIntact ==
  \A p \in live : data[p] # Unwritten =>
     \A a \in p..(p + length[p] - 1) : myBlock[a] = data[p]

\* A search returns NULL only if no free block is large enough ("Creates a
\* space in memory based on size, if available. Returns NULL if not").
NullMeansNoFit ==
  [][(pc = "findFit" /\ pc' = "idle" /\ live' = live) =>
       \A p \in blocks : \/ getAllocation(myBlock, p) = 1
                         \/ getSize(myBlock, p) < extendedSize]_heapVars

\* Every mymalloc returns.
SearchTerminates == pc = "findFit" ~> pc = "idle"

Abstract == INSTANCE FirstFit WITH
  First <- 1, Last <- Words - 2,
  Requests <- {ExtendedSize(n) : n \in Sizes},
  allocated <- {[lo |-> p - 1, hi |-> End(p) - 2] : p \in live}

\* Headers, footers, splitting and merging implement first fit on intervals.
ImplementsFirstFit == Abstract!AllocSpec
=============================================================================
