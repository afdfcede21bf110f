------------------------------- MODULE OsHeap -------------------------------
(***************************************************************************)
(* Assignment2/mymalloc.c's copy of the allocator, as the thread library   *)
(* uses it for its own region (thread descriptors, stacks, page tables).   *)
(* It differs from VSmymalloc in three places: there is no prologue, but   *)
(* the word before the region (word 0 here, malloc's own) reads 0; the     *)
(* size is compared with the larger user region only; and a block that     *)
(* fits exactly is refused.                                                *)
(***************************************************************************)
EXTENDS Heap

\* initializeMemory, as the first myallocate calls it.
OsInit ==
  /\ myBlock = [w \in Addresses |->
       CASE w \in {1, Words - 2} -> [size |-> Words - 2, alloc |-> 0]
         [] w = Words - 1 -> [size |-> 0, alloc |-> 1]
         [] OTHER -> [size |-> 0, alloc |-> 0]]
  /\ isInitialized = TRUE
  /\ pc = "idle"
  /\ size = 0
  /\ ptr = NULL
  /\ live = {}
  /\ stale = {}
  /\ data = [w \in Addresses |-> Unwritten]
  /\ length = [w \in Addresses |-> 0]
  /\ blocks = {FirstPtr}

\* A size of 0 returns NULL at once.
myallocate(n) ==
  /\ pc = "idle"
  /\ n # 0
  /\ size' = n
  /\ ptr' = FirstPtr
  /\ pc' = "findFit"
  /\ UNCHANGED <<myBlock, isInitialized, live, stale, data, length, blocks>>

findFit == findFitNext \/ mallocNull

ExactFit == getSize(myBlock, ptr) = extendedSize

\* The two cases that place the block ask for oldSize > extendedSize.
allocatePlace == pc = "findFit" /\ ~ExactFit /\ mallocPlace

\* "else return NULL"
allocateRefuse ==
  /\ pc = "findFit"
  /\ getSize(myBlock, ptr) # 0
  /\ Fits
  /\ ExactFit
  /\ pc' = "idle"
  /\ ptr' = NULL
  /\ size' = 0
  /\ UNCHANGED <<myBlock, isInitialized, live, stale, data, length, blocks>>

mydeallocate(p) == p \in live /\ myfree(p)

OsNext ==
  \/ \E n \in Sizes : myallocate(n)
  \/ findFit
  \/ allocatePlace
  \/ allocateRefuse
  \/ \E p \in Addresses : mydeallocate(p)
  \/ \E p \in Addresses, w \in Junk : Write(p, w)

OsSpec == OsInit /\ [][OsNext]_heapVars
=============================================================================
