------------------------------ MODULE Memgrind ------------------------------
(***************************************************************************)
(* VSmymalloc/memgrind.c: six workloads that malloc and free through an    *)
(* array of pointers, run one after the other on the same heap.  A         *)
(* workload is a rule that says which of its mallocs and frees comes next; *)
(* timing and printing are left out.                                       *)
(*                                                                         *)
(* A process runs memgrind or, with workload "any", some other client that *)
(* makes the calls of Heap in any order.                                   *)
(***************************************************************************)
EXTENDS Heap

CONSTANTS
  MAX,         \* length of the array: the code's 3000
  RandSizes    \* what rand() % 20 gives

ASSUME MaxAssumption == MAX \in Nat \ {0} /\ MAX % 2 = 0

ASSUME RandSizesAssumption == RandSizes \subseteq 0..19

Workloads == {"A", "B", "C", "D", "E", "F"}

Indices == 0..(MAX - 1)

\* An element of the array that was not assigned yet.
Uninitialised == -1

VARIABLES
  workload,      \* the workload that runs, "none" between two of them
  pointers,      \* its array
  mallocCount,   \* mallocs that returned
  freeCount      \* frees that returned

grindVars == <<workload, pointers, mallocCount, freeCount>>

memgrindVars == <<heapVars, grindVars>>

MemgrindInit ==
  /\ Init
  /\ workload \in {"none", "any"}
  /\ pointers = [k \in Indices |-> Uninitialised]
  /\ mallocCount = 0
  /\ freeCount = 0

-----------------------------------------------------------------------------
(***************************************************************************)
(* pointers[i] = malloc(n): the call, the search and its two ends.         *)
(***************************************************************************)
StorePointer(p) ==
  /\ pointers' = [pointers EXCEPT ![mallocCount] = p]
  /\ mallocCount' = mallocCount + 1
  /\ UNCHANGED <<workload, freeCount>>

Malloc(n) ==
  /\ mymalloc(n)
  /\ IF pc' = "idle" THEN StorePointer(NULL) ELSE UNCHANGED grindVars

MallocReturns ==
  /\ workload # "any"
  /\ \/ findFitNext /\ UNCHANGED grindVars
     \/ mallocNull /\ StorePointer(NULL)
     \/ mallocPlace /\ StorePointer(ptr)

(***************************************************************************)
(* free(pointers[k]).  myfree returns at once for NULL, and for what lies  *)
(* outside the block.  An uninitialised element that points into the block *)
(* is written to as if it were a block: nothing is claimed after that.     *)
(***************************************************************************)
CountFree == freeCount' = freeCount + 1 /\ UNCHANGED <<workload, pointers, mallocCount>>

FreeUninitialised ==
  \/ CountFree
  \/ /\ workload' = "undefined"
     /\ UNCHANGED <<pointers, mallocCount, freeCount>>

Free(k) ==
  /\ pc = "idle"
  /\ \/ pointers[k] \in Addresses \ {NULL} /\ myfree(pointers[k]) /\ CountFree
     \/ pointers[k] = NULL /\ CountFree /\ UNCHANGED heapVars
     \/ pointers[k] = Uninitialised /\ FreeUninitialised /\ UNCHANGED heapVars

-----------------------------------------------------------------------------
(***************************************************************************)
(* The workloads.                                                          *)
(***************************************************************************)
\* MAX mallocs of one byte, then every element is freed.
grindA ==
  \/ mallocCount < MAX /\ Malloc(1)
  \/ mallocCount = MAX /\ freeCount < MAX /\ Free(freeCount)

\* One malloc, and MAX frees of the same pointer.
grindB ==
  \/ mallocCount = 0 /\ Malloc(1)
  \/ mallocCount = 1 /\ freeCount < MAX /\ Free(0)

\* By the parity of rand(), a malloc or the free of the oldest element; at the
\* end the rest is freed.
RandomOrder(sizes) ==
  \/ mallocCount < MAX /\ \E n \in sizes : Malloc(n)
  \/ freeCount < mallocCount /\ Free(freeCount)

grindC == RandomOrder({1})

\* malloc(rand() % 3000)
grindD == RandomOrder({n \in Sizes : n <= MEMSIZE})

sizeofs == {1, 4, 8}    \* char; int and float; double

\* The switch over rand() % 5 has no case 2: then the element stays as it was.
grindE ==
  \/ /\ mallocCount < MAX
     /\ \/ \E randSize \in RandSizes, s \in sizeofs : Malloc(randSize * s)
        \/ pc = "idle" /\ StorePointer(Uninitialised) /\ UNCHANGED heapVars
  \/ mallocCount = MAX /\ freeCount < MAX /\ Free(freeCount)

\* The size before the malloc number i: up by 5 in the first half, then down.
grindFSize(i) == IF i < MAX \div 2 THEN 10 + 5 * i ELSE 10 + 5 * (MAX - i)

grindF ==
  \/ /\ mallocCount < MAX
     /\ mallocCount # MAX \div 2 \/ freeCount = MAX \div 2
     /\ Malloc(grindFSize(mallocCount))
  \/ /\ mallocCount \in {MAX \div 2, MAX}
     /\ freeCount < mallocCount
     /\ Free(freeCount)

Grind ==
  \/ workload = "A" /\ grindA
  \/ workload = "B" /\ grindB
  \/ workload = "C" /\ grindC
  \/ workload = "D" /\ grindD
  \/ workload = "E" /\ grindE
  \/ workload = "F" /\ grindF

\* callGrindA to callGrindF call their workload again and again; here they
\* come in any order.  (In main the calls are commented out; what is left, one
\* malloc of ten bytes that are then written, is among the calls of "any".)
callGrind(w) ==
  /\ workload = "none"
  /\ workload' = w
  /\ UNCHANGED <<heapVars, pointers, mallocCount, freeCount>>

\* The array goes out of scope.
GrindReturns ==
  /\ workload \in Workloads
  /\ freeCount = MAX
  /\ workload' = "none"
  /\ pointers' = [k \in Indices |-> Uninitialised]
  /\ mallocCount' = 0
  /\ freeCount' = 0
  /\ UNCHANGED heapVars

AnyClient == workload = "any" /\ Next /\ UNCHANGED grindVars

AnySearch ==
  /\ workload = "any"
  /\ findFitNext \/ mallocNull \/ mallocPlace
  /\ UNCHANGED grindVars

WildFree == workload = "undefined" /\ UNCHANGED memgrindVars

MemgrindNext ==
  \/ Grind
  \/ MallocReturns
  \/ \E w \in Workloads : callGrind(w)
  \/ GrindReturns
  \/ AnyClient
  \/ WildFree

MemgrindSpec ==
  /\ MemgrindInit /\ [][MemgrindNext]_memgrindVars
  /\ WF_memgrindVars(MallocReturns \/ AnySearch)

-----------------------------------------------------------------------------
(***************************************************************************)
(* Properties: those of Heap, and the following.                           *)
(***************************************************************************)

\* Whatever a workload did, when it returns the whole memory is again one free
\* block, and no word differs from what initialize wrote: nothing leaked, no
\* fragment was left behind and repeated frees of a pointer did no harm.
GrindRestoresHeap ==
  workload = "none" /\ isInitialized =>
     /\ live = {}
     /\ blocks = {FirstPtr}
     /\ \A a \in Addresses :
          myBlock[a] = CASE a \in {0, Words - 1} -> [size |-> 0, alloc |-> 1]
                         [] a \in {1, Words - 2} -> [size |-> Words - 2, alloc |-> 0]
                         [] OTHER -> [size |-> 0, alloc |-> 0]
=============================================================================
