------------------------------ MODULE FirstFit ------------------------------
(***************************************************************************)
(* What a first-fit allocator promises, without headers, footers or a free *)
(* list: the arena is a row of words, an allocated block is an interval of *)
(* it, and what lies between allocated blocks is free.                     *)
(***************************************************************************)
EXTENDS Integers, FiniteSets

CONSTANTS
  First, Last,   \* the arena's first and last word
  Requests       \* block sizes that may be asked for

VARIABLE allocated   \* the blocks in use, as records of first and last word

Block == {b \in [lo : First..Last, hi : First..Last] : b.lo <= b.hi}

Length(b) == b.hi - b.lo + 1

Free(w) == \A b \in allocated : w < b.lo \/ b.hi < w

\* The maximal intervals of free words.
Gaps == {g \in Block : /\ \A w \in g.lo..g.hi : Free(w)
                       /\ g.lo = First \/ ~Free(g.lo - 1)
                       /\ g.hi = Last \/ ~Free(g.hi + 1)}

Fitting(n) == {g \in Gaps : Length(g) >= n}

AllocInit == allocated = {}

\* The lowest gap that is large enough is used; a remainder of up to Scrap
\* words is given away with the block.
Scrap == 2

Allocate(n) ==
  \E g \in Fitting(n) :
     /\ \A h \in Fitting(n) : g.lo <= h.lo
     /\ allocated' = allocated \union
          {[lo |-> g.lo,
            hi |-> IF Length(g) - n > Scrap THEN g.lo + n - 1 ELSE g.hi]}

Deallocate == \E b \in allocated : allocated' = allocated \ {b}

AllocNext == (\E n \in Requests : Allocate(n)) \/ Deallocate

AllocSpec == AllocInit /\ [][AllocNext]_allocated
=============================================================================
