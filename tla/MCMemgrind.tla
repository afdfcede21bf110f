----------------------------- MODULE MCMemgrind -----------------------------
(* A block of 12 words: up to three blocks, and arrays of four pointers, so  *)
(* that a workload runs out of memory.  Requests of 0, 1 and 2 words (1 and  *)
(* 4 bytes need the same) up to half of the memory, one that is too large,   *)
(* and client data that looks like the tag of a free block.                  *)
EXTENDS Memgrind

MCSizes == {0, 1, 4, 5, 10, 15, 20, 49}

MCJunk == {[size |-> 3, alloc |-> 0]}

MCRandSizes == {0, 1}
=============================================================================
