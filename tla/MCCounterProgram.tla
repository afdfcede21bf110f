-------------------------- MODULE MCCounterProgram --------------------------
(* Main and up to two threads, eleven frames and enough slots for all        *)
(* pages.  In programs of client "any" main allocates past its first page.   *)
EXTENDS CounterProgram

MCTotalPages == (MaxThreads + 2) * MEMORYPAGES

MCMaxPage == [t \in Threads |-> IF t = Main THEN 2 ELSE 0]
=============================================================================
