--------------------------- MODULE MCPagedThreads ---------------------------
(* Main and two threads, nine frames and enough swap slots for all pages.  *)
(* Main allocates past its first page.                                      *)
EXTENDS PagedThreads

MCTotalPages == (MaxThreads + 2) * MEMORYPAGES

MCMaxPage == [t \in Threads |-> IF t = Main THEN 2 ELSE 0]
=============================================================================
