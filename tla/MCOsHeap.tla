------------------------------ MODULE MCOsHeap ------------------------------
(* Twelve words; requests of one and two words.                             *)
EXTENDS OsHeap

MCSizes == {1, 4, 5}

MCJunk == {[size |-> 3, alloc |-> 0]}
=============================================================================
