-------------------------- MODULE MCLockedThreads --------------------------
(* Main and two threads; ints of 2 bits, so that every ticket wraps around. *)
EXTENDS LockedThreads

MCClients == 0..(MaxThreads - 1)
=============================================================================
