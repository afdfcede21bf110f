---------------------------- MODULE MCScheduler ----------------------------
(* Instances of Scheduler for TLC: main and two or three more threads. *)
EXTENDS Scheduler, TLC

CONSTANT v1

MCValues == {v1}
=============================================================================
