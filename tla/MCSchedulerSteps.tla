-------------------------- MODULE MCSchedulerSteps --------------------------
(* Instances of SchedulerSteps for TLC.  Ticks in the safe places, or at    *)
(* any place inside my_pthread_exit.                                        *)
EXTENDS SchedulerSteps

CONSTANT v1

MCValues == {v1}

MCSafe == SafePoints

MCExit == ExitPoints
=============================================================================
