------------------------------ MODULE FifoLock ------------------------------
(***************************************************************************)
(* What a lock promises its users: threads get it one at a time, in the    *)
(* order in which they asked for it.                                       *)
(***************************************************************************)
EXTENDS Sequences, Naturals, Functions

CONSTANT Clients

VARIABLES
  requests,   \* clients that asked and did not release yet, oldest first
  granted     \* the oldest request was granted

lockVars == <<requests, granted>>

LockInit == requests = <<>> /\ granted = FALSE

Request(c) ==
  /\ c \notin Range(requests)
  /\ requests' = Append(requests, c)
  /\ UNCHANGED granted

Grant ==
  /\ requests # <<>>
  /\ ~granted
  /\ granted' = TRUE
  /\ UNCHANGED requests

Release ==
  /\ granted
  /\ requests' = Tail(requests)
  /\ granted' = FALSE

LockNext == (\E c \in Clients : Request(c)) \/ Grant \/ Release

LockSpec == LockInit /\ [][LockNext]_lockVars /\ WF_lockVars(Grant)
=============================================================================
