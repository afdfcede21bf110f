--------------------------- MODULE LockedThreads ---------------------------
(***************************************************************************)
(* The mutex on the scheduler: threads of Assignment1's library that use   *)
(* one my_pthread_mutex_t.  Only the thread that has the processor takes a *)
(* step of TicketMutex, a thread that finds it is not its turn calls       *)
(* my_pthread_yield, and the timer signal may fall between any two steps.  *)
(*                                                                         *)
(* Nothing here assumes that a waiting thread is scheduled again: whether  *)
(* it is follows from the queues.                                          *)
(***************************************************************************)
EXTENDS TicketMutex

CONSTANTS MaxThreads, Values, NULL

VARIABLES queue_priority_1, queue_priority_2, current, threadIDS,
          isInitialized, armed, state, return_value, ctx, cpu, at, target,
          proc, passed, delivered

Library == INSTANCE Scheduler

ASSUME ClientsAreThreads == Clients = Library!Threads

\* What the library assumes of its constants.
ASSUME LibraryAssumption ==
  /\ MaxThreads \in Nat \ {0}
  /\ NULL \notin Values /\ NULL \notin 0..(MaxThreads - 1)

libraryVars == <<queue_priority_1, queue_priority_2, current, threadIDS,
                 isInitialized, armed, state, return_value, ctx, cpu, at,
                 target, proc, passed, delivered>>

programVars == <<mutexVars, libraryVars>>

ProgramInit == Init /\ Library!Init

UserCode == Library!Running("user")

Outside == UserCode /\ pc[cpu] = "outside"

-----------------------------------------------------------------------------
(***************************************************************************)
(* my_pthread_mutex_lock and my_pthread_mutex_unlock by the thread that    *)
(* executes.                                                               *)
(***************************************************************************)
LockTakesTicket == UserCode /\ TakeTicket(cpu) /\ UNCHANGED libraryVars

\* (mutant: the loop spins without giving up the processor)
LockSpins_Busy ==
  /\ UserCode
  /\ pc[cpu] = "waiting"
  /\ turn # myturn[cpu]
  /\ UNCHANGED programVars

\* "while (mutex->turn != myturn) my_pthread_yield();"
LockSpins ==
  /\ UserCode
  /\ pc[cpu] = "waiting"
  /\ turn # myturn[cpu]
  /\ Library!Yield
  /\ UNCHANGED mutexVars

LockReturns == UserCode /\ EnterWhenTurn(cpu) /\ UNCHANGED libraryVars

Unlock == UserCode /\ (LoadTurn(cpu) \/ StoreTurn(cpu)) /\ UNCHANGED libraryVars

MutexInit == Outside /\ my_pthread_mutex_init /\ UNCHANGED libraryVars

(***************************************************************************)
(* The client's other calls.  It creates, joins and exits only while it    *)
(* neither waits for nor holds the mutex, but may yield inside its         *)
(* critical section.  main does not return while others run.               *)
(***************************************************************************)
ThreadCall ==
  /\ Outside
  /\ \/ \E new \in Library!Threads, garbage \in Library!Pointers :
           Library!my_pthread_create(new, garbage)
     \/ \E value_ptr \in Library!Pointers : Library!my_pthread_exit(value_ptr)
     \/ Library!ExitWithoutCurrent
     \/ \E u \in Library!Threads : Library!JoinCall(u)
  /\ UNCHANGED mutexVars

ClientYields ==
  /\ UserCode
  /\ pc[cpu] \in {"outside", "inside"}
  /\ Library!VoluntaryYield
  /\ UNCHANGED mutexVars

JoinStep == (Library!JoinSpin \/ Library!JoinReturn) /\ UNCHANGED mutexVars

\* Wherever the thread is in its own code, in the mutex's or in a join.
Preempted == Library!timer_handler /\ UNCHANGED mutexVars

Ended ==
  /\ \/ Library!Running("exited") /\ Library!ReturnFromFunction
     \/ Library!Terminated
  /\ UNCHANGED mutexVars

ProgramNext ==
  \/ LockTakesTicket \/ LockSpins \/ LockReturns \/ Unlock \/ MutexInit
  \/ ThreadCall \/ ClientYields \/ JoinStep \/ Preempted \/ Ended

ProgramSpec == ProgramInit /\ [][ProgramNext]_programVars

(***************************************************************************)
(* Fairness: the executing thread goes on; a thread that gets the          *)
(* processor again and again at the same point of the mutex's code is not  *)
(* interrupted there, and does not yield there, every time; and, as in     *)
(* Scheduler's FairSpec, the clients cooperate: a thread that executes     *)
(* again and again yields, or is preempted, again and again.  (One that    *)
(* creates and joins short-lived threads for ever instead keeps the holder *)
(* of the mutex from running.)                                             *)
(***************************************************************************)
LockStep(t) == cpu = t /\ (LockReturns \/ Unlock)

Rotates(t) == cpu = t /\ (ClientYields \/ Preempted)

FairProgram ==
  /\ ProgramSpec
  /\ WF_programVars(ProgramNext)
  /\ \A t \in Library!Threads :
       SF_programVars(LockStep(t)) /\ SF_programVars(Rotates(t))

=============================================================================
