----------------------------- MODULE Scheduler -----------------------------
(***************************************************************************)
(* The user-level thread library of Assignment1/my_pthread.c: two priority *)
(* queues, one global "current" thread, contexts switched by swapcontext,  *)
(* and the timer signal whose handler calls my_pthread_yield.              *)
(*                                                                         *)
(* Grain: one action per library call, and the timer signal falls only     *)
(* between calls (SchedulerSteps lets it fall inside them).  The handler   *)
(* itself runs with SIGALRM masked, so its my_pthread_yield is one step in *)
(* the program too.                                                        *)
(***************************************************************************)
EXTENDS Integers, Sequences, Functions

CONSTANTS
  MaxThreads,   \* bound on the threads that exist at one time, main included
  Values,       \* non-NULL values handed to my_pthread_exit
  NULL

ASSUME MaxThreadsAssumption == MaxThreads \in Nat \ {0}

ASSUME NullAssumption == NULL \notin Values /\ NULL \notin 0..(MaxThreads - 1)

Threads == 0..(MaxThreads - 1)

Main == 0

Pointers == Values \union {NULL}

VARIABLES
  queue_priority_1,   \* high priority threads, the peeked one first
  queue_priority_2,   \* threads that used up a turn
  current,            \* the thread the library believes is running, or NULL
  threadIDS,          \* the next thread id
  isInitialized,      \* main has a descriptor and a queue node
  armed,              \* ITIMER_REAL has a non-zero value
  state,              \* the descriptor's state; UNBORN / FREED: no descriptor
  return_value,       \* the descriptor's return_value
  ctx,                \* whose execution the saved context of a thread resumes
  cpu,                \* whose code is executing
  at,                 \* where each thread's code is
  target,             \* the thread a join waits for
  proc,               \* the process: up, ended or crashed
  passed,             \* history: the argument of each thread's my_pthread_exit
  delivered           \* history: what my_pthread_join stored in *value_ptr

queues == <<queue_priority_1, queue_priority_2>>

vars == <<queue_priority_1, queue_priority_2, current, threadIDS,
          isInitialized, armed, state, return_value, ctx, cpu, at, target,
          proc, passed, delivered>>

-----------------------------------------------------------------------------

Init ==
  /\ queue_priority_1 = <<>>
  /\ queue_priority_2 = <<>>
  /\ current = NULL
  /\ threadIDS = 1
  /\ isInitialized = FALSE
  /\ armed = FALSE
  /\ state = [t \in Threads |-> "UNBORN"]
  /\ return_value = [t \in Threads |-> NULL]
  /\ ctx = [t \in Threads |-> t]
  /\ cpu = Main
  /\ at = [t \in Threads |-> IF t = Main THEN "user" ELSE "unborn"]
  /\ target = [t \in Threads |-> NULL]
  /\ proc = "up"
  /\ passed = [t \in Threads |-> NULL]
  /\ delivered = [t \in Threads |-> NULL]

(***************************************************************************)
(* The queues.  A queue is a singly linked list whose head pointer is the  *)
(* newest node; peek and dequeue walk to the last node, the oldest one.    *)
(***************************************************************************)
\* (mutant: the newest node is taken first)
enqueue_Lifo(t, q) == <<t>> \o q

enqueue(t, q) == Append(q, t)

dequeue(q) == IF q = <<>> THEN q ELSE Tail(q)

peek(q) == IF q = <<>> THEN NULL ELSE Head(q)

peekEither(q1, q2) == IF q1 # <<>> THEN Head(q1) ELSE peek(q2)

(***************************************************************************)
(* setitimer with 500000 * priority microseconds: 0 disarms the timer, 1   *)
(* arms it, and 2 is a tv_usec of 1000000, which setitimer refuses         *)
(* (EINVAL) leaving the timer as it was.                                   *)
(***************************************************************************)
setitimer(priority) ==
  armed' = CASE priority = 0 -> FALSE
             [] priority = 1 -> TRUE
             [] priority = 2 -> armed

(***************************************************************************)
(* swapcontext(cur, next), or setcontext(next) when there is no thread to  *)
(* save: what is executing goes into cur's context slot and the execution  *)
(* saved in next's slot continues.                                         *)
(***************************************************************************)
\* (mutant: temp is read after current was overwritten)
swapcontext_LateTemp(cur, next, cx) ==
  /\ ctx' = [cx EXCEPT ![next] = cpu]
  /\ cpu' = ctx'[next]

swapcontext(cur, next, cx) ==
  /\ ctx' = IF cur = NULL THEN cx ELSE [cx EXCEPT ![cur] = cpu]
  /\ cpu' = ctx'[next]

-----------------------------------------------------------------------------
(***************************************************************************)
(* my_pthread_yield, called in a state where the queues are q1 and q2,     *)
(* current is cur, the descriptors' states are st and the contexts cx      *)
(* (create and exit change these before they call it).                     *)
(***************************************************************************)
YieldNoThreads(q1, q2, cur, st, cx) ==
  /\ q1 = <<>> /\ q2 = <<>>
  /\ queue_priority_1' = q1
  /\ queue_priority_2' = q2
  /\ current' = cur
  /\ state' = st
  /\ ctx' = cx
  /\ UNCHANGED <<cpu, armed>>

\* (mutant: current is not updated)
YieldToFront_KeepsCurrent(q1, q2, cur, st, cx) ==
  LET front == peekEither(q1, q2) IN
  /\ front # NULL
  /\ cur # front
  /\ queue_priority_1' = q1
  /\ queue_priority_2' = q2
  /\ current' = cur
  /\ state' = st
  /\ setitimer(0)
  /\ swapcontext(cur, front, cx)

\* current is NULL or another thread is at the front: run the front.  The
\* local "priority" is still 0 here, so the timer is disarmed.
YieldToFront(q1, q2, cur, st, cx) ==
  LET front == peekEither(q1, q2) IN
  /\ front # NULL
  /\ cur # front
  /\ queue_priority_1' = q1
  /\ queue_priority_2' = q2
  /\ current' = front
  /\ state' = st
  /\ setitimer(0)
  /\ swapcontext(cur, front, cx)

\* (mutant: a thread of the second queue gets its high priority back)
YieldRotate_Promotes(q1, q2, cur, st, cx) ==
  LET front == peekEither(q1, q2)
      rest1 == IF q1 # <<>> THEN dequeue(q1) ELSE enqueue(front, q1)
      rest2 == IF q1 # <<>> THEN enqueue(front, q2) ELSE dequeue(q2)
      next  == peekEither(rest1, rest2)
  IN
  /\ front # NULL
  /\ cur = front
  /\ queue_priority_1' = rest1
  /\ queue_priority_2' = rest2
  /\ current' = next
  /\ state' = st
  /\ setitimer(1)
  /\ swapcontext(cur, next, cx)

\* current is at the front: it goes to the end of the second queue and the
\* next front runs.  (The code dereferences next unchecked; no guard here, so
\* that a NULL next would be an evaluation error.)
YieldRotate(q1, q2, cur, st, cx) ==
  LET front    == peekEither(q1, q2)
      rest1    == dequeue(q1)
      rest2    == IF q1 # <<>> THEN q2 ELSE dequeue(q2)
      back     == IF st[front] = "ACTIVE" THEN enqueue(front, rest2) ELSE rest2
      next     == peekEither(rest1, back)
      priority == IF rest1 # <<>> THEN 1 ELSE 2
  IN
  /\ front # NULL
  /\ cur = front
  /\ queue_priority_1' = rest1
  /\ queue_priority_2' = back
  /\ current' = next
  /\ state' = [st EXCEPT ![next] = "ACTIVE"]
  /\ setitimer(priority)
  /\ swapcontext(cur, next, cx)

my_pthread_yield(q1, q2, cur, st, cx) ==
  \/ YieldNoThreads(q1, q2, cur, st, cx)
  \/ YieldToFront(q1, q2, cur, st, cx)
  \/ YieldRotate(q1, q2, cur, st, cx)

-----------------------------------------------------------------------------
(***************************************************************************)
(* The library calls of the executing thread, and the timer signal.        *)
(***************************************************************************)
Running(where) == proc = "up" /\ at[cpu] = where

\* (mutant: the counter is not incremented)
NextThreadID_Same == threadIDS

NextThreadID == threadIDS + 1

(***************************************************************************)
(* my_pthread_create.  The new thread gets the next id.  Ids are only ever *)
(* compared for equality and nothing refers to a descriptor that a join    *)
(* freed, so the name of a freed thread may stand for a new one as well:   *)
(* programs that create and join threads for ever are behaviours of the    *)
(* model, and MaxThreads bounds the threads whose memory is not freed yet. *)
(* The malloc'ed descriptor's return_value is garbage.  The first call     *)
(* also gives main a descriptor and a queue node, behind the new thread's, *)
(* and makes it current.                                                   *)
(***************************************************************************)
my_pthread_create(new, garbage) ==
  LET st  == [state EXCEPT ![new] = "ACTIVE"]
      cx  == [ctx EXCEPT ![new] = new]
      q1  == enqueue(new, queue_priority_1)
  IN
  /\ Running("user")
  /\ new = threadIDS \/ state[new] = "FREED"
  /\ threadIDS' = IF new = threadIDS THEN NextThreadID ELSE threadIDS
  /\ return_value' = [return_value EXCEPT ![new] = garbage]
  /\ at' = [at EXCEPT ![new] = "user"]
  /\ isInitialized' = TRUE
  /\ IF isInitialized
       THEN my_pthread_yield(q1, queue_priority_2, current, st, cx)
       ELSE my_pthread_yield(enqueue(Main, q1), queue_priority_2, Main,
                             [st EXCEPT ![Main] = "ACTIVE"],
                             [cx EXCEPT ![Main] = cpu])
  /\ UNCHANGED <<target, proc, passed, delivered>>

Yield ==
  /\ my_pthread_yield(queue_priority_1, queue_priority_2, current, state, ctx)
  /\ UNCHANGED <<threadIDS, isInitialized, return_value, at, target, proc,
                 passed, delivered>>

\* The executing thread calls my_pthread_yield of its own accord.
VoluntaryYield == Running("user") /\ Yield

\* SIGALRM interrupts the executing thread outside the library's other calls.
timer_handler == armed /\ (Running("user") \/ Running("join")) /\ Yield

(***************************************************************************)
(* my_pthread_exit: the front of the first queue is removed if it is       *)
(* current, otherwise whatever is at the front of the second queue.  The   *)
(* removed thread completes, current becomes NULL and the front runs.      *)
(* With no current thread the call dereferences NULL.                      *)
(***************************************************************************)
\* (mutant: the second queue is looked at first)
ExitRemoves_SecondFirst ==
  IF peek(queue_priority_2) # NULL THEN peek(queue_priority_2) ELSE current

ExitRemoves == IF peek(queue_priority_1) = current THEN current
               ELSE peek(queue_priority_2)

\* (mutants: the state is not set; set to the enum's other constant; the
\* descriptor is freed at once, as a commented-out line would)
Complete_Forgotten(removed) == state

Complete_Waiting(removed) == [state EXCEPT ![removed] = "WAITING"]

Complete_Frees(removed) == [state EXCEPT ![removed] = "FREED"]

Complete(removed) == [state EXCEPT ![removed] = "COMPLETED"]

\* (mutant: the value is only stored for a thread of the first queue)
StoreReturnValue_First(removed, value_ptr) ==
  IF value_ptr = NULL \/ peek(queue_priority_1) # removed THEN return_value
  ELSE [return_value EXCEPT ![removed] = value_ptr]

StoreReturnValue(removed, value_ptr) ==
  IF value_ptr = NULL THEN return_value
  ELSE [return_value EXCEPT ![removed] = value_ptr]

my_pthread_exit(value_ptr) ==
  LET removed == ExitRemoves
      from1   == peek(queue_priority_1) = current
      q1      == IF from1 THEN dequeue(queue_priority_1) ELSE queue_priority_1
      q2      == IF from1 THEN queue_priority_2 ELSE dequeue(queue_priority_2)
  IN
  /\ Running("user")
  /\ current # NULL
  /\ return_value' = StoreReturnValue(removed, value_ptr)
  /\ at' = [at EXCEPT ![cpu] = "exited"]
  /\ passed' = [passed EXCEPT ![cpu] = value_ptr]
  /\ my_pthread_yield(q1, q2, NULL, Complete(removed), ctx)
  /\ UNCHANGED <<threadIDS, isInitialized, target, proc, delivered>>

ExitWithoutCurrent ==
  /\ Running("user")
  /\ current = NULL
  /\ proc' = "crashed"
  /\ UNCHANGED <<queues, current, threadIDS, isInitialized, armed, state,
                 return_value, ctx, cpu, at, target, passed, delivered>>

(***************************************************************************)
(* my_pthread_join.  The caller's contract, as for pthread_join: u is a    *)
(* thread the program created (main's descriptor is private to the         *)
(* library) that nobody else joined.  The loop tests u's state and yields; *)
(* once u completed, its return value is stored and its stack, context and *)
(* descriptor are freed.                                                   *)
(***************************************************************************)
JoinCall(u) ==
  /\ Running("user")
  /\ u \in 1..(threadIDS - 1)
  /\ state[u] # "FREED"
  /\ \A t \in Threads : target[t] # u
  /\ at' = [at EXCEPT ![cpu] = "join"]
  /\ target' = [target EXCEPT ![cpu] = u]
  /\ UNCHANGED <<queues, current, threadIDS, isInitialized, armed, state,
                 return_value, ctx, cpu, proc, passed, delivered>>

JoinSpin ==
  /\ Running("join")
  /\ state[target[cpu]] # "COMPLETED"
  /\ Yield

\* (mutant: the loop goes round again after the free)
JoinReturn_Loops ==
  LET u == target[cpu] IN
  /\ Running("join")
  /\ state[u] = "COMPLETED"
  /\ delivered' = [delivered EXCEPT ![u] = return_value[u]]
  /\ state' = [state EXCEPT ![u] = "FREED"]
  /\ UNCHANGED <<queues, current, threadIDS, isInitialized, armed,
                 return_value, ctx, cpu, at, target, proc, passed>>

JoinReturn ==
  LET u == target[cpu] IN
  /\ Running("join")
  /\ state[u] = "COMPLETED"
  /\ delivered' = [delivered EXCEPT ![u] = return_value[u]]
  /\ state' = [state EXCEPT ![u] = "FREED"]
  /\ at' = [at EXCEPT ![cpu] = "user"]
  /\ target' = [target EXCEPT ![cpu] = NULL]
  /\ UNCHANGED <<queues, current, threadIDS, isInitialized, armed,
                 return_value, ctx, cpu, proc, passed>>

\* A thread function (uc_link is NULL) or main returns: the process exits.
\* It is also what the code after a my_pthread_exit that returned does.
ReturnFromFunction ==
  /\ Running("user") \/ Running("exited")
  /\ proc' = "ended"
  /\ UNCHANGED <<queues, current, threadIDS, isInitialized, armed, state,
                 return_value, ctx, cpu, at, target, passed, delivered>>

Terminated == proc # "up" /\ UNCHANGED vars

Next ==
  \/ \E new \in Threads, garbage \in Pointers : my_pthread_create(new, garbage)
  \/ VoluntaryYield
  \/ timer_handler
  \/ \E value_ptr \in Pointers : my_pthread_exit(value_ptr)
  \/ ExitWithoutCurrent
  \/ \E u \in Threads : JoinCall(u)
  \/ JoinSpin
  \/ JoinReturn
  \/ ReturnFromFunction
  \/ Terminated

Spec == Init /\ [][Next]_vars

(***************************************************************************)
(* Fairness.  CallingSpec: the executing thread keeps calling the library, *)
(* an armed timer fires, and a join that finds its target completed is not *)
(* interrupted for ever at that very point.  Under it a thread may create  *)
(* and join short-lived threads for ever, which takes it off the front of  *)
(* neither queue.  FairSpec: moreover the clients cooperate, a thread that *)
(* executes again and again yields, or is preempted, again and again.      *)
(***************************************************************************)
CallingSpec ==
  Spec /\ WF_vars(Next) /\ WF_vars(timer_handler) /\ SF_vars(JoinReturn)

Rotation(t) == cpu = t /\ (VoluntaryYield \/ timer_handler)

FairSpec ==
  /\ Spec /\ WF_vars(Next) /\ SF_vars(JoinReturn)
  /\ \A t \in Threads : SF_vars(Rotation(t))

-----------------------------------------------------------------------------
(***************************************************************************)
(* Properties.                                                             *)
(***************************************************************************)
Queued == Range(queue_priority_1) \union Range(queue_priority_2)

\* The type of the library's state: ids in the queues, a thread or NULL as
\* current, and descriptors' states among the ones the enum and free allow.
TypeOK ==
  /\ queue_priority_1 \in Seq(Threads)
  /\ queue_priority_2 \in Seq(Threads)
  /\ current \in Threads \union {NULL}
  /\ threadIDS \in 1..MaxThreads
  /\ isInitialized \in BOOLEAN
  /\ armed \in BOOLEAN
  /\ state \in [Threads -> {"UNBORN", "ACTIVE", "COMPLETED", "FREED"}]
  /\ return_value \in [Threads -> Pointers]
  /\ ctx \in [Threads -> Threads]
  /\ cpu \in Threads
  /\ at \in [Threads -> {"unborn", "user", "join", "exited"}]
  /\ target \in [Threads -> Threads \union {NULL}]
  /\ proc \in {"up", "ended", "crashed"}
  /\ passed \in [Threads -> Pointers]
  /\ delivered \in [Threads -> Pointers]

\* Nothing the scheduler does loses or duplicates a thread: the threads that
\* are ACTIVE are exactly those with a queue node, and each has one node.
NoLostThreads ==
  /\ \A t \in Threads : t \in Queued <=> state[t] = "ACTIVE"
  /\ IsInjective(queue_priority_1)
  /\ IsInjective(queue_priority_2)
  /\ Range(queue_priority_1) \intersect Range(queue_priority_2) = {}

\* The thread the library calls current is the one executing and the one
\* at the front, so that yield demotes, and exit removes, their caller.  When
\* there is no current thread there is none to run.
RunningIsFront ==
  /\ current = peekEither(queue_priority_1, queue_priority_2)
  /\ current # NULL => cpu = current

\* A thread waiting in a queue resumes its own execution when it is
\* dispatched: no other thread's context was saved into its slot.
ContextsIntact == \A t \in Queued \ {current} : ctx[t] = t

\* A thread's descriptor says COMPLETED (or was freed by a join after that)
\* exactly when that very thread called my_pthread_exit.
ExitCompletesCaller ==
  \A t \in Threads : at[t] = "exited" <=> state[t] \in {"COMPLETED", "FREED"}

\* A thread in my_pthread_join waits for a descriptor that is still there, and
\* it is the only one that will free it.
JoinTargetIsLive ==
  \A t \in Threads : at[t] = "join" =>
     /\ target[t] # NULL
     /\ state[target[t]] \in {"ACTIVE", "COMPLETED"}
     /\ \A s \in Threads \ {t} : target[s] # target[t]

\* The value a join stored is the one its target gave to my_pthread_exit, if
\* that was not NULL.
JoinPassesBack ==
  \A u \in Threads : state[u] = "FREED" /\ passed[u] # NULL
                       => delivered[u] = passed[u]

\* A thread that completed is never made ACTIVE again (yield writes ACTIVE
\* into the next thread's state unconditionally): it stays completed until a
\* join frees it, and only my_pthread_create makes a thread of a freed one.
CompletionIsFinal ==
  [][\A t \in Threads :
        /\ state[t] = "COMPLETED" => state'[t] \in {"COMPLETED", "FREED"}
        /\ state[t] = "FREED" /\ state'[t] # "FREED" =>
             \E garbage \in Pointers : my_pthread_create(t, garbage)]_vars

\* A thread that used up a turn never returns to the first queue, and threads
\* of the second queue keep their order.
DemotionIsPermanent ==
  [][/\ Range(queue_priority_2) \intersect Range(queue_priority_1') = {}
     /\ \A i, j \in 2..Len(queue_priority_2) : i < j =>
          \E k, m \in 1..Len(queue_priority_2') :
             /\ k < m
             /\ queue_priority_2'[k] = queue_priority_2[i]
             /\ queue_priority_2'[m] = queue_priority_2[j]]_vars

\* Every thread with a queue node eventually executes, unless the process
\* ends first.
NoStarvation ==
  \A t \in Threads : t \in Queued ~> cpu = t \/ proc # "up"

\* A join whose target completed eventually returns, unless the process ends.
JoinReturns ==
  \A t \in Threads :
     (at[t] = "join" /\ state[target[t]] = "COMPLETED")
        ~> (at[t] # "join" \/ proc # "up")
=============================================================================
