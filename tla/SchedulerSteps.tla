--------------------------- MODULE SchedulerSteps ---------------------------
(***************************************************************************)
(* The library of Scheduler with my_pthread_create, my_pthread_yield and   *)
(* my_pthread_exit split into steps that make at most one write another    *)
(* thread can see: to a queue, current, threadIDS, a field of a descriptor *)
(* or the timer.  One step each are: the peeks before such a write; an     *)
(* enqueue, a dequeue and the ++; the tests and copies of current next to  *)
(* the write they lead to; and what the first create does for main.        *)
(*                                                                         *)
(* Nothing in the code masks SIGALRM while a thread is inside these        *)
(* functions, so the handler (one step: it runs with SIGALRM masked) may   *)
(* run my_pthread_yield between any two of the steps.  TickPoints is the   *)
(* set of places inside the library where the signal may fall.  For the    *)
(* places in SafePoints the split library implements the atomic one,       *)
(* Scheduler.  A tick at "exit_dequeued" loses the thread, and one at      *)
(* "exit_completed" its return value.                                      *)
(***************************************************************************)
EXTENDS Scheduler

CONSTANT TickPoints

\* The places inside the library, named for what was done last.
ExitPoints == {"exit_peeked", "exit_dequeued", "exit_completed", "exit_stored",
               "exit_noCurrent"}

CreatePoints == {"create_numbered", "create_counted", "create_made",
                 "create_enqueued", "create_ready"}

YieldPoints == {"yield_peeked", "yield_dequeued", "yield_requeued",
                "yield_next", "yield_marked", "yield_chosen", "yield_timed"}

LibraryPoints == ExitPoints \union CreatePoints \union YieldPoints

\* An exiting thread that is completed and has stored its value needs nothing
\* but the dispatch that the handler performs as well.
SafePoints == {"exit_stored", "exit_noCurrent"}

\* A tick before threadIDS is incremented may give two descriptors one id,
\* which a model that names descriptors by their ids cannot show.
ASSUME TickPointsAssumption ==
  TickPoints \subseteq LibraryPoints \ {"create_numbered"}

VARIABLES
  local,   \* each thread's local variables of the library call it is in
  entry    \* history: the atomic library's state when the executing thread
           \* entered the library, <<>> when no call is under way

stepVars == <<vars, local, entry>>

NoLocals == [front |-> NULL, from1 |-> FALSE, node |-> NULL, temp |-> NULL,
             next |-> NULL, priority |-> 0, value |-> NULL, back |-> "user"]

StepInit ==
  /\ Init
  /\ local = [t \in Threads |-> NoLocals]
  /\ entry = <<>>

-----------------------------------------------------------------------------
\* The state the atomic library is in between calls.
Committed == <<queue_priority_1, queue_priority_2, current, threadIDS,
               isInitialized, armed, state, return_value, ctx, cpu,
               [t \in Threads |-> CASE at[t] \in SafePoints -> "exited"
                                   [] at[t] = "exit_peeked" -> "user"
                                   [] OTHER -> at[t]],
               target, proc, passed, delivered>>

Enter == entry' = Committed

\* The call is over (its locals are dead).
Leave == entry' = <<>> /\ local' = [local EXCEPT ![cpu] = NoLocals]

Goto(where) == at' = [at EXCEPT ![cpu] = where]

Assign(locals) == local' = [local EXCEPT ![cpu] = locals]

my == local[cpu]

\* The beginning of my_pthread_yield: sigaction and the peek at the queues.
\* back is where the thread is after the call returns.
PeekFront(back) ==
  /\ Goto("yield_peeked")
  /\ Assign([my EXCEPT !.front = peekEither(queue_priority_1, queue_priority_2),
                       !.from1 = queue_priority_1 # <<>>,
                       !.back = back])

CallYield ==
  /\ Running("user") \/ (Running("join") /\ state[target[cpu]] # "COMPLETED")
  /\ PeekFront(at[cpu])
  /\ Enter
  /\ UNCHANGED <<queues, current, threadIDS, isInitialized, armed, state,
                 return_value, ctx, cpu, target, proc, passed, delivered>>

\* Neither queue had a thread: the call returns.
ReturnEmpty ==
  /\ Running("yield_peeked")
  /\ my.front = NULL
  /\ Goto(my.back)
  /\ Leave
  /\ UNCHANGED <<queues, current, threadIDS, isInitialized, armed, state,
                 return_value, ctx, cpu, target, proc, passed, delivered>>

\* current is not the thread that was peeked: it becomes current.
ChooseFront ==
  /\ Running("yield_peeked")
  /\ my.front # NULL
  /\ current # my.front
  /\ current' = my.front
  /\ Assign([my EXCEPT !.temp = current, !.next = my.front, !.priority = 0])
  /\ Goto("yield_chosen")
  /\ UNCHANGED <<queues, threadIDS, isInitialized, armed, state, return_value,
                 ctx, cpu, target, proc, passed, delivered, entry>>

\* The queue a yield that found current at the front dequeues from.
FrontQueue == IF my.from1 THEN queue_priority_1 ELSE queue_priority_2

\* That queue gives up its oldest node, whichever thread's it is by now.
DequeueFront ==
  /\ Running("yield_peeked")
  /\ my.front # NULL
  /\ current = my.front
  /\ FrontQueue # <<>>
  /\ IF my.from1 THEN /\ queue_priority_1' = dequeue(queue_priority_1)
                      /\ UNCHANGED queue_priority_2
                 ELSE /\ queue_priority_2' = dequeue(queue_priority_2)
                      /\ UNCHANGED queue_priority_1
  /\ Assign([my EXCEPT !.node = peek(FrontQueue)])
  /\ Goto("yield_dequeued")
  /\ UNCHANGED <<current, threadIDS, isInitialized, armed, state, return_value,
                 ctx, cpu, target, proc, passed, delivered, entry>>

Requeue ==
  /\ Running("yield_dequeued")
  /\ queue_priority_2' = IF state[my.node] = "ACTIVE"
                         THEN enqueue(my.node, queue_priority_2)
                         ELSE queue_priority_2
  /\ Goto("yield_requeued")
  /\ UNCHANGED <<queue_priority_1, current, threadIDS, isInitialized, armed,
                 state, return_value, ctx, cpu, target, proc, passed,
                 delivered, local, entry>>

\* peek at the next thread: a yield that started in the second queue looks at
\* that queue only.
NextFrom1 == my.from1 /\ queue_priority_1 # <<>>

NextThread == IF NextFrom1 THEN peek(queue_priority_1)
              ELSE peek(queue_priority_2)

PeekNext ==
  /\ Running("yield_requeued")
  /\ NextThread # NULL
  /\ Assign([my EXCEPT !.next = NextThread,
                       !.priority = IF NextFrom1 THEN 1 ELSE 2])
  /\ Goto("yield_next")
  /\ UNCHANGED <<queues, current, threadIDS, isInitialized, armed, state,
                 return_value, ctx, cpu, target, proc, passed, delivered,
                 entry>>

\* "next_thread->state = ACTIVE", whatever it was.
MarkNext ==
  /\ Running("yield_next")
  /\ state' = [state EXCEPT ![my.next] = "ACTIVE"]
  /\ Goto("yield_marked")
  /\ UNCHANGED <<queues, current, threadIDS, isInitialized, armed,
                 return_value, ctx, cpu, target, proc, passed, delivered,
                 local, entry>>

ChooseNext ==
  /\ Running("yield_marked")
  /\ current' = my.next
  /\ Assign([my EXCEPT !.temp = current])
  /\ Goto("yield_chosen")
  /\ UNCHANGED <<queues, threadIDS, isInitialized, armed, state, return_value,
                 ctx, cpu, target, proc, passed, delivered, entry>>

\* (mutant: a slice of priority 1 for everyone)
SetTimer_Same ==
  /\ Running("yield_chosen")
  /\ setitimer(1)
  /\ Goto("yield_timed")
  /\ UNCHANGED <<queues, current, threadIDS, isInitialized, state,
                 return_value, ctx, cpu, target, proc, passed, delivered,
                 local, entry>>

SetTimer ==
  /\ Running("yield_chosen")
  /\ setitimer(my.priority)
  /\ Goto("yield_timed")
  /\ UNCHANGED <<queues, current, threadIDS, isInitialized, state,
                 return_value, ctx, cpu, target, proc, passed, delivered,
                 local, entry>>

Switch ==
  /\ Running("yield_timed")
  /\ swapcontext(my.temp, my.next, ctx)
  /\ Goto(my.back)
  /\ Leave
  /\ UNCHANGED <<queues, current, threadIDS, isInitialized, armed, state,
                 return_value, target, proc, passed, delivered>>

-----------------------------------------------------------------------------
(***************************************************************************)
(* my_pthread_create.  (Always a new id here: the recycled names of        *)
(* Scheduler only matter for what happens eventually.)                     *)
(***************************************************************************)
\* The descriptor, not shared yet, gets the next id.
CallCreate(garbage) ==
  /\ Running("user")
  /\ threadIDS < MaxThreads
  /\ return_value' = [return_value EXCEPT ![threadIDS] = garbage]
  /\ Assign([my EXCEPT !.node = threadIDS])
  /\ Goto("create_numbered")
  /\ Enter
  /\ UNCHANGED <<queues, current, threadIDS, isInitialized, armed, state, ctx,
                 cpu, target, proc, passed, delivered>>

CountThread ==
  /\ Running("create_numbered")
  /\ threadIDS' = threadIDS + 1
  /\ Goto("create_counted")
  /\ UNCHANGED <<queues, current, isInitialized, armed, state, return_value,
                 ctx, cpu, target, proc, passed, delivered, local, entry>>

\* Its state, and the context that makecontext prepares.
MakeThread ==
  /\ Running("create_counted")
  /\ state' = [state EXCEPT ![my.node] = "ACTIVE"]
  /\ ctx' = [ctx EXCEPT ![my.node] = my.node]
  /\ at' = [at EXCEPT ![my.node] = "user", ![cpu] = "create_made"]
  /\ UNCHANGED <<queues, current, threadIDS, isInitialized, armed,
                 return_value, cpu, target, proc, passed, delivered, local,
                 entry>>

EnqueueNew ==
  /\ Running("create_made")
  /\ queue_priority_1' = enqueue(my.node, queue_priority_1)
  /\ Goto("create_enqueued")
  /\ UNCHANGED <<queue_priority_2, current, threadIDS, isInitialized, armed,
                 state, return_value, ctx, cpu, target, proc, passed,
                 delivered, local, entry>>

\* The first call also enters main.  One step: the timer was never armed yet.
EnqueueMain ==
  /\ Running("create_enqueued")
  /\ IF isInitialized
       THEN UNCHANGED <<queue_priority_1, current, isInitialized, state, ctx>>
       ELSE /\ isInitialized' = TRUE
            /\ ctx' = [ctx EXCEPT ![Main] = cpu]
            /\ state' = [state EXCEPT ![Main] = "ACTIVE"]
            /\ current' = Main
            /\ queue_priority_1' = enqueue(Main, queue_priority_1)
  /\ Goto("create_ready")
  /\ UNCHANGED <<queue_priority_2, threadIDS, armed, return_value, cpu,
                 target, proc, passed, delivered, local, entry>>

YieldFromCreate ==
  /\ Running("create_ready")
  /\ PeekFront("user")
  /\ UNCHANGED <<queues, current, threadIDS, isInitialized, armed, state,
                 return_value, ctx, cpu, target, proc, passed, delivered,
                 entry>>

-----------------------------------------------------------------------------
(***************************************************************************)
(* my_pthread_exit.                                                        *)
(***************************************************************************)
CallExit(value_ptr) ==
  /\ Running("user")
  /\ Assign([my EXCEPT !.temp = current, !.front = peek(queue_priority_1),
                       !.next = peek(queue_priority_2), !.value = value_ptr])
  /\ Goto("exit_peeked")
  /\ Enter
  /\ UNCHANGED <<queues, current, threadIDS, isInitialized, armed, state,
                 return_value, ctx, cpu, target, proc, passed, delivered>>

\* The peeked heads select the queue to dequeue from.
ExitFrom1 == my.front # NULL /\ my.temp = my.front

ExitQueue == CASE ExitFrom1 -> queue_priority_1
               [] ~ExitFrom1 /\ my.next # NULL -> queue_priority_2
               [] OTHER -> <<>>

ExitDequeue ==
  /\ Running("exit_peeked")
  /\ my.temp # NULL
  /\ ExitQueue # <<>>
  /\ IF ExitFrom1 THEN /\ queue_priority_1' = dequeue(queue_priority_1)
                       /\ UNCHANGED queue_priority_2
                  ELSE /\ queue_priority_2' = dequeue(queue_priority_2)
                       /\ UNCHANGED queue_priority_1
  /\ Assign([my EXCEPT !.node = peek(ExitQueue)])
  /\ Goto("exit_dequeued")
  /\ UNCHANGED <<current, threadIDS, isInitialized, armed, state, return_value,
                 ctx, cpu, target, proc, passed, delivered, entry>>

\* (mutant: the state is not set)
ExitComplete_Forgotten ==
  /\ Running("exit_dequeued")
  /\ passed' = [passed EXCEPT ![cpu] = my.value]
  /\ Goto("exit_completed")
  /\ UNCHANGED <<queues, current, threadIDS, isInitialized, armed, state,
                 return_value, ctx, cpu, target, proc, delivered, local, entry>>

ExitComplete ==
  /\ Running("exit_dequeued")
  /\ state' = Complete(my.node)
  /\ passed' = [passed EXCEPT ![cpu] = my.value]
  /\ Goto("exit_completed")
  /\ UNCHANGED <<queues, current, threadIDS, isInitialized, armed,
                 return_value, ctx, cpu, target, proc, delivered, local, entry>>

ExitStore ==
  /\ Running("exit_completed")
  /\ return_value' = StoreReturnValue(my.node, my.value)
  /\ Goto("exit_stored")
  /\ UNCHANGED <<queues, current, threadIDS, isInitialized, armed, state, ctx,
                 cpu, target, proc, passed, delivered, local, entry>>

ExitClearCurrent ==
  /\ Running("exit_stored")
  /\ current # NULL
  /\ current' = NULL
  /\ Goto("exit_noCurrent")
  /\ UNCHANGED <<queues, threadIDS, isInitialized, armed, state, return_value,
                 ctx, cpu, target, proc, passed, delivered, local, entry>>

YieldFromExit ==
  /\ Running("exit_noCurrent")
  /\ PeekFront("exited")
  /\ UNCHANGED <<queues, current, threadIDS, isInitialized, armed, state,
                 return_value, ctx, cpu, target, proc, passed, delivered,
                 entry>>

-----------------------------------------------------------------------------
\* A NULL pointer is dereferenced: exit without a current thread, or a queue
\* that was emptied between the peek and the dequeue.
DereferencesNull ==
  \/ at[cpu] = "exit_peeked" /\ (my.temp = NULL \/ ExitQueue = <<>>)
  \/ at[cpu] = "exit_stored" /\ current = NULL
  \/ at[cpu] = "yield_peeked" /\ my.front # NULL /\ current = my.front
                             /\ FrontQueue = <<>>
  \/ at[cpu] = "yield_requeued" /\ NextThread = NULL

NullDereference ==
  /\ proc = "up"
  /\ DereferencesNull
  /\ proc' = "crashed"
  /\ entry' = <<>>
  /\ UNCHANGED <<queues, current, threadIDS, isInitialized, armed, state,
                 return_value, ctx, cpu, at, target, passed, delivered, local>>

\* SIGALRM: the handler's my_pthread_yield, and when it switches threads the
\* interrupted call stays where it is.
Tick ==
  /\ proc = "up"
  /\ armed
  /\ at[cpu] \in {"user", "join"} \union TickPoints
  /\ Yield
  /\ entry' = IF cpu' = cpu THEN entry ELSE <<>>
  /\ UNCHANGED local

JoinStep ==
  /\ (\E u \in Threads : JoinCall(u)) \/ JoinReturn
  /\ UNCHANGED <<local, entry>>

ProcessEnd ==
  /\ ReturnFromFunction \/ Terminated
  /\ UNCHANGED <<local, entry>>

StepNext ==
  \/ CallYield \/ ReturnEmpty \/ ChooseFront \/ DequeueFront \/ Requeue
  \/ PeekNext \/ MarkNext \/ ChooseNext \/ SetTimer \/ Switch
  \/ \E garbage \in Pointers : CallCreate(garbage)
  \/ CountThread \/ MakeThread \/ EnqueueNew \/ EnqueueMain \/ YieldFromCreate
  \/ \E value_ptr \in Pointers : CallExit(value_ptr)
  \/ ExitDequeue \/ ExitComplete \/ ExitStore \/ ExitClearCurrent
  \/ YieldFromExit
  \/ NullDereference \/ Tick \/ JoinStep \/ ProcessEnd

StepSpec == StepInit /\ [][StepNext]_stepVars

-----------------------------------------------------------------------------
(***************************************************************************)
(* The split library implements the atomic one.  While a call is under way *)
(* the atomic library is still in the state in which the call was entered; *)
(* it moves when the call returns or switches threads.                     *)
(***************************************************************************)
View == IF entry = <<>> THEN Committed ELSE entry

Atomic == INSTANCE Scheduler WITH
  queue_priority_1 <- View[1], queue_priority_2 <- View[2],
  current <- View[3], threadIDS <- View[4], isInitialized <- View[5],
  armed <- View[6], state <- View[7], return_value <- View[8],
  ctx <- View[9], cpu <- View[10], at <- View[11], target <- View[12],
  proc <- View[13], passed <- View[14], delivered <- View[15]

\* Every behaviour of the split library is one of the atomic library.
ImplementsAtomic == Atomic!Spec

\* Whenever a thread spins in my_pthread_join, the thread it waits for has
\* completed or is still in a queue, so that it can run and complete.
JoinTargetCanComplete ==
  (proc = "up" /\ at[cpu] = "join")
     => (state[target[cpu]] = "COMPLETED" \/ target[cpu] \in Queued)

=============================================================================
