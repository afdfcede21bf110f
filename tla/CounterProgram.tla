--------------------------- MODULE CounterProgram ---------------------------
(***************************************************************************)
(* Assignment2/main.c on its library: main mallocs an array of handles,    *)
(* creates numThreads threads that each malloc half of the memory and      *)
(* increment a shared counter ITER times under the mutex, joins them and   *)
(* prints the counter.  It puts together PagedThreads, TicketMutex and     *)
(* this client.                                                            *)
(*                                                                         *)
(* A process runs this program or, with client "any", another one that     *)
(* makes the calls of PagedThreads in any order.                           *)
(***************************************************************************)
EXTENDS PagedThreads

CONSTANTS
  ITER,         \* rounds of each thread: the code's 1000000
  HalfOfPages,  \* the page on which a block of half of the memory ends
  IntRange      \* the number of values of an int

ASSUME IterAssumption == ITER \in Nat

\* A thread has a page left after its block, and the frames that main's pages
\* were moved to when the first thread was created lie below the block's end
\* (768 of 1536 frames).
ASSUME HalfAssumption == HalfOfPages \in 5..(MEMORYPAGES - 3)

VARIABLES
  client,       \* "counter" or "any"
  numThreads,   \* the program's argument
  c,            \* the shared counter
  tmp,          \* each thread's "temp", NULL when it holds nothing
  iter,         \* rounds that each thread has begun
  malloced,     \* the threads whose malloc was called
  ticket, turn, myturn, loaded, lockPc    \* the mutex

Mutex == INSTANCE TicketMutex WITH Clients <- Threads, pc <- lockPc

mutexVars == <<ticket, turn, myturn, loaded, lockPc>>

clientVars == <<client, numThreads, c, tmp, iter, malloced>>

programVars == <<vars, clientVars, mutexVars>>

\* lock and c are globals, zero from the start.  main hands lock, two ints, to the
\* pthread_mutex_init of libc, which writes zeros over sizeof(pthread_mutex_t)
\* bytes: lock, and 32 bytes behind it.  Assumed: the linker put nothing there
\* that is not zero then (c is, the only other variable of main.c).
ProgramInit ==
  /\ Init
  /\ Mutex!Init
  /\ client \in {"counter", "any"}
  /\ numThreads \in 1..(MaxThreads - 1)
  /\ client = "any" => numThreads = 1
  /\ c = 0
  /\ tmp = [t \in Threads |-> NULL]
  /\ iter = [t \in Threads |-> 0]
  /\ malloced = {}

-----------------------------------------------------------------------------
(***************************************************************************)
(* main                                                                    *)
(***************************************************************************)
\* Nobody can interrupt the program: it has the processor unless the library
\* is at work.
UserCode == client = "counter" /\ Running("user")

InMain == UserCode /\ current = Main

mallocHandles ==
  /\ InMain
  /\ Main \notin malloced
  /\ myallocate(0, 0)
  /\ malloced' = malloced \union {Main}
  /\ UNCHANGED <<client, numThreads, c, tmp, iter, mutexVars>>

\* (mutant: one thread too few)
CreateLoop_Short == threadIDS < numThreads

CreateLoop == threadIDS <= numThreads

createThread ==
  /\ InMain
  /\ Main \in malloced
  /\ CreateLoop
  /\ my_pthread_create
  /\ UNCHANGED <<clientVars, mutexVars>>

Unjoined == {u \in 1..numThreads : state[u] # "FREED"}

\* threads[i] is read from the first page of main.
joinThread ==
  /\ InMain
  /\ Main \in malloced /\ ~CreateLoop
  /\ Unjoined # {}
  /\ JoinCall(Min(Unjoined))
  /\ UNCHANGED <<clientVars, mutexVars>>

\* "counter final val: %d, expecting %d"
mainReturns ==
  /\ InMain
  /\ Main \in malloced /\ ~CreateLoop
  /\ Unjoined = {}
  /\ proc' = "over"
  /\ UNCHANGED <<sched, paging, pc, locals, clientVars, mutexVars>>

-----------------------------------------------------------------------------
(***************************************************************************)
(* counter                                                                 *)
(***************************************************************************)
InCounter == UserCode /\ current # Main /\ current \in malloced

mallocHalf ==
  /\ UserCode
  /\ current \notin malloced \union {Main}
  /\ myallocate(HalfOfPages, HalfOfPages)
  /\ malloced' = malloced \union {current}
  /\ UNCHANGED <<client, numThreads, c, tmp, iter, mutexVars>>

lockCalled ==
  /\ InCounter
  /\ iter[current] < ITER
  /\ Mutex!TakeTicket(current)
  /\ iter' = [iter EXCEPT ![current] = @ + 1]
  /\ UNCHANGED <<vars, client, numThreads, c, tmp, malloced>>

\* The loop of my_pthread_mutex_lock.
lockWaits ==
  /\ InCounter
  /\ lockPc[current] = "waiting"
  /\ IF turn = myturn[current]
       THEN Mutex!EnterWhenTurn(current) /\ UNCHANGED vars
       ELSE Yield /\ UNCHANGED mutexVars
  /\ UNCHANGED clientVars

\* temp = c;
loadCounter ==
  /\ InCounter
  /\ lockPc[current] = "inside" /\ tmp[current] = NULL
  /\ tmp' = [tmp EXCEPT ![current] = c]
  /\ UNCHANGED <<vars, client, numThreads, c, iter, malloced, mutexVars>>

\* temp++; c = temp; and the unlock begins.
storeCounter ==
  /\ InCounter
  /\ tmp[current] # NULL
  /\ c' = tmp[current] + 1
  /\ Mutex!LoadTurn(current)
  /\ UNCHANGED <<vars, client, numThreads, tmp, iter, malloced>>

unlockReturns ==
  /\ InCounter
  /\ Mutex!StoreTurn(current)
  /\ tmp' = [tmp EXCEPT ![current] = NULL]
  /\ UNCHANGED <<vars, client, numThreads, c, iter, malloced>>

exitCounter ==
  /\ InCounter
  /\ iter[current] = ITER /\ lockPc[current] = "outside"
  /\ my_pthread_exit
  /\ UNCHANGED <<clientVars, mutexVars>>

-----------------------------------------------------------------------------
\* A join of the program.
JoinStep ==
  /\ client = "counter"
  /\ JoinSpin \/ JoinReturn
  /\ UNCHANGED <<clientVars, mutexVars>>

\* The library's loops, whoever called it.
LibraryLoop == (Switch \/ Allocation) /\ UNCHANGED <<clientVars, mutexVars>>

SliceEnds == SIGVTALRM /\ UNCHANGED <<clientVars, mutexVars>>

AnyClient ==
  client = "any" /\ (Calls \/ Malloc) /\ UNCHANGED <<clientVars, mutexVars>>

Program ==
  \/ mallocHandles \/ createThread \/ joinThread \/ mainReturns
  \/ mallocHalf \/ lockCalled \/ lockWaits \/ loadCounter \/ storeCounter
  \/ unlockReturns \/ exitCounter \/ JoinStep \/ LibraryLoop

ProgramNext == Program \/ SliceEnds \/ AnyClient

\* The program and the library's loops go on by themselves.
ProgramSpec ==
  /\ ProgramInit /\ [][ProgramNext]_programVars
  /\ WF_programVars(Program)

-----------------------------------------------------------------------------
(***************************************************************************)
(* Properties: those of PagedThreads, and the following.                   *)
(***************************************************************************)

\* The last of numThreads threads is created in frames, with main's pages and
\* those of the other threads in memory: in the code up to two threads, which is
\* main's default.  The first pages of a further thread get no header.
Fits == (HalfOfPages + 2) * (numThreads - 1) + 4 <= MEMORYPAGES

\* Whenever the code of a program that fits executes, every page that the
\* executing thread has written is in its own frame, accessible, and holds that
\* thread's data, although the blocks of all threads go over the same half of the
\* frames: the handles that main passes to my_pthread_join are the ones that
\* my_pthread_create stored.
BlocksIntact ==
  UserCode /\ Fits =>
    \A k \in written[current] :
      pageTables[current][k] = k /\ prot[k] /\ store[k] = <<current, k>>

\* The program prints the count it expects; with one thread always, with more
\* unless the end of a time slice kills it first.
CountIsPrinted ==
  client = "counter" ~> \/ proc = "over" /\ c = ITER * numThreads
                        \/ proc = "killed" /\ numThreads > 1
=============================================================================
