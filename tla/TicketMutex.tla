---------------------------- MODULE TicketMutex ----------------------------
(***************************************************************************)
(* my_pthread_mutex_t of Assignment1/my_pthread.c: a ticket lock.  The two *)
(* counters are ints that wrap around; IntRange stands for 2^32.  Between  *)
(* any two steps the timer may give the processor to another thread, so    *)
(* the steps of different threads interleave freely.                       *)
(***************************************************************************)
EXTENDS Integers, FiniteSets

CONSTANTS
  Clients,    \* the threads that use the mutex
  IntRange    \* the number of values of an int

ASSUME ClientsAssumption == IsFiniteSet(Clients)

\* There are fewer threads than ints, so that no two waiting threads can hold
\* the same ticket.
ASSUME IntRangeAssumption ==
  IntRange \in Nat \ {0} /\ Cardinality(Clients) < IntRange

CInt == 0..(IntRange - 1)

VARIABLES
  ticket,   \* the mutex: the next ticket to hand out
  turn,     \* the mutex: the ticket that may enter
  myturn,   \* each thread's local variable of my_pthread_mutex_lock
  loaded,   \* the value of turn a my_pthread_mutex_unlock loaded
  pc        \* where each thread is

mutexVars == <<ticket, turn, myturn, loaded, pc>>

Init ==
  /\ ticket = 0
  /\ turn = 0
  /\ myturn = [c \in Clients |-> 0]
  /\ loaded = [c \in Clients |-> 0]
  /\ pc = [c \in Clients |-> "outside"]

\* x + 1 on an int, which wraps around.
Increment(x) == IF x = IntRange - 1 THEN 0 ELSE x + 1

\* my_pthread_mutex_init, on a mutex that nobody is using.
my_pthread_mutex_init ==
  /\ \A c \in Clients : pc[c] = "outside"
  /\ ticket' = 0
  /\ turn' = 0
  /\ UNCHANGED <<myturn, loaded, pc>>

\* (mutant: two threads that come together get the same ticket)
TakeTicket_Racy(c) ==
  /\ pc[c] = "outside"
  /\ myturn' = [myturn EXCEPT ![c] = ticket]
  /\ ticket' \in {ticket, Increment(ticket)}
  /\ pc' = [pc EXCEPT ![c] = "waiting"]
  /\ UNCHANGED <<turn, loaded>>

\* my_pthread_mutex_lock: the atomic fetch and add.
TakeTicket(c) ==
  /\ pc[c] = "outside"
  /\ myturn' = [myturn EXCEPT ![c] = ticket]
  /\ ticket' = Increment(ticket)
  /\ pc' = [pc EXCEPT ![c] = "waiting"]
  /\ UNCHANGED <<turn, loaded>>

\* (mutant: a free mutex goes to any waiting thread)
EnterWhenTurn_Barging(c) ==
  /\ pc[c] = "waiting"
  /\ \A d \in Clients : pc[d] \notin {"inside", "unlocking"}
  /\ pc' = [pc EXCEPT ![c] = "inside"]
  /\ UNCHANGED <<ticket, turn, myturn, loaded>>

\* The while loop finds that it is this thread's turn.  (As long as it does
\* not, the loop changes nothing here and yields the processor.)
EnterWhenTurn(c) ==
  /\ pc[c] = "waiting"
  /\ turn = myturn[c]
  /\ pc' = [pc EXCEPT ![c] = "inside"]
  /\ UNCHANGED <<ticket, turn, myturn, loaded>>

\* my_pthread_mutex_unlock by the thread that locked it: turn is loaded, and
\* the incremented value stored, with no atomic operation.
LoadTurn(c) ==
  /\ pc[c] = "inside"
  /\ loaded' = [loaded EXCEPT ![c] = turn]
  /\ pc' = [pc EXCEPT ![c] = "unlocking"]
  /\ UNCHANGED <<ticket, turn, myturn>>

\* The call is over, and with it the life of its local variables.
EndLocals(c) ==
  /\ myturn' = [myturn EXCEPT ![c] = 0]
  /\ loaded' = [loaded EXCEPT ![c] = 0]

\* (mutant: turn moves on by two)
StoreTurn_Twice(c) ==
  /\ pc[c] = "unlocking"
  /\ turn' = Increment(Increment(loaded[c]))
  /\ pc' = [pc EXCEPT ![c] = "outside"]
  /\ EndLocals(c)
  /\ UNCHANGED ticket

StoreTurn(c) ==
  /\ pc[c] = "unlocking"
  /\ turn' = Increment(loaded[c])
  /\ pc' = [pc EXCEPT ![c] = "outside"]
  /\ EndLocals(c)
  /\ UNCHANGED ticket

Next ==
  \/ my_pthread_mutex_init
  \/ \E c \in Clients :
        TakeTicket(c) \/ EnterWhenTurn(c) \/ LoadTurn(c) \/ StoreTurn(c)

Spec == Init /\ [][Next]_mutexVars

-----------------------------------------------------------------------------
TypeOK ==
  /\ ticket \in CInt
  /\ turn \in CInt
  /\ myturn \in [Clients -> CInt]
  /\ loaded \in [Clients -> CInt]
  /\ pc \in [Clients -> {"outside", "waiting", "inside", "unlocking"}]

Holding(c) == pc[c] \in {"inside", "unlocking"}

\* At most one thread is between my_pthread_mutex_lock and the end of
\* my_pthread_mutex_unlock, wherever the counters have wrapped to.
MutualExclusion == \A c, d \in Clients : Holding(c) /\ Holding(d) => c = d

\* Every thread that took a ticket eventually gets the mutex.
LockIsGranted == \A c \in Clients : pc[c] = "waiting" ~> pc[c] = "inside"

-----------------------------------------------------------------------------
(***************************************************************************)
(* The argument: the tickets handed out and not yet used up are the ints   *)
(* from turn up to, not including, ticket, going round; each belongs to    *)
(* exactly one thread, and whoever holds the mutex has the first.          *)
(***************************************************************************)
Outstanding == IF turn <= ticket THEN turn..(ticket - 1)
               ELSE (turn..(IntRange - 1)) \union (0..(ticket - 1))

TicketsAreUnique ==
  \A c, d \in Clients :
     pc[c] # "outside" /\ pc[d] # "outside" /\ myturn[c] = myturn[d] => c = d

TicketsAreOutstanding ==
  /\ \A c \in Clients : pc[c] # "outside" => myturn[c] \in Outstanding
  /\ \A n \in Outstanding : \E c \in Clients : pc[c] # "outside" /\ myturn[c] = n

HolderHasTurn ==
  \A c \in Clients : /\ Holding(c) => myturn[c] = turn
                     /\ pc[c] = "unlocking" => loaded[c] = turn

\* The inductive invariant behind MutualExclusion.
TicketInvariant ==
  TypeOK /\ TicketsAreUnique /\ TicketsAreOutstanding /\ HolderHasTurn

-----------------------------------------------------------------------------
(***************************************************************************)
(* The ticket lock implements a first-come, first-served lock: the         *)
(* requests are the threads with a ticket, in the order from turn on (each *)
(* as the set of the owners of its ticket).                                *)
(***************************************************************************)
Owners(n) == {c \in Clients : pc[c] # "outside" /\ myturn[c] = n}

WaitingLine ==
  [i \in 1..Cardinality({c \in Clients : pc[c] # "outside"}) |->
     Owners((turn + i - 1) % IntRange)]

Fifo == INSTANCE FifoLock WITH
          Clients <- {{c} : c \in Clients},
          requests <- WaitingLine,
          granted <- \E c \in Clients : Holding(c)

\* Threads enter in the order of their fetch-and-add, and a request that has
\* come to the front is granted.
ImplementsFifoLock == Fifo!LockSpec
=============================================================================
