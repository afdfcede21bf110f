------------------------- MODULE PagedThreadsProofs -------------------------
(***************************************************************************)
(* Proofs about PagedThreads.  While no thread has allocated past its first*)
(* page the paging is clean: every page is where its table says, apart from*)
(* all others, marked and protected.  The argument is one lemma per loop   *)
(* step of the library, which says where the page that is being moved is,  *)
(* and one per call, which says how the scheduler gets there.  Invariants  *)
(* allow for the blocks of main.c (CounterProgram), which are larger.      *)
(***************************************************************************)
EXTENDS CounterProgram, SequenceTheorems, FiniteSetTheorems,
        WellFoundedInduction, TLAPS

EndPages == {0, Last}

BlockPages == (0..HalfOfPages) \union {Last}

Born == {t \in Threads : t < threadIDS}

PagesOf(t) == {k \in Pages : pageTables[t][k] # NONE}

NoneFreed == \A t \in Threads : state[t] # "FREED"

-----------------------------------------------------------------------------
(* The scheduler.                                                          *)

States == {"UNBORN", "ACTIVE", "COMPLETED", "FREED"}

\* The queues hold threads that are ACTIVE in st, none of them twice.
Consistent(q1, q2, st) ==
  /\ q1 \in Seq(Threads) /\ q2 \in Seq(Threads)
  /\ IsInjective(q1) /\ IsInjective(q2)
  /\ Range(q1) \intersect Range(q2) = {}
  /\ \A t \in Range(q1) \union Range(q2) : st[t] = "ACTIVE"

\* The thread that runs is the front of the queues; before the first create
\* there are no queues.
SchedInv ==
  /\ threadIDS \in 1..MaxThreads
  /\ state \in [Threads -> States]
  /\ \A t \in Threads : state[t] = "UNBORN" <=> t >= threadIDS
  /\ at \in [Threads -> {"unborn", "user", "join", "exited"}]
  /\ target \in [Threads -> Threads \union {NULL}]
  /\ \A t \in Threads : at[t] = "join" => target[t] \in Threads
  /\ mainEnqueued \in BOOLEAN
  /\ Consistent(queue_priority_1, queue_priority_2, state)
  /\ mainEnqueued => current = peekEither(queue_priority_1, queue_priority_2)
  /\ ~mainEnqueued => /\ queue_priority_1 = <<>> /\ queue_priority_2 = <<>>
                      /\ current \in {Main, NULL}
                      /\ threadIDS = 1
  /\ current = NULL => proc # "up"
  /\ current # NULL => current \in Threads /\ state[current] = "ACTIVE"

\* What the library's loops keep in their local variables.
LoopInv ==
  /\ written \in [Threads -> SUBSET Pages]
  /\ \A t \in Born : EndPages \subseteq written[t]
  /\ \A t \in Threads \ Born : written[t] = {}
  /\ pc \in {"run", "out", "in", "tags", "fault"}
  /\ pc \in {"run", "out", "in"} => want = <<>> /\ last = 0
  /\ pc = "out" => temp \in Threads /\ state[temp] = "ACTIVE"
  /\ pc = "in" => temp = NULL \/ (temp \in Threads /\ state[temp] = "ACTIVE")
  /\ pc # "run" => current # NULL
  /\ pc \in {"tags", "fault"} =>
       /\ last \in 0..(MEMORYPAGES - 3) /\ i \in 0..(last + 1)
       /\ i > last => last \in written[current]
  /\ pc = "fault" => want # <<>>
  /\ want \in Seq(0..(Last - 1))

LEMMA ThreadFacts ==
  /\ MaxThreads \in Nat \ {0} /\ MEMORYPAGES \in Nat /\ TOTALPAGES \in Nat
  /\ Main \in Threads
  /\ NULL \notin Threads /\ NONE \notin Locations
  /\ Pages \subseteq Locations
  /\ 0 \in Pages /\ 1 \in Pages /\ Last \in Pages /\ Last \in Nat /\ Last > 1
  /\ \A t \in Threads : t \in Nat
  BY SizeAssumption, RoomAssumption, NoneAssumption
  DEF Threads, Main, Pages, Last, Locations

LEMMA QueueFacts ==
  ASSUME NEW S, NEW s \in Seq(S)
  PROVE  /\ Range(s) \subseteq S
         /\ s # <<>> => Head(s) \in Range(s)
         /\ Range(<<>>) = {} /\ <<>> \in Seq(S) /\ IsInjective(<<>>)
  <1>1. /\ Range(s) = {s[n] : n \in 1..Len(s)}
        /\ Range(s) \subseteq S
        /\ s # <<>> => Head(s) \in Range(s)
    BY LenProperties, EmptySeq, ElementOfSeq DEF Range
  <1>2. Range(<<>>) = {} /\ <<>> \in Seq(S) /\ IsInjective(<<>>)
    BY EmptySeq DEF Range, IsInjective
  <1> QED
    BY <1>1, <1>2

\* enqueue adds one member.
LEMMA EnqueueFacts ==
  ASSUME NEW S, NEW s \in Seq(S), NEW x \in S, IsInjective(s), x \notin Range(s)
  PROVE  /\ enqueue(x, s) \in Seq(S)
         /\ enqueue(x, s) # <<>>
         /\ Range(enqueue(x, s)) = Range(s) \union {x}
         /\ IsInjective(enqueue(x, s))
         /\ s # <<>> => Head(enqueue(x, s)) = Head(s)
  <1> DEFINE a == Append(s, x)
  <1>1. /\ a \in Seq(S)
        /\ Len(a) = Len(s) + 1
        /\ Len(s) \in Nat
        /\ \A n \in 1..Len(s) : a[n] = s[n]
        /\ a[Len(s) + 1] = x
        /\ a # <<>>
        /\ DOMAIN a = 1..(Len(s) + 1) /\ DOMAIN s = 1..Len(s)
    BY AppendProperties, LenProperties
  <1>2. Range(a) = Range(s) \union {x} /\ IsInjective(a)
    BY <1>1 DEF Range, IsInjective
  <1>3. s # <<>> => Head(a) = Head(s)
    BY HeadTailAppend
  <1> QED
    BY <1>1, <1>2, <1>3 DEF enqueue

\* dequeue removes the front, and only it.
LEMMA DequeueFacts ==
  ASSUME NEW S, NEW s \in Seq(S), IsInjective(s), s # <<>>
  PROVE  /\ dequeue(s) \in Seq(S)
         /\ Range(dequeue(s)) = Range(s) \ {Head(s)}
         /\ IsInjective(dequeue(s))
  <1> DEFINE r == Tail(s)
  <1>1. /\ r \in Seq(S)
        /\ Len(r) = Len(s) - 1
        /\ Len(s) \in Nat \ {0}
        /\ \A n \in 1..Len(r) : r[n] = s[n + 1]
        /\ Head(s) = s[1]
    BY HeadTailProperties, EmptySeq
  <1>2. DOMAIN r = 1..(Len(s) - 1) /\ DOMAIN s = 1..Len(s)
    BY <1>1, LenProperties
  <1>3. Range(r) \subseteq Range(s) \ {Head(s)} /\ IsInjective(r)
    BY <1>1, <1>2 DEF Range, IsInjective
  <1>4. ASSUME NEW n \in 1..Len(s), s[n] # Head(s)
        PROVE  s[n] \in Range(r)
    <2>1. n - 1 \in 1..(Len(s) - 1) /\ r[n - 1] = s[n]
      BY <1>1, <1>4
    <2> QED
      BY <2>1, <1>2 DEF Range
  <1>5. Range(s) \ {Head(s)} \subseteq Range(r)
    BY <1>2, <1>4 DEF Range
  <1>6. dequeue(s) = r
    BY DEF dequeue
  <1> HIDE DEF r
  <1> QED
    BY <1>1, <1>3, <1>5, <1>6

LEMMA FrontFacts ==
  ASSUME NEW q1, NEW q2, NEW st, Consistent(q1, q2, st)
  PROVE  /\ peekEither(q1, q2) = NULL <=> q1 = <<>> /\ q2 = <<>>
         /\ peekEither(q1, q2) # NULL =>
              /\ peekEither(q1, q2) \in Threads
              /\ st[peekEither(q1, q2)] = "ACTIVE"
  <1>1. q1 # <<>> => Head(q1) \in Range(q1) /\ Head(q1) \in Threads
    BY QueueFacts DEF Consistent
  <1>2. q2 # <<>> => Head(q2) \in Range(q2) /\ Head(q2) \in Threads
    BY QueueFacts DEF Consistent
  <1> QED
    BY <1>1, <1>2, ThreadFacts DEF Consistent, peekEither, peek

\* Taking the front thread out of its queue leaves the others.
LEMMA TakeFrontFacts ==
  ASSUME NEW q1, NEW q2, NEW st, Consistent(q1, q2, st),
         peekEither(q1, q2) # NULL
  PROVE  LET rest1 == dequeue(q1)
             rest2 == IF q1 # <<>> THEN q2 ELSE dequeue(q2)
         IN  /\ Consistent(rest1, rest2, st)
             /\ Range(rest1) \union Range(rest2)
                  = (Range(q1) \union Range(q2)) \ {peekEither(q1, q2)}
  <1> DEFINE front == peekEither(q1, q2)
             rest1 == dequeue(q1)
             rest2 == IF q1 # <<>> THEN q2 ELSE dequeue(q2)
  <1>1. CASE q1 # <<>>
    <2>1. front = Head(q1) /\ rest2 = q2 /\ front \in Range(q1)
      BY <1>1, QueueFacts DEF peekEither, Consistent
    <2>2. /\ rest1 \in Seq(Threads)
          /\ Range(rest1) = Range(q1) \ {front}
          /\ IsInjective(rest1)
      BY <1>1, <2>1, DequeueFacts DEF Consistent
    <2> QED
      BY <2>1, <2>2 DEF Consistent
  <1>2. CASE q1 = <<>>
    <2>1. rest1 = <<>> /\ rest2 = dequeue(q2) /\ q2 # <<>> /\ front = Head(q2)
      BY <1>2 DEF dequeue, peekEither, peek
    <2>2. /\ rest2 \in Seq(Threads)
          /\ Range(rest2) = Range(q2) \ {front}
          /\ IsInjective(rest2)
      BY <2>1, DequeueFacts DEF Consistent
    <2>3. Range(rest1) = {} /\ Range(q1) = {} /\ rest1 \in Seq(Threads)
          /\ IsInjective(rest1)
      BY <1>2, <2>1, QueueFacts DEF Consistent
    <2> QED
      BY <2>1, <2>2, <2>3 DEF Consistent
  <1> QED
    BY <1>1, <1>2

\* A yield leaves the queues and states as they were, but for a rotation, and
\* starts a switch to the front of the queues unless they are empty.
SwitchStarts(cur) ==
  /\ current' = peekEither(queue_priority_1', queue_priority_2')
  /\ current' \in Threads /\ state'[current'] = "ACTIVE"
  /\ temp' = cur
  /\ pc' = IF cur = NULL THEN "in" ELSE "out"
  /\ i' = 0 /\ j' = 0
  /\ proc' = proc

NoSwitch(cur) ==
  /\ queue_priority_1' = <<>> /\ queue_priority_2' = <<>>
  /\ current' = cur
  /\ proc' = IF cur = NULL THEN "over" ELSE proc
  /\ UNCHANGED <<armed, pc, i, j, temp>>

LEMMA YieldFacts ==
  ASSUME NEW q1, NEW q2, NEW cur \in Threads \union {NULL},
         NEW st \in [Threads -> States],
         Consistent(q1, q2, st), my_pthread_yield(q1, q2, cur, st)
  PROVE  /\ Consistent(queue_priority_1', queue_priority_2', st)
         /\ state' = st
         /\ (q1 = <<>> /\ q2 = <<>> /\ NoSwitch(cur)) \/ SwitchStarts(cur)
  <1> USE ThreadFacts
  <1>1. CASE YieldNoThreads(q1, q2, cur, st)
    BY <1>1, FrontFacts DEF YieldNoThreads, NoSwitch
  <1>2. CASE YieldToFront(q1, q2, cur, st)
    BY <1>2, FrontFacts DEF YieldToFront, SwitchStarts
  <1>3. CASE YieldRotate(q1, q2, cur, st)
    <2> DEFINE front == peekEither(q1, q2)
               rest1 == dequeue(q1)
               rest2 == IF q1 # <<>> THEN q2 ELSE dequeue(q2)
               back  == enqueue(front, rest2)
               next  == peekEither(rest1, back)
    <2>1. front # NULL /\ front = cur /\ front \in Threads /\ st[front] = "ACTIVE"
      BY <1>3, FrontFacts DEF YieldRotate
    <2>2. /\ queue_priority_1' = rest1 /\ queue_priority_2' = back
          /\ current' = next
          /\ state' = [st EXCEPT ![next] = "ACTIVE"]
          /\ temp' = cur /\ pc' = "out" /\ i' = 0 /\ j' = 0 /\ proc' = proc
      BY <1>3, <2>1 DEF YieldRotate
    <2>3. /\ Consistent(rest1, rest2, st)
          /\ Range(rest1) \union Range(rest2)
                  = (Range(q1) \union Range(q2)) \ {front}
      BY <2>1, TakeFrontFacts
    <2>4. /\ back \in Seq(Threads) /\ back # <<>> /\ IsInjective(back)
          /\ Range(back) = Range(rest2) \union {front}
      <3>1. /\ rest2 \in Seq(Threads) /\ IsInjective(rest2)
            /\ front \in Threads /\ front \notin Range(rest2)
        BY <2>1, <2>3 DEF Consistent
      <3> HIDE DEF rest2, front
      <3> QED
        BY <3>1, EnqueueFacts
    <2>5. Consistent(rest1, back, st)
      BY <2>1, <2>3, <2>4 DEF Consistent
    <2>6. next # NULL /\ next \in Threads /\ st[next] = "ACTIVE"
      BY <2>4, <2>5, FrontFacts
    <2>7. state' = st
      BY <2>2, <2>6
    <2> QED
      BY <2>1, <2>2, <2>5, <2>6, <2>7 DEF SwitchStarts
  <1> QED
    BY <1>1, <1>2, <1>3 DEF my_pthread_yield

-----------------------------------------------------------------------------
(* The steps of the library and its clients, and what they do to the       *)
(* scheduler and to the local variables.                                   *)

\* A set of numbers has a least one, a set of pages a greatest one.
LEMMA LeastExists ==
  ASSUME NEW T, T \subseteq Nat, T # {}
  PROVE  Min(T) \in T /\ \A y \in T : Min(T) <= y
  <1>1. PICK x \in T : \A y \in T : ~(<<y, x>> \in OpToRel(<, Nat))
    BY WFMin, NatLessThanWellFounded
  <1>2. \A y \in T : ~(y < x)
    BY <1>1 DEF OpToRel
  <1>3. \A y \in T : x <= y
    BY <1>2
  <1> QED
    BY <1>3 DEF Min

LEMMA GreatestPage ==
  ASSUME NEW T, T \subseteq Pages, T # {}
  PROVE  Max(T) \in T /\ \A y \in T : Max(T) >= y
  <1> DEFINE U == {Last - y : y \in T}
  <1>1. Last \in Nat /\ \A y \in T : y \in Nat /\ y <= Last
    BY ThreadFacts DEF Pages, Last
  <1>a. U \subseteq Nat /\ U # {}
    BY <1>1
  <1>2. Min(U) \in U /\ \A z \in U : Min(U) <= z
    BY <1>a, LeastExists
  <1>3. PICK x \in T : Min(U) = Last - x
    BY <1>2
  <1>4. ASSUME NEW y \in T PROVE x >= y
    <2>1. Last - x <= Last - y
      BY <1>2, <1>3
    <2> QED
      BY <1>1, <2>1
  <1> QED
    BY <1>4 DEF Max

\* The process ends from outside or by a return from main.
ProcessEnds ==
  proc = "up" /\ proc' # "up" /\ UNCHANGED <<sched, paging, pc, locals>>

\* A step of the library or of any client of it.
LibStep ==
  \/ Calls \/ Switch \/ Allocation \/ ProcessEnds
  \/ \E f, r \in 0..(MEMORYPAGES - 3) : myallocate(f, r)

LEMMA RunningFacts ==
  ASSUME SchedInv, LoopInv, NEW where, Running(where)
  PROVE  /\ proc = "up" /\ pc = "run" /\ at[current] = where
         /\ current \in Threads /\ state[current] = "ACTIVE" /\ current \in Born
         /\ want = <<>> /\ last = 0
         /\ mainEnqueued => current = peekEither(queue_priority_1, queue_priority_2)
         /\ ~mainEnqueued => current = Main /\ queue_priority_1 = <<>>
                                            /\ queue_priority_2 = <<>>
  BY ThreadFacts DEF SchedInv, LoopInv, Running, Born, Threads

LEMMA CurrentIsBorn ==
  ASSUME SchedInv, current \in Threads
  PROVE  current \in Born /\ state[current] = "ACTIVE"
  BY ThreadFacts DEF SchedInv, Born, Threads

\* The queues and states that my_pthread_create hands to my_pthread_yield.
LEMMA CreateQueues ==
  ASSUME SchedInv, LoopInv, Running("user"), threadIDS \in Threads
  PROVE  LET q  == enqueue(threadIDS, queue_priority_1)
             q1 == IF mainEnqueued THEN q ELSE enqueue(current, q)
             st == [state EXCEPT ![threadIDS] = "ACTIVE"]
         IN  /\ Consistent(q1, queue_priority_2, st)
             /\ st \in [Threads -> States]
             /\ q1 # <<>>
  <1> USE ThreadFacts, RunningFacts
  <1> DEFINE new == threadIDS
             q  == enqueue(new, queue_priority_1)
             q1 == IF mainEnqueued THEN q ELSE enqueue(current, q)
             st == [state EXCEPT ![new] = "ACTIVE"]
  <1>1. new \in Threads /\ state[new] = "UNBORN" /\ st \in [Threads -> States]
        /\ current # new
    BY DEF SchedInv, States
  <1>2. Consistent(queue_priority_1, queue_priority_2, state)
    BY DEF SchedInv
  <1>3. new \notin Range(queue_priority_1) \union Range(queue_priority_2)
    BY <1>1, <1>2 DEF Consistent
  <1>4. /\ q \in Seq(Threads) /\ q # <<>> /\ IsInjective(q)
        /\ Range(q) = Range(queue_priority_1) \union {new}
    BY <1>1, <1>2, <1>3, EnqueueFacts DEF Consistent
  <1>5. \A t \in Range(queue_priority_1) \union Range(queue_priority_2) :
           t \in Threads /\ state[t] = "ACTIVE"
    BY <1>2, QueueFacts DEF Consistent
  <1>6. CASE mainEnqueued
    BY <1>1, <1>2, <1>3, <1>4, <1>5, <1>6 DEF Consistent, SchedInv
  <1>7. CASE ~mainEnqueued
    <2>1. Range(queue_priority_1) = {} /\ Range(queue_priority_2) = {}
      BY <1>2, <1>7, QueueFacts DEF Consistent
    <2>2. /\ q1 \in Seq(Threads) /\ q1 # <<>> /\ IsInjective(q1)
          /\ Range(q1) = {new, current}
      BY <1>1, <1>4, <1>7, <2>1, EnqueueFacts
    <2> QED
      BY <1>1, <1>2, <2>1, <2>2 DEF Consistent, SchedInv
  <1> QED
    BY <1>6, <1>7

\* What my_pthread_exit hands to it: the queues without the caller.
LEMMA ExitQueues ==
  ASSUME SchedInv, LoopInv, Running("user")
  PROVE  LET from1   == peek(queue_priority_1) = current
             removed == IF from1 THEN current ELSE peek(queue_priority_2)
             q1 == IF from1 THEN dequeue(queue_priority_1) ELSE queue_priority_1
             q2 == IF from1 THEN queue_priority_2 ELSE dequeue(queue_priority_2)
             st == IF removed = NULL THEN state
                   ELSE [state EXCEPT ![removed] = "COMPLETED"]
         IN  /\ Consistent(q1, q2, st)
             /\ st \in [Threads -> States]
             /\ mainEnqueued => st = [state EXCEPT ![current] = "COMPLETED"]
             /\ ~mainEnqueued => st = state /\ q1 = <<>> /\ q2 = <<>>
  <1> USE ThreadFacts, RunningFacts
  <1> DEFINE from1   == peek(queue_priority_1) = current
             removed == IF from1 THEN current ELSE peek(queue_priority_2)
             q1 == IF from1 THEN dequeue(queue_priority_1) ELSE queue_priority_1
             q2 == IF from1 THEN queue_priority_2 ELSE dequeue(queue_priority_2)
             st == IF removed = NULL THEN state
                   ELSE [state EXCEPT ![removed] = "COMPLETED"]
  <1>1. Consistent(queue_priority_1, queue_priority_2, state)
        /\ state \in [Threads -> States]
    BY DEF SchedInv
  <1>2. CASE ~mainEnqueued
    BY <1>1, <1>2 DEF peek, dequeue
  <1>3. CASE mainEnqueued
    <2>1. /\ from1 <=> queue_priority_1 # <<>>
          /\ removed = current
      BY <1>3, FrontFacts, <1>1 DEF peek, peekEither
    <2>2. q1 = dequeue(queue_priority_1)
          /\ q2 = IF queue_priority_1 # <<>> THEN queue_priority_2
                  ELSE dequeue(queue_priority_2)
      BY <2>1 DEF dequeue
    <2>3. /\ Consistent(q1, q2, state)
          /\ Range(q1) \union Range(q2)
                  = (Range(queue_priority_1) \union Range(queue_priority_2))
                      \ {current}
      BY <1>1, <1>3, <2>2, TakeFrontFacts
    <2>4. st = [state EXCEPT ![current] = "COMPLETED"]
          /\ st \in [Threads -> States]
      BY <1>1, <2>1 DEF States
    <2>5. \A t \in Range(q1) \union Range(q2) : t \in Threads /\ t # current
      BY <2>3, QueueFacts DEF Consistent
    <2>6. Consistent(q1, q2, st)
      BY <1>1, <2>3, <2>4, <2>5 DEF Consistent
    <2> QED
      BY <1>3, <2>4, <2>6
  <1> QED
    BY <1>2, <1>3

\* A yield by the running thread starts a switch, or there are no queues.
LEMMA YieldStep ==
  ASSUME SchedInv, LoopInv, proc = "up", pc = "run", current # NULL, Yield
  PROVE  /\ state' = state
         /\ Consistent(queue_priority_1', queue_priority_2', state)
         /\ \/ ~mainEnqueued /\ NoSwitch(current)
            \/ mainEnqueued /\ SwitchStarts(current)
  <1>1. Consistent(queue_priority_1, queue_priority_2, state)
        /\ state \in [Threads -> States] /\ current \in Threads
    BY DEF SchedInv
  <1>2. /\ Consistent(queue_priority_1', queue_priority_2', state)
        /\ state' = state
        /\ \/ queue_priority_1 = <<>> /\ queue_priority_2 = <<>> /\ NoSwitch(current)
           \/ SwitchStarts(current)
    BY <1>1, YieldFacts DEF Yield
  <1>3. queue_priority_1 = <<>> /\ queue_priority_2 = <<>> <=> ~mainEnqueued
    BY DEF SchedInv, peekEither, peek
  <1>4. ~mainEnqueued => NoSwitch(current)
    BY <1>3 DEF Yield, my_pthread_yield, YieldNoThreads, YieldToFront,
                YieldRotate, NoSwitch, peekEither, peek
  <1> QED
    BY <1>2, <1>3, <1>4

\* A call to my_pthread_create.
LEMMA CreateStep ==
  ASSUME SchedInv, LoopInv, my_pthread_create
  PROVE  /\ threadIDS \in Threads /\ state[threadIDS] = "UNBORN"
         /\ current # threadIDS
         /\ state' = [state EXCEPT ![threadIDS] = "ACTIVE"]
         /\ state' \in [Threads -> States]
         /\ Consistent(queue_priority_1', queue_priority_2', state')
         /\ SwitchStarts(current)
         /\ NoneFreed
  <1> USE ThreadFacts, RunningFacts
  <1> DEFINE q  == enqueue(threadIDS, queue_priority_1)
             q1 == IF mainEnqueued THEN q ELSE enqueue(current, q)
             st == [state EXCEPT ![threadIDS] = "ACTIVE"]
  <1>1. Running("user") /\ threadIDS \in Threads /\ NoneFreed
        /\ my_pthread_yield(q1, queue_priority_2, current, st)
    BY DEF my_pthread_create, NoneFreed
  <1>2. /\ Consistent(q1, queue_priority_2, st)
        /\ st \in [Threads -> States]
        /\ q1 # <<>>
    BY <1>1, CreateQueues
  <1> HIDE DEF q1, st
  <1>3. /\ Consistent(queue_priority_1', queue_priority_2', st)
        /\ state' = st
        /\ SwitchStarts(current)
    BY <1>1, <1>2, YieldFacts
  <1> QED
    BY <1>1, <1>2, <1>3 DEF st, SchedInv

\* A call to my_pthread_exit.
LEMMA ExitStep ==
  ASSUME SchedInv, LoopInv, my_pthread_exit
  PROVE  /\ state' \in [Threads -> States]
         /\ Consistent(queue_priority_1', queue_priority_2', state')
         /\ mainEnqueued => state' = [state EXCEPT ![current] = "COMPLETED"]
         /\ ~mainEnqueued => state' = state
         /\ \/ NoSwitch(NULL)
            \/ mainEnqueued /\ SwitchStarts(NULL)
  <1> USE ThreadFacts, RunningFacts
  <1> DEFINE from1   == peek(queue_priority_1) = current
             removed == IF from1 THEN current ELSE peek(queue_priority_2)
             q1 == IF from1 THEN dequeue(queue_priority_1) ELSE queue_priority_1
             q2 == IF from1 THEN queue_priority_2 ELSE dequeue(queue_priority_2)
             st == IF removed = NULL THEN state
                   ELSE [state EXCEPT ![removed] = "COMPLETED"]
  <1>1. Running("user") /\ my_pthread_yield(q1, q2, NULL, st)
    BY DEF my_pthread_exit
  <1>2. /\ Consistent(q1, q2, st)
        /\ st \in [Threads -> States]
        /\ mainEnqueued => st = [state EXCEPT ![current] = "COMPLETED"]
        /\ ~mainEnqueued => st = state /\ q1 = <<>> /\ q2 = <<>>
    BY <1>1, ExitQueues
  <1> HIDE DEF q1, q2, st
  <1>3. /\ Consistent(queue_priority_1', queue_priority_2', st)
        /\ state' = st
        /\ (q1 = <<>> /\ q2 = <<>> /\ NoSwitch(NULL)) \/ SwitchStarts(NULL)
    BY <1>1, <1>2, YieldFacts
  <1>4. ~mainEnqueued => NoSwitch(NULL)
    <2> SUFFICES ASSUME ~mainEnqueued PROVE NoSwitch(NULL)
      OBVIOUS
    <2>1. peekEither(q1, q2) = NULL
      BY <1>2 DEF peekEither, peek
    <2> QED
      BY <2>1, <1>1, <1>2 DEF my_pthread_yield, YieldNoThreads, YieldToFront,
                          YieldRotate, NoSwitch
  <1> QED
    BY <1>2, <1>3, <1>4

\* Between calls the scheduler's variables stay as they are.
SchedKept == UNCHANGED <<queue_priority_1, queue_priority_2, current, threadIDS,
                         mainEnqueued, state, at, target>>

LEMMA LoopStepsKeepSched ==
  ASSUME Switch \/ Allocation \/ ProcessEnds
           \/ \E f, r \in 0..(MEMORYPAGES - 3) : myallocate(f, r)
  PROVE  SchedKept /\ proc = "up"
  BY DEF Switch, SwapOutPage, SwapOutLast, Evict, SwapInPage, EvictLast,
     SwapInLast, Allocation, WriteTag, Fault, FaultOnFreeFrame, FaultScan,
     FaultGivesUp, ClaimEvicts, ClaimPage, myallocateReturns, myallocate,
     ProcessEnds, SchedKept, sched, InLoop, Running

LEMMA SchedInvStep ==
  ASSUME SchedInv, LoopInv, LibStep
  PROVE  SchedInv'
  <1> USE ThreadFacts
  <1>1. CASE my_pthread_create
    <2>1. /\ Running("user")
          /\ threadIDS' = threadIDS + 1 /\ mainEnqueued' = TRUE
          /\ at' = [at EXCEPT ![threadIDS] = "user"] /\ target' = target
      BY <1>1 DEF my_pthread_create
    <2>2. threadIDS \in Threads /\ threadIDS' \in 1..MaxThreads
      BY <2>1, <1>1, CreateStep DEF SchedInv, Threads
    <2>3. \A t \in Threads : state'[t] = "UNBORN" <=> t >= threadIDS'
      BY <2>1, <2>2, <1>1, CreateStep DEF SchedInv, Threads
    <2>4. target' \in [Threads -> Threads \union {NULL}]
          /\ at' \in [Threads -> {"unborn", "user", "join", "exited"}]
          /\ \A t \in Threads : at'[t] = "join" => target'[t] \in Threads
      BY <2>1, <2>2 DEF SchedInv
    <2> QED
      BY <1>1, <2>1, <2>2, <2>3, <2>4, CreateStep DEF SchedInv, SwitchStarts
  <1>2. CASE VoluntaryYield \/ JoinSpin
    <2>1. Yield /\ proc = "up" /\ pc = "run" /\ current # NULL
          /\ UNCHANGED <<threadIDS, mainEnqueued, at, target>>
      BY <1>2 DEF VoluntaryYield, JoinSpin, Running, Yield
    <2>2. CASE ~mainEnqueued /\ NoSwitch(current)
      BY <2>1, <2>2, YieldStep DEF SchedInv, NoSwitch
    <2>3. CASE mainEnqueued /\ SwitchStarts(current)
      BY <2>1, <2>3, YieldStep DEF SchedInv, SwitchStarts
    <2> QED
      BY <2>1, <2>2, <2>3, YieldStep
  <1>3. CASE my_pthread_exit
    <2>1. /\ Running("user") /\ UNCHANGED <<threadIDS, mainEnqueued, target>>
          /\ at' = [at EXCEPT ![current] = "exited"]
      BY <1>3 DEF my_pthread_exit
    <2>2. /\ at' \in [Threads -> {"unborn", "user", "join", "exited"}]
          /\ \A t \in Threads : at'[t] = "join" => target'[t] \in Threads
          /\ \A t \in Threads : state'[t] = "UNBORN" <=> t >= threadIDS'
      BY <1>3, <2>1, RunningFacts, ExitStep DEF SchedInv
    <2>3. mainEnqueued' /\ NoSwitch(NULL) =>
             current' = peekEither(queue_priority_1', queue_priority_2')
      BY DEF NoSwitch, peekEither, peek
    <2> QED
      BY <1>3, <2>1, <2>2, <2>3, ExitStep DEF SchedInv, SwitchStarts, NoSwitch
  <1>4. CASE \E u \in Threads : JoinCall(u)
    BY <1>4, RunningFacts DEF SchedInv, JoinCall
  <1>5. CASE JoinReturn
    <2>1. /\ Running("join") /\ state[target[current]] = "COMPLETED"
          /\ state' = [state EXCEPT ![target[current]] = "FREED"]
          /\ at' = [at EXCEPT ![current] = "user"]
          /\ target' = [target EXCEPT ![current] = NULL]
          /\ UNCHANGED <<queue_priority_1, queue_priority_2, current, threadIDS,
                         mainEnqueued, proc>>
      BY <1>5 DEF JoinReturn
    <2>2. target[current] \in Threads /\ current # target[current]
      BY <2>1, RunningFacts DEF SchedInv
    <2>3. Consistent(queue_priority_1, queue_priority_2, state)'
      BY <2>1, <2>2 DEF SchedInv, Consistent
    <2> QED
      BY <2>1, <2>2, <2>3, RunningFacts DEF SchedInv, States
  <1>6. CASE Switch \/ Allocation \/ ProcessEnds
              \/ \E f, r \in 0..(MEMORYPAGES - 3) : myallocate(f, r)
    <2>1. SchedKept /\ proc = "up"
      BY <1>6, LoopStepsKeepSched
    <2> QED
      BY <2>1 DEF SchedInv, SchedKept
  <1> QED
    BY <1>1, <1>2, <1>3, <1>4, <1>5, <1>6 DEF LibStep, Calls

\* The page on which the block that myallocate splits starts.
LEMMA HighestPageFacts ==
  ASSUME SchedInv, LoopInv, current \in Threads
  PROVE  /\ HighestPage \in written[current] \ {Last}
         /\ \A k \in written[current] \ {Last} : k <= HighestPage
         /\ HighestPage \in Nat
  <1> DEFINE T == written[current] \ {Last}
  <1>1. current \in Born
    BY ThreadFacts DEF SchedInv, Born, Threads
  <1>2. T \subseteq Pages /\ 0 \in T
    BY <1>1, ThreadFacts DEF LoopInv, EndPages
  <1>3. Max(T) \in T /\ \A y \in T : Max(T) >= y
    BY <1>2, GreatestPage
  <1>4. \A y \in T : y \in Nat
    BY <1>2 DEF Pages
  <1>5. HighestPage = Max(T)
    BY DEF HighestPage
  <1> HIDE DEF T
  <1>6. Max(T) \in T /\ Max(T) \in Nat /\ \A y \in T : y <= Max(T)
    BY <1>3, <1>4
  <1> QED
    BY <1>5, <1>6 DEF T

\* The loops of a switch leave the local variables of an allocation alone.
LEMMA SwitchStepFacts ==
  ASSUME Switch
  PROVE  /\ pc \in {"out", "in"} /\ pc' \in {"out", "in", "run"}
         /\ SchedKept /\ proc' = proc /\ UNCHANGED <<written, want, last>>
         /\ pc' = "out" => pc = "out"
         /\ pc' # "run" => temp' = temp
  BY DEF Switch, SwapOutPage, SwapOutLast, Evict, SwapInPage, EvictLast,
     SwapInLast, SchedKept, sched, InLoop

\* The steps of an allocation, and its local variables.
LEMMA AllocationStepFacts ==
  ASSUME SchedInv, LoopInv, Allocation
  PROVE  /\ pc \in {"tags", "fault"} /\ SchedKept
         /\ \A t \in Threads : written[t] \subseteq written'[t]
         /\ \A t \in Threads \ {current} : written'[t] = written[t]
         /\ written' \in [Threads -> SUBSET Pages]
         /\ \/ want' = want
            \/ want # <<>> /\ want' = Tail(want) /\ Head(want) \in written'[current]
         /\ \/ pc' \in {"tags", "fault"} /\ last' = last
            \/ pc' = "run" /\ want' = <<>> /\ want = <<>> /\ last' = 0 /\ i > last
         /\ pc' = "fault" => want' # <<>>
         /\ \/ i' = i
            \/ i <= last /\ i' = i + 1 /\ i \in written'[current]
            \/ pc' = "run"
  <1> USE ThreadFacts
  <1>1. /\ current \in Threads /\ written \in [Threads -> SUBSET Pages]
        /\ want \in Seq(0..(Last - 1))
        /\ \A n \in 0..(Last - 1) : n \in Pages
        /\ (pc = "fault" => want # <<>>)
    <2>1. pc \in {"tags", "fault"}
      BY DEF Allocation, WriteTag, Fault, FaultOnFreeFrame, FaultScan, FaultGivesUp,
             ClaimEvicts, ClaimPage, myallocateReturns, InLoop
    <2> QED
      BY <2>1 DEF SchedInv, LoopInv, Pages, Last
  <1>2. CASE WriteTag
    <2>1. Head(want) \in Pages
      BY <1>1, <1>2, HeadTailProperties DEF WriteTag
    <2> QED
      BY <1>1, <1>2, <2>1 DEF WriteTag, SchedKept, sched, InLoop
  <1>3. CASE Fault \/ FaultOnFreeFrame \/ FaultGivesUp
    BY <1>1, <1>3 DEF Fault, FaultOnFreeFrame, FaultGivesUp, SchedKept, sched,
       InLoop, locals, paging
  <1>4. CASE FaultScan
    BY <1>1, <1>4 DEF FaultScan, SchedKept, sched, InLoop
  <1>5. CASE ClaimEvicts
    BY <1>1, <1>5 DEF ClaimEvicts, SchedKept, sched, InLoop
  <1>6. CASE ClaimPage
    <2>1. i \in Pages
      BY <1>6 DEF ClaimPage, LoopInv, InLoop, Pages
    <2> QED
      BY <1>1, <1>6, <2>1 DEF ClaimPage, SchedKept, sched, InLoop, NextPage
  <1>7. CASE myallocateReturns
    BY <1>1, <1>7 DEF myallocateReturns, SchedKept, sched, InLoop, paging
  <1> QED
    BY <1>2, <1>3, <1>4, <1>5, <1>6, <1>7 DEF Allocation

LEMMA LoopInvStep ==
  ASSUME SchedInv, LoopInv, LibStep
  PROVE  LoopInv'
  <1> USE ThreadFacts
  <1>1. CASE my_pthread_create
    <2>1. /\ Running("user") /\ threadIDS \in Threads
          /\ threadIDS' = threadIDS + 1
          /\ written' = [written EXCEPT ![threadIDS] = {0, Last}]
          /\ UNCHANGED <<want, last>>
      BY <1>1 DEF my_pthread_create
    <2>2. /\ \A t \in Born' : EndPages \subseteq written'[t]
          /\ \A t \in Threads \ Born' : written'[t] = {}
          /\ written' \in [Threads -> SUBSET Pages]
      BY <2>1 DEF LoopInv, Born, EndPages, SchedInv, Threads
    <2>3. state'[current] = "ACTIVE" /\ current' # NULL
      BY <1>1, CreateStep, <2>1, RunningFacts DEF SchedInv, SwitchStarts
    <2> QED
      BY <1>1, <2>1, <2>2, <2>3, CreateStep, RunningFacts DEF LoopInv, SwitchStarts
  <1>2. CASE VoluntaryYield \/ JoinSpin
    <2>1. Yield /\ proc = "up" /\ pc = "run" /\ current # NULL
          /\ UNCHANGED <<threadIDS, written, want, last>>
      BY <1>2 DEF VoluntaryYield, JoinSpin, Running, Yield, paging
    <2> QED
      BY <2>1, YieldStep DEF LoopInv, SchedInv, SwitchStarts, NoSwitch, Born
  <1>3. CASE my_pthread_exit
    <2>1. Running("user") /\ UNCHANGED <<threadIDS, written, want, last>>
      BY <1>3 DEF my_pthread_exit, paging
    <2> QED
      BY <1>3, <2>1, ExitStep, RunningFacts DEF LoopInv, SwitchStarts, NoSwitch, Born
  <1>4. CASE \E u \in Threads : JoinCall(u)
    BY <1>4, RunningFacts DEF LoopInv, JoinCall, paging, locals, Born
  <1>5. CASE JoinReturn
    BY <1>5, RunningFacts DEF LoopInv, JoinReturn, locals, Born
  <1>6. CASE Switch
    BY <1>6, SwitchStepFacts DEF LoopInv, SchedKept, Born
  <1>7. CASE Allocation
    <2>1. Tail(want) \in Seq(0..(Last - 1)) \/ want = <<>>
      BY HeadTailProperties DEF LoopInv
    <2>2. want' \in Seq(0..(Last - 1))
      BY <1>7, <2>1, AllocationStepFacts DEF LoopInv
    <2>3. current \in Threads
      BY <1>7, AllocationStepFacts DEF LoopInv, SchedInv
    <2>4. pc' \in {"tags", "fault"} =>
             /\ last' \in 0..(MEMORYPAGES - 3) /\ i' \in 0..(last' + 1)
             /\ i' > last' => last' \in written'[current']
      <3>1. /\ last \in 0..(MEMORYPAGES - 3) /\ i \in 0..(last + 1)
            /\ i > last => last \in written[current]
        BY <1>7, AllocationStepFacts DEF LoopInv
      <3>2. pc' # "run" => last' = last /\ current' = current
        BY <1>7, AllocationStepFacts DEF SchedKept
      <3>3. pc' # "run" =>
              \/ i' = i
              \/ i <= last /\ i' = i + 1 /\ i \in written'[current]
        BY <1>7, AllocationStepFacts
      <3>4. written[current] \subseteq written'[current]
        BY <1>7, <2>3, AllocationStepFacts
      <3> QED
        BY <3>1, <3>2, <3>3, <3>4
    <2>5. /\ written' \in [Threads -> SUBSET Pages]
          /\ \A t \in Born' : EndPages \subseteq written'[t]
          /\ \A t \in Threads \ Born' : written'[t] = {}
      <3>1. current \in Born
        BY <2>3, CurrentIsBorn
      <3>2. Born' = Born
        BY <1>7, AllocationStepFacts DEF SchedKept, Born
      <3>3. /\ written' \in [Threads -> SUBSET Pages]
            /\ \A t \in Threads : written[t] \subseteq written'[t]
            /\ \A t \in Threads \ {current} : written'[t] = written[t]
        BY <1>7, AllocationStepFacts
      <3> QED
        BY <3>1, <3>2, <3>3 DEF LoopInv, Born
    <2> QED
      BY <1>7, <2>2, <2>3, <2>4, <2>5, AllocationStepFacts DEF LoopInv, SchedKept
  <1>8. CASE ProcessEnds
    BY <1>8 DEF ProcessEnds, LoopInv, sched, paging, locals, Born
  <1>9. ASSUME NEW f \in 0..(MEMORYPAGES - 3), NEW r \in 0..(MEMORYPAGES - 3),
               myallocate(f, r)
        PROVE  LoopInv'
    <2>1. /\ Running("user") /\ f >= HighestPage
          /\ want' = <<f, r>> /\ last' = f /\ i' = HighestPage /\ pc' = "tags"
          /\ UNCHANGED <<sched, paging>>
      BY <1>9 DEF myallocate
    <2>2. <<f, r>> \in Seq(0..(Last - 1))
      BY DEF Last
    <2>3. HighestPage \in Nat /\ current \in Threads
      BY <2>1, RunningFacts, HighestPageFacts
    <2> QED
      BY <2>1, <2>2, <2>3 DEF LoopInv, Born, sched, paging
  <1> QED
    BY <1>1, <1>2, <1>3, <1>4, <1>5, <1>6, <1>7, <1>8, <1>9 DEF LibStep, Calls

\* Threads that have allocated past their first page stay that way.
LEMMA GrowthStays ==
  ASSUME SchedInv, LoopInv, LibStep, NEW S, S \subseteq Threads,
         OnFirstPages(S)'
  PROVE  OnFirstPages(S)
  <1> USE ThreadFacts
  <1>1. /\ current' \in S => last' = 0 /\ \A k \in DOMAIN want' : want'[k] = 0
        /\ \A t \in S : written'[t] \subseteq {0, Last}
    BY DEF OnFirstPages
  <1>2. CASE ~Allocation
    <2>1. (want = <<>> /\ last = 0) \/ Switch \/ ProcessEnds
      BY <1>2, RunningFacts DEF LibStep, Calls, my_pthread_create, VoluntaryYield,
         my_pthread_exit, JoinCall, JoinSpin, JoinReturn, myallocate
    <2>2. UNCHANGED <<want, last, current>> \/ (want = <<>> /\ last = 0)
      BY <2>1, SwitchStepFacts DEF ProcessEnds, sched, locals, SchedKept
    <2>3. current \in S => last = 0 /\ \A k \in DOMAIN want : want[k] = 0
      BY <1>1, <2>2
    <2>4. UNCHANGED written \/ my_pthread_create
      BY <1>2, SwitchStepFacts DEF LibStep, Calls, VoluntaryYield,
         my_pthread_exit, JoinCall, JoinSpin, JoinReturn, myallocate, Yield,
         ProcessEnds, paging
    <2>5. my_pthread_create =>
             \A t \in Threads : written[t] = {} \/ written'[t] = written[t]
      <3>1. ASSUME my_pthread_create
            PROVE  written' = [written EXCEPT ![threadIDS] = {0, Last}]
        BY <3>1 DEF my_pthread_create
      <3>2. threadIDS \in Threads => written[threadIDS] = {}
        <4>1. threadIDS \in Nat
          BY DEF SchedInv
        <4>2. threadIDS \notin Born
          BY <4>1 DEF Born
        <4> QED
          BY <4>2 DEF LoopInv
      <3>3. DOMAIN written = Threads
        BY DEF LoopInv
      <3> QED
        BY <3>1, <3>2, <3>3
    <2> QED
      BY <1>1, <2>3, <2>4, <2>5 DEF OnFirstPages
  <1>3. CASE Allocation
    <2>1. \A t \in S : written[t] \subseteq {0, Last}
      BY <1>1, <1>3, AllocationStepFacts
    <2> SUFFICES ASSUME current \in S
                 PROVE  last = 0 /\ \A k \in DOMAIN want : want[k] = 0
      BY <2>1 DEF OnFirstPages
    <2>2. /\ current' = current /\ last' = 0
          /\ \A k \in DOMAIN want' : want'[k] = 0
          /\ written'[current] \subseteq {0, Last}
      BY <1>1, <1>3, AllocationStepFacts DEF SchedKept
    <2>3. last = 0
      <3>1. pc' = "run" => last \in written[current] /\ last \in 0..(MEMORYPAGES - 3)
        BY <1>3, AllocationStepFacts DEF LoopInv
      <3>2. written[current] \subseteq {0, Last}
        BY <2>1
      <3> QED
        BY <1>3, <2>2, <3>1, <3>2, AllocationStepFacts DEF Last
    <2>4. want \in Seq(0..(Last - 1))
      BY DEF LoopInv
    <2>5. CASE want' = want
      BY <2>2, <2>3, <2>5
    <2>6. CASE want # <<>> /\ want' = Tail(want) /\ Head(want) \in written'[current]
      <3>1. Head(want) = 0
        BY <2>2, <2>4, <2>6, HeadTailProperties
      <3>2. /\ DOMAIN want = 1..Len(want) /\ Len(want) \in Nat
            /\ Head(want) = want[1]
            /\ Len(want') = Len(want) - 1 /\ DOMAIN want' = 1..(Len(want) - 1)
            /\ \A k \in 1..Len(want') : want'[k] = want[k + 1]
        BY <2>4, <2>6, HeadTailProperties, LenProperties
      <3>3. ASSUME NEW k \in DOMAIN want PROVE want[k] = 0
        <4>1. CASE k = 1
          BY <3>1, <3>2, <4>1
        <4>2. CASE k # 1
          <5>1. k - 1 \in DOMAIN want' /\ want'[k - 1] = want[k]
            BY <3>2, <4>2
          <5> QED
            BY <2>2, <5>1
        <4> QED
          BY <4>1, <4>2
      <3> QED
        BY <2>3, <3>3
    <2> QED
      BY <1>3, <2>5, <2>6, AllocationStepFacts
  <1> QED
    BY <1>2, <1>3

-----------------------------------------------------------------------------
(* The paging, as long as it is clean.  Proofs that are about threads with *)
(* only their first and last page use HalfOfPages as some page after them. *)

\* The threads whose data still counts.
Kept == {t \in Live : state[t] = "ACTIVE" \/ written[t] = EndPages}

\* A thread has its first and last page or a whole block, and has written on
\* what it has, except while it allocates.
Shape ==
  /\ pageTables \in [Threads -> [Pages -> Locations \union {NONE}]]
  /\ \A t \in Born :
       /\ EndPages \subseteq PagesOf(t) /\ PagesOf(t) \subseteq BlockPages
       /\ written[t] \subseteq BlockPages
       /\ ~(t = current /\ last # 0) =>
             written[t] = PagesOf(t) /\ PagesOf(t) \in {EndPages, BlockPages}

\* No two pages share a location.
Apart ==
  \A t, u \in Live : \A k \in PagesOf(t) : \A l \in PagesOf(u) :
     pageTables[t][k] = pageTables[u][l] => t = u /\ k = l

\* A page in frame 0 or in the last frame is in its own.
Foreign ==
  \A t \in Born : \A k \in PagesOf(t) :
     pageTables[t][k] \in EndPages => state[t] # "FREED" /\ pageTables[t][k] = k

\* Locations marked as used without being named by a table: the two frames while
\* they are being vacated, and the frame that an allocation has just cleared.
Vacating == pc = "out" \/ (pc = "in" /\ temp = NULL)

Marked ==
  /\ masterTable \in [Locations -> {0, 1}]
  /\ \A t \in Live : \A k \in PagesOf(t) : masterTable[pageTables[t][k]] = 1
  /\ \A l \in Locations : masterTable[l] = 1 =>
       \/ \E t \in Live : \E k \in PagesOf(t) : pageTables[t][k] = l
       \/ l \in EndPages /\ Vacating
       \/ pc = "tags" /\ want = <<>> /\ j > 0 /\ l = i
  /\ Vacating => masterTable[0] = 1 /\ masterTable[Last] = 1

Data ==
  /\ DOMAIN store = Locations
  /\ \A t \in Kept : \A k \in PagesOf(t) \intersect written[t] :
        store[pageTables[t][k]] = <<t, k>>

\* The first and last page of a thread are protected wherever they are but in
\* their own frames.
Protection ==
  /\ prot \in [Pages -> BOOLEAN]
  /\ prot[0] /\ prot[Last]
  /\ \A t \in Kept : \A k \in EndPages :
        pageTables[t][k] \in Pages \ EndPages => ~prot[pageTables[t][k]]

NobodyAt(k) == \A t \in Born : pageTables[t][k] # k

\* Where a switch is, and whose pages are in the two frames then.
Place ==
  /\ pc \in {"run", "tags", "fault"} /\ current # NULL =>
       \A k \in PagesOf(current) : pageTables[current][k] = k /\ prot[k]
  /\ pc = "out" =>
       \/ i = 0 /\ pageTables[temp][0] = 0 /\ pageTables[temp][Last] = Last
       \/ i = 1 /\ NobodyAt(0) /\ pageTables[temp][Last] = Last
  /\ pc \in {"out", "in"} => j \in Nat
  /\ pc = "in" =>
       /\ i = 0 \/ (i = 1 /\ pageTables[current][0] = 0)
       /\ temp # NULL => NobodyAt(Last) /\ (i = 0 => NobodyAt(0))
       /\ temp = NULL /\ i = 0 => \A t \in Born : t < j => pageTables[t][0] # 0
       /\ temp = NULL /\ i = 1 =>
             \A t \in Born : t < j => pageTables[t][Last] # Last

\* Where an allocation is.
Allocating ==
  /\ pc = "run" => j = 0
  /\ pc \in {"tags", "fault"} =>
       /\ last \in {0, HalfOfPages}
       /\ \A k \in DOMAIN want : want[k] = last
       /\ pc = "fault" => last # 0 /\ last \notin written[current]
       /\ last # 0 => NoneFreed
       /\ 0..(i - 1) \subseteq PagesOf(current) \intersect written[current]
       /\ want = <<>> => last \in written[current]
       /\ want # <<>> /\ last \in written[current] => prot[last]
       /\ j \in Nat
       /\ want # <<>> \/ i > last => j = 0
       /\ \A t \in Born \ {current} : t < j =>
             \A k \in PagesOf(t) : pageTables[t][k] # i

Clean == Shape /\ Apart /\ Foreign /\ Marked /\ Data /\ Protection /\ Place
           /\ Allocating

\* Threads that do not run have only their first and last page, but for those
\* that have exited; nor has the one whose pages come in.
Alone ==
  /\ \A t \in Threads \ {current} : state[t] = "ACTIVE" => written[t] = EndPages
  /\ pc \in {"out", "in"} => written[current] = EndPages

LEMMA PageFacts ==
  /\ Live \subseteq Threads /\ Born \subseteq Threads
  /\ EndPages \subseteq Pages /\ BlockPages \subseteq Pages
  /\ EndPages \subseteq BlockPages /\ BlockPages # EndPages
  /\ 1 \notin EndPages /\ 0 # Last
  /\ HalfOfPages \in BlockPages \ EndPages
  /\ HalfOfPages \in Nat /\ HalfOfPages > 4 /\ HalfOfPages + 1 < Last
  BY SizeAssumption, HalfAssumption
  DEF Live, Born, EndPages, BlockPages, Pages, Last

LEMMA LiveOrFreed ==
  ASSUME SchedInv
  PROVE  /\ \A t \in Born : t \in Live \/ state[t] = "FREED"
         /\ \A t \in Live : t \in Born /\ state[t] # "FREED"
         /\ current \in Threads => current \in Live /\ current \in Kept
  <1>1. /\ \A t \in Threads : state[t] \in States
        /\ \A t \in Threads : t < threadIDS <=> ~(t >= threadIDS)
    BY ThreadFacts DEF SchedInv
  <1> QED
    BY <1>1, ThreadFacts DEF SchedInv, Born, Live, States, Kept

LEMMA FreePlace ==
  ASSUME NEW m, NEW x \in Locations, m[x] = 0
  PROVE  /\ nextFreePage(m) \in Locations
         /\ m[nextFreePage(m)] = 0
         /\ nextFreePage(m) <= x
  <1> DEFINE T == {l \in Locations : m[l] = 0}
  <1>1. T \subseteq Nat /\ x \in T
    BY DEF Locations
  <1>2. Min(T) \in T /\ \A y \in T : Min(T) <= y
    BY <1>1, LeastExists
  <1> QED
    BY <1>1, <1>2 DEF nextFreePage

LEMMA EntryFacts ==
  ASSUME Shape, NEW t \in Threads, NEW k \in PagesOf(t)
  PROVE  k \in Pages /\ pageTables[t][k] \in Locations /\ pageTables[t][k] # NONE
  BY DEF Shape, PagesOf

\* What a move of page k of thread t does to the tables.
Moved(t, k, l) == pageTables' = [pageTables EXCEPT ![t][k] = l]

LEMMA MoveFacts ==
  ASSUME Shape, NEW t \in Threads, NEW k \in PagesOf(t), NEW l \in Locations,
         Moved(t, k, l)
  PROVE  /\ pageTables' \in [Threads -> [Pages -> Locations \union {NONE}]]
         /\ pageTables'[t][k] = l
         /\ \A u \in Threads : \A m \in Pages :
              u # t \/ m # k => pageTables'[u][m] = pageTables[u][m]
         /\ \A u \in Threads : \A m \in Pages :
              pageTables'[u][m] # NONE <=> pageTables[u][m] # NONE
         /\ \A u \in Threads : {m \in Pages : pageTables'[u][m] # NONE} = PagesOf(u)
  <1>1. k \in Pages /\ pageTables[t][k] # NONE /\ l # NONE
    BY ThreadFacts DEF PagesOf
  <1>2. /\ pageTables' \in [Threads -> [Pages -> Locations \union {NONE}]]
        /\ pageTables'[t][k] = l
        /\ \A u \in Threads : \A m \in Pages :
              u # t \/ m # k => pageTables'[u][m] = pageTables[u][m]
    BY <1>1 DEF Shape, Moved
  <1>3. \A u \in Threads : \A m \in Pages :
              pageTables'[u][m] # NONE <=> pageTables[u][m] # NONE
    BY <1>1, <1>2
  <1> QED
    BY <1>2, <1>3 DEF PagesOf

\* A page is copied out of frame p to a free location.
LEMMA MoveOut ==
  ASSUME SchedInv, LoopInv, Clean, SchedKept, UNCHANGED <<written, last>>,
         NEW t \in Live, NEW k \in PagesOf(t), NEW p \in Pages,
         pageTables[t][k] = p,
         NEW l \in Locations, masterTable[l] = 0, l \notin EndPages, Reachable(l),
         swap_out(p, l), Moved(t, k, l)
  PROVE  Shape' /\ Apart' /\ Foreign' /\ Data' /\ Protection'
  <1> USE ThreadFacts, PageFacts
  <1>1. t \in Threads /\ k \in Pages /\ t \in Born
    BY LiveOrFreed DEF PagesOf
  <1>2. /\ pageTables' \in [Threads -> [Pages -> Locations \union {NONE}]]
        /\ pageTables'[t][k] = l
        /\ \A u \in Threads : \A m \in Pages :
              u # t \/ m # k => pageTables'[u][m] = pageTables[u][m]
        /\ \A u \in Threads : \A m \in Pages :
              pageTables'[u][m] # NONE <=> pageTables[u][m] # NONE
        /\ \A u \in Threads : {m \in Pages : pageTables'[u][m] # NONE} = PagesOf(u)
    BY <1>1, MoveFacts DEF Clean
  <1>3. Born' = Born /\ Live' = Live /\ Kept' = Kept
    BY DEF SchedKept, Born, Live, Kept
  <1>4. \A u \in Live : \A m \in PagesOf(u) : pageTables[u][m] # l
    BY DEF Clean, Marked
  <1>5. \A u \in Live : \A m \in PagesOf(u) :
           pageTables[u][m] = p => u = t /\ m = k
    BY DEF Clean, Apart
  <1>6. Shape'
    <2>1. /\ UNCHANGED <<written, current, last>> /\ Shape
          /\ \A u \in Born : PagesOf(u)' = PagesOf(u)
      BY <1>2 DEF Clean, PagesOf, SchedKept, Born
    <2> QED
      BY <1>2, <1>3, <2>1 DEF Shape
  <1>7. Apart'
    <2>1. \A u \in Live : PagesOf(u)' = PagesOf(u) /\ u \in Threads
      BY <1>2 DEF PagesOf, Live
    <2>2. SUFFICES ASSUME NEW u \in Live, NEW v \in Live, NEW m \in PagesOf(u),
                          NEW n \in PagesOf(v), pageTables'[u][m] = pageTables'[v][n]
                   PROVE  u = v /\ m = n
      BY <1>3, <2>1 DEF Apart
    <2>3. m \in Pages /\ n \in Pages /\ u \in Threads /\ v \in Threads
      BY <2>1 DEF PagesOf
    <2>4. /\ pageTables'[u][m] = IF u = t /\ m = k THEN l ELSE pageTables[u][m]
          /\ pageTables'[v][n] = IF v = t /\ n = k THEN l ELSE pageTables[v][n]
      BY <1>2, <2>3
    <2>5. pageTables[u][m] = pageTables[v][n] => u = v /\ m = n
      BY DEF Clean, Apart
    <2> QED
      BY <1>4, <2>2, <2>4, <2>5
  <1>8. Foreign'
    <2> SUFFICES ASSUME NEW u \in Born, NEW m \in Pages, pageTables'[u][m] # NONE,
                        pageTables'[u][m] \in EndPages
                 PROVE  state[u] # "FREED" /\ pageTables'[u][m] = m
      BY <1>3 DEF Foreign, PagesOf, SchedKept
    <2>1. u \in Threads /\ m \in PagesOf(u)
      BY <1>2 DEF PagesOf
    <2>2. pageTables[u][m] \in EndPages => state[u] # "FREED" /\ pageTables[u][m] = m
      BY <2>1 DEF Clean, Foreign
    <2> QED
      BY <1>1, <1>2, <2>1, <2>2
  <1>9. l # p
    BY <1>4
  <1>10. /\ DOMAIN store' = Locations
         /\ store'[l] = store[p]
         /\ \A m \in Locations : m # l /\ m # p => store'[m] = store[m]
    BY <1>9 DEF swap_out, Clean, Data
  <1>11. Data'
    <2> SUFFICES ASSUME NEW u \in Kept, NEW m \in Pages, m \in written[u],
                        pageTables'[u][m] # NONE
                 PROVE  store'[pageTables'[u][m]] = <<u, m>>
      BY <1>3, <1>10 DEF Data, PagesOf
    <2>0. u \in Threads /\ m \in PagesOf(u)
      BY <1>2 DEF PagesOf, Kept
    <2>1. u \in Live /\ u \in Threads /\ m \in Pages /\ m \in PagesOf(u)
          /\ pageTables[u][m] \in Locations
      <3>1. u \in Live /\ u \in Threads /\ m \in PagesOf(u) /\ Shape
        BY <2>0 DEF Kept, Clean
      <3> QED
        BY <3>1, EntryFacts
    <2>2. store[pageTables[u][m]] = <<u, m>>
      BY <2>0 DEF Clean, Data
    <2>3. CASE u = t /\ m = k
      BY <1>2, <1>10, <2>2, <2>3
    <2>4. CASE u # t \/ m # k
      <3>1. pageTables'[u][m] = pageTables[u][m] /\ pageTables[u][m] # l
            /\ pageTables[u][m] # p
        BY <1>2, <1>4, <1>5, <2>1, <2>4
      <3> QED
        BY <1>10, <2>1, <2>2, <3>1
    <2> QED
      BY <2>3, <2>4
  <1>12. /\ prot' \in [Pages -> BOOLEAN] /\ prot'[p] = TRUE
         /\ l \in Pages => prot'[l] = FALSE
         /\ \A m \in Pages : m # l /\ m # p => prot'[m] = prot[m]
    BY <1>9 DEF swap_out, Clean, Protection
  <1>13. Protection'
    <2>1. prot'[0] /\ prot'[Last]
      BY <1>12 DEF EndPages, Clean, Protection
    <2> SUFFICES ASSUME NEW u \in Kept, NEW m \in EndPages,
                        pageTables'[u][m] \in Pages \ EndPages
                 PROVE  ~prot'[pageTables'[u][m]]
      BY <1>3, <1>12, <2>1 DEF Protection
    <2>2. u \in Live /\ u \in Threads /\ m \in PagesOf(u) /\ m \in Pages
      BY LiveOrFreed DEF Kept, Clean, Shape
    <2>3. CASE u = t /\ m = k
      BY <1>2, <1>12, <2>3
    <2>4. CASE u # t \/ m # k
      <3>1. pageTables'[u][m] = pageTables[u][m] /\ pageTables[u][m] # l
            /\ pageTables[u][m] # p
        BY <1>2, <1>4, <1>5, <2>2, <2>4
      <3>2. ~prot[pageTables[u][m]]
        BY <3>1 DEF Clean, Protection
      <3> QED
        BY <1>12, <3>1, <3>2
    <2> QED
      BY <2>3, <2>4
  <1> QED
    BY <1>6, <1>7, <1>8, <1>11, <1>13

MarkedToo(l) == masterTable' = [masterTable EXCEPT ![l] = 1]

\* The marks after such a move: the new location is marked, the old one still.
LEMMA MoveOutMarks ==
  ASSUME SchedInv, LoopInv, Clean, SchedKept,
         NEW t \in Live, NEW k \in PagesOf(t),
         NEW l \in Locations, masterTable[l] = 0, Moved(t, k, l), MarkedToo(l)
  PROVE  /\ masterTable' \in [Locations -> {0, 1}]
         /\ \A u \in Live : \A m \in PagesOf(u) :
               masterTable'[pageTables'[u][m]] = 1
         /\ \A m \in Locations : masterTable[m] = 1 => masterTable'[m] = 1
         /\ \A m \in Locations : masterTable'[m] = 1 =>
              \/ \E u \in Live : \E n \in PagesOf(u) : pageTables'[u][n] = m
              \/ m = pageTables[t][k]
              \/ m \in EndPages /\ Vacating
              \/ pc = "tags" /\ want = <<>> /\ j > 0 /\ m = i
  <1> USE ThreadFacts, PageFacts
  <1>1. t \in Threads /\ Shape
    BY DEF Clean
  <1>2. /\ pageTables'[t][k] = l
        /\ \A u \in Threads : \A m \in Pages :
              u # t \/ m # k => pageTables'[u][m] = pageTables[u][m]
    BY <1>1, MoveFacts
  <1>3. /\ masterTable' \in [Locations -> {0, 1}] /\ masterTable'[l] = 1
        /\ \A m \in Locations : m # l => masterTable'[m] = masterTable[m]
    BY DEF Clean, Marked, MarkedToo
  <1>4. ASSUME NEW u \in Live, NEW m \in PagesOf(u)
        PROVE  masterTable'[pageTables'[u][m]] = 1
    <2>1. u \in Threads /\ pageTables[u][m] \in Locations /\ m \in Pages
      BY EntryFacts DEF Clean
    <2>2. masterTable[pageTables[u][m]] = 1
      BY DEF Clean, Marked
    <2>3. CASE u = t /\ m = k
      BY <1>2, <1>3, <2>3
    <2>4. CASE u # t \/ m # k
      <3>1. pageTables'[u][m] = pageTables[u][m] /\ pageTables[u][m] # l
        BY <1>2, <2>1, <2>2, <2>4
      <3> QED
        BY <1>3, <2>1, <2>2, <3>1
    <2> QED
      BY <2>3, <2>4
  <1>5. ASSUME NEW m \in Locations, masterTable'[m] = 1, m # pageTables[t][k],
               ~(m \in EndPages /\ Vacating),
               ~(pc = "tags" /\ want = <<>> /\ j > 0 /\ m = i)
        PROVE  \E u \in Live : \E n \in PagesOf(u) : pageTables'[u][n] = m
    <2>1. CASE m = l
      BY <1>2, <2>1
    <2>2. CASE m # l
      <3>1. masterTable[m] = 1
        BY <1>3, <1>5, <2>2
      <3>2. PICK u \in Live : \E n \in PagesOf(u) : pageTables[u][n] = m
        BY <1>5, <3>1 DEF Clean, Marked
      <3>3. PICK n \in PagesOf(u) : pageTables[u][n] = m
        BY <3>2
      <3>4. pageTables'[u][n] = m
        BY <1>2, <1>5, <3>3 DEF PagesOf
      <3> QED
        BY <3>4
    <2> QED
      BY <2>1, <2>2
  <1> QED
    BY <1>3, <1>4, <1>5

\* A page of the current thread is copied into its own frame, which is empty.
LEMMA MoveIn ==
  ASSUME SchedInv, LoopInv, Clean, SchedKept, UNCHANGED <<written, last>>,
         current \in Threads, NEW k \in EndPages,
         NobodyAt(k) \/ pageTables[current][k] = k,
         Reachable(pageTables[current][k]),
         IF pageTables[current][k] = k THEN UNCHANGED <<store, prot>>
         ELSE swap_in(pageTables[current][k], k),
         Moved(current, k, k)
  PROVE  /\ Shape' /\ Apart' /\ Foreign' /\ Data' /\ Protection'
         /\ pageTables[current][k] \in Locations /\ k \in PagesOf(current)
         /\ pageTables[current][k] \in EndPages => pageTables[current][k] = k
  <1> USE ThreadFacts, PageFacts
  <1> DEFINE l == pageTables[current][k]
  <1>1. current \in Live /\ current \in Born /\ k \in Pages /\ k \in PagesOf(current)
        /\ k \in Locations /\ state[current] = "ACTIVE"
    BY LiveOrFreed, CurrentIsBorn DEF Clean, Shape
  <1>2. /\ pageTables' \in [Threads -> [Pages -> Locations \union {NONE}]]
        /\ pageTables'[current][k] = k
        /\ \A u \in Threads : \A m \in Pages :
              u # current \/ m # k => pageTables'[u][m] = pageTables[u][m]
        /\ \A u \in Threads : \A m \in Pages :
              pageTables'[u][m] # NONE <=> pageTables[u][m] # NONE
        /\ \A u \in Threads : {m \in Pages : pageTables'[u][m] # NONE} = PagesOf(u)
    BY <1>1, MoveFacts DEF Clean
  <1>3. Born' = Born /\ Live' = Live /\ Kept' = Kept
    BY DEF SchedKept, Born, Live, Kept
  <1>4. \A u \in Live : \A m \in PagesOf(u) :
           pageTables[u][m] = k => u = current /\ m = k
    <2> SUFFICES ASSUME NEW u \in Live, NEW m \in PagesOf(u), pageTables[u][m] = k
                 PROVE  u = current /\ m = k
      OBVIOUS
    <2>1. m = k /\ u \in Born
      BY LiveOrFreed DEF Clean, Foreign
    <2> QED
      BY <1>1, <2>1 DEF NobodyAt, Clean, Apart
  <1>5. \A u \in Live : \A m \in PagesOf(u) :
           pageTables[u][m] = l => u = current /\ m = k
    BY <1>1 DEF Clean, Apart
  <1>6. Shape'
    <2>1. /\ UNCHANGED <<written, current, last>> /\ Shape
          /\ \A t \in Born : PagesOf(t)' = PagesOf(t)
      BY <1>2 DEF Clean, PagesOf, SchedKept, Born
    <2> QED
      BY <1>2, <1>3, <2>1 DEF Shape
  <1>7. Apart'
    <2>1. \A t \in Live : PagesOf(t)' = PagesOf(t) /\ t \in Threads
      BY <1>2 DEF PagesOf, Live
    <2>2. SUFFICES ASSUME NEW t \in Live, NEW u \in Live, NEW m \in PagesOf(t),
                          NEW n \in PagesOf(u), pageTables'[t][m] = pageTables'[u][n]
                   PROVE  t = u /\ m = n
      BY <1>3, <2>1 DEF Apart
    <2>3. m \in Pages /\ n \in Pages /\ t \in Threads /\ u \in Threads
      BY <2>1 DEF PagesOf
    <2>4. /\ pageTables'[t][m] = IF t = current /\ m = k THEN k ELSE pageTables[t][m]
          /\ pageTables'[u][n] = IF u = current /\ n = k THEN k ELSE pageTables[u][n]
      BY <1>2, <2>3
    <2>5. pageTables[t][m] = pageTables[u][n] => t = u /\ m = n
      BY DEF Clean, Apart
    <2> QED
      BY <1>4, <2>2, <2>4, <2>5
  <1>8. Foreign'
    <2> SUFFICES ASSUME NEW u \in Born, NEW m \in Pages, pageTables'[u][m] # NONE,
                        pageTables'[u][m] \in EndPages
                 PROVE  state[u] # "FREED" /\ pageTables'[u][m] = m
      BY <1>3 DEF Foreign, PagesOf, SchedKept
    <2>1. u \in Threads /\ m \in PagesOf(u)
      BY <1>2 DEF PagesOf
    <2>2. pageTables[u][m] \in EndPages => state[u] # "FREED" /\ pageTables[u][m] = m
      BY <2>1 DEF Clean, Foreign
    <2> QED
      BY <1>1, <1>2, <2>1, <2>2
  <1>9. l \in Locations /\ (l \in EndPages => l = k)
    <2>1. Shape /\ Foreign
      BY DEF Clean
    <2> QED
      BY <1>1, <2>1, EntryFacts DEF Foreign
  <1>10. /\ DOMAIN store' = Locations
         /\ store'[k] = store[l]
         /\ \A m \in Locations : m # l /\ m # k => store'[m] = store[m]
    BY <1>1, <1>9 DEF swap_in, Clean, Data
  <1>11. Data'
    <2> SUFFICES ASSUME NEW u \in Kept, NEW m \in Pages, m \in written[u],
                        pageTables'[u][m] # NONE
                 PROVE  store'[pageTables'[u][m]] = <<u, m>>
      BY <1>3, <1>10 DEF Data, PagesOf
    <2>0. u \in Threads /\ m \in PagesOf(u)
      BY <1>2 DEF PagesOf, Kept
    <2>1. u \in Live /\ u \in Threads /\ m \in Pages /\ m \in PagesOf(u)
          /\ pageTables[u][m] \in Locations
      <3>1. u \in Live /\ u \in Threads /\ m \in PagesOf(u) /\ Shape
        BY <2>0 DEF Kept, Clean
      <3> QED
        BY <3>1, EntryFacts
    <2>2. store[pageTables[u][m]] = <<u, m>>
      BY <2>0 DEF Clean, Data
    <2>3. CASE u = current /\ m = k
      BY <1>2, <1>10, <2>2, <2>3
    <2>4. CASE u # current \/ m # k
      <3>1. pageTables'[u][m] = pageTables[u][m] /\ pageTables[u][m] # l
            /\ pageTables[u][m] # k
        BY <1>2, <1>4, <1>5, <2>1, <2>4
      <3> QED
        BY <1>10, <2>1, <2>2, <3>1
    <2> QED
      BY <2>3, <2>4
  <1>12. /\ prot' \in [Pages -> BOOLEAN]
         /\ \A m \in Pages : m # l /\ m # k => prot'[m] = prot[m]
         /\ \A m \in Pages : prot[m] => prot'[m]
    BY DEF swap_in, Clean, Protection
  <1>13. Protection'
    <2>1. prot'[0] /\ prot'[Last]
      BY <1>12 DEF Clean, Protection
    <2> SUFFICES ASSUME NEW u \in Kept, NEW m \in EndPages,
                        pageTables'[u][m] \in Pages \ EndPages
                 PROVE  ~prot'[pageTables'[u][m]]
      BY <1>3, <1>12, <2>1 DEF Protection
    <2>2. u \in Live /\ u \in Threads /\ m \in PagesOf(u) /\ m \in Pages
      BY LiveOrFreed DEF Kept, Clean, Shape
    <2>3. u # current \/ m # k
      BY <1>2
    <2>4. pageTables'[u][m] = pageTables[u][m] /\ pageTables[u][m] # l
            /\ pageTables[u][m] # k
      BY <1>2, <1>4, <1>5, <2>2, <2>3
    <2>5. ~prot[pageTables[u][m]]
      BY <2>4 DEF Clean, Protection
    <2> QED
      BY <1>12, <2>4, <2>5
  <1> QED
    BY <1>1, <1>6, <1>7, <1>8, <1>9, <1>11, <1>13

\* A free location; while frames are being vacated it is none of the two.
Room == \E x \in Locations : masterTable[x] = 0

\* What lies in the swap file can be read, and written if it is next.
InReach ==
  /\ Reachable(nextFreePage(masterTable))
  /\ \A t \in Live : \A k \in PagesOf(t) : Reachable(pageTables[t][k])

LEMMA NewAddrFacts ==
  ASSUME Clean, Room, InReach, Vacating
  PROVE  /\ nextFreePage(masterTable) \in Locations
         /\ masterTable[nextFreePage(masterTable)] = 0
         /\ nextFreePage(masterTable) \notin EndPages
         /\ Reachable(nextFreePage(masterTable))
  BY FreePlace DEF Room, InReach, Clean, Marked, EndPages

\* The marks after a page has left one of the two frames that are being vacated.
LEMMA VacatingMarks ==
  ASSUME SchedInv, LoopInv, Clean, SchedKept, Vacating, pc' = pc, temp' = temp,
         NEW t \in Live, NEW k \in PagesOf(t), pageTables[t][k] \in EndPages,
         NEW l \in Locations, masterTable[l] = 0, Moved(t, k, l), MarkedToo(l)
  PROVE  Marked'
  <1>1. Live' = Live /\ Vacating' /\ pc # "tags"
    BY DEF Live, SchedKept, Vacating
  <1>2. t \in Threads /\ Shape /\ \A u \in Live : u \in Threads
    BY PageFacts DEF Clean
  <1>3. \A u \in Threads : {m \in Pages : pageTables'[u][m] # NONE} = PagesOf(u)
    BY <1>2, MoveFacts
  <1>4. /\ masterTable' \in [Locations -> {0, 1}]
        /\ \A u \in Live : \A m \in PagesOf(u) :
              masterTable'[pageTables'[u][m]] = 1
        /\ \A m \in Locations : masterTable[m] = 1 => masterTable'[m] = 1
        /\ \A m \in Locations : masterTable'[m] = 1 =>
              \/ \E u \in Live : \E n \in PagesOf(u) : pageTables'[u][n] = m
              \/ m = pageTables[t][k]
              \/ m \in EndPages /\ Vacating
              \/ pc = "tags" /\ want = <<>> /\ j > 0 /\ m = i
    BY MoveOutMarks
  <1>5. masterTable'[0] = 1 /\ masterTable'[Last] = 1
    BY <1>4, ThreadFacts DEF Clean, Marked
  <1> QED
    BY <1>1, <1>2, <1>3, <1>4, <1>5 DEF Marked, PagesOf

\* During a switch the thread that stops and the one that starts have two pages.
LEMMA TwoPages ==
  ASSUME SchedInv, LoopInv, Shape, Alone, pc \in {"out", "in"}
  PROVE  /\ current \in Threads /\ PagesOf(current) = EndPages
         /\ pageTables[current][1] = NONE
         /\ temp # NULL => /\ temp \in Threads /\ PagesOf(temp) = EndPages
                           /\ temp \in Live /\ temp \in Born
                           /\ pageTables[temp][1] = NONE
  <1> USE ThreadFacts, PageFacts
  <1>1. current \in Threads /\ current \in Born /\ last = 0
    BY CurrentIsBorn DEF LoopInv, SchedInv
  <1>2. written[current] = EndPages /\ PagesOf(current) = written[current]
    BY <1>1 DEF Alone, Shape
  <1>3. ASSUME temp # NULL
        PROVE  /\ temp \in Threads /\ temp \in Live /\ temp \in Born
               /\ written[temp] = EndPages /\ PagesOf(temp) = written[temp]
    <2>1. temp \in Threads /\ state[temp] = "ACTIVE"
      BY <1>3 DEF LoopInv
    <2>2. temp \in Live /\ temp \in Born
      BY <2>1, LiveOrFreed DEF Live
    <2> QED
      BY <1>1, <1>2, <2>1, <2>2 DEF Alone, Shape
  <1> QED
    BY <1>1, <1>2, <1>3 DEF PagesOf

LEMMA SwapOutPageClean ==
  ASSUME SchedInv, LoopInv, Clean, Alone, Room, InReach, SwapOutPage
  PROVE  Clean'
  <1> USE ThreadFacts, PageFacts
  <1> DEFINE l == nextFreePage(masterTable)
  <1>1. /\ pc = "out" /\ pageTables[temp][i] # NONE
        /\ swap_out(i, l)
        /\ pageTables' = [pageTables EXCEPT ![temp][i] = l]
        /\ masterTable' = [masterTable EXCEPT ![l] = 1]
        /\ i' = i + 1
        /\ SchedKept /\ UNCHANGED <<proc, written, pc, j, temp, want, last>>
    BY DEF SwapOutPage, InLoop, SchedKept, sched
  <1>2. /\ temp \in Threads /\ temp # NULL /\ PagesOf(temp) = EndPages
        /\ temp \in Live /\ temp \in Born
    BY <1>1, TwoPages DEF LoopInv, Clean
  <1>3. i = 0 /\ pageTables[temp][0] = 0 /\ pageTables[temp][Last] = Last
    BY <1>1, TwoPages DEF Clean, Place, LoopInv
  <1>4. l \in Locations /\ masterTable[l] = 0 /\ l \notin EndPages /\ Reachable(l)
    BY <1>1, NewAddrFacts DEF Vacating
  <1> HIDE DEF l
  <1>5. 0 \in PagesOf(temp) /\ Last \in PagesOf(temp)
    BY <1>2 DEF EndPages
  <1>6. Moved(temp, 0, l) /\ MarkedToo(l) /\ swap_out(0, l)
    BY <1>1, <1>3 DEF Moved, MarkedToo
  <1>7. Shape' /\ Apart' /\ Foreign' /\ Data' /\ Protection'
    BY <1>1, <1>2, <1>3, <1>4, <1>5, <1>6, MoveOut
  <1>8. /\ pageTables'[temp][0] = l
        /\ \A u \in Threads : \A m \in Pages :
              u # temp \/ m # 0 => pageTables'[u][m] = pageTables[u][m]
        /\ \A u \in Threads : {m \in Pages : pageTables'[u][m] # NONE} = PagesOf(u)
    <2>1. Shape
      BY DEF Clean
    <2> QED
      BY <1>2, <1>4, <1>5, <1>6, <2>1, MoveFacts
  <1>9. Marked'
    <2>1. Vacating /\ pageTables[temp][0] \in EndPages
      BY <1>1, <1>3 DEF Vacating, EndPages
    <2> QED
      BY <1>1, <1>2, <1>4, <1>5, <1>6, <2>1, VacatingMarks
  <1>10. Place'
    <2>1. ASSUME NEW u \in Born PROVE pageTables'[u][0] # 0
      <3>1. CASE u = temp
        BY <1>4, <1>8, <3>1 DEF EndPages
      <3>2. CASE u # temp
        <4>1. 0 \in PagesOf(u)
          BY DEF Clean, Shape, EndPages
        <4>2. pageTables[u][0] # 0
          BY <1>2, <1>3, <1>5, <3>2, <4>1, LiveOrFreed
          DEF Clean, Apart, Foreign, EndPages
        <4> QED
          BY <1>8, <3>2, <4>2
      <3> QED
        BY <3>1, <3>2
    <2>2. pageTables'[temp][Last] = Last
      BY <1>2, <1>3, <1>8
    <2>3. j' \in Nat
      BY <1>1 DEF Clean, Place
    <2> QED
      BY <1>1, <1>3, <2>1, <2>2, <2>3 DEF Place, NobodyAt, Born, SchedKept
  <1>11. Allocating'
    BY <1>1 DEF Allocating
  <1> QED
    BY <1>7, <1>9, <1>10, <1>11 DEF Clean

\* The last page goes, and the two frames are free.
LEMMA SwapOutLastClean ==
  ASSUME SchedInv, LoopInv, Clean, Alone, Room, InReach, SwapOutLast
  PROVE  Clean'
  <1> USE ThreadFacts, PageFacts
  <1> DEFINE l == nextFreePage(masterTable)
  <1>1. /\ pc = "out" /\ pageTables[temp][i] = NONE
        /\ swap_out(Last, l)
        /\ Moved(temp, Last, l)
        /\ masterTable' = Vacated(i, l)
        /\ pc' = "in" /\ i' = 0
        /\ SchedKept /\ UNCHANGED <<proc, written, j, temp, want, last>>
    BY DEF SwapOutLast, InLoop, SchedKept, sched, Moved
  <1>2. /\ temp \in Threads /\ temp # NULL /\ PagesOf(temp) = EndPages
        /\ temp \in Live /\ temp \in Born
    BY <1>1, TwoPages DEF LoopInv, Clean
  <1>3. 0 \in PagesOf(temp) /\ Last \in PagesOf(temp)
    BY <1>2 DEF EndPages
  <1>4. i = 1 /\ NobodyAt(0) /\ pageTables[temp][Last] = Last
    BY <1>1, <1>3 DEF Clean, Place, PagesOf
  <1>5. l \in Locations /\ masterTable[l] = 0 /\ l \notin EndPages /\ Reachable(l)
    BY <1>1, NewAddrFacts DEF Vacating
  <1> HIDE DEF l
  <1>6. Shape /\ Apart /\ Foreign /\ Marked
    BY DEF Clean
  <1>7. Shape' /\ Apart' /\ Foreign' /\ Data' /\ Protection'
    BY <1>1, <1>2, <1>3, <1>4, <1>5, MoveOut
  <1>8. /\ pageTables'[temp][Last] = l
        /\ \A u \in Threads : \A m \in Pages :
              u # temp \/ m # Last => pageTables'[u][m] = pageTables[u][m]
        /\ \A u \in Threads : {m \in Pages : pageTables'[u][m] # NONE} = PagesOf(u)
    BY <1>1, <1>2, <1>3, <1>5, <1>6, MoveFacts
  <1>9. \A u \in Live : \A m \in PagesOf(u) : pageTables'[u][m] \notin EndPages
    <2> SUFFICES ASSUME NEW u \in Live, NEW m \in PagesOf(u)
                 PROVE  pageTables'[u][m] \notin EndPages
      OBVIOUS
    <2>1. m \in Pages /\ u \in Born /\ u \in Threads
      BY LiveOrFreed DEF PagesOf
    <2>2. CASE u = temp /\ m = Last
      BY <1>5, <1>8, <2>2
    <2>3. CASE u # temp \/ m # Last
      <3>1. pageTables'[u][m] = pageTables[u][m]
        BY <1>8, <2>1, <2>3
      <3>2. pageTables[u][m] # Last
        BY <1>2, <1>3, <1>4, <1>6, <2>3 DEF Apart
      <3>3. pageTables[u][m] # 0
        BY <1>4, <1>6, <2>1 DEF Foreign, NobodyAt, EndPages
      <3> QED
        BY <3>1, <3>2, <3>3 DEF EndPages
    <2> QED
      BY <2>2, <2>3
  <1>10. /\ masterTable' \in [Locations -> {0, 1}]
         /\ masterTable'[0] = 0 /\ masterTable'[Last] = 0 /\ masterTable'[l] = 1
         /\ \A m \in Locations : m # l /\ m \notin EndPages =>
               masterTable'[m] = masterTable[m]
    BY <1>1, <1>4, <1>5, <1>6 DEF Marked, Vacated, EndPages, Locations
  <1>11. Live' = Live /\ Born' = Born /\ ~Vacating' /\ pc' # "tags"
    BY <1>1, <1>2 DEF Live, Born, SchedKept, Vacating
  <1>12. Marked'
    <2>1. ASSUME NEW u \in Live, NEW m \in PagesOf(u)
          PROVE  masterTable'[pageTables'[u][m]] = 1
      <3>1. u \in Threads /\ pageTables[u][m] \in Locations /\ m \in Pages
        BY <1>6, EntryFacts
      <3>2. masterTable[pageTables[u][m]] = 1
        BY <1>6 DEF Marked
      <3>3. pageTables'[u][m] \notin EndPages
        BY <1>9
      <3> QED
        BY <1>8, <1>10, <3>1, <3>2, <3>3
    <2>2. ASSUME NEW m \in Locations, masterTable'[m] = 1
          PROVE  \E u \in Live : \E n \in PagesOf(u) : pageTables'[u][n] = m
      <3>1. CASE m = l
        BY <1>2, <1>3, <1>8, <3>1
      <3>2. CASE m # l
        <4>1. masterTable[m] = 1 /\ m \notin EndPages
          BY <1>10, <2>2, <3>2 DEF EndPages
        <4>2. PICK u \in Live : \E n \in PagesOf(u) : pageTables[u][n] = m
          BY <1>1, <1>6, <4>1 DEF Marked
        <4>3. PICK n \in PagesOf(u) : pageTables[u][n] = m
          BY <4>2
        <4>4. u # temp \/ n # Last
          BY <1>4, <4>1, <4>3 DEF EndPages
        <4> QED
          BY <1>8, <4>3, <4>4 DEF PagesOf
      <3> QED
        BY <3>1, <3>2
    <2> QED
      BY <1>8, <1>10, <1>11, <2>1, <2>2 DEF Marked, PagesOf
  <1>13. Place'
    <2>1. ASSUME NEW u \in Born, NEW k \in EndPages PROVE pageTables'[u][k] # k
      <3>1. k \in PagesOf(u) /\ u \in Threads
        BY <1>6 DEF Shape
      <3>2. CASE u \in Live
        BY <1>9, <3>1, <3>2
      <3>3. CASE u \notin Live
        <4>1. pageTables'[u][k] = pageTables[u][k] /\ state[u] = "FREED"
          BY <1>2, <1>8, <3>1, <3>3, LiveOrFreed
        <4> QED
          BY <1>6, <3>1, <4>1 DEF Foreign
      <3> QED
        BY <3>2, <3>3
    <2>2. j' \in Nat
      BY <1>1 DEF Clean, Place
    <2> QED
      BY <1>1, <1>2, <1>11, <2>1, <2>2 DEF Place, NobodyAt, EndPages
  <1>14. Allocating'
    BY <1>1 DEF Allocating
  <1> QED
    BY <1>7, <1>12, <1>13, <1>14 DEF Clean

\* Steps that touch no page, outside an allocation.
LEMMA SamePages ==
  ASSUME Clean, UNCHANGED <<paging, threadIDS>>, last = 0, last' = 0,
         Live' = Live, Kept' \subseteq Kept,
         \A t \in Born : state'[t] = "FREED" => state[t] = "FREED",
         pc # "tags", pc' # "tags", Vacating => Vacating',
         Vacating' => masterTable[0] = 1 /\ masterTable[Last] = 1
  PROVE  Shape' /\ Apart' /\ Foreign' /\ Marked' /\ Data' /\ Protection'
  <1>1. UNCHANGED <<pageTables, masterTable, prot, store, written>> /\ Born' = Born
    BY DEF paging, Born
  <1>2. Shape'
    BY <1>1 DEF Clean, Shape, PagesOf
  <1>3. Apart'
    BY <1>1 DEF Clean, Apart, PagesOf
  <1>4. Foreign'
    BY <1>1 DEF Clean, Foreign, PagesOf
  <1>5. Marked'
    <2>1. Marked
      BY DEF Clean
    <2>2. /\ \A u \in Live : \A m \in PagesOf(u) :
                masterTable'[pageTables'[u][m]] = 1
          /\ \A m \in Locations : masterTable'[m] = 1 =>
               \/ \E u \in Live : \E n \in PagesOf(u) : pageTables'[u][n] = m
               \/ m \in EndPages /\ Vacating'
      BY <1>1, <2>1 DEF Marked
    <2> QED
      BY <1>1, <2>1, <2>2 DEF Marked, PagesOf
  <1>6. Data'
    BY <1>1 DEF Clean, Data, PagesOf
  <1>7. Protection'
    BY <1>1 DEF Clean, Protection
  <1> QED
    BY <1>2, <1>3, <1>4, <1>5, <1>6, <1>7

\* Table j gives up frame 0 after an exit ...
LEMMA EvictClean ==
  ASSUME SchedInv, LoopInv, Clean, Alone, Room, InReach, Evict
  PROVE  Clean'
  <1> USE ThreadFacts, PageFacts
  <1> DEFINE l  == nextFreePage(masterTable)
             ks == {k \in Pages : pageTables[j][k] = i}
  <1>1. /\ pc = "in" /\ temp = NULL /\ pageTables[current][i] # NONE
        /\ HasTable(j) /\ MoveFrom(i) /\ j' = j + 1
        /\ SchedKept /\ UNCHANGED <<proc, written, pc, i, temp, want, last>>
    BY DEF Evict, InLoop, SchedKept, sched
  <1>2. j \in Born /\ j \in Threads /\ j \in Nat
    BY <1>1 DEF HasTable, Born
  <1>3. i = 0 /\ current \in Threads
    BY <1>1, TwoPages DEF Clean, Place
  <1>4. Shape /\ Apart /\ Foreign /\ Marked /\ Data /\ Protection /\ Place /\ Vacating
    BY <1>1 DEF Clean, Vacating
  <1>5. Live' = Live /\ Born' = Born /\ Kept' = Kept /\ Vacating'
    BY <1>1, <1>4 DEF Live, Born, Kept, SchedKept, Vacating
  <1>6. Allocating'
    BY <1>1 DEF Allocating
  <1>7. CASE ks = {}
    <2>1. UNCHANGED <<pageTables, masterTable, prot, store>>
      BY <1>1, <1>7 DEF MoveFrom
    <2>2. pageTables[j][0] # 0
      BY <1>3, <1>7
    <2>3. \A t \in Born : t < j' => pageTables'[t][0] # 0
      <3> SUFFICES ASSUME NEW t \in Born, t < j + 1 PROVE pageTables[t][0] # 0
        BY <1>1, <2>1
      <3>1. t < j \/ t = j
        BY <1>2
      <3> QED
        BY <1>1, <1>3, <1>4, <2>2, <3>1 DEF Place
    <2>4. Place'
      BY <1>1, <1>2, <1>3, <1>5, <2>3 DEF Place
    <2>5. Shape' /\ Apart' /\ Foreign' /\ Marked' /\ Data' /\ Protection'
      BY <1>1, <1>4, <1>5, <2>1, SamePages
      DEF paging, SchedKept, LoopInv, Marked
    <2> QED
      BY <1>6, <2>4, <2>5 DEF Clean
  <1>8. CASE ks # {}
    <2>2. \A k \in ks : k = 0 /\ state[j] # "FREED"
      <3> SUFFICES ASSUME NEW k \in ks PROVE k = 0 /\ state[j] # "FREED"
        OBVIOUS
      <3>1. k \in PagesOf(j) /\ pageTables[j][k] = 0 /\ 0 \in EndPages
        BY <1>3 DEF PagesOf, EndPages
      <3> QED
        BY <1>2, <1>4, <3>1 DEF Foreign
    <2>3. ks = {0}
      BY <1>8, <2>2
    <2>4. Min(ks) = 0
      BY <2>3, LeastExists
    <2>5. j \in Live /\ 0 \in PagesOf(j) /\ pageTables[j][0] = 0
      BY <1>2, <1>3, <2>2, <2>3, LiveOrFreed DEF PagesOf
    <2>6. l \in Locations /\ masterTable[l] = 0 /\ l \notin EndPages /\ Reachable(l)
      BY <1>4, NewAddrFacts
    <2>1. swap_out(i, l) /\ MarkedToo(l) /\ Moved(j, Min(ks), l)
      <3>1. l # i
        BY <1>3, <2>6 DEF EndPages
      <3> QED
        BY <1>1, <1>8, <3>1 DEF MoveFrom, Moved, MarkedToo
    <2> HIDE DEF l, ks
    <2>7. swap_out(0, l) /\ Moved(j, 0, l)
      BY <1>3, <2>1, <2>4
    <2>8. Shape' /\ Apart' /\ Foreign' /\ Data' /\ Protection'
      BY <1>1, <2>5, <2>6, <2>7, MoveOut
    <2>9. /\ pageTables'[j][0] = l
          /\ \A u \in Threads : \A m \in Pages :
                u # j \/ m # 0 => pageTables'[u][m] = pageTables[u][m]
      <3>1. j \in Threads /\ 0 \in PagesOf(j) /\ Shape /\ Moved(j, 0, l)
        BY <1>2, <1>4, <2>5, <2>7
      <3> QED
        BY <2>6, <3>1 DEF Shape, Moved
    <2>10. Marked'
      <3>1. pageTables[j][0] \in EndPages
        BY <2>5 DEF EndPages
      <3> QED
        BY <1>1, <1>4, <2>1, <2>5, <2>6, <2>7, <3>1, VacatingMarks
    <2>11. \A t \in Born : t < j + 1 => pageTables'[t][0] # 0
      <3> SUFFICES ASSUME NEW t \in Born, t < j + 1 PROVE pageTables'[t][0] # 0
        OBVIOUS
      <3>1. CASE t = j
        BY <2>6, <2>9, <3>1 DEF EndPages
      <3>2. CASE t # j
        <4>1. t < j
          BY <1>2, <3>2
        <4>2. pageTables'[t][0] = pageTables[t][0]
          BY <2>9, <3>2 DEF Born
        <4> QED
          BY <1>1, <1>3, <1>4, <4>1, <4>2 DEF Place
      <3> QED
        BY <3>1, <3>2
    <2>12. Place'
      BY <1>1, <1>2, <1>3, <1>5, <2>11 DEF Place
    <2> QED
      BY <1>6, <2>8, <2>10, <2>12 DEF Clean
  <1> QED
    BY <1>7, <1>8

\* ... and one table gives up the last frame.
LEMMA EvictLastClean ==
  ASSUME SchedInv, LoopInv, Clean, Alone, Room, InReach, EvictLast
  PROVE  Clean'
  <1> USE ThreadFacts, PageFacts
  <1> DEFINE l  == nextFreePage(masterTable)
  <1>1. /\ pc = "in" /\ temp = NULL /\ pageTables[current][i] = NONE
        /\ HasTable(j)
        /\ IF pageTables[j][Last] = Last
             THEN swap_out(Last, l) /\ Moved(j, Last, l) /\ MarkedToo(l)
                  /\ j' = threadIDS
             ELSE j' = j + 1 /\ UNCHANGED <<pageTables, masterTable, prot, store>>
        /\ SchedKept /\ UNCHANGED <<proc, written, pc, i, temp, want, last>>
    BY DEF EvictLast, InLoop, SchedKept, sched, Moved, MarkedToo
  <1>2. j \in Born /\ j \in Threads /\ j \in Nat
    BY <1>1 DEF HasTable, Born
  <1>3. Shape /\ Apart /\ Foreign /\ Marked /\ Data /\ Protection /\ Place /\ Vacating
    BY <1>1 DEF Clean, Vacating
  <1>4. i = 1 /\ current \in Threads /\ current \in Born /\ pageTables[current][0] = 0
    <2>1. current \in Threads /\ PagesOf(current) = EndPages
      BY <1>1, <1>3, TwoPages
    <2>2. pageTables[current][0] # NONE
      BY <2>1 DEF PagesOf, EndPages
    <2> QED
      BY <1>1, <1>3, <2>1, <2>2, CurrentIsBorn DEF Place
  <1>5. Live' = Live /\ Born' = Born /\ Kept' = Kept /\ Vacating'
    BY <1>1, <1>3 DEF Live, Born, Kept, SchedKept, Vacating
  <1>6. Allocating'
    BY <1>1 DEF Allocating
  <1>7. CASE pageTables[j][Last] # Last
    <2>1. UNCHANGED <<pageTables, masterTable, prot, store>> /\ j' = j + 1
      BY <1>1, <1>7
    <2>2. \A t \in Born : t < j' => pageTables'[t][Last] # Last
      <3> SUFFICES ASSUME NEW t \in Born, t < j + 1 PROVE pageTables[t][Last] # Last
        BY <1>1, <2>1
      <3>1. t < j \/ t = j
        BY <1>2
      <3> QED
        BY <1>1, <1>3, <1>4, <1>7, <3>1 DEF Place
    <2>3. Place'
      <3>1. /\ pc' = "in" /\ temp' = NULL /\ i' = 1 /\ j' \in Nat
            /\ pageTables'[current'][0] = 0
        BY <1>1, <1>2, <1>4, <2>1 DEF SchedKept
      <3> QED
        BY <1>5, <2>2, <3>1 DEF Place
    <2>4. Shape' /\ Apart' /\ Foreign' /\ Marked' /\ Data' /\ Protection'
      BY <1>1, <1>3, <1>5, <2>1, SamePages
      DEF paging, SchedKept, LoopInv, Marked
    <2> QED
      BY <1>6, <2>3, <2>4 DEF Clean
  <1>8. CASE pageTables[j][Last] = Last
    <2>1. swap_out(Last, l) /\ Moved(j, Last, l) /\ MarkedToo(l) /\ j' = threadIDS
      BY <1>1, <1>8
    <2>2. Last \in EndPages /\ Last \in PagesOf(j)
      BY <1>2, <1>3 DEF EndPages, Shape
    <2>3. j \in Live
      BY <1>2, <1>3, <1>8, <2>2, LiveOrFreed DEF Foreign
    <2>4. l \in Locations /\ masterTable[l] = 0 /\ l \notin EndPages /\ Reachable(l)
      BY <1>3, NewAddrFacts
    <2> HIDE DEF l
    <2>5. Shape' /\ Apart' /\ Foreign' /\ Data' /\ Protection'
      BY <1>1, <1>8, <2>1, <2>2, <2>3, <2>4, MoveOut
    <2>6. /\ pageTables'[j][Last] = l
          /\ \A u \in Threads : \A m \in Pages :
                u # j \/ m # Last => pageTables'[u][m] = pageTables[u][m]
      BY <1>2, <1>3, <2>1, <2>2, <2>4, MoveFacts
    <2>7. Marked'
      BY <1>1, <1>3, <1>8, <2>1, <2>2, <2>3, <2>4, VacatingMarks
    <2>8. ASSUME NEW t \in Born PROVE pageTables'[t][Last] # Last
      <3>1. CASE t = j
        BY <2>2, <2>4, <2>6, <3>1
      <3>2. CASE t # j
        <4>1. pageTables'[t][Last] = pageTables[t][Last] /\ Last \in PagesOf(t)
          BY <1>3, <2>2, <2>6, <3>2 DEF Shape
        <4>2. state[t] = "FREED" => pageTables[t][Last] # Last
          BY <1>3, <2>2, <4>1 DEF Foreign
        <4>3. t \in Live => pageTables[t][Last] # Last
          BY <1>3, <1>8, <2>2, <2>3, <3>2, <4>1 DEF Apart
        <4> QED
          BY <4>1, <4>2, <4>3, LiveOrFreed
      <3> QED
        BY <3>1, <3>2
    <2>9. pageTables'[current][0] = 0 /\ j' \in Nat
      BY <1>4, <2>1, <2>6 DEF SchedInv
    <2>10. Place'
      BY <1>1, <1>4, <1>5, <2>8, <2>9 DEF Place, SchedKept
    <2> QED
      BY <1>6, <2>5, <2>7, <2>10 DEF Clean
  <1> QED
    BY <1>7, <1>8

LEMMA NobodyElse ==
  ASSUME SchedInv, LoopInv, Clean, Alone, pc = "in", NEW k \in EndPages,
         i = 0 => k = 0, i = 1 => k = Last,
         pageTables[current][k] = k \/ temp # NULL \/ ~HasTable(j)
  PROVE  NobodyAt(k) \/ pageTables[current][k] = k
  <1>1. Place /\ j \in Nat /\ i \in {0, 1}
    BY DEF Clean, Place
  <1>2. temp # NULL => NobodyAt(k)
    BY <1>1 DEF Place
  <1>3. ~HasTable(j) => \A t \in Born : t < j
    BY <1>1, ThreadFacts DEF HasTable, Born, SchedInv, Threads
  <1>4. temp = NULL /\ ~HasTable(j) => NobodyAt(k)
    BY <1>1, <1>3 DEF Place, NobodyAt
  <1> QED
    BY <1>2, <1>4

\* The marks after a page has come in.
LEMMA MoveInMarks ==
  ASSUME SchedInv, LoopInv, Clean, SchedKept, pc = "in",
         current \in Threads, NEW k \in EndPages,
         NobodyAt(k) \/ pageTables[current][k] = k,
         Moved(current, k, k),
         masterTable' = [masterTable EXCEPT ![pageTables[current][k]] = 0, ![k] = 1]
  PROVE  /\ masterTable' \in [Locations -> {0, 1}]
         /\ \A u \in Live : \A m \in PagesOf(u) :
               masterTable'[pageTables'[u][m]] = 1
         /\ \A m \in EndPages : masterTable[m] = 1 => masterTable'[m] = 1
         /\ \A m \in Locations : masterTable'[m] = 1 =>
              \/ \E u \in Live : \E n \in PagesOf(u) : pageTables'[u][n] = m
              \/ m \in EndPages \ {k} /\ Vacating
  <1> USE ThreadFacts, PageFacts
  <1> DEFINE l == pageTables[current][k]
  <1>1. Shape /\ Apart /\ Foreign /\ Marked
    BY DEF Clean
  <1>2. current \in Live /\ current \in Born /\ k \in PagesOf(current)
        /\ k \in Pages /\ k \in Locations
    BY <1>1, LiveOrFreed, CurrentIsBorn DEF Shape
  <1>3. l \in Locations
    BY <1>1, <1>2, EntryFacts
  <1>4. l \in EndPages => l = k
    BY <1>1, <1>2 DEF Foreign
  <1>5. /\ pageTables'[current][k] = k
        /\ \A u \in Threads : \A m \in Pages :
              u # current \/ m # k => pageTables'[u][m] = pageTables[u][m]
    BY <1>1, <1>2, MoveFacts
  <1>6. /\ masterTable' \in [Locations -> {0, 1}] /\ masterTable'[k] = 1
        /\ l # k => masterTable'[l] = 0
        /\ \A m \in Locations : m # l /\ m # k => masterTable'[m] = masterTable[m]
    BY <1>1, <1>2, <1>3 DEF Marked
  <1> HIDE DEF l
  <1>7. ASSUME NEW u \in Live, NEW m \in PagesOf(u), u # current \/ m # k
        PROVE  pageTables[u][m] # l /\ pageTables[u][m] # k
    <2>1. pageTables[u][m] # l
      BY <1>1, <1>2, <1>7 DEF Apart, l
    <2>2. CASE pageTables[u][m] = k
      <3>1. m = k /\ u \in Born
        BY <1>1, <2>2, LiveOrFreed DEF Foreign
      <3> QED
        BY <1>1, <1>2, <1>7, <2>2, <3>1 DEF NobodyAt, Apart
    <2> QED
      BY <2>1, <2>2
  <1>8. ASSUME NEW u \in Live, NEW m \in PagesOf(u)
        PROVE  masterTable'[pageTables'[u][m]] = 1
    <2>1. u \in Threads /\ m \in Pages /\ pageTables[u][m] \in Locations
      BY <1>1, EntryFacts
    <2>2. CASE u = current /\ m = k
      BY <1>5, <1>6, <2>2
    <2>3. CASE u # current \/ m # k
      <3>1. pageTables'[u][m] = pageTables[u][m]
        BY <1>5, <2>1, <2>3
      <3>2. pageTables[u][m] # l /\ pageTables[u][m] # k
        BY <1>7, <2>3
      <3>3. masterTable[pageTables[u][m]] = 1
        BY <1>1 DEF Marked
      <3> QED
        BY <1>6, <2>1, <3>1, <3>2, <3>3
    <2> QED
      BY <2>2, <2>3
  <1>9. \A m \in EndPages : masterTable[m] = 1 => masterTable'[m] = 1
    BY <1>4, <1>6
  <1>10. ASSUME NEW m \in Locations, masterTable'[m] = 1,
                ~(m \in EndPages \ {k} /\ Vacating)
         PROVE  \E u \in Live : \E n \in PagesOf(u) : pageTables'[u][n] = m
    <2>1. CASE m = k
      BY <1>2, <1>5, <2>1
    <2>2. CASE m # k
      <3>0. ASSUME m = l PROVE FALSE
        <4>1. masterTable'[l] = 0 /\ masterTable'[l] = 1
          BY <1>6, <1>10, <2>2, <3>0
        <4> QED
          BY <4>1
      <3>1. m # l /\ masterTable[m] = 1
        BY <1>6, <1>10, <2>2, <3>0
      <3>2. PICK u \in Live : \E n \in PagesOf(u) : pageTables[u][n] = m
        BY <1>1, <1>10, <2>2, <3>1 DEF Marked
      <3>3. PICK n \in PagesOf(u) : pageTables[u][n] = m
        BY <3>2
      <3>4. u # current \/ n # k
        BY <3>1, <3>3 DEF l
      <3>5. pageTables'[u][n] = m
        BY <1>5, <3>3, <3>4 DEF PagesOf
      <3> QED
        BY <3>5
    <2> QED
      BY <2>1, <2>2
  <1> QED
    BY <1>6, <1>8, <1>9, <1>10

LEMMA SwapInPageClean ==
  ASSUME SchedInv, LoopInv, Clean, Alone, InReach, SwapInPage
  PROVE  Clean'
  <1> USE ThreadFacts, PageFacts
  <1> DEFINE l == pageTables[current][i]
  <1>0. /\ Place /\ pc = "in" /\ l # NONE /\ current \in Born
        /\ (l = i /\ j = 0) \/ temp # NULL \/ ~HasTable(j)
    <2>1. pc = "in" /\ current # NULL
      BY DEF SwapInPage, InLoop, LoopInv
    <2>2. current \in Born
      BY <2>1, CurrentIsBorn DEF SchedInv
    <2> QED
      BY <2>1, <2>2 DEF SwapInPage, Clean
  <1>00. i = 0 /\ j \in Nat
    BY <1>0, TwoPages DEF Place, Clean
  <1>000. l = i => j = 0
    <2>1. ~HasTable(j) => current < j
      BY <1>0, <1>00 DEF HasTable, Born, SchedInv, Threads
    <2> QED
      BY <1>0, <1>00, <2>1 DEF Place, NobodyAt
  <1>1. /\ pc = "in" /\ l # NONE /\ (l = i \/ temp # NULL \/ ~HasTable(j))
        /\ IF l = i THEN UNCHANGED <<store, prot>> ELSE swap_in(l, i)
        /\ Moved(current, i, i)
        /\ masterTable' = [masterTable EXCEPT ![l] = 0, ![i] = 1]
        /\ i' = i + 1 /\ j' = 0
        /\ SchedKept /\ UNCHANGED <<proc, written, pc, temp, want, last>>
    BY <1>000 DEF SwapInPage, InLoop, SchedKept, sched, Moved, Arrived, NextPage
  <1>2. Shape /\ Place /\ Marked
    BY DEF Clean
  <1>3. i = 0 /\ current \in Threads
    BY <1>1, <1>2, TwoPages DEF Place
  <1>4. 0 \in EndPages
    BY DEF EndPages
  <1>5. NobodyAt(0) \/ pageTables[current][0] = 0
    BY <1>1, <1>3, <1>4, NobodyElse
  <1>6. /\ IF pageTables[current][0] = 0 THEN UNCHANGED <<store, prot>>
             ELSE swap_in(pageTables[current][0], 0)
        /\ Moved(current, 0, 0)
        /\ masterTable' = [masterTable EXCEPT ![pageTables[current][0]] = 0, ![0] = 1]
        /\ i' = 1
    BY <1>1, <1>3
  <1>7. Shape' /\ Apart' /\ Foreign' /\ Data' /\ Protection' /\ 0 \in PagesOf(current)
    <2>1. Reachable(pageTables[current][0])
      BY <1>2, <1>3, <1>4, LiveOrFreed DEF InReach, Shape
    <2> QED
      BY <1>1, <1>3, <1>4, <1>5, <1>6, <2>1, MoveIn
  <1>8. /\ pageTables'[current][0] = 0
        /\ \A u \in Threads : \A m \in Pages :
              u # current \/ m # 0 => pageTables'[u][m] = pageTables[u][m]
        /\ \A u \in Threads : {m \in Pages : pageTables'[u][m] # NONE} = PagesOf(u)
    <2>1. /\ pageTables'[current][0] = 0
          /\ \A u \in Threads : \A m \in Pages :
                u # current \/ m # 0 => pageTables'[u][m] = pageTables[u][m]
      BY <1>2, <1>3, <1>6 DEF Moved, Shape
    <2>2. pageTables[current][0] # NONE /\ 0 # NONE
      BY <1>7 DEF PagesOf
    <2>3. \A u \in Threads : \A m \in Pages :
             pageTables'[u][m] # NONE <=> pageTables[u][m] # NONE
      BY <2>1, <2>2
    <2> QED
      BY <2>1, <2>3 DEF PagesOf
  <1>9. Live' = Live /\ Born' = Born /\ Vacating' = Vacating /\ pc' # "tags"
    BY <1>1 DEF Live, Born, SchedKept, Vacating
  <1>10. Marked'
    <2>1. /\ masterTable' \in [Locations -> {0, 1}]
          /\ \A u \in Live : \A m \in PagesOf(u) :
               masterTable'[pageTables'[u][m]] = 1
          /\ \A m \in EndPages : masterTable[m] = 1 => masterTable'[m] = 1
          /\ \A m \in Locations : masterTable'[m] = 1 =>
              \/ \E u \in Live : \E n \in PagesOf(u) : pageTables'[u][n] = m
              \/ m \in EndPages \ {0} /\ Vacating
      BY <1>1, <1>3, <1>4, <1>5, <1>6, MoveInMarks
    <2>2. Vacating' => masterTable'[0] = 1 /\ masterTable'[Last] = 1
      BY <1>2, <1>9, <2>1 DEF Marked, EndPages
    <2> QED
      <3>1. \A u \in Live : u \in Threads
        BY PageFacts
      <3>2. \A m \in Locations : masterTable'[m] = 1 =>
              \/ \E u \in Live : \E n \in PagesOf(u) : pageTables'[u][n] = m
              \/ m \in EndPages /\ Vacating'
        BY <1>9, <2>1
      <3> QED
        <4>1. \A u \in Live : {m \in Pages : pageTables'[u][m] # NONE} = PagesOf(u)
          BY <1>8, <3>1
        <4>2. Live' = Live /\ pc' # "tags"
          BY <1>9
        <4> HIDE DEF l
        <4> QED
          BY <2>1, <2>2, <3>2, <4>1, <4>2 DEF Marked, PagesOf
  <1>11. Place'
    <2>1. temp # NULL => \A u \in Born : pageTables'[u][Last] # Last
      BY <1>1, <1>2, <1>8 DEF Place, NobodyAt
    <2>2. \A u \in Born : ~(u < j')
      BY <1>1 DEF Born, Threads
    <2> QED
      BY <1>1, <1>6, <1>8, <1>9, <2>1, <2>2 DEF Place, NobodyAt, SchedKept
  <1>12. Allocating'
    BY <1>1 DEF Allocating
  <1> QED
    BY <1>7, <1>10, <1>11, <1>12 DEF Clean

\* The switch is over: the thread runs on its pages.
LEMMA SwapInLastClean ==
  ASSUME SchedInv, LoopInv, Clean, Alone, InReach, SwapInLast
  PROVE  Clean'
  <1> USE ThreadFacts, PageFacts
  <1> DEFINE l == pageTables[current][Last]
  <1>1. /\ pc = "in" /\ pageTables[current][i] = NONE
        /\ l = Last \/ temp # NULL \/ ~HasTable(j)
        /\ IF l = Last THEN UNCHANGED <<store, prot>> ELSE swap_in(l, Last)
        /\ Moved(current, Last, Last)
        /\ masterTable' = [masterTable EXCEPT ![l] = 0, ![Last] = 1]
        /\ pc' = "run" /\ j' = 0
        /\ SchedKept /\ UNCHANGED <<proc, written, want, last>>
    BY DEF SwapInLast, InLoop, SchedKept, sched, Moved, Arrived
  <1>2. Shape /\ Place /\ Marked
    BY DEF Clean
  <1>3. current \in Threads /\ PagesOf(current) = EndPages
        /\ i = 1 /\ pageTables[current][0] = 0
    <2>1. current \in Threads /\ PagesOf(current) = EndPages
      BY <1>1, <1>2, TwoPages
    <2>2. pageTables[current][0] # NONE
      BY <2>1 DEF PagesOf, EndPages
    <2> QED
      BY <1>1, <1>2, <2>1, <2>2 DEF Place
  <1>4. Last \in EndPages /\ 0 \in EndPages /\ current \in Live
    BY <1>3, LiveOrFreed DEF EndPages
  <1>5. NobodyAt(Last) \/ pageTables[current][Last] = Last
    BY <1>1, <1>3, <1>4, NobodyElse
  <1>6. Shape' /\ Apart' /\ Foreign' /\ Data' /\ Protection'
    <2>1. Reachable(pageTables[current][Last])
      BY <1>3, <1>4 DEF InReach
    <2> QED
      BY <1>1, <1>3, <1>4, <1>5, <2>1, MoveIn
  <1>7. /\ pageTables'[current][Last] = Last
        /\ \A u \in Threads : \A m \in Pages :
              u # current \/ m # Last => pageTables'[u][m] = pageTables[u][m]
        /\ \A u \in Threads : {m \in Pages : pageTables'[u][m] # NONE} = PagesOf(u)
    <2>1. /\ Shape /\ current \in Threads /\ Last \in PagesOf(current)
          /\ Last \in Locations /\ Moved(current, Last, Last)
      BY <1>1, <1>2, <1>3, <1>4
    <2>2. /\ pageTables'[current][Last] = Last
          /\ \A u \in Threads : \A m \in Pages :
                u # current \/ m # Last => pageTables'[u][m] = pageTables[u][m]
      BY <2>1 DEF Moved, Shape
    <2>3. pageTables[current][Last] # NONE /\ Last # NONE
      BY <2>1 DEF PagesOf
    <2>4. \A u \in Threads : \A m \in Pages :
             pageTables'[u][m] # NONE <=> pageTables[u][m] # NONE
      BY <2>2, <2>3
    <2> QED
      BY <2>2, <2>4 DEF PagesOf
  <1>8. Live' = Live /\ Born' = Born /\ ~Vacating' /\ pc' # "tags"
    BY <1>1 DEF Live, Born, SchedKept, Vacating
  <1>9. pageTables'[current][0] = 0
    BY <1>3, <1>7
  <1>10. Marked'
    <2>1. /\ masterTable' \in [Locations -> {0, 1}]
          /\ \A u \in Live : \A m \in PagesOf(u) :
               masterTable'[pageTables'[u][m]] = 1
          /\ \A m \in Locations : masterTable'[m] = 1 =>
              \/ \E u \in Live : \E n \in PagesOf(u) : pageTables'[u][n] = m
              \/ m \in EndPages \ {Last} /\ Vacating
      BY <1>1, <1>3, <1>4, <1>5, MoveInMarks
    <2>2. \A m \in EndPages \ {Last} : m = 0
      BY DEF EndPages
    <2>3. \A m \in Locations : masterTable'[m] = 1 =>
              \E u \in Live : \E n \in PagesOf(u) : pageTables'[u][n] = m
      BY <1>3, <1>4, <1>9, <2>1, <2>2
    <2> QED
      BY <1>7, <1>8, <2>1, <2>3 DEF Marked, PagesOf
  <1>11. Place'
    <2>1. \A k \in {m \in Pages : pageTables'[current][m] # NONE} :
             pageTables'[current][k] = k /\ prot'[k]
      BY <1>3, <1>6, <1>7, <1>9 DEF EndPages, Protection
    <2> QED
      BY <1>1, <2>1 DEF Place, SchedKept, PagesOf
  <1>12. Allocating'
    BY <1>1 DEF Allocating
  <1> QED
    BY <1>6, <1>10, <1>11, <1>12 DEF Clean

\* While user code runs, the two frames hold the pages of the thread that runs.
LEMMA OwnFrames ==
  ASSUME SchedInv, LoopInv, Clean, pc \in {"run", "tags", "fault"},
         current \in Threads
  PROVE  /\ current \in Live /\ current \in Born
         /\ 0 \in PagesOf(current) /\ Last \in PagesOf(current)
         /\ pageTables[current][0] = 0 /\ pageTables[current][Last] = Last
         /\ masterTable[0] = 1 /\ masterTable[Last] = 1
  <1>1. current \in Live /\ current \in Born /\ current # NULL
    BY LiveOrFreed, CurrentIsBorn, ThreadFacts
  <1>2. 0 \in PagesOf(current) /\ Last \in PagesOf(current)
    BY <1>1 DEF Clean, Shape, EndPages
  <1>3. pageTables[current][0] = 0 /\ pageTables[current][Last] = Last
    BY <1>1, <1>2 DEF Clean, Place
  <1>4. masterTable[pageTables[current][0]] = 1 /\ masterTable[pageTables[current][Last]] = 1
    BY <1>1, <1>2 DEF Clean, Marked
  <1> QED
    BY <1>1, <1>2, <1>3, <1>4

LEMMA YieldClean ==
  ASSUME SchedInv, LoopInv, Clean, proc = "up", pc = "run", current # NULL, Yield
  PROVE  Clean'
  <1> USE ThreadFacts, PageFacts
  <1>1. /\ UNCHANGED <<threadIDS, paging, want, last, state>>
        /\ NoSwitch(current) \/ SwitchStarts(current)
        /\ current \in Threads /\ last = 0
    BY YieldStep DEF Yield, SchedInv, LoopInv
  <1>2. Live' = Live /\ Kept' = Kept /\ Born' = Born
        /\ UNCHANGED <<pageTables, prot, written>>
    BY <1>1 DEF Live, Kept, Born, paging
  <1>3. /\ pageTables[current][0] = 0 /\ pageTables[current][Last] = Last
        /\ masterTable[0] = 1 /\ masterTable[Last] = 1
    BY <1>1, OwnFrames
  <1>4. pc' # "tags" /\ ~Vacating
    BY <1>1 DEF NoSwitch, SwitchStarts, Vacating
  <1>5. Shape' /\ Apart' /\ Foreign' /\ Marked' /\ Data' /\ Protection'
    BY <1>1, <1>2, <1>3, <1>4, SamePages
  <1>6. Place'
    <2>1. CASE NoSwitch(current)
      BY <1>1, <1>2, <2>1 DEF NoSwitch, Clean, Place, PagesOf
    <2>2. CASE SwitchStarts(current)
      <3>1. pc' = "out" /\ temp' = current /\ i' = 0 /\ j' = 0
        BY <1>1, <2>2 DEF SwitchStarts
      <3> QED
        BY <1>2, <1>3, <3>1 DEF Place
    <2> QED
      BY <1>1, <2>1, <2>2
  <1>7. Allocating'
    BY <1>1 DEF NoSwitch, SwitchStarts, Clean, Allocating
  <1> QED
    BY <1>5, <1>6, <1>7 DEF Clean

\* An exit leaves the pages where they are.
LEMMA ExitClean ==
  ASSUME SchedInv, LoopInv, Clean, my_pthread_exit
  PROVE  Clean'
  <1> USE ThreadFacts, PageFacts
  <1>1. /\ UNCHANGED <<threadIDS, paging, want, last>>
        /\ NoSwitch(NULL) \/ SwitchStarts(NULL)
        /\ current \in Threads /\ last = 0 /\ pc = "run" /\ state[current] = "ACTIVE"
        /\ state' = [state EXCEPT ![current] = "COMPLETED"] \/ state' = state
    BY ExitStep, RunningFacts DEF my_pthread_exit
  <1>2. /\ Live' = Live /\ Born' = Born /\ UNCHANGED <<pageTables, prot, written>>
        /\ \A t \in Threads : state'[t] = "ACTIVE" => state[t] = "ACTIVE"
        /\ \A t \in Threads : state'[t] = "FREED" => state[t] = "FREED"
    BY <1>1 DEF Live, Born, paging, SchedInv
  <1>3. Kept' \subseteq Kept
    BY <1>2 DEF Kept
  <1>4. masterTable[0] = 1 /\ masterTable[Last] = 1
    BY <1>1, OwnFrames
  <1>5. pc' # "tags" /\ ~Vacating
    BY <1>1 DEF NoSwitch, SwitchStarts, Vacating
  <1>6. Shape' /\ Apart' /\ Foreign' /\ Marked' /\ Data' /\ Protection'
    <2>1. \A t \in Born : state'[t] = "FREED" => state[t] = "FREED"
      BY <1>2
    <2>2. UNCHANGED <<paging, threadIDS>> /\ last = 0 /\ last' = 0 /\ pc # "tags"
      BY <1>1
    <2> QED
      BY <1>2, <1>3, <1>4, <1>5, <2>1, <2>2, SamePages
  <1>7. Place'
    <2>1. CASE NoSwitch(NULL)
      BY <1>1, <2>1 DEF NoSwitch, Place
    <2>2. CASE SwitchStarts(NULL)
      <3>1. pc' = "in" /\ temp' = NULL /\ i' = 0 /\ j' = 0
        BY <1>1, <2>2 DEF SwitchStarts
      <3>2. \A t \in Born : ~(t < 0)
        BY DEF Born, Threads
      <3> QED
        BY <1>2, <3>1, <3>2 DEF Place
    <2> QED
      BY <1>1, <2>1, <2>2
  <1>8. Allocating'
    BY <1>1 DEF NoSwitch, SwitchStarts, Clean, Allocating
  <1> QED
    BY <1>6, <1>7, <1>8 DEF Clean

LEMMA QuietClean ==
  ASSUME SchedInv, LoopInv, Clean,
         (\E u \in Threads : JoinCall(u)) \/ ProcessEnds
  PROVE  Clean'
  <1>1. UNCHANGED <<current, threadIDS, state, pageTables, masterTable, prot, store,
                    written, pc, i, j, temp, want, last>>
    BY DEF JoinCall, ProcessEnds, sched, paging, locals
  <1>2. Born' = Born /\ Live' = Live /\ Kept' = Kept /\ Vacating' = Vacating
        /\ NoneFreed' = NoneFreed
    BY <1>1 DEF Born, Live, Kept, Vacating, NoneFreed
  <1>3. Shape' /\ Apart' /\ Foreign'
    BY <1>1, <1>2 DEF Clean, Shape, Apart, Foreign, PagesOf
  <1>4. Marked'
    BY <1>1, <1>2 DEF Clean, Marked, PagesOf
  <1>5. Data' /\ Protection'
    BY <1>1, <1>2 DEF Clean, Data, Protection, PagesOf
  <1>6. Place'
    BY <1>1, <1>2 DEF Clean, Place, PagesOf, NobodyAt
  <1>7. Allocating'
    BY <1>1, <1>2 DEF Clean, Allocating, PagesOf
  <1> QED
    BY <1>3, <1>4, <1>5, <1>6, <1>7 DEF Clean

\* A join gives back exactly the pages of the thread that was joined.
LEMMA JoinFreesAll ==
  ASSUME Shape, NEW u \in Born, written[u] = PagesOf(u),
         PagesOf(u) \in {EndPages, BlockPages}
  PROVE  JoinFrees(u) = {pageTables[u][k] : k \in PagesOf(u)}
  <1> USE ThreadFacts, PageFacts
  <1> DEFINE T == {k \in Pages : pageTables[u][k] = NONE}
             h == IF PagesOf(u) = EndPages THEN 0 ELSE HalfOfPages
  <1>1. PagesOf(u) = (0..h) \union {Last}
    BY DEF EndPages, BlockPages
  <1>2. h \in Nat /\ h + 1 < Last
    BY DEF Last
  <1>3. T = Pages \ PagesOf(u)
    BY DEF PagesOf
  <1> HIDE DEF h, T
  <1>4. T = (h + 1)..(Last - 1)
    BY <1>1, <1>2, <1>3 DEF Pages, Last
  <1>5. T \subseteq Nat /\ h + 1 \in T /\ \A y \in T : h + 1 <= y
    BY <1>2, <1>4
  <1>6. Min(T) = h + 1
    <2>1. Min(T) \in T /\ \A y \in T : Min(T) <= y
      BY <1>5, LeastExists
    <2>2. Min(T) <= h + 1 /\ h + 1 <= Min(T) /\ Min(T) \in Nat
      BY <1>5, <2>1
    <2> QED
      BY <1>2, <2>2
  <1>7. 0..(Min(T) - 1) \union {Last} = PagesOf(u)
    BY <1>1, <1>2, <1>6
  <1> QED
    BY <1>7 DEF JoinFrees, T

LEMMA JoinReturnClean ==
  ASSUME SchedInv, LoopInv, Clean, JoinReturn
  PROVE  Clean'
  <1> USE ThreadFacts, PageFacts
  <1> DEFINE u == target[current]
             F == {pageTables[u][k] : k \in PagesOf(u)}
  <1>1. /\ Running("join") /\ state[u] = "COMPLETED"
        /\ masterTable' = [l \in Locations |->
                       IF l \in JoinFrees(u) THEN 0 ELSE masterTable[l]]
        /\ prot' = [f \in Pages |-> f \in JoinFrees(u) \/ prot[f]]
        /\ state' = [state EXCEPT ![u] = "FREED"]
        /\ UNCHANGED <<current, threadIDS, pageTables, store, written, pc,
                       i, j, temp, want, last>>
    BY DEF JoinReturn, locals
  <1>2. /\ current \in Threads /\ pc = "run" /\ last = 0 /\ state[current] = "ACTIVE"
        /\ u \in Threads /\ u # current
    BY <1>1, RunningFacts DEF SchedInv
  <1> HIDE DEF u
  <1>3. u \in Live /\ u \in Born
    BY <1>1, <1>2, LiveOrFreed DEF Live
  <1>4. Shape /\ Apart /\ Foreign /\ Marked /\ Data /\ Protection /\ Place /\ Allocating
    BY DEF Clean
  <1>5. JoinFrees(u) = F
    BY <1>2, <1>3, <1>4, JoinFreesAll DEF Shape
  <1>6. Live' = Live \ {u} /\ Born' = Born /\ Kept' = Kept \ {u} /\ ~Vacating
        /\ ~Vacating'
    BY <1>1, <1>2 DEF Live, Born, Kept, SchedInv, Vacating
  <1>7. /\ pageTables[current][0] = 0 /\ pageTables[current][Last] = Last
        /\ 0 \in PagesOf(current) /\ Last \in PagesOf(current) /\ current \in Live
    BY <1>2, OwnFrames
  <1>8. ASSUME NEW t \in Live \ {u}, NEW k \in PagesOf(t)
        PROVE  pageTables[t][k] \notin F
    BY <1>3, <1>4, <1>8 DEF Apart
  <1>9. 0 \notin F /\ Last \notin F
    BY <1>2, <1>7, <1>8
  <1>10. /\ masterTable' \in [Locations -> {0, 1}]
         /\ \A l \in Locations : masterTable'[l] = IF l \in F THEN 0 ELSE masterTable[l]
         /\ prot' \in [Pages -> BOOLEAN]
         /\ \A f \in Pages : f \notin F => prot'[f] = prot[f]
         /\ \A f \in Pages : prot[f] => prot'[f]
    BY <1>1, <1>4, <1>5 DEF Marked, Protection
  <1> HIDE DEF F
  <1>11. Shape' /\ Apart'
    BY <1>1, <1>2, <1>4, <1>6 DEF Shape, Apart, PagesOf
  <1>12. Foreign'
    <2> SUFFICES ASSUME NEW t \in Born, NEW k \in PagesOf(t),
                        pageTables[t][k] \in EndPages
                 PROVE  state'[t] # "FREED" /\ pageTables[t][k] = k
      BY <1>1, <1>6 DEF Foreign, PagesOf
    <2>1. state[t] # "FREED" /\ pageTables[t][k] = k
      BY <1>4 DEF Foreign
    <2>2. t # u
      BY <1>9 DEF F, EndPages
    <2> QED
      BY <1>1, <2>1, <2>2 DEF SchedInv
  <1>13. Marked'
    <2>1. ASSUME NEW t \in Live \ {u}, NEW k \in PagesOf(t)
          PROVE  masterTable'[pageTables[t][k]] = 1
      <3>1. pageTables[t][k] \in Locations /\ masterTable[pageTables[t][k]] = 1
        BY <1>4, EntryFacts DEF Marked
      <3> QED
        BY <1>8, <1>10, <3>1
    <2>2. ASSUME NEW l \in Locations, masterTable'[l] = 1
          PROVE  \E t \in Live \ {u} : \E k \in PagesOf(t) : pageTables[t][k] = l
      <3>1. masterTable[l] = 1 /\ l \notin F
        BY <1>10, <2>2
      <3>2. PICK t \in Live : \E k \in PagesOf(t) : pageTables[t][k] = l
        BY <1>2, <1>4, <1>6, <3>1 DEF Marked
      <3>3. t # u
        BY <3>1, <3>2 DEF F
      <3> QED
        BY <3>2, <3>3
    <2> QED
      BY <1>1, <1>2, <1>6, <1>10, <2>1, <2>2 DEF Marked, PagesOf
  <1>14. Data'
    BY <1>1, <1>4, <1>6 DEF Data, PagesOf
  <1>15. Protection'
    <2> SUFFICES ASSUME NEW t \in Kept \ {u}, NEW k \in EndPages,
                        pageTables[t][k] \in Pages \ EndPages
                 PROVE  ~prot'[pageTables[t][k]]
      BY <1>1, <1>4, <1>6, <1>10 DEF Protection
    <2>1. t \in Live \ {u} /\ k \in PagesOf(t)
      BY <1>4, LiveOrFreed DEF Kept, Shape
    <2> QED
      BY <1>4, <1>8, <1>10, <2>1 DEF Protection
  <1>16. Place'
    BY <1>1, <1>2, <1>4, <1>6, <1>10 DEF Place, PagesOf
  <1>17. Allocating'
    BY <1>1, <1>2, <1>4 DEF Allocating
  <1> QED
    BY <1>11, <1>12, <1>13, <1>14, <1>15, <1>16, <1>17 DEF Clean

\* Two frames are free for a new thread.
FramesFree == \E x, y \in Pages : x # y /\ masterTable[x] = 0 /\ masterTable[y] = 0

LEMMA NewFrames ==
  ASSUME Marked, FramesFree, masterTable[0] = 1, masterTable[Last] = 1
  PROVE  LET p == nextFreePage(masterTable)
             e == EndIndex(p)
         IN  /\ p \in Pages \ EndPages /\ e \in Pages \ EndPages /\ p # e
             /\ masterTable[p] = 0 /\ masterTable[e] = 0
  <1> USE ThreadFacts
  <1> DEFINE p == nextFreePage(masterTable)
             m == [masterTable EXCEPT ![p] = 1]
             e == nextFreePage(m)
  <1>1. PICK x \in Pages, y \in Pages : x # y /\ masterTable[x] = 0 /\ masterTable[y] = 0
    BY DEF FramesFree
  <1>2. p \in Locations /\ masterTable[p] = 0 /\ p <= x
    BY <1>1, FreePlace
  <1>3. \A l \in Locations : m[l] = IF l = p THEN 1 ELSE masterTable[l]
    BY <1>2 DEF Marked
  <1>4. \E z \in {x, y} : z # p /\ m[z] = 0
    BY <1>1, <1>2, <1>3
  <1>5. PICK z \in {x, y} : z # p /\ m[z] = 0
    BY <1>4
  <1> HIDE DEF m, p
  <1>6. e \in Locations /\ m[e] = 0 /\ e <= z
    BY <1>1, <1>5, FreePlace
  <1> HIDE DEF e
  <1>7. e # p /\ masterTable[e] = 0
    BY <1>3, <1>6
  <1>8. p \in Pages /\ e \in Pages
    BY <1>1, <1>2, <1>5, <1>6 DEF Pages, Locations
  <1>9. p \notin EndPages /\ e \notin EndPages
    BY <1>2, <1>7 DEF EndPages
  <1> QED
    BY <1>2, <1>7, <1>8, <1>9 DEF EndIndex, m, p, e

\* A new thread's pages go to two free frames.
LEMMA CreateClean ==
  ASSUME SchedInv, LoopInv, Clean, FramesFree, my_pthread_create
  PROVE  Clean'
  <1> USE ThreadFacts, PageFacts
  <1> DEFINE new == threadIDS
             p == nextFreePage(masterTable)
             e == EndIndex(p)
  <1>1. /\ Running("user") /\ new \in Threads
        /\ threadIDS' = threadIDS + 1
        /\ pageTables' = [pageTables EXCEPT ![new] =
             [k \in Pages |-> CASE k = 0 -> p [] k = Last -> e [] OTHER -> NONE]]
        /\ masterTable' = [masterTable EXCEPT ![p] = 1, ![e] = 1]
        /\ prot' = [f \in Pages |-> f \notin {p, e} /\ prot[f]]
        /\ store' = [l \in Locations |->
                 CASE l = HeaderLocation(p) /\ Reachable(l) -> <<new, 0>>
                   [] l = HeaderLocation(e) /\ Reachable(l) -> <<new, Last>>
                   [] OTHER -> store[l]]
        /\ written' = [written EXCEPT ![new] = {0, Last}]
        /\ UNCHANGED <<want, last>>
    BY DEF my_pthread_create
  <1>2. /\ current \in Threads /\ pc = "run" /\ last = 0 /\ current # new
        /\ state[new] = "UNBORN"
        /\ state' = [state EXCEPT ![new] = "ACTIVE"]
        /\ pc' = "out" /\ temp' = current /\ i' = 0 /\ j' = 0
    BY <1>1, RunningFacts, CreateStep DEF SwitchStarts
  <1>3. Shape /\ Apart /\ Foreign /\ Marked /\ Data /\ Protection /\ Place
    BY DEF Clean
  <1>4. /\ pageTables[current][0] = 0 /\ pageTables[current][Last] = Last
        /\ masterTable[0] = 1 /\ masterTable[Last] = 1
        /\ current \in Live /\ current \in Born
    BY <1>2, OwnFrames
  <1>5. /\ p \in Pages \ EndPages /\ e \in Pages \ EndPages /\ p # e
        /\ masterTable[p] = 0 /\ masterTable[e] = 0
    BY <1>3, <1>4, NewFrames
  <1>6. HeaderLocation(p) = p /\ HeaderLocation(e) = e
    BY <1>5 DEF HeaderLocation
  <1> HIDE DEF p, e
  <1>7. /\ Live' = Live \union {new} /\ Born' = Born \union {new}
        /\ Kept' = Kept \union {new} /\ new \notin Born /\ new \notin Live
        /\ Vacating' /\ ~Vacating
    <2>1. Born' = Born \union {new} /\ new \notin Born
      BY <1>1 DEF Born, SchedInv, Threads
    <2>2. Live' = Live \union {new} /\ new \notin Live
      <3>1. /\ \A t \in Threads \ {new} : state'[t] = state[t]
            /\ state'[new] = "ACTIVE" /\ state[new] = "UNBORN"
        BY <1>1, <1>2 DEF SchedInv
      <3> QED
        BY <1>1, <3>1 DEF Live
    <2>3. Kept' = Kept \union {new}
      BY <1>1, <1>2, <2>2 DEF Kept, LoopInv, SchedInv
    <2> QED
      BY <1>2, <2>1, <2>2, <2>3 DEF Vacating
  <1>8. /\ pageTables' \in [Threads -> [Pages -> Locations \union {NONE}]]
        /\ pageTables'[new][0] = p /\ pageTables'[new][Last] = e
        /\ \A k \in Pages \ EndPages : pageTables'[new][k] = NONE
        /\ \A t \in Threads \ {new} : pageTables'[t] = pageTables[t]
    BY <1>1, <1>3, <1>5 DEF Shape, EndPages
  <1>9. /\ p # NONE /\ e # NONE /\ p \in Locations /\ e \in Locations
        /\ {k \in Pages : pageTables'[new][k] # NONE} = EndPages
        /\ \A t \in Threads \ {new} : {k \in Pages : pageTables'[t][k] # NONE} = PagesOf(t)
    <2>1. p # NONE /\ e # NONE /\ p \in Locations /\ e \in Locations
      BY <1>5
    <2>2. \A k \in Pages : pageTables'[new][k] # NONE <=> k \in EndPages
      BY <1>8, <2>1 DEF EndPages
    <2>3. \A t \in Threads \ {new} : {k \in Pages : pageTables'[t][k] # NONE} = PagesOf(t)
      BY <1>8 DEF PagesOf
    <2> QED
      BY <2>1, <2>2, <2>3
  <1>10. \A t \in Live : \A k \in PagesOf(t) :
            pageTables[t][k] # p /\ pageTables[t][k] # e
    BY <1>3, <1>5 DEF Marked
  <1>11. /\ written' \in [Threads -> SUBSET Pages] /\ written'[new] = EndPages
         /\ \A t \in Threads \ {new} : written'[t] = written[t]
    BY <1>1 DEF LoopInv, EndPages
  <1>12. Shape'
    <2> SUFFICES ASSUME NEW t \in Born'
                 PROVE  LET pages == {k \in Pages : pageTables'[t][k] # NONE} IN
                        /\ EndPages \subseteq pages /\ pages \subseteq BlockPages
                        /\ written'[t] \subseteq BlockPages
                        /\ written'[t] = pages /\ pages \in {EndPages, BlockPages}
      BY <1>8 DEF Shape, PagesOf
    <2>1. CASE t = new
      BY <1>9, <1>11, <2>1
    <2>2. CASE t # new
      BY <1>2, <1>3, <1>7, <1>9, <1>11, <2>2 DEF Shape
    <2> QED
      BY <2>1, <2>2
  <1>13. Apart'
    <2> SUFFICES ASSUME NEW t \in Live', NEW u \in Live', NEW k \in Pages, NEW l \in Pages,
                        pageTables'[t][k] # NONE, pageTables'[u][l] # NONE,
                        pageTables'[t][k] = pageTables'[u][l]
                 PROVE  t = u /\ k = l
      BY DEF Apart, PagesOf
    <2>1. t \in Threads /\ u \in Threads
      BY <1>1, <1>7
    <2>2. CASE t = new /\ u = new
      <3>1. k \in EndPages /\ l \in EndPages
        BY <1>8, <2>2
      <3> QED
        BY <1>5, <1>8, <2>2, <3>1 DEF EndPages
    <2>3. CASE t = new /\ u # new
      <3>1. k \in EndPages /\ u \in Live /\ l \in PagesOf(u)
        BY <1>7, <1>8, <2>1, <2>3 DEF PagesOf
      <3> QED
        BY <1>8, <1>10, <2>1, <2>3, <3>1 DEF EndPages
    <2>4. CASE t # new /\ u = new
      <3>1. l \in EndPages /\ t \in Live /\ k \in PagesOf(t)
        BY <1>7, <1>8, <2>1, <2>4 DEF PagesOf
      <3> QED
        BY <1>8, <1>10, <2>1, <2>4, <3>1 DEF EndPages
    <2>5. CASE t # new /\ u # new
      <3>1. /\ t \in Live /\ u \in Live /\ k \in PagesOf(t) /\ l \in PagesOf(u)
            /\ pageTables[t][k] = pageTables[u][l]
        BY <1>7, <1>8, <2>1, <2>5 DEF PagesOf
      <3> QED
        BY <1>3, <3>1 DEF Apart
    <2> QED
      BY <2>2, <2>3, <2>4, <2>5
  <1>14. Foreign'
    <2> SUFFICES ASSUME NEW t \in Born', NEW k \in Pages, pageTables'[t][k] # NONE,
                        pageTables'[t][k] \in EndPages
                 PROVE  state'[t] # "FREED" /\ pageTables'[t][k] = k
      BY DEF Foreign, PagesOf
    <2>1. t # new
      BY <1>5, <1>8 DEF EndPages
    <2>2. t \in Born /\ k \in PagesOf(t) /\ pageTables'[t][k] = pageTables[t][k]
      BY <1>7, <1>8, <2>1 DEF PagesOf
    <2> QED
      BY <1>2, <1>3, <2>1, <2>2 DEF Foreign, SchedInv
  <1>15. /\ masterTable' \in [Locations -> {0, 1}]
         /\ masterTable'[p] = 1 /\ masterTable'[e] = 1
         /\ \A l \in Locations : l # p /\ l # e => masterTable'[l] = masterTable[l]
    BY <1>1, <1>3, <1>9 DEF Marked
  <1>16. Marked'
    <2>1. ASSUME NEW t \in Live', NEW k \in Pages, pageTables'[t][k] # NONE
          PROVE  masterTable'[pageTables'[t][k]] = 1
      <3>1. CASE t = new
        BY <1>8, <1>15, <2>1, <3>1 DEF EndPages
      <3>2. CASE t # new
        <4>1. t \in Live /\ k \in PagesOf(t) /\ pageTables'[t][k] = pageTables[t][k]
          BY <1>7, <1>8, <2>1, <3>2 DEF PagesOf
        <4>2. pageTables[t][k] \in Locations /\ masterTable[pageTables[t][k]] = 1
          BY <1>3, <4>1, EntryFacts DEF Marked
        <4> QED
          BY <1>10, <1>15, <4>1, <4>2
      <3> QED
        BY <3>1, <3>2
    <2>2. ASSUME NEW l \in Locations, masterTable'[l] = 1
          PROVE  \E t \in Live' : \E k \in Pages :
                    pageTables'[t][k] # NONE /\ pageTables'[t][k] = l
      <3>1. CASE l = p \/ l = e
        BY <1>7, <1>8, <1>9, <3>1
      <3>2. CASE l # p /\ l # e
        <4>1. masterTable[l] = 1
          BY <1>15, <2>2, <3>2
        <4>2. PICK t \in Live : \E k \in PagesOf(t) : pageTables[t][k] = l
          BY <1>2, <1>3, <1>7, <4>1 DEF Marked
        <4>3. PICK k \in PagesOf(t) : pageTables[t][k] = l
          BY <4>2
        <4>4. t \in Live' /\ t # new /\ k \in Pages /\ pageTables'[t][k] = l
              /\ pageTables'[t][k] # NONE
          BY <1>7, <1>8, <4>3 DEF PagesOf
        <4> QED
          BY <4>4
      <3> QED
        BY <3>1, <3>2
    <2>3. masterTable'[0] = 1 /\ masterTable'[Last] = 1
      BY <1>4, <1>5, <1>15 DEF EndPages
    <2> QED
      BY <1>15, <2>1, <2>2, <2>3 DEF Marked, PagesOf
  <1>17. Data'
    <2>1. /\ DOMAIN store' = Locations
          /\ store'[p] = <<new, 0>> /\ store'[e] = <<new, Last>>
          /\ \A l \in Locations : l # p /\ l # e => store'[l] = store[l]
      <3>1. Reachable(p) /\ Reachable(e)
        BY <1>5 DEF Reachable
      <3> QED
        BY <1>1, <1>5, <1>6, <1>9, <3>1
    <2> SUFFICES ASSUME NEW t \in Kept', NEW k \in Pages, pageTables'[t][k] # NONE,
                        k \in written'[t]
                 PROVE  store'[pageTables'[t][k]] = <<t, k>>
      BY <2>1 DEF Data, PagesOf
    <2>2. CASE t = new
      BY <1>8, <1>11, <2>1, <2>2 DEF EndPages
    <2>3. CASE t # new
      <3>1. t \in Kept /\ t \in Live /\ k \in PagesOf(t) \intersect written[t]
            /\ pageTables'[t][k] = pageTables[t][k]
        BY <1>7, <1>8, <1>11, <2>3 DEF PagesOf, Kept
      <3>2. pageTables[t][k] \in Locations
        BY <1>3, <3>1, EntryFacts
      <3>3. store[pageTables[t][k]] = <<t, k>>
        BY <1>3, <3>1 DEF Data
      <3> QED
        BY <1>10, <2>1, <3>1, <3>2, <3>3
    <2> QED
      BY <2>2, <2>3
  <1>18. Protection'
    <2>1. prot' \in [Pages -> BOOLEAN] /\ ~prot'[p] /\ ~prot'[e]
          /\ \A f \in Pages : ~prot[f] => ~prot'[f]
      BY <1>1, <1>5
    <2>2. prot'[0] /\ prot'[Last]
      BY <1>1, <1>3, <1>5 DEF EndPages, Protection
    <2> SUFFICES ASSUME NEW t \in Kept', NEW k \in EndPages,
                        pageTables'[t][k] \in Pages \ EndPages
                 PROVE  ~prot'[pageTables'[t][k]]
      BY <2>1, <2>2 DEF Protection
    <2>3. CASE t = new
      BY <1>8, <2>1, <2>3 DEF EndPages
    <2>4. CASE t # new
      <3>1. t \in Kept /\ pageTables'[t][k] = pageTables[t][k]
        BY <1>7, <1>8, <2>4 DEF Kept
      <3> QED
        BY <1>3, <2>1, <3>1 DEF Protection
    <2> QED
      BY <2>3, <2>4
  <1>19. Place'
    BY <1>2, <1>4, <1>8 DEF Place
  <1>20. Allocating'
    BY <1>2 DEF Allocating
  <1> QED
    BY <1>12, <1>13, <1>14, <1>16, <1>17, <1>18, <1>19, <1>20 DEF Clean

-----------------------------------------------------------------------------
(* Allocations that keep the paging clean: on the first page, or of a      *)
(* whole block while no thread has been joined.                            *)

LEMMA myallocateClean ==
  ASSUME SchedInv, LoopInv, Clean, NEW f \in {0, HalfOfPages}, f # 0 => NoneFreed,
         myallocate(f, f)
  PROVE  Clean'
  <1> USE ThreadFacts, PageFacts
  <1>1. /\ Running("user") /\ f >= HighestPage
        /\ want' = <<f, f>> /\ last' = f /\ i' = HighestPage /\ pc' = "tags"
        /\ UNCHANGED <<current, threadIDS, state, pageTables, masterTable, prot,
                       store, written, j, temp>>
    BY DEF myallocate, sched, paging
  <1>2. current \in Threads /\ pc = "run" /\ last = 0
    BY <1>1, RunningFacts
  <1>3. Shape /\ Apart /\ Foreign /\ Marked /\ Data /\ Protection /\ Place /\ Allocating
    BY DEF Clean
  <1>4. Live' = Live /\ Born' = Born /\ Kept' = Kept /\ ~Vacating /\ ~Vacating'
        /\ NoneFreed' = NoneFreed
    BY <1>1, <1>2 DEF Live, Born, Kept, Vacating, NoneFreed
  <1>5. Shape' /\ Apart' /\ Foreign'
    BY <1>1, <1>2, <1>3, <1>4 DEF Shape, Apart, Foreign, PagesOf
  <1>6. j = 0
    BY <1>2, <1>3 DEF Allocating
  <1>7. Marked'
    BY <1>1, <1>2, <1>3, <1>4, <1>6 DEF Marked, PagesOf
  <1>8. Data' /\ Protection'
    BY <1>1, <1>3, <1>4 DEF Data, Protection, PagesOf
  <1>9. Place'
    BY <1>1, <1>2, <1>3 DEF Place, PagesOf
  <1>10. current \in Born /\ written[current] = PagesOf(current)
         /\ PagesOf(current) \in {EndPages, BlockPages}
    BY <1>2, <1>3, CurrentIsBorn DEF Shape
  <1>11. 0..(HighestPage - 1) \subseteq PagesOf(current)
    <2>1. HighestPage \in PagesOf(current) \ {Last} /\ HighestPage \in Nat
      BY <1>2, <1>10, HighestPageFacts
    <2>2. CASE PagesOf(current) = EndPages
      <3>1. HighestPage = 0
        BY <2>1, <2>2 DEF EndPages
      <3> QED
        BY <3>1
    <2>3. CASE PagesOf(current) = BlockPages
      <3>1. HighestPage <= HalfOfPages
        BY <2>1, <2>3 DEF BlockPages
      <3> QED
        BY <2>1, <2>3, <3>1 DEF BlockPages
    <2> QED
      BY <1>10, <2>2, <2>3
  <1>12. f \in written[current] => prot[f]
    BY <1>2, <1>3, <1>10 DEF Place
  <1>13. /\ \A k \in DOMAIN want' : want'[k] = f
         /\ want' # <<>>
    BY <1>1
  <1>14. \A t \in Born : ~(t < 0)
    BY DEF Born, Threads
  <1>15. HighestPage \in Nat /\ ~(HighestPage > f) /\ f \in Nat
    BY <1>1, <1>2, HighestPageFacts
  <1>16. Allocating'
    <2>1. {k \in Pages : pageTables'[current'][k] # NONE} \intersect written'[current']
            = PagesOf(current)
      BY <1>1, <1>10 DEF PagesOf
    <2> QED
      BY <1>1, <1>4, <1>6, <1>11, <1>12, <1>13, <1>14, <1>15, <2>1
      DEF Allocating, PagesOf
  <1> QED
    BY <1>5, <1>7, <1>8, <1>9, <1>16 DEF Clean

\* While it allocates, the thread that runs is alone with what is accessible.
LEMMA AccessibleFrame ==
  ASSUME SchedInv, LoopInv, Clean, Alone, pc \in {"tags", "fault"},
         NEW p \in {0, HalfOfPages}, prot[p],
         NEW t \in Kept, t # current, NEW k \in PagesOf(t) \intersect written[t]
  PROVE  pageTables[t][k] # p
  <1> USE ThreadFacts, PageFacts
  <1>1. t \in Threads /\ t \in Live /\ t \in Born /\ current \in Threads
    BY LiveOrFreed DEF Kept, LoopInv, SchedInv
  <1>2. written[t] = EndPages
    BY <1>1 DEF Kept, Alone
  <1>3. CASE p = 0
    <2>1. current \in Live /\ 0 \in PagesOf(current) /\ pageTables[current][0] = 0
      BY <1>1, OwnFrames
    <2> QED
      BY <1>1, <1>3, <2>1 DEF Clean, Apart
  <1>4. CASE p = HalfOfPages
    <2>1. p \in Pages \ EndPages /\ k \in EndPages
      BY <1>2, <1>4
    <2> QED
      BY <2>1 DEF Clean, Protection
  <1> QED
    BY <1>3, <1>4

LEMMA WriteTagClean ==
  ASSUME SchedInv, LoopInv, Clean, Alone, WriteTag
  PROVE  Clean'
  <1> USE ThreadFacts, PageFacts
  <1> DEFINE p == Head(want)
  <1>1. /\ pc = "tags" /\ want # <<>> /\ prot[p]
        /\ store' = [store EXCEPT ![p] = <<current, p>>]
        /\ written' = [written EXCEPT ![current] = @ \union {p}]
        /\ want' = Tail(want)
        /\ UNCHANGED <<current, threadIDS, state, pageTables, masterTable, prot, pc,
                       i, j, temp, last>>
    BY DEF WriteTag, InLoop, sched
  <1>2. Shape /\ Apart /\ Foreign /\ Marked /\ Data /\ Protection /\ Place /\ Allocating
    BY DEF Clean
  <1>3. /\ current \in Threads /\ current \in Born /\ current \in Live
        /\ current \in Kept /\ current # NULL
    BY <1>1, LiveOrFreed, CurrentIsBorn DEF LoopInv, SchedInv
  <1>4. /\ p = last /\ last \in {0, HalfOfPages}
        /\ Tail(want) \in Seq(0..(Last - 1))
        /\ \A k \in DOMAIN want' : want'[k] = last
    <2>1. want \in Seq(0..(Last - 1)) /\ \A k \in DOMAIN want : want[k] = last
      BY <1>1, <1>2 DEF LoopInv, Allocating
    <2>2. /\ Head(want) = want[1] /\ Tail(want) \in Seq(0..(Last - 1))
          /\ Len(want) \in Nat \ {0} /\ DOMAIN want = 1..Len(want)
          /\ Len(want') = Len(want) - 1 /\ DOMAIN want' = 1..(Len(want) - 1)
          /\ \A k \in 1..(Len(want) - 1) : want'[k] = want[k + 1]
      BY <1>1, <2>1, HeadTailProperties, LenProperties, EmptySeq
    <2>3. 1 \in DOMAIN want /\ \A k \in DOMAIN want' : k + 1 \in DOMAIN want
      BY <2>2
    <2> QED
      BY <1>1, <1>2, <2>1, <2>2, <2>3 DEF Allocating
  <1>5. p \in Pages /\ p \in Locations /\ p \in BlockPages
    BY <1>4 DEF BlockPages
  <1> HIDE DEF p
  <1>6. /\ written' \in [Threads -> SUBSET Pages]
        /\ written'[current] = written[current] \union {p}
        /\ \A t \in Threads \ {current} : written'[t] = written[t]
    BY <1>1, <1>3, <1>5 DEF LoopInv
  <1>7. Live' = Live /\ Born' = Born /\ ~Vacating /\ ~Vacating'
        /\ NoneFreed' = NoneFreed
    BY <1>1 DEF Live, Born, Vacating, NoneFreed
  <1>8. Kept' = Kept
    <2>1. \A t \in Threads : state'[t] = "ACTIVE" \/ written'[t] = EndPages <=>
                             state[t] = "ACTIVE" \/ written[t] = EndPages
      BY <1>1, <1>3, <1>6 DEF Kept, SchedInv
    <2> QED
      BY <1>7, <2>1 DEF Kept
  <1>9. last = 0 => written' = written
    <2> SUFFICES ASSUME last = 0 PROVE written' = written
      OBVIOUS
    <2>1. 0 \in written[current]
      BY <1>3 DEF LoopInv, EndPages
    <2>2. written'[current] = written[current]
      BY <1>4, <1>6, <2>1
    <2> QED
      BY <1>6, <2>2 DEF LoopInv
  <1>10. Shape'
    BY <1>1, <1>2, <1>3, <1>5, <1>6, <1>7, <1>9 DEF Shape, PagesOf
  <1>11. Apart' /\ Foreign'
    BY <1>1, <1>2, <1>7 DEF Apart, Foreign, PagesOf
  <1>12. want # <<>> => j = 0
    BY <1>1, <1>2 DEF Allocating
  <1>13. Marked'
    BY <1>1, <1>2, <1>7, <1>12 DEF Marked, PagesOf
  <1>14. Data'
    <2>1. /\ DOMAIN store' = Locations /\ store'[p] = <<current, p>>
          /\ \A l \in Locations : l # p => store'[l] = store[l]
      BY <1>1, <1>2, <1>5 DEF Data
    <2> SUFFICES ASSUME NEW t \in Kept, NEW k \in PagesOf(t) \intersect written'[t]
                 PROVE  store'[pageTables[t][k]] = <<t, k>>
      BY <1>1, <1>8, <2>1 DEF Data, PagesOf
    <2>2. t \in Threads /\ t \in Live /\ pageTables[t][k] \in Locations
      BY <1>2, EntryFacts DEF Kept
    <2>3. CASE t = current
      <3>1. pageTables[t][k] = k
        BY <1>1, <1>2, <1>3, <2>3 DEF Place
      <3>2. k # p => store[k] = <<t, k>>
        BY <1>2, <1>3, <1>6, <2>3, <3>1 DEF Data
      <3> QED
        BY <2>1, <2>2, <2>3, <3>1, <3>2
    <2>4. CASE t # current
      <3>1. k \in PagesOf(t) \intersect written[t]
        BY <1>6, <2>2, <2>4
      <3>2. pageTables[t][k] # p
        BY <1>1, <1>4, <2>4, <3>1, AccessibleFrame DEF p
      <3> QED
        BY <1>2, <2>1, <2>2, <3>1, <3>2 DEF Data
    <2> QED
      BY <2>3, <2>4
  <1>15. Protection'
    BY <1>1, <1>2, <1>8 DEF Protection
  <1>16. Place'
    BY <1>1, <1>2 DEF Place, PagesOf
  <1>17. Allocating'
    <2>1. 0..(i - 1) \subseteq PagesOf(current) \intersect written'[current]
      BY <1>1, <1>2, <1>6 DEF Allocating
    <2>2. last \in written'[current] /\ prot[last]
      BY <1>1, <1>4, <1>6 DEF p
    <2>3. j = 0 /\ (last # 0 => NoneFreed)
      BY <1>1, <1>2 DEF Allocating
    <2>4. \A t \in Born : ~(t < 0)
      BY DEF Born, Threads
    <2> QED
      BY <1>1, <1>4, <1>7, <2>1, <2>2, <2>3, <2>4 DEF Allocating, PagesOf
  <1> QED
    BY <1>10, <1>11, <1>13, <1>14, <1>15, <1>16, <1>17 DEF Clean

\* Only a block that ends past the first page can fault.
LEMMA FaultClean ==
  ASSUME SchedInv, LoopInv, Clean, Fault
  PROVE  Clean'
  <1> USE ThreadFacts, PageFacts
  <1>1. /\ pc = "tags" /\ want # <<>> /\ ~prot[Head(want)] /\ pc' = "fault" /\ j' = 0
        /\ UNCHANGED <<current, threadIDS, state, pageTables, masterTable, prot,
                       store, written, i, temp, want, last>>
    BY DEF Fault, InLoop, sched, paging
  <1>2. Shape /\ Apart /\ Foreign /\ Marked /\ Data /\ Protection /\ Place /\ Allocating
    BY DEF Clean
  <1>3. Live' = Live /\ Born' = Born /\ Kept' = Kept /\ ~Vacating /\ ~Vacating'
        /\ NoneFreed' = NoneFreed
    BY <1>1 DEF Live, Born, Kept, Vacating, NoneFreed
  <1>4. Shape' /\ Apart' /\ Foreign'
    BY <1>1, <1>2, <1>3 DEF Shape, Apart, Foreign, PagesOf
  <1>5. Marked'
    BY <1>1, <1>2, <1>3 DEF Marked, PagesOf
  <1>6. Data' /\ Protection'
    BY <1>1, <1>2, <1>3 DEF Data, Protection, PagesOf
  <1>7. Place'
    BY <1>1, <1>2 DEF Place, PagesOf
  <1>8. Head(want) = last
    <2>1. want \in Seq(0..(Last - 1)) /\ \A k \in DOMAIN want : want[k] = last
      BY <1>1, <1>2 DEF LoopInv, Allocating
    <2>2. Head(want) = want[1] /\ 1 \in DOMAIN want
      BY <1>1, <2>1, HeadTailProperties, LenProperties, EmptySeq
    <2> QED
      BY <2>1, <2>2
  <1>9. last # 0 /\ last \notin written[current]
    BY <1>1, <1>2, <1>8 DEF Protection, Allocating
  <1>10. \A t \in Born : ~(t < 0)
    BY DEF Born, Threads
  <1>11. Allocating'
    BY <1>1, <1>2, <1>3, <1>9, <1>10 DEF Allocating, PagesOf
  <1> QED
    BY <1>4, <1>5, <1>6, <1>7, <1>11 DEF Clean

LEMMA FaultPage ==
  ASSUME SchedInv, LoopInv, Clean, pc = "fault"
  PROVE  /\ Head(want) = HalfOfPages /\ last = HalfOfPages /\ j = 0
         /\ want # <<>> /\ HalfOfPages \notin written[current]
  <1>1. want \in Seq(0..(Last - 1)) /\ want # <<>> /\ j = 0
        /\ last = HalfOfPages /\ last \notin written[current]
        /\ \A k \in DOMAIN want : want[k] = last
    BY DEF LoopInv, Clean, Allocating
  <1>2. Head(want) = want[1] /\ 1 \in DOMAIN want
    BY <1>1, HeadTailProperties, LenProperties, EmptySeq
  <1> QED
    BY <1>1, <1>2

\* Page p of the current thread is now in its own frame, which was not used.
Taken(p) ==
  /\ pageTables' = [pageTables EXCEPT ![current][p] = p]
  /\ masterTable' = [masterTable EXCEPT ![p] = 1]
  /\ prot' = [prot EXCEPT ![p] = TRUE]

\* Taking a frame in which there is no page of another thread.
LEMMA TakenFacts ==
  ASSUME SchedInv, LoopInv, Clean, current \in Threads, SchedKept,
         NEW p \in 0..HalfOfPages, Taken(p),
         \A t \in Live \ {current} : \A k \in PagesOf(t) : pageTables[t][k] # p,
         \A k \in PagesOf(current) : pageTables[current][k] = k
  PROVE  /\ pageTables' \in [Threads -> [Pages -> Locations \union {NONE}]]
         /\ \A u \in Threads \ {current} : \A k \in Pages :
               pageTables'[u][k] = pageTables[u][k]
         /\ \A u \in Threads \ {current} :
               {k \in Pages : pageTables'[u][k] # NONE} = PagesOf(u)
         /\ {k \in Pages : pageTables'[current][k] # NONE} = PagesOf(current) \union {p}
         /\ \A k \in PagesOf(current) \union {p} : pageTables'[current][k] = k
         /\ masterTable' \in [Locations -> {0, 1}] /\ masterTable'[p] = 1
         /\ \A l \in Locations : l # p => masterTable'[l] = masterTable[l]
         /\ prot' \in [Pages -> BOOLEAN] /\ prot'[p]
         /\ \A k \in Pages : k # p => prot'[k] = prot[k]
         /\ p \in BlockPages /\ p \in Pages /\ p # NONE /\ p \in Locations
         /\ Apart' /\ Foreign'
  <1> USE ThreadFacts, PageFacts
  <1>1. Shape /\ Apart /\ Foreign /\ Marked /\ Protection
    BY DEF Clean
  <1>2. p \in BlockPages /\ p \in Pages /\ p # NONE /\ p \in Locations
    BY DEF BlockPages
  <1>3. /\ pageTables' \in [Threads -> [Pages -> Locations \union {NONE}]]
        /\ pageTables'[current][p] = p
        /\ \A u \in Threads : \A k \in Pages :
              u # current \/ k # p => pageTables'[u][k] = pageTables[u][k]
    BY <1>1, <1>2 DEF Taken, Shape
  <1>4. /\ masterTable' \in [Locations -> {0, 1}] /\ masterTable'[p] = 1
        /\ \A l \in Locations : l # p => masterTable'[l] = masterTable[l]
    BY <1>1, <1>2 DEF Taken, Marked
  <1>5. /\ prot' \in [Pages -> BOOLEAN] /\ prot'[p]
        /\ \A k \in Pages : k # p => prot'[k] = prot[k]
    BY <1>1, <1>2 DEF Taken, Protection
  <1>6. \A u \in Threads \ {current} :
               {k \in Pages : pageTables'[u][k] # NONE} = PagesOf(u)
    BY <1>3 DEF PagesOf
  <1>7. {k \in Pages : pageTables'[current][k] # NONE} = PagesOf(current) \union {p}
    BY <1>2, <1>3 DEF PagesOf
  <1>8. \A k \in PagesOf(current) \union {p} : pageTables'[current][k] = k
    BY <1>3 DEF PagesOf
  <1>9. Live' = Live /\ Born' = Born
    BY DEF SchedKept, Live, Born
  <1>10. Apart'
    <2> SUFFICES ASSUME NEW t \in Live, NEW u \in Live, NEW k \in Pages, NEW l \in Pages,
                        pageTables'[t][k] # NONE, pageTables'[u][l] # NONE,
                        pageTables'[t][k] = pageTables'[u][l]
                 PROVE  t = u /\ k = l
      BY <1>9 DEF Apart, PagesOf
    <2>1. CASE t = current /\ u = current
      <3>1. k \in PagesOf(current) \union {p} /\ l \in PagesOf(current) \union {p}
        BY <1>7, <2>1
      <3> QED
        BY <1>8, <2>1, <3>1
    <2>2. CASE t = current /\ u # current
      <3>1. /\ k \in PagesOf(current) \union {p} /\ l \in PagesOf(u)
            /\ pageTables'[t][k] = k /\ pageTables'[u][l] = pageTables[u][l]
        BY <1>3, <1>6, <1>7, <1>8, <2>2
      <3>2. k \in PagesOf(current) /\ pageTables[current][k] = k
        BY <2>2, <3>1
      <3> QED
        BY <1>1, <2>2, <3>1, <3>2 DEF Apart
    <2>3. CASE t # current /\ u = current
      <3>1. /\ l \in PagesOf(current) \union {p} /\ k \in PagesOf(t)
            /\ pageTables'[u][l] = l /\ pageTables'[t][k] = pageTables[t][k]
        BY <1>3, <1>6, <1>7, <1>8, <2>3
      <3>2. l \in PagesOf(current) /\ pageTables[current][l] = l
        BY <2>3, <3>1
      <3> QED
        BY <1>1, <2>3, <3>1, <3>2 DEF Apart
    <2>4. CASE t # current /\ u # current
      <3>1. /\ k \in PagesOf(t) /\ l \in PagesOf(u)
            /\ pageTables[t][k] = pageTables[u][l]
        BY <1>3, <1>6, <2>4
      <3> QED
        BY <1>1, <3>1 DEF Apart
    <2> QED
      BY <2>1, <2>2, <2>3, <2>4
  <1>11. Foreign'
    <2> SUFFICES ASSUME NEW t \in Born, NEW k \in Pages, pageTables'[t][k] # NONE,
                        pageTables'[t][k] \in EndPages
                 PROVE  state[t] # "FREED" /\ pageTables'[t][k] = k
      BY <1>9 DEF Foreign, PagesOf, SchedKept
    <2>1. CASE t = current
      BY <1>7, <1>8, <2>1, CurrentIsBorn
    <2>2. CASE t # current
      <3>1. k \in PagesOf(t) /\ pageTables'[t][k] = pageTables[t][k]
        BY <1>3, <1>6, <2>2
      <3> QED
        BY <1>1, <3>1 DEF Foreign
    <2> QED
      BY <2>1, <2>2
  <1> QED
    BY <1>2, <1>3, <1>4, <1>5, <1>6, <1>7, <1>8, <1>10, <1>11

LEMMA FaultOnFreeFrameClean ==
  ASSUME SchedInv, LoopInv, Clean, FaultOnFreeFrame
  PROVE  Clean'
  <1> USE ThreadFacts, PageFacts
  <1> DEFINE p == HalfOfPages
  <1>1. pc = "fault" /\ Head(want) = p
    BY FaultPage DEF FaultOnFreeFrame, InLoop
  <1>2. /\ masterTable[p] = 0 /\ Taken(p) /\ pc' = "tags" /\ SchedKept
        /\ UNCHANGED <<store, written, i, j, temp, want, last>>
    BY <1>1 DEF FaultOnFreeFrame, TakeFrame, Taken, SchedKept, sched, locals
  <1>3. Shape /\ Apart /\ Foreign /\ Marked /\ Data /\ Protection /\ Place /\ Allocating
    BY DEF Clean
  <1>4. /\ current \in Threads /\ current \in Born /\ current \in Live /\ current # NULL
        /\ last = p /\ j = 0 /\ want # <<>> /\ p \notin written[current]
    BY <1>1, FaultPage, LiveOrFreed, CurrentIsBorn DEF LoopInv, SchedInv
  <1>5. \A t \in Live : \A k \in PagesOf(t) : pageTables[t][k] # p
    BY <1>2, <1>3 DEF Marked
  <1>6. \A k \in PagesOf(current) : pageTables[current][k] = k /\ prot[k]
    BY <1>1, <1>3, <1>4 DEF Place
  <1>7. p \in 0..HalfOfPages /\ p # 0
    OBVIOUS
  <1> HIDE DEF p
  <1>8. /\ pageTables' \in [Threads -> [Pages -> Locations \union {NONE}]]
        /\ \A u \in Threads \ {current} : \A k \in Pages :
              pageTables'[u][k] = pageTables[u][k]
        /\ \A u \in Threads \ {current} :
              {k \in Pages : pageTables'[u][k] # NONE} = PagesOf(u)
        /\ {k \in Pages : pageTables'[current][k] # NONE} = PagesOf(current) \union {p}
        /\ \A k \in PagesOf(current) \union {p} : pageTables'[current][k] = k
        /\ masterTable' \in [Locations -> {0, 1}] /\ masterTable'[p] = 1
        /\ \A l \in Locations : l # p => masterTable'[l] = masterTable[l]
        /\ prot' \in [Pages -> BOOLEAN] /\ prot'[p]
        /\ \A k \in Pages : k # p => prot'[k] = prot[k]
        /\ p \in BlockPages /\ p \in Pages /\ p # NONE /\ p \in Locations
        /\ Apart' /\ Foreign'
    BY <1>2, <1>4, <1>5, <1>6, <1>7, TakenFacts
  <1>9. Live' = Live /\ Born' = Born /\ Kept' = Kept /\ ~Vacating' /\ ~Vacating
        /\ NoneFreed' = NoneFreed /\ current' = current
    BY <1>1, <1>2 DEF Live, Born, Kept, SchedKept, Vacating, NoneFreed
  <1>10. Shape'
    <2> SUFFICES ASSUME NEW t \in Born
                 PROVE  LET pages == {k \in Pages : pageTables'[t][k] # NONE} IN
                        /\ EndPages \subseteq pages /\ pages \subseteq BlockPages
                        /\ written[t] \subseteq BlockPages
                        /\ t # current =>
                             written[t] = pages /\ pages \in {EndPages, BlockPages}
      BY <1>2, <1>4, <1>7, <1>8, <1>9 DEF Shape, PagesOf
    <2>1. CASE t = current
      BY <1>3, <1>8, <2>1 DEF Shape
    <2>2. CASE t # current
      BY <1>3, <1>8, <2>2 DEF Shape
    <2> QED
      BY <2>1, <2>2
  <1>11. Marked'
    <2>1. ASSUME NEW t \in Live, NEW k \in Pages, pageTables'[t][k] # NONE
          PROVE  masterTable'[pageTables'[t][k]] = 1
      <3>1. CASE t = current /\ k = p
        BY <1>8, <3>1
      <3>2. CASE t # current \/ k # p
        <4>1. k \in PagesOf(t) /\ pageTables'[t][k] = pageTables[t][k]
          <5>1. CASE t # current
            BY <1>8, <2>1, <5>1
          <5>2. CASE t = current
            BY <1>6, <1>8, <2>1, <3>2, <5>2
          <5> QED
            BY <5>1, <5>2
        <4>2. pageTables[t][k] \in Locations /\ masterTable[pageTables[t][k]] = 1
          BY <1>3, <4>1, EntryFacts DEF Marked
        <4>3. pageTables[t][k] # p
          BY <1>5, <4>1
        <4>4. masterTable'[pageTables[t][k]] = masterTable[pageTables[t][k]]
          BY <1>8, <4>2, <4>3
        <4> QED
          BY <4>1, <4>2, <4>4
      <3> QED
        BY <3>1, <3>2
    <2>2. ASSUME NEW l \in Locations, masterTable'[l] = 1
          PROVE  \E t \in Live : \E k \in Pages :
                    pageTables'[t][k] # NONE /\ pageTables'[t][k] = l
      <3>1. CASE l = p
        BY <1>4, <1>8, <3>1
      <3>2. CASE l # p
        <4>1. PICK t \in Live : \E k \in PagesOf(t) : pageTables[t][k] = l
          BY <1>1, <1>3, <1>8, <1>9, <2>2, <3>2 DEF Marked
        <4>2. PICK k \in PagesOf(t) : pageTables[t][k] = l
          BY <4>1
        <4>3. k \in Pages /\ l # NONE
          BY <4>2 DEF PagesOf
        <4>4. pageTables'[t][k] = l
          <5>1. CASE t = current
            <6>1. pageTables[current][k] = k /\ pageTables'[current][k] = k
              BY <1>6, <1>8, <4>2, <5>1
            <6> QED
              BY <4>2, <5>1, <6>1
          <5>2. CASE t # current
            <6>1. t \in Threads \ {current}
              BY <5>2 DEF Live
            <6>2. pageTables'[t][k] = pageTables[t][k]
              BY <1>8, <4>3, <6>1
            <6> QED
              BY <4>2, <6>2
          <5> QED
            BY <5>1, <5>2
        <4> QED
          BY <4>3, <4>4
      <3> QED
        BY <3>1, <3>2
    <2> QED
      BY <1>4, <1>8, <1>9, <1>2, <2>1, <2>2 DEF Marked, PagesOf
  <1>12. Data'
    <2> SUFFICES ASSUME NEW t \in Kept, NEW k \in Pages, pageTables'[t][k] # NONE,
                        k \in written[t]
                 PROVE  store[pageTables'[t][k]] = <<t, k>>
      BY <1>2, <1>3, <1>9 DEF Data, PagesOf
    <2>1. t \in Threads /\ k \in PagesOf(t) /\ pageTables'[t][k] = pageTables[t][k]
      <3>1. CASE t # current
        BY <1>8, <3>1 DEF Kept, Live
      <3>2. CASE t = current
        BY <1>4, <1>6, <1>8, <3>2
      <3> QED
        BY <3>1, <3>2
    <2> QED
      BY <1>3, <2>1 DEF Data
  <1>13. Protection'
    <2>1. prot'[0] /\ prot'[Last]
      BY <1>3, <1>8 DEF Protection
    <2> SUFFICES ASSUME NEW t \in Kept, NEW k \in EndPages,
                        pageTables'[t][k] \in Pages \ EndPages
                 PROVE  ~prot'[pageTables'[t][k]]
      BY <1>8, <1>9, <2>1 DEF Protection
    <2>2. t # current
      <3>1. EndPages \subseteq PagesOf(current)
        BY <1>3, <1>4 DEF Shape
      <3> QED
        BY <1>8, <3>1
    <2>3. t \in Live /\ k \in PagesOf(t) /\ pageTables'[t][k] = pageTables[t][k]
      BY <1>3, <1>8, <2>2, LiveOrFreed DEF Kept, Shape
    <2>4. pageTables[t][k] # p
      BY <1>5, <2>3
    <2>5. prot'[pageTables[t][k]] = prot[pageTables[t][k]]
      BY <1>8, <2>3, <2>4
    <2> QED
      BY <1>3, <2>3, <2>5 DEF Protection
  <1>14. Place'
    <2>1. \A k \in {m \in Pages : pageTables'[current][m] # NONE} :
             pageTables'[current][k] = k /\ prot'[k]
      BY <1>6, <1>8
    <2> QED
      BY <1>2, <1>9, <2>1 DEF Place, PagesOf
  <1>15. Allocating'
    <2>1. \A t \in Born : ~(t < 0)
      BY DEF Born, Threads
    <2>2. /\ last \in {0, HalfOfPages} /\ \A k \in DOMAIN want : want[k] = last
          /\ last # 0 => NoneFreed
          /\ 0..(i - 1) \subseteq
               {k \in Pages : pageTables'[current][k] # NONE} \intersect written[current]
      BY <1>1, <1>3, <1>8 DEF Allocating
    <2> QED
      BY <1>2, <1>4, <1>9, <2>1, <2>2 DEF Allocating, PagesOf
  <1> QED
    BY <1>8, <1>10, <1>11, <1>12, <1>13, <1>14, <1>15 DEF Clean

LEMMA ClaimPageClean ==
  ASSUME SchedInv, LoopInv, Clean, ClaimPage
  PROVE  Clean'
  <1> USE ThreadFacts, PageFacts
  <1>0. pageTables[current][i] = i => prot[i] /\ i \in Pages
    <2>1. pc = "tags" /\ Place /\ current # NULL /\ i \in 0..last /\ last \in Nat
          /\ last <= MEMORYPAGES - 3
      BY SizeAssumption DEF ClaimPage, InLoop, Clean, LoopInv
    <2>2. i \in Pages
      BY <2>1 DEF Pages
    <2> QED
      BY <2>1, <2>2 DEF Place, PagesOf
  <1>00. prot' = [prot EXCEPT ![i] = TRUE]
    <2>1. prot \in [Pages -> BOOLEAN]
      BY DEF Clean, Protection
    <2> QED
      BY <1>0, <2>1 DEF ClaimPage
  <1>1. /\ pc = "tags" /\ want = <<>> /\ i <= last
        /\ Claimable \/ ~HasTable(j)
        /\ Taken(i)
        /\ store' = [store EXCEPT ![i] = <<current, i>>]
        /\ written' = [written EXCEPT ![current] = @ \union {i}]
        /\ i' = i + 1 /\ j' = 0 /\ SchedKept
        /\ UNCHANGED <<pc, temp, want, last>>
    BY <1>00 DEF ClaimPage, InLoop, TakeFrame, Taken, SchedKept, sched, NextPage
  <1>2. Shape /\ Apart /\ Foreign /\ Marked /\ Data /\ Protection /\ Place /\ Allocating
    BY DEF Clean
  <1>3. /\ current \in Threads /\ current \in Born /\ current \in Live /\ current # NULL
        /\ state[current] = "ACTIVE"
    BY <1>1, LiveOrFreed, CurrentIsBorn DEF LoopInv, SchedInv
  <1>4. /\ i \in 0..HalfOfPages /\ last \in {0, HalfOfPages} /\ j \in Nat
        /\ last = 0 => i = 0
    BY <1>1, <1>2 DEF LoopInv, Allocating
  <1>5. \A k \in PagesOf(current) : pageTables[current][k] = k /\ prot[k]
    BY <1>1, <1>2, <1>3 DEF Place
  <1>6. \A t \in Live \ {current} : \A k \in PagesOf(t) : pageTables[t][k] # i
    <2>1. CASE masterTable[i] = 0
      BY <1>2, <2>1 DEF Marked
    <2>2. CASE pageTables[current][i] = i
      <3>1. i \in PagesOf(current)
        BY <1>4, <2>2 DEF PagesOf, Pages, Last
      <3> QED
        BY <1>2, <1>3, <2>2, <3>1 DEF Apart
    <2>3. CASE ~HasTable(j)
      <3>1. \A t \in Born : t < j
        BY <1>4, <2>3 DEF HasTable, Born, SchedInv, Threads
      <3> QED
        BY <1>1, <1>2, <3>1, LiveOrFreed DEF Allocating
    <2> QED
      BY <1>1, <2>1, <2>2, <2>3 DEF Claimable
  <1>7. /\ pageTables' \in [Threads -> [Pages -> Locations \union {NONE}]]
        /\ \A u \in Threads \ {current} : \A k \in Pages :
              pageTables'[u][k] = pageTables[u][k]
        /\ \A u \in Threads \ {current} :
              {k \in Pages : pageTables'[u][k] # NONE} = PagesOf(u)
        /\ {k \in Pages : pageTables'[current][k] # NONE} = PagesOf(current) \union {i}
        /\ \A k \in PagesOf(current) \union {i} : pageTables'[current][k] = k
        /\ masterTable' \in [Locations -> {0, 1}] /\ masterTable'[i] = 1
        /\ \A l \in Locations : l # i => masterTable'[l] = masterTable[l]
        /\ prot' \in [Pages -> BOOLEAN] /\ prot'[i]
        /\ \A k \in Pages : k # i => prot'[k] = prot[k]
        /\ i \in BlockPages /\ i \in Pages /\ i # NONE /\ i \in Locations
        /\ Apart' /\ Foreign'
    BY <1>1, <1>3, <1>4, <1>5, <1>6, TakenFacts
  <1>8. /\ written' \in [Threads -> SUBSET Pages]
        /\ written'[current] = written[current] \union {i}
        /\ \A t \in Threads \ {current} : written'[t] = written[t]
    BY <1>1, <1>3, <1>7 DEF LoopInv
  <1>9. Live' = Live /\ Born' = Born /\ ~Vacating' /\ ~Vacating
        /\ NoneFreed' = NoneFreed /\ current' = current /\ state' = state
    BY <1>1 DEF Live, Born, SchedKept, Vacating, NoneFreed
  <1>10. Kept' = Kept
    <2>1. \A t \in Threads : state'[t] = "ACTIVE" \/ written'[t] = EndPages <=>
                             state[t] = "ACTIVE" \/ written[t] = EndPages
      BY <1>3, <1>8, <1>9
    <2> QED
      BY <1>9, <2>1 DEF Kept
  <1>11. Shape'
    <2> SUFFICES ASSUME NEW t \in Born
                 PROVE  LET pages == {k \in Pages : pageTables'[t][k] # NONE} IN
                        /\ EndPages \subseteq pages /\ pages \subseteq BlockPages
                        /\ written'[t] \subseteq BlockPages
                        /\ ~(t = current /\ last # 0) =>
                             written'[t] = pages /\ pages \in {EndPages, BlockPages}
      BY <1>1, <1>7, <1>9 DEF Shape, PagesOf
    <2>1. CASE t = current
      <3>1. /\ EndPages \subseteq PagesOf(t) /\ PagesOf(t) \subseteq BlockPages
            /\ written[t] \subseteq BlockPages
            /\ last = 0 => written[t] = PagesOf(t) /\ PagesOf(t) \in {EndPages, BlockPages}
        BY <1>2 DEF Shape
      <3>2. last = 0 => i \in PagesOf(t)
        BY <1>4, <3>1 DEF EndPages
      <3>3. last = 0 => PagesOf(t) \union {i} = PagesOf(t)
        BY <3>2
      <3> QED
        BY <1>7, <1>8, <2>1, <3>1, <3>3
    <2>2. CASE t # current
      BY <1>2, <1>7, <1>8, <2>2 DEF Shape
    <2> QED
      BY <2>1, <2>2
  <1>12. Marked'
    <2>1. ASSUME NEW t \in Live, NEW k \in Pages, pageTables'[t][k] # NONE
          PROVE  masterTable'[pageTables'[t][k]] = 1
      <3>1. CASE t = current
        <4>1. k \in PagesOf(current) \union {i} /\ pageTables'[t][k] = k
          BY <1>7, <2>1, <3>1
        <4>2. k # i => masterTable[k] = 1 /\ k \in Locations
          <5> SUFFICES ASSUME k # i PROVE masterTable[k] = 1 /\ k \in Locations
            OBVIOUS
          <5>1. k \in PagesOf(current) /\ pageTables[current][k] = k
            BY <1>5, <4>1
          <5>2. pageTables[current][k] \in Locations
            BY <1>2, <1>3, <5>1, EntryFacts
          <5> QED
            BY <1>2, <1>3, <5>1, <5>2 DEF Marked
        <4> QED
          BY <1>7, <4>1, <4>2
      <3>2. CASE t # current
        <4>1. k \in PagesOf(t) /\ pageTables'[t][k] = pageTables[t][k]
          BY <1>7, <2>1, <3>2
        <4>2. pageTables[t][k] \in Locations /\ masterTable[pageTables[t][k]] = 1
          BY <1>2, <4>1, EntryFacts DEF Marked
        <4>3. pageTables[t][k] # i
          BY <1>6, <3>2, <4>1
        <4>4. masterTable'[pageTables[t][k]] = masterTable[pageTables[t][k]]
          BY <1>7, <4>2, <4>3
        <4> QED
          BY <4>1, <4>2, <4>4
      <3> QED
        BY <3>1, <3>2
    <2>2. ASSUME NEW l \in Locations, masterTable'[l] = 1
          PROVE  \E t \in Live : \E k \in Pages :
                    pageTables'[t][k] # NONE /\ pageTables'[t][k] = l
      <3>1. CASE l = i
        BY <1>3, <1>7, <3>1
      <3>2. CASE l # i
        <4>1. PICK t \in Live : \E k \in PagesOf(t) : pageTables[t][k] = l
          BY <1>1, <1>2, <1>7, <1>9, <2>2, <3>2 DEF Marked
        <4>2. PICK k \in PagesOf(t) : pageTables[t][k] = l
          BY <4>1
        <4>3. k \in Pages /\ pageTables'[t][k] = l /\ l # NONE
          BY <1>5, <1>7, <4>2 DEF PagesOf
        <4> QED
          BY <4>3
      <3> QED
        BY <3>1, <3>2
    <2> QED
      BY <1>7, <1>9, <2>1, <2>2 DEF Marked, PagesOf
  <1>13. Data'
    <2>1. /\ DOMAIN store' = Locations /\ store'[i] = <<current, i>>
          /\ \A l \in Locations : l # i => store'[l] = store[l]
      BY <1>1, <1>2, <1>7 DEF Data
    <2> SUFFICES ASSUME NEW t \in Kept, NEW k \in Pages, pageTables'[t][k] # NONE,
                        k \in written'[t]
                 PROVE  store'[pageTables'[t][k]] = <<t, k>>
      BY <1>10, <2>1 DEF Data, PagesOf
    <2>2. CASE t = current
      <3>1. k \in PagesOf(current) \union {i} /\ pageTables'[t][k] = k
        BY <1>7, <2>2
      <3>2. k # i => store[k] = <<t, k>> /\ k \in Locations
        <4> SUFFICES ASSUME k # i PROVE store[k] = <<t, k>> /\ k \in Locations
          OBVIOUS
        <4>1. k \in PagesOf(current) /\ pageTables[current][k] = k
          BY <1>5, <3>1
        <4>2. pageTables[current][k] \in Locations
          BY <1>2, <1>3, <4>1, EntryFacts
        <4>3. k \in written[current]
          BY <1>8, <2>2
        <4> QED
          BY <1>2, <2>2, <4>1, <4>2, <4>3 DEF Data
      <3> QED
        BY <2>1, <2>2, <3>1, <3>2
    <2>3. CASE t # current
      <3>1. t \in Live /\ k \in PagesOf(t) \intersect written[t]
            /\ pageTables'[t][k] = pageTables[t][k]
        BY <1>7, <1>8, <2>3 DEF Kept
      <3>2. pageTables[t][k] \in Locations
        BY <1>2, <3>1, EntryFacts
      <3>3. pageTables[t][k] # i
        BY <1>6, <2>3, <3>1
      <3>4. store[pageTables[t][k]] = <<t, k>>
        BY <1>2, <3>1 DEF Data
      <3> QED
        BY <2>1, <3>1, <3>2, <3>3, <3>4
    <2> QED
      BY <2>2, <2>3
  <1>14. Protection'
    <2>1. prot'[0] /\ prot'[Last]
      BY <1>2, <1>7 DEF Protection
    <2> SUFFICES ASSUME NEW t \in Kept, NEW k \in EndPages,
                        pageTables'[t][k] \in Pages \ EndPages
                 PROVE  ~prot'[pageTables'[t][k]]
      BY <1>7, <1>10, <2>1 DEF Protection
    <2>2. t # current
      <3>1. EndPages \subseteq PagesOf(current)
        BY <1>2, <1>3 DEF Shape
      <3> QED
        BY <1>7, <3>1
    <2>3. t \in Live /\ k \in PagesOf(t) /\ pageTables'[t][k] = pageTables[t][k]
      BY <1>2, <1>7, <2>2, LiveOrFreed DEF Kept, Shape
    <2>4. pageTables[t][k] # i
      BY <1>6, <2>2, <2>3
    <2>5. prot'[pageTables[t][k]] = prot[pageTables[t][k]]
      BY <1>7, <2>3, <2>4
    <2> QED
      BY <1>2, <2>3, <2>5 DEF Protection
  <1>15. Place'
    <2>1. \A k \in {m \in Pages : pageTables'[current][m] # NONE} :
             pageTables'[current][k] = k /\ prot'[k]
      BY <1>5, <1>7
    <2> QED
      BY <1>1, <1>9, <2>1 DEF Place, PagesOf
  <1>16. Allocating'
    <2>1. \A t \in Born : ~(t < 0)
      BY DEF Born, Threads
    <2>2. /\ last # 0 => NoneFreed
          /\ 0..(i - 1) \subseteq PagesOf(current) \intersect written[current]
          /\ last \in written[current]
      BY <1>1, <1>2 DEF Allocating
    <2>3. 0..i = 0..(i - 1) \union {i} /\ i' - 1 = i
      BY <1>1, <1>4
    <2>4. 0..i \subseteq
               {k \in Pages : pageTables'[current][k] # NONE} \intersect written'[current]
      BY <1>7, <1>8, <2>2, <2>3
    <2>5. last \in written'[current]
      BY <1>8, <2>2
    <2> QED
      BY <1>1, <1>4, <1>9, <2>1, <2>2, <2>3, <2>4, <2>5 DEF Allocating, PagesOf
  <1> QED
    BY <1>7, <1>11, <1>12, <1>13, <1>14, <1>15, <1>16 DEF Clean

\* Claiming a block's page: the frame is in use, and table j gives it up.
LEMMA ClaimEvictsPage ==
  ASSUME SchedInv, LoopInv, Clean, ClaimEvicts
  PROVE  /\ pc = "tags" /\ want = <<>> /\ i <= last /\ last = HalfOfPages
         /\ i \in BlockPages /\ i \in Pages /\ i \notin PagesOf(current)
         /\ current \in Threads /\ current \in Live /\ current \in Born
         /\ NoneFreed /\ j \in Nat /\ j \in Live /\ j \in Threads
         /\ \A k \in PagesOf(current) : pageTables[current][k] = k /\ prot[k]
         /\ MoveFrom(i) /\ j' = j + 1 /\ SchedKept
         /\ UNCHANGED <<written, pc, i, temp, want, last>>
  <1> USE ThreadFacts, PageFacts
  <1>1. /\ pc = "tags" /\ want = <<>> /\ i <= last /\ ~Claimable /\ HasTable(j)
        /\ MoveFrom(i) /\ j' = j + 1 /\ SchedKept
        /\ UNCHANGED <<written, pc, i, temp, want, last>>
    BY DEF ClaimEvicts, InLoop, SchedKept, sched
  <1>2. Shape /\ Marked /\ Place /\ Allocating
    BY DEF Clean
  <1>3. current \in Threads /\ current \in Born /\ current \in Live /\ current # NULL
    BY <1>1, LiveOrFreed, CurrentIsBorn DEF LoopInv, SchedInv
  <1>4. \A k \in PagesOf(current) : pageTables[current][k] = k /\ prot[k]
    BY <1>1, <1>2, <1>3 DEF Place
  <1>5. i \notin PagesOf(current)
    BY <1>1, <1>4 DEF Claimable
  <1>6. i \in Nat /\ last \in {0, HalfOfPages} /\ i # 0
    BY <1>1, <1>2, <1>3, <1>5 DEF LoopInv, Allocating, Shape, EndPages
  <1>7. last = HalfOfPages /\ i \in 0..HalfOfPages
    BY <1>1, <1>6
  <1>8. NoneFreed /\ last # 0
    BY <1>1, <1>2, <1>7 DEF Allocating
  <1>9. j \in Threads /\ j \in Born /\ j \in Nat /\ j \in Live
    BY <1>1, <1>8, LiveOrFreed DEF HasTable, Born, NoneFreed
  <1> QED
    BY <1>1, <1>3, <1>4, <1>5, <1>7, <1>8, <1>9 DEF BlockPages

LEMMA ClaimEvictsClean ==
  ASSUME SchedInv, LoopInv, Clean, Room, InReach, ClaimEvicts
  PROVE  Clean'
  <1> USE ThreadFacts, PageFacts
  <1> DEFINE l  == nextFreePage(masterTable)
             ks == {k \in Pages : pageTables[j][k] = i}
  <1>1. /\ pc = "tags" /\ want = <<>> /\ i <= last /\ last = HalfOfPages
        /\ i \in BlockPages /\ i \in Pages /\ i \notin PagesOf(current)
        /\ current \in Threads /\ current \in Live /\ current \in Born
        /\ NoneFreed /\ j \in Nat /\ j \in Live /\ j \in Threads
        /\ \A k \in PagesOf(current) : pageTables[current][k] = k /\ prot[k]
        /\ MoveFrom(i) /\ j' = j + 1 /\ SchedKept
        /\ UNCHANGED <<written, pc, i, temp, want, last>>
    BY ClaimEvictsPage
  <1>2. Shape /\ Apart /\ Foreign /\ Marked /\ Data /\ Protection /\ Place /\ Allocating
    BY DEF Clean
  <1>3. Live' = Live /\ Born' = Born /\ Kept' = Kept /\ ~Vacating' /\ ~Vacating
        /\ NoneFreed' = NoneFreed /\ current' = current
    BY <1>1 DEF Live, Born, Kept, SchedKept, Vacating, NoneFreed
  <1>4. /\ 0..(i - 1) \subseteq PagesOf(current) \intersect written[current]
        /\ last \in written[current]
        /\ \A t \in Born \ {current} : t < j =>
              \A k \in PagesOf(t) : pageTables[t][k] # i
    BY <1>1, <1>2 DEF Allocating
  <1>5. CASE ks = {}
    <2>1. UNCHANGED <<pageTables, masterTable, prot, store>>
      BY <1>1, <1>5 DEF MoveFrom
    <2>2. Shape'
      BY <1>1, <1>2, <1>3, <2>1 DEF Shape, PagesOf
    <2>3. Apart' /\ Foreign'
      BY <1>1, <1>2, <1>3, <2>1 DEF Apart, Foreign, PagesOf, SchedKept
    <2>4. Marked'
      <3>1. j' > 0 /\ ~Vacating
        BY <1>1, <1>3
      <3> QED
        BY <1>1, <1>2, <1>3, <2>1, <3>1 DEF Marked, PagesOf
    <2>5. Data' /\ Protection'
      BY <1>1, <1>2, <1>3, <2>1 DEF Data, Protection, PagesOf
    <2>6. Place'
      BY <1>1, <1>2, <1>3, <2>1 DEF Place, PagesOf
    <2>7. \A t \in Born \ {current} : t < j + 1 =>
              \A k \in PagesOf(t) : pageTables[t][k] # i
      <3> SUFFICES ASSUME NEW t \in Born \ {current}, t < j + 1, NEW k \in PagesOf(t)
                   PROVE  pageTables[t][k] # i
        OBVIOUS
      <3>1. t < j \/ t = j
        BY <1>1
      <3> QED
        BY <1>4, <1>5, <3>1 DEF PagesOf
    <2>8. /\ last # 0 /\ ~(i > last) /\ j + 1 \in Nat
          /\ \A k \in DOMAIN want : want[k] = last
      BY <1>1, <1>2 DEF LoopInv, Allocating
    <2>9. Allocating'
      <3>1. UNCHANGED <<current, pageTables, written, prot, i, last, want, pc>>
            /\ j' = j + 1
        BY <1>1, <2>1 DEF SchedKept
      <3> QED
        BY <1>1, <1>3, <1>4, <2>7, <2>8, <3>1 DEF Allocating, PagesOf
    <2> QED
      BY <2>2, <2>3, <2>4, <2>5, <2>6, <2>9 DEF Clean
  <1>6. CASE ks # {}
    <2> DEFINE k == Min(ks)
    <2>2. k \in ks
      BY <1>6, LeastExists DEF Pages
    <2>3. k \in Pages /\ k \in PagesOf(j) /\ pageTables[j][k] = i
      BY <1>1, <2>2 DEF PagesOf
    <2> HIDE DEF k, ks
    <2>4. j # current
      BY <1>1, <2>3
    <2>5. 0 \in PagesOf(current) /\ Last \in PagesOf(current)
      BY <1>1, <1>2 DEF Shape, EndPages
    <2>6. masterTable[0] = 1 /\ masterTable[Last] = 1
      BY <1>1, <1>2, <2>5 DEF Marked
    <2>7. l \in Locations /\ masterTable[l] = 0
      BY FreePlace DEF Room
    <2>1. swap_out(i, l) /\ MarkedToo(l) /\ Moved(j, k, l)
      <3>1. l # i
        BY <1>1, <1>2, <2>3, <2>7 DEF Marked
      <3> QED
        BY <1>1, <1>6, <3>1 DEF MoveFrom, Moved, MarkedToo, k, ks
    <2>0. Reachable(l)
      BY DEF InReach
    <2> HIDE DEF l
    <2>8. l \notin EndPages
      BY <2>6, <2>7 DEF EndPages
    <2>9. Shape' /\ Apart' /\ Foreign' /\ Data' /\ Protection'
      BY <1>1, <2>0, <2>1, <2>3, <2>7, <2>8, MoveOut
    <2>10. /\ pageTables'[j][k] = l
           /\ \A u \in Threads : \A m \in Pages :
                 u # j \/ m # k => pageTables'[u][m] = pageTables[u][m]
           /\ \A u \in Threads : {m \in Pages : pageTables'[u][m] # NONE} = PagesOf(u)
      BY <1>1, <1>2, <2>1, <2>3, <2>7, MoveFacts
    <2>11. /\ masterTable' \in [Locations -> {0, 1}]
           /\ \A u \in Live : \A m \in PagesOf(u) :
                 masterTable'[pageTables'[u][m]] = 1
           /\ \A m \in Locations : masterTable'[m] = 1 =>
                \/ \E u \in Live : \E n \in PagesOf(u) : pageTables'[u][n] = m
                \/ m = pageTables[j][k]
                \/ m \in EndPages /\ Vacating
                \/ pc = "tags" /\ want = <<>> /\ j > 0 /\ m = i
      BY <1>1, <2>1, <2>3, <2>7, MoveOutMarks
    <2>12. Marked'
      <3>1. j' > 0 /\ pc' = "tags" /\ want' = <<>> /\ i' = i
        BY <1>1
      <3>2. \A m \in Locations : masterTable'[m] = 1 =>
                \/ \E u \in Live : \E n \in PagesOf(u) : pageTables'[u][n] = m
                \/ m = i
        BY <1>3, <2>3, <2>11
      <3>3. \A u \in Live : {m \in Pages : pageTables'[u][m] # NONE} = PagesOf(u)
        BY <2>10
      <3>4. \A u \in Live : \A m \in {n \in Pages : pageTables'[u][n] # NONE} :
                masterTable'[pageTables'[u][m]] = 1
        BY <2>11, <3>3
      <3>5. \A m \in Locations : masterTable'[m] = 1 =>
                \/ \E u \in Live : \E n \in {n \in Pages : pageTables'[u][n] # NONE} :
                      pageTables'[u][n] = m
                \/ m = i
        BY <3>2, <3>3
      <3> QED
        BY <1>3, <2>11, <3>1, <3>4, <3>5 DEF Marked, PagesOf
    <2>13. \A m \in PagesOf(current) : pageTables'[current][m] = m /\ prot'[m]
      <3> SUFFICES ASSUME NEW m \in PagesOf(current)
                   PROVE  pageTables'[current][m] = m /\ prot'[m]
        OBVIOUS
      <3>1. m \in Pages /\ pageTables[current][m] = m /\ prot[m] /\ masterTable[m] = 1
        BY <1>1, <1>2 DEF Marked, PagesOf
      <3>2. m # l
        BY <2>7, <3>1
      <3>3. prot'[m]
        BY <1>2, <2>1, <3>1, <3>2 DEF swap_out, Protection
      <3> QED
        BY <1>1, <2>4, <2>10, <3>1, <3>3
    <2>14. Place'
      BY <1>1, <1>2, <1>3, <2>10, <2>13 DEF Place, PagesOf
    <2>15. ASSUME NEW t \in Born \ {current}, t < j + 1, NEW m \in Pages,
                  pageTables'[t][m] # NONE
           PROVE  pageTables'[t][m] # i
      <3>1. m \in PagesOf(t) /\ t \in Live
        BY <1>1, <2>10, <2>15, LiveOrFreed DEF NoneFreed
      <3>2. CASE t = j /\ m = k
        BY <1>1, <1>2, <2>3, <2>7, <2>10, <3>2 DEF Marked
      <3>3. CASE t = j /\ m # k
        BY <1>1, <1>2, <2>3, <2>10, <3>1, <3>3 DEF Apart
      <3>4. CASE t # j
        <4>0. t \in Nat
          BY DEF Born, Threads
        <4>1. t < j
          BY <1>1, <2>15, <3>4, <4>0
        <4> QED
          BY <1>4, <2>10, <3>1, <3>4, <4>1
      <3> QED
        BY <3>2, <3>3, <3>4
    <2>16. \A m \in Pages : pageTables'[current][m] = pageTables[current][m]
      BY <1>1, <2>4, <2>10
    <2>17. /\ last # 0 /\ ~(i > last) /\ j + 1 \in Nat
           /\ \A n \in DOMAIN want : want[n] = last
      BY <1>1, <1>2 DEF LoopInv, Allocating
    <2>18. Allocating'
      BY <1>1, <1>2, <1>3, <1>4, <2>15, <2>16, <2>17 DEF Allocating, PagesOf
    <2> QED
      BY <2>9, <2>12, <2>14, <2>18 DEF Clean
  <1> QED
    BY <1>5, <1>6

LEMMA myallocateReturnsClean ==
  ASSUME SchedInv, LoopInv, Clean, myallocateReturns
  PROVE  Clean'
  <1> USE ThreadFacts, PageFacts
  <1>1. /\ pc = "tags" /\ want = <<>> /\ i > last /\ pc' = "run" /\ last' = 0
        /\ UNCHANGED <<current, threadIDS, state, pageTables, masterTable, prot,
                       store, written, j, temp, want>>
    BY DEF myallocateReturns, InLoop, sched, paging
  <1>2. Shape /\ Apart /\ Foreign /\ Marked /\ Data /\ Protection /\ Place /\ Allocating
    BY DEF Clean
  <1>3. /\ current \in Threads /\ current \in Born /\ current # NULL
        /\ EndPages \subseteq written[current]
    BY <1>1, CurrentIsBorn DEF LoopInv, SchedInv
  <1>4. /\ last \in {0, HalfOfPages} /\ i = last + 1 /\ j = 0
        /\ 0..(i - 1) \subseteq PagesOf(current) \intersect written[current]
    BY <1>1, <1>2 DEF LoopInv, Allocating
  <1>5. Live' = Live /\ Born' = Born /\ Kept' = Kept /\ ~Vacating /\ ~Vacating'
    BY <1>1 DEF Live, Born, Kept, Vacating
  <1>6. last # 0 => written[current] = BlockPages /\ PagesOf(current) = BlockPages
    <2> SUFFICES ASSUME last # 0
                 PROVE  written[current] = BlockPages /\ PagesOf(current) = BlockPages
      OBVIOUS
    <2>1. 0..HalfOfPages \subseteq PagesOf(current) \intersect written[current]
      BY <1>4
    <2>2. EndPages \subseteq PagesOf(current) /\ PagesOf(current) \subseteq BlockPages
          /\ written[current] \subseteq BlockPages
      BY <1>2, <1>3 DEF Shape
    <2> QED
      BY <1>3, <2>1, <2>2 DEF EndPages, BlockPages
  <1>7. Shape'
    <2>1. \A t \in Born : written[t] = PagesOf(t) /\ PagesOf(t) \in {EndPages, BlockPages}
      BY <1>2, <1>6 DEF Shape
    <2> QED
      BY <1>1, <1>2, <1>5, <2>1 DEF Shape, PagesOf
  <1>8. Apart' /\ Foreign'
    BY <1>1, <1>2, <1>5 DEF Apart, Foreign, PagesOf
  <1>9. Marked'
    <2>1. \A l \in Locations : masterTable[l] = 1 =>
             \E t \in Live : \E k \in PagesOf(t) : pageTables[t][k] = l
      BY <1>2, <1>4, <1>5 DEF Marked
    <2> QED
      BY <1>1, <1>2, <1>5, <2>1 DEF Marked, PagesOf
  <1>10. Data' /\ Protection'
    BY <1>1, <1>2, <1>5 DEF Data, Protection, PagesOf
  <1>11. Place'
    BY <1>1, <1>2, <1>3 DEF Place, PagesOf
  <1>12. Allocating'
    BY <1>1, <1>4 DEF Allocating
  <1> QED
    BY <1>7, <1>8, <1>9, <1>10, <1>11, <1>12 DEF Clean

\* A step, other than the call of myallocate, keeps the paging clean if it finds
\* room and faults on free frames only.
LEMMA CleanStep ==
  ASSUME SchedInv, LoopInv, Clean, Alone,
         Calls \/ Switch \/ Allocation \/ ProcessEnds,
         pc \in {"out", "in"} \/ ClaimEvicts => Room /\ InReach,
         my_pthread_create => FramesFree,
         pc = "fault" => masterTable[HalfOfPages] = 0
  PROVE  Clean'
  <1>1. CASE Switch
    <2>1. pc \in {"out", "in"}
      BY <1>1 DEF Switch, SwapOutPage, SwapOutLast, Evict, SwapInPage, EvictLast,
                  SwapInLast, InLoop
    <2> QED
      BY <1>1, <2>1, SwapOutPageClean, SwapOutLastClean, EvictClean, EvictLastClean,
         SwapInPageClean, SwapInLastClean DEF Switch
  <1>2. CASE Calls
    <2>1. CASE my_pthread_create
      BY <2>1, CreateClean
    <2>2. CASE VoluntaryYield \/ JoinSpin
      BY <2>2, YieldClean DEF VoluntaryYield, JoinSpin, Running
    <2>3. CASE my_pthread_exit
      BY <2>3, ExitClean
    <2>4. CASE \E u \in Threads : JoinCall(u)
      BY <2>4, QuietClean
    <2>5. CASE JoinReturn
      BY <2>5, JoinReturnClean
    <2> QED
      BY <1>2, <2>1, <2>2, <2>3, <2>4, <2>5 DEF Calls
  <1>3. CASE Allocation
    <2>1. CASE WriteTag \/ Fault \/ FaultOnFreeFrame
      BY <2>1, WriteTagClean, FaultClean, FaultOnFreeFrameClean
    <2>2. CASE FaultScan
      <3>1. pc = "fault" /\ (j > 0 \/ masterTable[Head(want)] = 1)
        BY <2>2 DEF FaultScan, InLoop
      <3>2. Head(want) = HalfOfPages /\ j = 0
        BY <3>1, FaultPage
      <3> QED
        BY <3>1, <3>2
    <2>3. CASE FaultGivesUp
      <3>1. ProcessEnds
        BY <2>3 DEF FaultGivesUp, InLoop, ProcessEnds
      <3> QED
        BY <3>1, QuietClean
    <2>4. CASE ClaimEvicts \/ ClaimPage \/ myallocateReturns
      BY <2>4, ClaimEvictsClean, ClaimPageClean, myallocateReturnsClean
    <2> QED
      BY <1>3, <2>1, <2>2, <2>3, <2>4 DEF Allocation
  <1>4. CASE ProcessEnds
    BY <1>4, QuietClean
  <1> QED
    BY <1>1, <1>2, <1>3, <1>4

-----------------------------------------------------------------------------
(* There is room: the pages that threads have are fewer than the locations. *)

\* The locations that pages P of threads N have.
At(N, P) == {pageTables[x[1]][x[2]] : x \in N \X P}

LEMMA AtBound ==
  ASSUME NEW N, NEW P, IsFiniteSet(N), IsFiniteSet(P)
  PROVE  /\ IsFiniteSet(At(N, P))
         /\ Cardinality(At(N, P)) <= Cardinality(N) * Cardinality(P)
         /\ \A t \in N : \A k \in P : pageTables[t][k] \in At(N, P)
  <1> DEFINE f == [x \in N \X P |-> pageTables[x[1]][x[2]]]
  <1>1. f \in Surjection(N \X P, At(N, P))
    <2>1. f \in [N \X P -> At(N, P)]
      BY DEF At
    <2>2. \A l \in At(N, P) : \E x \in N \X P : f[x] = l
      BY DEF At
    <2> QED
      BY <2>1, <2>2 DEF Surjection
  <1>2. IsFiniteSet(N \X P) /\ Cardinality(N \X P) = Cardinality(N) * Cardinality(P)
    BY FS_Product
  <1>3. IsFiniteSet(At(N, P)) /\ Cardinality(At(N, P)) <= Cardinality(N \X P)
    BY <1>1, <1>2, FS_Surjection
  <1>4. ASSUME NEW t \in N, NEW k \in P
        PROVE  pageTables[t][k] \in At(N, P)
    <2>1. <<t, k>> \in N \X P /\ pageTables[<<t, k>>[1]][<<t, k>>[2]] = pageTables[t][k]
      OBVIOUS
    <2> QED
      BY <2>1 DEF At
  <1> QED
    BY <1>2, <1>3, <1>4

LEMMA IntervalCount ==
  ASSUME NEW n \in Nat
  PROVE  IsFiniteSet(0..n) /\ Cardinality(0..n) = n + 1
  <1>1. 0 \in Int /\ n \in Int /\ ~(0 > n) /\ n - 0 + 1 = n + 1
    OBVIOUS
  <1>2. IsFiniteSet(0..n) /\ Cardinality(0..n) = IF 0 > n THEN 0 ELSE n - 0 + 1
    BY <1>1, FS_Interval
  <1> QED
    BY <1>1, <1>2

LEMMA PageCounts ==
  /\ IsFiniteSet(EndPages) /\ Cardinality(EndPages) = 2
  /\ IsFiniteSet(BlockPages) /\ Cardinality(BlockPages) = HalfOfPages + 2
  /\ IsFiniteSet(Threads) /\ Cardinality(Threads) = MaxThreads
  /\ IsFiniteSet(Locations) /\ Cardinality(Locations) = TOTALPAGES
  /\ IsFiniteSet(Pages) /\ Cardinality(Pages) = MEMORYPAGES
  <1> USE ThreadFacts, PageFacts
  <1>1. IsFiniteSet({0}) /\ Cardinality({0}) = 1 /\ EndPages = {0} \cup {Last}
        /\ Last \notin {0}
    BY FS_Singleton DEF EndPages
  <1>2. IsFiniteSet(EndPages) /\ Cardinality(EndPages) = 2
    <2>1. IsFiniteSet({0} \cup {Last}) /\ Cardinality({0} \cup {Last}) = Cardinality({0}) + 1
      BY <1>1, FS_AddElement, Zenon
    <2> QED
      BY <1>1, <2>1
  <1>3. IsFiniteSet(0..HalfOfPages) /\ Cardinality(0..HalfOfPages) = HalfOfPages + 1
    BY FS_Interval
  <1>4. BlockPages = (0..HalfOfPages) \cup {Last} /\ Last \notin 0..HalfOfPages
    BY DEF BlockPages
  <1>5. IsFiniteSet(BlockPages) /\ Cardinality(BlockPages) = HalfOfPages + 2
    <2> DEFINE H == 0..HalfOfPages
    <2>1. IsFiniteSet(H) /\ Last \notin H /\ Cardinality(H) = HalfOfPages + 1
          /\ BlockPages = H \cup {Last}
      BY <1>3, <1>4
    <2> HIDE DEF H
    <2>2. IsFiniteSet(H \cup {Last}) /\ Cardinality(H \cup {Last}) = Cardinality(H) + 1
      BY <2>1, FS_AddElement, Zenon
    <2> QED
      BY <2>1, <2>2
  <1>6. IsFiniteSet(Threads) /\ Cardinality(Threads) = MaxThreads
    <2>1. MaxThreads - 1 \in Int /\ ~(0 > MaxThreads - 1)
      OBVIOUS
    <2> DEFINE n == MaxThreads - 1
    <2>2. n \in Nat
      BY <2>1
    <2> HIDE DEF n
    <2>3. IsFiniteSet(0..n) /\ Cardinality(0..n) = n + 1
      BY <2>2, IntervalCount
    <2> QED
      BY <2>3 DEF Threads, n
  <1>7. IsFiniteSet(Locations) /\ Cardinality(Locations) = TOTALPAGES
    <2>1. TOTALPAGES - 1 \in Int /\ ~(0 > TOTALPAGES - 1)
      BY SizeAssumption, RoomAssumption
    <2> DEFINE n == TOTALPAGES - 1
    <2>2. n \in Nat
      BY <2>1
    <2> HIDE DEF n
    <2>3. IsFiniteSet(0..n) /\ Cardinality(0..n) = n + 1
      BY <2>2, IntervalCount
    <2> QED
      BY <2>3 DEF Locations, n
  <1>8. IsFiniteSet(Pages) /\ Cardinality(Pages) = MEMORYPAGES
    BY SizeAssumption, FS_Interval DEF Pages
  <1> QED
    BY <1>2, <1>5, <1>6, <1>7, <1>8

\* What is marked as used: pages P of threads N, the first and last page of
\* threads M, and locations X.
LEMMA CountedOn ==
  ASSUME NEW S, NEW X, IsFiniteSet(X), NEW P, IsFiniteSet(P),
         NEW N \in SUBSET Threads, NEW M \in SUBSET Threads,
         \A l \in S : \/ l \in X
                      \/ \E t \in N : \E k \in P : pageTables[t][k] = l
                      \/ \E t \in M : \E k \in EndPages : pageTables[t][k] = l
  PROVE  /\ IsFiniteSet(S) /\ Cardinality(S) \in Nat
         /\ Cardinality(S) <= Cardinality(X) + Cardinality(N) * Cardinality(P)
                                + 2 * Cardinality(M)
  <1> DEFINE B == At(N, P)
             E == At(M, EndPages)
  <1>1. IsFiniteSet(N) /\ IsFiniteSet(M)
    BY PageCounts, FS_Subset
  <1>2. /\ IsFiniteSet(B) /\ Cardinality(B) <= Cardinality(N) * Cardinality(P)
        /\ \A t \in N : \A k \in P : pageTables[t][k] \in B
    BY <1>1, AtBound
  <1>3. /\ IsFiniteSet(E) /\ Cardinality(E) <= Cardinality(M) * 2
        /\ \A t \in M : \A k \in EndPages : pageTables[t][k] \in E
    BY <1>1, PageCounts, AtBound
  <1> HIDE DEF B, E
  <1>4. S \in SUBSET ((X \cup B) \cup E)
    BY <1>2, <1>3
  <1>5. IsFiniteSet(X \cup B)
        /\ Cardinality(X \cup B) = Cardinality(X) + Cardinality(B) - Cardinality(X \cap B)
    BY <1>2, FS_Union
  <1>6. IsFiniteSet((X \cup B) \cup E)
        /\ Cardinality((X \cup B) \cup E)
             = Cardinality(X \cup B) + Cardinality(E) - Cardinality((X \cup B) \cap E)
    BY <1>3, <1>5, FS_Union
  <1>7. /\ Cardinality(X \cap B) \in Nat /\ Cardinality((X \cup B) \cap E) \in Nat
        /\ Cardinality(X) \in Nat /\ Cardinality(B) \in Nat /\ Cardinality(E) \in Nat
        /\ Cardinality(N) \in Nat /\ Cardinality(M) \in Nat /\ Cardinality(P) \in Nat
        /\ Cardinality(X \cup B) \in Nat
    BY <1>1, <1>2, <1>3, <1>5, FS_Intersection, FS_CardinalityType
  <1>8. /\ IsFiniteSet(S) /\ Cardinality(S) \in Nat
        /\ Cardinality(S) <= Cardinality((X \cup B) \cup E)
    BY <1>4, <1>6, FS_Subset, FS_CardinalityType
  <1>9. Cardinality((X \cup B) \cup E) <= Cardinality(X) + Cardinality(B) + Cardinality(E)
    BY <1>5, <1>6, <1>7
  <1> DEFINE nb == Cardinality(N) * Cardinality(P)
  <1>10. nb \in Nat
    BY <1>7
  <1>11. Cardinality(B) <= nb /\ Cardinality(E) <= 2 * Cardinality(M)
    BY <1>2, <1>3, <1>7
  <1> HIDE DEF nb
  <1>12. Cardinality(S) <= Cardinality(X) + nb + 2 * Cardinality(M)
    <2>1. Cardinality((X \cup B) \cup E) \in Nat
      BY <1>6, FS_CardinalityType
    <2> QED
      BY <1>7, <1>8, <1>9, <1>10, <1>11, <2>1
  <1> QED
    BY <1>8, <1>12 DEF nb

LEMMA Counted ==
  ASSUME NEW S, NEW X, IsFiniteSet(X), NEW N \in SUBSET Threads,
         NEW M \in SUBSET Threads,
         \A l \in S : \/ l \in X
                      \/ \E t \in N : \E k \in BlockPages : pageTables[t][k] = l
                      \/ \E t \in M : \E k \in EndPages : pageTables[t][k] = l
  PROVE  /\ IsFiniteSet(S) /\ Cardinality(S) \in Nat
         /\ Cardinality(S) <= Cardinality(X) + Cardinality(N) * (HalfOfPages + 2)
                                + 2 * Cardinality(M)
  <1>1. IsFiniteSet(BlockPages) /\ Cardinality(BlockPages) = HalfOfPages + 2
    BY PageCounts
  <1>2. /\ IsFiniteSet(S) /\ Cardinality(S) \in Nat
        /\ Cardinality(S) <= Cardinality(X) + Cardinality(N) * Cardinality(BlockPages)
                               + 2 * Cardinality(M)
    BY <1>1, CountedOn
  <1> QED
    BY <1>1, <1>2

-----------------------------------------------------------------------------
(* Threads that keep to their first page.                                  *)

LEMMA FirstPagesAlone ==
  ASSUME SchedInv, LoopInv, FirstPagesOnly
  PROVE  /\ Alone /\ last = 0
         /\ \A t \in Born : written[t] = EndPages
  <1> USE ThreadFacts, PageFacts
  <1>1. last = 0
    BY DEF FirstPagesOnly, OnFirstPages, LoopInv, SchedInv
  <1>2. \A t \in Born : written[t] = EndPages
    BY DEF FirstPagesOnly, OnFirstPages, LoopInv, EndPages
  <1>3. \A t \in Threads : state[t] = "ACTIVE" => t \in Born
    BY LiveOrFreed DEF Live
  <1>4. pc \in {"out", "in"} => current \in Born
    BY CurrentIsBorn DEF LoopInv, SchedInv
  <1> QED
    BY <1>1, <1>2, <1>3, <1>4 DEF Alone

LEMMA FirstRoom ==
  ASSUME SchedInv, LoopInv, Clean, FirstPagesOnly
  PROVE  Room /\ nextFreePage(masterTable) \in Pages
  <1> USE ThreadFacts, PageFacts
  <1> SUFFICES ASSUME \A x \in Pages : masterTable[x] # 0 PROVE FALSE
    <2>1. ASSUME NEW x \in Pages, masterTable[x] = 0
          PROVE  Room /\ nextFreePage(masterTable) \in Pages
      <3>1. nextFreePage(masterTable) \in Locations /\ nextFreePage(masterTable) <= x
        BY <2>1, FreePlace
      <3> QED
        BY <2>1, <3>1 DEF Room, Pages, Locations
    <2> QED
      BY <2>1
  <1>1. Shape /\ Marked /\ Allocating
    BY DEF Clean
  <1>2. \A l \in Pages : masterTable[l] = 1
    BY <1>1 DEF Marked
  <1>3. \A t \in Live : t \in Threads /\ PagesOf(t) = EndPages
    BY <1>1, LiveOrFreed, FirstPagesAlone DEF Shape
  <1>4. ASSUME NEW l \in Pages
        PROVE  l \in EndPages \/ \E t \in Threads : \E k \in EndPages : pageTables[t][k] = l
    <2>1. CASE pc = "tags" /\ want = <<>> /\ j > 0 /\ l = i
      <3>1. ~(i > last) /\ last = 0 /\ i \in 0..(last + 1)
        BY <1>1, <2>1, FirstPagesAlone DEF Allocating, LoopInv
      <3> QED
        BY <2>1, <3>1 DEF EndPages
    <2>2. CASE \E t \in Live : \E k \in PagesOf(t) : pageTables[t][k] = l
      BY <1>3, <2>2
    <2> QED
      BY <1>1, <1>2, <2>1, <2>2 DEF Marked
  <1>5. Cardinality(Pages) <=
          Cardinality(EndPages) + Cardinality({}) * (HalfOfPages + 2)
            + 2 * Cardinality(Threads)
    <2>1. \A l \in Pages :
            \/ l \in EndPages
            \/ \E t \in {} : \E k \in BlockPages : pageTables[t][k] = l
            \/ \E t \in Threads : \E k \in EndPages : pageTables[t][k] = l
      BY <1>4
    <2>2. {} \in SUBSET Threads /\ Threads \in SUBSET Threads /\ IsFiniteSet(EndPages)
      BY PageCounts
    <2> QED
      BY <2>1, <2>2, Counted
  <1>6. MEMORYPAGES <= 2 + 0 * (HalfOfPages + 2) + 2 * MaxThreads
    BY <1>5, PageCounts, FS_EmptySet
  <1> QED
    BY <1>6, RoomAssumption

\* No two frames are free: all but one are used.
LEMMA AllButOne ==
  ASSUME Marked, ~FramesFree
  PROVE  \E x \in Pages : \A y \in Pages \ {x} : masterTable[y] = 1
  <1> USE ThreadFacts
  <1>1. \A y \in Pages : masterTable[y] \in {0, 1}
    BY DEF Marked
  <1>2. CASE \A y \in Pages : masterTable[y] = 1
    BY <1>2
  <1>3. CASE \E x \in Pages : masterTable[x] # 1
    <2>1. PICK x \in Pages : masterTable[x] # 1
      BY <1>3
    <2>2. \A y \in Pages \ {x} : masterTable[y] = 1
      BY <1>1, <2>1 DEF FramesFree
    <2> QED
      BY <2>2
  <1> QED
    BY <1>2, <1>3

LEMMA FirstFrames ==
  ASSUME SchedInv, LoopInv, Clean, FirstPagesOnly, my_pthread_create
  PROVE  FramesFree
  <1> USE ThreadFacts, PageFacts
  <1> SUFFICES ASSUME ~FramesFree PROVE FALSE
    OBVIOUS
  <1>1. Shape /\ Marked /\ Place
    BY DEF Clean
  <1>2. PICK x \in Pages : \A y \in Pages \ {x} : masterTable[y] = 1
    BY <1>1, AllButOne
  <1>3. /\ current \in Threads /\ current \in Born /\ pc = "run" /\ current # NULL
        /\ threadIDS \in Threads /\ threadIDS \in Nat
    BY RunningFacts DEF my_pthread_create
  <1> DEFINE M == (0..(threadIDS - 1)) \ {current}
  <1>4. current \in 0..(threadIDS - 1) /\ threadIDS <= MaxThreads - 1 /\ threadIDS > 0
    BY <1>3 DEF Born, Threads
  <1>5. IsFiniteSet(M) /\ Cardinality(M) = threadIDS - 1 /\ M \in SUBSET Threads
    <2> DEFINE n == threadIDS - 1
    <2>1. n \in Nat /\ n + 1 = threadIDS /\ current \in 0..n
      BY <1>3, <1>4
    <2> HIDE DEF n
    <2>2. IsFiniteSet(0..n) /\ Cardinality(0..n) = n + 1
      BY <2>1, IntervalCount
    <2>3. IsFiniteSet((0..n) \ {current})
          /\ Cardinality((0..n) \ {current}) = Cardinality(0..n) - 1
      BY <2>1, <2>2, FS_RemoveElement, Zenon
    <2>4. Cardinality((0..n) \ {current}) = n
      BY <2>1, <2>2, <2>3
    <2>5. M \in SUBSET Threads
      BY <1>3, <1>4 DEF Threads
    <2> QED
      BY <2>3, <2>4, <2>5 DEF n
  <1>6. ASSUME NEW l \in Pages \ {x}
        PROVE  l \in EndPages \/ \E t \in M : \E k \in EndPages : pageTables[t][k] = l
    <2>1. ~Vacating /\ masterTable[l] = 1 /\ l \in Locations
      BY <1>2, <1>3 DEF Vacating
    <2>2. PICK t \in Live : \E k \in PagesOf(t) : pageTables[t][k] = l
      BY <1>1, <1>3, <2>1 DEF Marked
    <2>3. t \in Born /\ PagesOf(t) = EndPages
      BY <1>1, LiveOrFreed, FirstPagesAlone DEF Shape
    <2>4. CASE t = current
      BY <1>1, <1>3, <2>2, <2>3, <2>4 DEF Place
    <2>5. CASE t # current
      <3>1. t \in M
        BY <1>3, <2>3, <2>5 DEF Born, Threads
      <3> QED
        BY <2>2, <2>3, <3>1
    <2> QED
      BY <2>4, <2>5
  <1> HIDE DEF M
  <1>7. Cardinality(Pages \ {x}) <=
          Cardinality(EndPages) + Cardinality({}) * (HalfOfPages + 2) + 2 * Cardinality(M)
    <2>1. \A l \in Pages \ {x} :
            \/ l \in EndPages
            \/ \E t \in {} : \E k \in BlockPages : pageTables[t][k] = l
            \/ \E t \in M : \E k \in EndPages : pageTables[t][k] = l
      BY <1>6
    <2>2. {} \in SUBSET Threads /\ M \in SUBSET Threads /\ IsFiniteSet(EndPages)
      BY <1>5, PageCounts
    <2> QED
      BY <2>1, <2>2, Counted
  <1>8. Cardinality(Pages \ {x}) = MEMORYPAGES - 1
    BY PageCounts, FS_RemoveElement
  <1>9. MEMORYPAGES - 1 <= 2 + 0 * (HalfOfPages + 2) + 2 * (threadIDS - 1)
    BY <1>5, <1>7, <1>8, PageCounts, FS_EmptySet
  <1> QED
    BY <1>3, <1>4, <1>9, RoomAssumption

\* The swap file is not used.
InFrames == pageTables \in [Threads -> [Pages -> Pages \union {NONE}]]

LEMMA FirstInReach ==
  ASSUME SchedInv, LoopInv, Clean, InFrames, FirstPagesOnly
  PROVE  InReach
  <1>1. Reachable(nextFreePage(masterTable))
    BY FirstRoom DEF Reachable
  <1>2. ASSUME NEW t \in Live, NEW k \in PagesOf(t)
        PROVE  Reachable(pageTables[t][k])
    BY PageFacts DEF InFrames, PagesOf, Reachable
  <1> QED
    BY <1>1, <1>2 DEF InReach

LEMMA FrameEntry ==
  ASSUME NEW T \in [Threads -> [Pages -> Pages \union {NONE}]], NEW t, NEW k, NEW l,
         l \in Pages \/ l = k
  PROVE  [T EXCEPT ![t][k] = l] \in [Threads -> [Pages -> Pages \union {NONE}]]
  <1>1. CASE t \in Threads
    <2>1. [T[t] EXCEPT ![k] = l] \in [Pages -> Pages \union {NONE}]
      BY <1>1
    <2> QED
      BY <1>1, <2>1
  <1>2. CASE t \notin Threads
    BY <1>2
  <1> QED
    BY <1>1, <1>2

LEMMA InFramesStep ==
  ASSUME SchedInv, LoopInv, Clean, InFrames, FirstPagesOnly, LibStep
  PROVE  InFrames'
  <1> USE ThreadFacts, PageFacts
  <1> DEFINE l == nextFreePage(masterTable)
             Tables == [Threads -> [Pages -> Pages \union {NONE}]]
  <1>1. l \in Pages /\ pageTables \in Tables
    BY FirstRoom DEF InFrames
  <1> HIDE DEF l, Tables
  <1>2. \A T \in Tables : \A t, k, m : m \in Pages \/ m = k =>
           [T EXCEPT ![t][k] = m] \in Tables
    BY FrameEntry DEF Tables
  <1>3. ASSUME NEW p, MoveFrom(p) PROVE pageTables' \in Tables
    <2> DEFINE k == Min({k \in Pages : pageTables[j][k] = p})
               moved == [pageTables EXCEPT ![j][k] = l]
    <2>1. \/ pageTables' = pageTables
          \/ pageTables' = moved
          \/ pageTables' = [moved EXCEPT ![current][p] = p]
      BY <1>3 DEF MoveFrom, l
    <2> HIDE DEF k
    <2>2. moved \in Tables
      BY <1>1, <1>2
    <2> HIDE DEF moved
    <2>3. [moved EXCEPT ![current][p] = p] \in Tables
      BY <1>2, <2>2
    <2> QED
      BY <1>1, <2>1, <2>2, <2>3
  <1>4. CASE Switch
    <2>1. CASE SwapOutPage \/ SwapOutLast
      <3>1. pageTables' = [pageTables EXCEPT ![temp][i] = l]
              \/ pageTables' = [pageTables EXCEPT ![temp][Last] = l]
        BY <2>1 DEF SwapOutPage, SwapOutLast, l
      <3> QED
        BY <1>1, <1>2, <3>1 DEF InFrames, Tables
    <2>2. CASE Evict
      BY <1>3, <2>2 DEF Evict, InFrames, Tables
    <2>3. CASE EvictLast
      <3>1. pageTables' = [pageTables EXCEPT ![j][Last] = l] \/ pageTables' = pageTables
        BY <2>3 DEF EvictLast, l
      <3> QED
        BY <1>1, <1>2, <3>1 DEF InFrames, Tables
    <2>4. CASE SwapInPage \/ SwapInLast
      <3>1. pageTables' = [pageTables EXCEPT ![current][i] = i]
              \/ pageTables' = [pageTables EXCEPT ![current][Last] = Last]
        BY <2>4 DEF SwapInPage, SwapInLast, Arrived
      <3> QED
        BY <1>1, <1>2, <3>1 DEF InFrames, Tables
    <2> QED
      BY <1>4, <2>1, <2>2, <2>3, <2>4 DEF Switch
  <1>5. CASE Calls
    <2>1. CASE my_pthread_create
      <3> DEFINE e == EndIndex(l)
                 new == [k \in Pages |-> CASE k = 0 -> l [] k = Last -> e [] OTHER -> NONE]
      <3>1. pageTables' = [pageTables EXCEPT ![threadIDS] = new] /\ pc = "run"
            /\ current \in Threads
        BY <2>1, RunningFacts DEF my_pthread_create, l
      <3>2. masterTable[0] = 1 /\ masterTable[Last] = 1 /\ Marked /\ FramesFree
        BY <2>1, <3>1, OwnFrames, FirstFrames DEF Clean
      <3>3. e \in Pages
        BY <3>2, NewFrames DEF l
      <3> HIDE DEF e
      <3>4. new \in [Pages -> Pages \union {NONE}]
        BY <1>1, <3>3
      <3> HIDE DEF new
      <3> QED
        BY <1>1, <3>1, <3>4 DEF InFrames, Tables
    <2>2. CASE ~my_pthread_create
      <3>1. pageTables' = pageTables
        BY <1>5, <2>2 DEF Calls, VoluntaryYield, Yield, my_pthread_exit, JoinCall, JoinSpin,
                          JoinReturn, paging
      <3> QED
        BY <3>1 DEF InFrames
    <2> QED
      BY <2>1, <2>2
  <1>6. CASE Allocation
    <2>1. last = 0 /\ pc # "fault"
      BY FirstPagesAlone DEF Clean, Allocating
    <2>2. CASE ClaimEvicts
      BY <1>3, <2>2 DEF ClaimEvicts, InFrames, Tables
    <2>3. CASE ClaimPage
      <3>1. pageTables' = [pageTables EXCEPT ![current][i] = i]
        BY <2>3 DEF ClaimPage, TakeFrame
      <3> QED
        BY <1>1, <1>2, <3>1 DEF InFrames, Tables
    <2>4. CASE WriteTag \/ Fault \/ myallocateReturns \/ FaultGivesUp
      BY <2>4 DEF WriteTag, Fault, myallocateReturns, FaultGivesUp, paging, InFrames
    <2>5. CASE FaultOnFreeFrame \/ FaultScan
      BY <2>1, <2>5 DEF FaultOnFreeFrame, FaultScan, InLoop
    <2> QED
      BY <1>6, <2>2, <2>3, <2>4, <2>5 DEF Allocation
  <1>7. CASE ProcessEnds \/ \E f, r \in 0..(MEMORYPAGES - 3) : myallocate(f, r)
    BY <1>7 DEF ProcessEnds, myallocate, paging, InFrames
  <1> QED
    BY <1>4, <1>5, <1>6, <1>7 DEF LibStep

LEMMA FirstPagesStep ==
  ASSUME SchedInv, LoopInv, Clean, InFrames, FirstPagesOnly, FirstPagesOnly', LibStep
  PROVE  Clean'
  <1>1. Alone /\ last = 0 /\ Room /\ InReach
    BY FirstPagesAlone, FirstRoom, FirstInReach
  <1>2. my_pthread_create => FramesFree
    BY FirstFrames
  <1>3. pc # "fault"
    BY <1>1 DEF Clean, Allocating
  <1>4. ASSUME NEW f \in 0..(MEMORYPAGES - 3), NEW r \in 0..(MEMORYPAGES - 3),
               myallocate(f, r)
        PROVE  f = 0 /\ r = 0
    <2>1. Running("user") /\ want' = <<f, r>> /\ current' = current
      BY <1>4 DEF myallocate, sched
    <2>2. current' \in Threads
      BY <2>1, RunningFacts
    <2>3. \A k \in DOMAIN want' : want'[k] = 0
      BY <2>2 DEF FirstPagesOnly, OnFirstPages
    <2> QED
      BY <2>1, <2>3
  <1>5. CASE \E f, r \in 0..(MEMORYPAGES - 3) : myallocate(f, r)
    <2>1. PICK f \in 0..(MEMORYPAGES - 3), r \in 0..(MEMORYPAGES - 3) : myallocate(f, r)
      BY <1>5
    <2>2. f = 0 /\ r = 0
      BY <1>4, <2>1
    <2> QED
      BY <2>1, <2>2, myallocateClean
  <1> QED
    BY <1>1, <1>2, <1>3, <1>5, CleanStep DEF LibStep

\* The invariant of the paging: as long as no thread has gone past its first
\* page, it is clean.
PagingInv == SchedInv /\ LoopInv /\ (FirstPagesOnly => Clean /\ InFrames)

LEMMA PagingInit ==
  ASSUME Init
  PROVE  PagingInv /\ Clean
  <1> USE ThreadFacts, PageFacts
  <1>1. /\ queue_priority_1 = <<>> /\ queue_priority_2 = <<>> /\ current = Main
        /\ threadIDS = 1 /\ mainEnqueued = FALSE /\ proc = "up" /\ pc = "run"
        /\ state = [t \in Threads |-> IF t = Main THEN "ACTIVE" ELSE "UNBORN"]
        /\ at = [t \in Threads |-> IF t = Main THEN "user" ELSE "unborn"]
        /\ target = [t \in Threads |-> NULL]
        /\ i = 0 /\ j = 0 /\ temp = NULL /\ want = <<>> /\ last = 0
    BY DEF Init
  <1>2. SchedInv
    <2>1. Consistent(queue_priority_1, queue_priority_2, state)
      <3>1. <<>> \in Seq(Threads)
        OBVIOUS
      <3>2. Range(<<>>) = {} /\ IsInjective(<<>>)
        BY <3>1, QueueFacts
      <3> QED
        BY <1>1, <3>1, <3>2 DEF Consistent
    <2>2. \A t \in Threads : state[t] = "UNBORN" <=> t >= threadIDS
      BY <1>1 DEF Main, Threads
    <2> QED
      BY <1>1, <2>1, <2>2 DEF SchedInv, States
  <1>3. Born = {Main} /\ Live = {Main} /\ Main = 0
    BY <1>1 DEF Born, Live, Main, Threads
  <1>4. /\ written = [t \in Threads |-> IF t = Main THEN EndPages ELSE {}]
        /\ written[Main] = EndPages
    BY DEF Init, EndPages
  <1>5. LoopInv
    <2>1. want \in Seq(0..(Last - 1))
      BY <1>1
    <2> QED
      BY <1>1, <1>3, <1>4, <2>1 DEF LoopInv
  <1>6. /\ pageTables \in [Threads -> [Pages -> Locations \union {NONE}]]
        /\ PagesOf(Main) = EndPages
        /\ \A k \in EndPages : pageTables[Main][k] = k
    BY DEF Init, PagesOf, NoPages, EndPages
  <1>7. Shape
    BY <1>1, <1>3, <1>4, <1>6 DEF Shape
  <1>8. Apart /\ Foreign
    BY <1>1, <1>3, <1>6 DEF Apart, Foreign
  <1>9. /\ masterTable \in [Locations -> {0, 1}]
        /\ \A l \in Locations : masterTable[l] = 1 <=> l \in EndPages
    BY DEF Init, EndPages
  <1>10. Marked
    BY <1>1, <1>3, <1>6, <1>9 DEF Marked, Vacating
  <1>11. Data
    <2>1. DOMAIN store = Locations /\ \A l \in EndPages : store[l] = <<Main, l>>
      BY DEF Init, EndPages
    <2> QED
      <3>1. \A k \in EndPages : store[pageTables[Main][k]] = <<Main, k>>
        BY <1>6, <2>1
      <3>2. \A t \in Kept : t = Main
        BY <1>3 DEF Kept
      <3> QED
        BY <1>6, <2>1, <3>1, <3>2 DEF Data
  <1>12. Protection
    <2>1. prot \in [Pages -> BOOLEAN] /\ prot[0] /\ prot[Last]
      <3>1. prot = [k \in Pages |-> k \in EndPages]
        BY DEF Init, EndPages
      <3>2. 0 \in EndPages /\ Last \in EndPages
        BY DEF EndPages
      <3>3. \A k \in Pages : (k \in EndPages) \in BOOLEAN
        OBVIOUS
      <3> QED
        BY <3>1, <3>2, <3>3, Zenon
    <2> QED
      BY <1>3, <1>6, <2>1 DEF Protection, Kept
  <1>13. Place
    BY <1>1, <1>6, <1>12 DEF Place, Protection, EndPages
  <1>14. Allocating
    BY <1>1 DEF Allocating
  <1>15. InFrames
    BY DEF Init, InFrames, NoPages
  <1> QED
    BY <1>2, <1>5, <1>7, <1>8, <1>10, <1>11, <1>12, <1>13, <1>14, <1>15
    DEF PagingInv, Clean

LEMMA PagingStep ==
  ASSUME PagingInv, LibStep
  PROVE  PagingInv'
  <1>1. SchedInv /\ LoopInv /\ SchedInv' /\ LoopInv'
    BY SchedInvStep, LoopInvStep DEF PagingInv
  <1>2. ASSUME FirstPagesOnly' PROVE Clean' /\ InFrames'
    <2>1. OnFirstPages(Threads)' /\ Threads \subseteq Threads
      BY <1>2 DEF FirstPagesOnly
    <2>2. OnFirstPages(Threads)
      BY <1>1, <2>1, GrowthStays
    <2> QED
      BY <1>1, <1>2, <2>2, FirstPagesStep, InFramesStep DEF PagingInv, FirstPagesOnly
  <1> QED
    BY <1>1, <1>2 DEF PagingInv

LEMMA PagingStutters ==
  ASSUME UNCHANGED vars
  PROVE  /\ SchedInv' = SchedInv /\ LoopInv' = LoopInv /\ Clean' = Clean
         /\ FirstPagesOnly' = FirstPagesOnly /\ PagingInv' = PagingInv
  <1>1. /\ UNCHANGED <<queue_priority_1, queue_priority_2, current, threadIDS,
                       mainEnqueued, state, armed, at, target>>
        /\ UNCHANGED <<pageTables, masterTable, prot, store, written>>
        /\ UNCHANGED <<proc, pc, i, j, temp, want, last>>
    BY DEF vars, sched, paging, locals
  <1>2. SchedInv' = SchedInv
    BY <1>1 DEF SchedInv, Consistent, peekEither, peek
  <1>3. Born' = Born /\ Live' = Live /\ Kept' = Kept /\ Vacating' = Vacating
        /\ NoneFreed' = NoneFreed
    BY <1>1 DEF Born, Live, Kept, Vacating, NoneFreed
  <1>4. LoopInv' = LoopInv
    BY <1>1, <1>3 DEF LoopInv
  <1>5. Shape' = Shape
    BY <1>1, <1>3 DEF Shape, PagesOf
  <1>6. Apart' = Apart
    BY <1>1, <1>3 DEF Apart, PagesOf
  <1>7. Foreign' = Foreign
    BY <1>1, <1>3 DEF Foreign, PagesOf
  <1>8. Marked' = Marked
    BY <1>1, <1>3 DEF Marked, PagesOf
  <1>9. Data' = Data
    BY <1>1, <1>3 DEF Data, PagesOf
  <1>10. Protection' = Protection
    BY <1>1, <1>3 DEF Protection
  <1>11. Place' = Place
    BY <1>1, <1>3 DEF Place, PagesOf, NobodyAt
  <1>12. Allocating' = Allocating
    BY <1>1, <1>3 DEF Allocating, PagesOf
  <1>13. FirstPagesOnly' = FirstPagesOnly
    BY <1>1 DEF FirstPagesOnly, OnFirstPages
  <1>14. Clean' = Clean
    BY <1>5, <1>6, <1>7, <1>8, <1>9, <1>10, <1>11, <1>12 DEF Clean
  <1> QED
    BY <1>1, <1>2, <1>4, <1>13, <1>14 DEF PagingInv, InFrames

\* What the client does is a call of the library, or leaves it alone.
LEMMA NextIsLibStep ==
  ASSUME PagingInv, Next
  PROVE  LibStep
  <1>1. ASSUME Malloc PROVE LibStep
    <2>1. current \in Threads
      BY <1>1, RunningFacts DEF Malloc, PagingInv
    <2>2. MaxPage[current] \in 0..(MEMORYPAGES - 3)
      BY <2>1, SizeAssumption
    <2>3. PICK f \in 0..MaxPage[current], r \in 0..MaxPage[current] : myallocate(f, r)
      BY <1>1 DEF Malloc
    <2>4. f \in 0..(MEMORYPAGES - 3) /\ r \in 0..(MEMORYPAGES - 3)
      BY <2>2, <2>3, SizeAssumption
    <2> QED
      BY <2>3, <2>4 DEF LibStep
  <1>2. ASSUME SIGVTALRM PROVE LibStep
    BY <1>2 DEF SIGVTALRM, LibStep, ProcessEnds
  <1> QED
    BY <1>1, <1>2 DEF Next, LibStep

LEMMA ProgramIsLibStep ==
  ASSUME PagingInv, ProgramNext
  PROVE  LibStep \/ UNCHANGED vars
  <1> USE ThreadFacts, PageFacts
  <1>1. CASE mallocHandles \/ mallocHalf
    <2>1. 0 \in 0..(MEMORYPAGES - 3) /\ HalfOfPages \in 0..(MEMORYPAGES - 3)
      BY HalfAssumption, SizeAssumption
    <2> QED
      BY <1>1, <2>1 DEF mallocHandles, mallocHalf, LibStep
  <1>2. CASE createThread \/ exitCounter \/ JoinStep \/ LibraryLoop
    BY <1>2 DEF createThread, exitCounter, JoinStep, LibraryLoop, LibStep, Calls
  <1>3. CASE joinThread
    <2>1. PICK u \in 1..(threadIDS - 1) : JoinCall(u)
      BY <1>3 DEF joinThread, JoinCall
    <2>2. u \in Threads
      BY DEF PagingInv, SchedInv, Threads
    <2> QED
      BY <2>1, <2>2 DEF LibStep, Calls
  <1>4. CASE mainReturns
    BY <1>4 DEF mainReturns, InMain, UserCode, Running, LibStep, ProcessEnds
  <1>5. CASE lockWaits
    BY <1>5 DEF lockWaits, InCounter, UserCode, LibStep, Calls, VoluntaryYield
  <1>6. CASE lockCalled \/ loadCounter \/ storeCounter \/ unlockReturns
    BY <1>6 DEF lockCalled, loadCounter, storeCounter, unlockReturns
  <1>7. CASE SliceEnds \/ AnyClient
    BY <1>7, NextIsLibStep DEF SliceEnds, AnyClient, Next
  <1> QED
    BY <1>1, <1>2, <1>3, <1>4, <1>5, <1>6, <1>7 DEF ProgramNext, Program

\* The properties that follow from it.
LEMMA PagingImplies ==
  ASSUME PagingInv
  PROVE  PagesIntact /\ MasterTableExact /\ OthersProtected
  <1> USE ThreadFacts, PageFacts
  <1>1. SchedInv /\ LoopInv
    BY DEF PagingInv
  <1> SUFFICES ASSUME FirstPagesOnly
               PROVE  PagesIntact /\ MasterTableExact /\ OthersProtected
    BY DEF PagesIntact, MasterTableExact, OthersProtected
  <1>2. Clean /\ Shape /\ Apart /\ Foreign /\ Marked /\ Data /\ Protection /\ Place
    BY DEF PagingInv, Clean
  <1>3. last = 0 /\ \A t \in Live : t \in Born /\ t \in Threads /\ t \in Kept
                                    /\ written[t] = EndPages /\ PagesOf(t) = EndPages
    BY <1>1, <1>2, FirstPagesAlone, LiveOrFreed DEF Kept, Shape
  <1>4. \A t \in Live : Held(t) = {pageTables[t][k] : k \in EndPages}
    <2> SUFFICES ASSUME NEW t \in Live PROVE Held(t) = {pageTables[t][k] : k \in PagesOf(t)}
      BY <1>3
    <2> QED
      BY DEF Held, PagesOf
  <1>5. PagesIntact
    BY <1>2, <1>3 DEF PagesIntact, Data, PagesOf
  <1>6. MasterTableExact
    <2> SUFFICES ASSUME pc = "run"
                 PROVE  {l \in Locations : masterTable[l] = 1} = UNION {Held(t) : t \in Live}
      BY DEF MasterTableExact
    <2>1. ASSUME NEW l \in Locations, masterTable[l] = 1
          PROVE  l \in UNION {Held(t) : t \in Live}
      <3>1. PICK t \in Live : \E k \in PagesOf(t) : pageTables[t][k] = l
        BY <1>2, <2>1 DEF Marked, Vacating
      <3>2. l \in Held(t)
        BY <1>3, <1>4, <3>1
      <3> QED
        BY <3>2
    <2>2. ASSUME NEW l \in UNION {Held(t) : t \in Live}
          PROVE  l \in Locations /\ masterTable[l] = 1
      <3>1. PICK t \in Live : l \in Held(t)
        BY <2>2
      <3>2. PICK k \in PagesOf(t) : l = pageTables[t][k]
        BY <1>3, <1>4, <3>1
      <3>3. l \in Locations
        BY <1>2, <1>3, <3>2, EntryFacts
      <3> QED
        BY <1>2, <3>2, <3>3 DEF Marked
    <2> QED
      BY <2>1, <2>2
  <1>7. OthersProtected
    <2> SUFFICES ASSUME Running("user"), NEW t \in Live \ {current},
                        NEW f \in Held(t) \cap Pages
                 PROVE  ~prot[f]
      BY DEF OthersProtected
    <2>1. PICK k \in EndPages : f = pageTables[t][k]
      BY <1>4
    <2>2. CASE f \in EndPages
      <3>1. current \in Live /\ pc = "run" /\ current # NULL
        BY <1>1, RunningFacts, LiveOrFreed
      <3>2. f \in PagesOf(current) /\ pageTables[current][f] = f
        BY <1>2, <1>3, <2>2, <3>1 DEF Place
      <3>3. t = current
        BY <1>2, <1>3, <2>1, <3>1, <3>2 DEF Apart
      <3> QED
        BY <3>3
    <2>3. CASE f \notin EndPages
      BY <1>2, <1>3, <2>1, <2>3 DEF Protection
    <2> QED
      BY <2>2, <2>3
  <1> QED
    BY <1>5, <1>6, <1>7

\* The invariant holds of the library with any client, and of the programs of
\* CounterProgram.
THEOREM SpecPagingInv == Spec => []PagingInv
  <1>1. Init => PagingInv
    BY PagingInit
  <1>2. PagingInv /\ [Next]_vars => PagingInv'
    BY NextIsLibStep, PagingStep, PagingStutters
  <1> QED
    BY <1>1, <1>2, PTL DEF Spec

\* A program's steps are steps of the library, or leave it alone.
THEOREM ProgramPagingInv == ProgramSpec => []PagingInv
  <1>1. ProgramInit => PagingInv
    BY PagingInit DEF ProgramInit
  <1>2. PagingInv /\ [ProgramNext]_programVars => PagingInv'
    <2> SUFFICES ASSUME PagingInv, [ProgramNext]_programVars PROVE PagingInv'
      OBVIOUS
    <2>1. CASE ProgramNext
      BY <2>1, ProgramIsLibStep, PagingStep, PagingStutters
    <2>2. CASE UNCHANGED programVars
      BY <2>2, PagingStutters DEF programVars
    <2> QED
      BY <2>1, <2>2
  <1> QED
    BY <1>1, <1>2, PTL DEF ProgramSpec

\* For any number of threads, frames and slots: whatever calls a client makes and
\* in whatever order (creates, yields, exits, joins, allocations on the first
\* page, the end of a time slice), a thread finds its data where its page table
\* says ...
THEOREM PagesIntactHolds == ProgramSpec => []PagesIntact
  <1>1. PagingInv => PagesIntact
    BY PagingImplies
  <1> QED
    BY <1>1, ProgramPagingInv, PTL

\* ... between switches the master table marks exactly the locations in use ...
THEOREM MasterTableExactHolds == ProgramSpec => []MasterTableExact
  <1>1. PagingInv => MasterTableExact
    BY PagingImplies
  <1> QED
    BY <1>1, ProgramPagingInv, PTL

\* ... and the frames of the threads that do not run are protected.
THEOREM OthersProtectedHolds == ProgramSpec => []OthersProtected
  <1>1. PagingInv => OthersProtected
    BY PagingImplies
  <1> QED
    BY <1>1, ProgramPagingInv, PTL

\* The same holds of every behaviour of the library by itself.
THEOREM LibraryPaging == Spec => [](PagesIntact /\ MasterTableExact /\ OthersProtected)
  <1>1. PagingInv => PagesIntact /\ MasterTableExact /\ OthersProtected
    BY PagingImplies
  <1> QED
    BY <1>1, SpecPagingInv, PTL
=============================================================================
