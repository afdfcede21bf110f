-------------------------- MODULE SchedulerProofs --------------------------
(***************************************************************************)
(* The invariants of Scheduler, proved for any number of threads and any   *)
(* set of values.  The argument has three layers: what enqueue and dequeue *)
(* do to the set of queued threads, what one my_pthread_yield preserves    *)
(* whatever state it is called in, and what each library call adds.        *)
(***************************************************************************)
EXTENDS Scheduler, SequenceTheorems, TLAPS

-----------------------------------------------------------------------------
(* The queues.                                                             *)

LEMMA EmptyQueue ==
  /\ \A S : <<>> \in Seq(S)
  /\ Range(<<>>) = {}
  /\ IsInjective(<<>>)
  BY EmptySeq DEF Range, IsInjective

\* The members of a queue are the values at its positions.
LEMMA RangeOfQueue ==
  ASSUME NEW S, NEW s \in Seq(S)
  PROVE  /\ Range(s) = {s[i] : i \in 1..Len(s)}
         /\ Range(s) \subseteq S
         /\ s # <<>> => Head(s) \in Range(s)
         /\ s = <<>> <=> Range(s) = {}
  BY LenProperties, EmptySeq, ElementOfSeq, EmptyQueue DEF Range

\* enqueue adds one member, at the end.
LEMMA EnqueueFacts ==
  ASSUME NEW S, NEW s \in Seq(S), NEW x \in S
  PROVE  /\ enqueue(x, s) \in Seq(S)
         /\ enqueue(x, s) # <<>>
         /\ Range(enqueue(x, s)) = Range(s) \union {x}
         /\ IsInjective(s) /\ x \notin Range(s) => IsInjective(enqueue(x, s))
         /\ Head(enqueue(x, s)) = IF s = <<>> THEN x ELSE Head(s)
  <1> DEFINE a == Append(s, x)
  <1>1. /\ a \in Seq(S)
        /\ Len(a) = Len(s) + 1
        /\ Len(s) \in Nat
        /\ \A i \in 1..Len(s) : a[i] = s[i]
        /\ a[Len(s) + 1] = x
    BY AppendProperties, LenProperties
  <1>2. DOMAIN a = 1..(Len(s) + 1) /\ DOMAIN s = 1..Len(s)
    BY <1>1, LenProperties
  <1>3. Range(a) = Range(s) \union {x}
    BY <1>1, <1>2 DEF Range
  <1>4. IsInjective(s) /\ x \notin Range(s) => IsInjective(a)
    BY <1>1, <1>2 DEF Range, IsInjective
  <1>5. a # <<>> /\ Head(a) = IF s = <<>> THEN x ELSE Head(s)
    <2>1. a # <<>>
      BY AppendProperties
    <2>2. Head(a) = IF s = <<>> THEN x ELSE Head(s)
      BY HeadTailAppend
    <2> QED
      BY <2>1, <2>2
  <1> QED
    BY <1>1, <1>3, <1>4, <1>5 DEF enqueue

\* The same for a thread that is not in the queue yet.
LEMMA EnqueueThread ==
  ASSUME NEW q \in Seq(Threads), NEW t \in Threads,
         IsInjective(q), t \notin Range(q)
  PROVE  /\ enqueue(t, q) \in Seq(Threads)
         /\ enqueue(t, q) # <<>>
         /\ Range(enqueue(t, q)) = Range(q) \union {t}
         /\ IsInjective(enqueue(t, q))
  BY EnqueueFacts

\* dequeue removes the front, and only it, from a queue without repetitions.
LEMMA DequeueFacts ==
  ASSUME NEW S, NEW s \in Seq(S), IsInjective(s), s # <<>>
  PROVE  /\ dequeue(s) \in Seq(S)
         /\ Range(dequeue(s)) = Range(s) \ {Head(s)}
         /\ IsInjective(dequeue(s))
  <1> DEFINE r == Tail(s)
  <1>1. /\ r \in Seq(S)
        /\ Len(r) = Len(s) - 1
        /\ Len(s) \in Nat \ {0}
        /\ \A i \in 1..Len(r) : r[i] = s[i + 1]
        /\ Head(s) = s[1]
    BY HeadTailProperties, EmptySeq
  <1>2. DOMAIN r = 1..(Len(s) - 1) /\ DOMAIN s = 1..Len(s)
    BY <1>1, LenProperties
  <1>3. Range(r) \subseteq Range(s) \ {Head(s)}
    BY <1>1, <1>2 DEF Range, IsInjective
  <1>4. Range(s) \ {Head(s)} \subseteq Range(r)
    <2> SUFFICES ASSUME NEW i \in 1..Len(s), s[i] # Head(s)
                 PROVE  s[i] \in Range(r)
      BY <1>2 DEF Range
    <2>1. i - 1 \in 1..(Len(s) - 1) /\ r[i - 1] = s[i]
      BY <1>1
    <2> QED
      BY <2>1, <1>2 DEF Range
  <1>5. IsInjective(r)
    <2> SUFFICES ASSUME NEW i \in 1..(Len(s) - 1), NEW j \in 1..(Len(s) - 1),
                        r[i] = r[j]
                 PROVE  i = j
      BY <1>2 DEF IsInjective
    <2>1. s[i + 1] = s[j + 1] /\ i + 1 \in 1..Len(s) /\ j + 1 \in 1..Len(s)
      BY <1>1
    <2> QED
      BY <2>1, <1>2 DEF IsInjective
  <1> QED
    BY <1>1, <1>3, <1>4, <1>5 DEF dequeue

-----------------------------------------------------------------------------
(* my_pthread_yield.                                                       *)

States == {"UNBORN", "ACTIVE", "COMPLETED", "FREED"}

\* The queues q1 and q2 hold exactly the threads that are ACTIVE in st, each
\* of them once.
Consistent(q1, q2, st) ==
  /\ q1 \in Seq(Threads)
  /\ q2 \in Seq(Threads)
  /\ IsInjective(q1)
  /\ IsInjective(q2)
  /\ Range(q1) \intersect Range(q2) = {}
  /\ \A t \in Threads : t \in Range(q1) \union Range(q2) <=> st[t] = "ACTIVE"

\* No context slot holds another thread's execution.
OwnContexts(cx) == cx \in [Threads -> Threads] /\ \A t \in Threads : cx[t] = t

\* What every my_pthread_yield leaves behind.
Dispatched(st) ==
  /\ Consistent(queue_priority_1', queue_priority_2', state')
  /\ state' = st
  /\ current' = peekEither(queue_priority_1', queue_priority_2')
  /\ cpu' = IF current' # NULL THEN current' ELSE cpu
  /\ cpu' \in Threads
  /\ armed' \in BOOLEAN
  /\ OwnContexts(ctx')

LEMMA FrontFacts ==
  ASSUME NEW q1, NEW q2, NEW st, Consistent(q1, q2, st)
  PROVE  /\ peekEither(q1, q2) = NULL <=> q1 = <<>> /\ q2 = <<>>
         /\ peekEither(q1, q2) # NULL =>
              /\ peekEither(q1, q2) \in Threads
              /\ st[peekEither(q1, q2)] = "ACTIVE"
  <1>1. NULL \notin Threads
    BY NullAssumption DEF Threads
  <1>2. q1 # <<>> => Head(q1) \in Range(q1) /\ Head(q1) \in Threads
    BY RangeOfQueue DEF Consistent
  <1>3. q2 # <<>> => Head(q2) \in Range(q2) /\ Head(q2) \in Threads
    BY RangeOfQueue DEF Consistent
  <1> QED
    BY <1>1, <1>2, <1>3 DEF Consistent, peekEither, peek

\* Taking the front thread out of its queue leaves the others.
LEMMA TakeFrontFacts ==
  ASSUME NEW q1, NEW q2, NEW st, Consistent(q1, q2, st),
         peekEither(q1, q2) # NULL
  PROVE  LET rest1 == dequeue(q1)
             rest2 == IF q1 # <<>> THEN q2 ELSE dequeue(q2)
         IN  /\ rest1 \in Seq(Threads)
             /\ rest2 \in Seq(Threads)
             /\ IsInjective(rest1)
             /\ IsInjective(rest2)
             /\ Range(rest1) \intersect Range(rest2) = {}
             /\ Range(rest1) \union Range(rest2)
                  = (Range(q1) \union Range(q2)) \ {peekEither(q1, q2)}
  <1> DEFINE front == peekEither(q1, q2)
             rest1 == dequeue(q1)
             rest2 == IF q1 # <<>> THEN q2 ELSE dequeue(q2)
  <1>1. CASE q1 # <<>>
    <2>1. front = Head(q1) /\ rest2 = q2 /\ front \in Range(q1)
      BY <1>1, RangeOfQueue DEF peekEither, Consistent
    <2>2. /\ rest1 \in Seq(Threads)
          /\ Range(rest1) = Range(q1) \ {front}
          /\ IsInjective(rest1)
      BY <1>1, <2>1, DequeueFacts DEF Consistent
    <2> QED
      BY <2>1, <2>2 DEF Consistent
  <1>2. CASE q1 = <<>>
    <2>1. rest1 = <<>> /\ rest2 = dequeue(q2) /\ q2 # <<>> /\ front = Head(q2)
      BY <1>2 DEF dequeue, peekEither, peek
    <2>2. /\ rest2 \in Seq(Threads)
          /\ Range(rest2) = Range(q2) \ {front}
          /\ IsInjective(rest2)
      BY <2>1, DequeueFacts DEF Consistent
    <2> QED
      BY <1>2, <2>1, <2>2, EmptyQueue
  <1> QED
    BY <1>1, <1>2

\* Saving what executes into the slot of the thread that executes keeps the
\* slots apart, and the next thread continues its own execution.
LEMMA SwitchFacts ==
  ASSUME NEW cur \in Threads \union {NULL}, NEW next \in Threads, NEW cx,
         OwnContexts(cx), cur # NULL => cpu = cur, swapcontext(cur, next, cx)
  PROVE  OwnContexts(ctx') /\ cpu' = next
  BY NullAssumption DEF OwnContexts, swapcontext

\* A yield whose caller is current, or that has no current thread, neither
\* loses nor duplicates a thread and runs the front of the queues.
LEMMA YieldFacts ==
  ASSUME TypeOK,
         NEW q1, NEW q2, NEW cur \in Threads \union {NULL},
         NEW st \in [Threads -> States], NEW cx,
         Consistent(q1, q2, st),
         OwnContexts(cx),
         cur # NULL => cpu = cur,
         q1 = <<>> /\ q2 = <<>> => cur = NULL,
         my_pthread_yield(q1, q2, cur, st, cx)
  PROVE  Dispatched(st)
  <1> DEFINE front == peekEither(q1, q2)
  <1>1. CASE YieldNoThreads(q1, q2, cur, st, cx)
    BY <1>1 DEF YieldNoThreads, Dispatched, TypeOK, peekEither, peek
  <1>2. CASE YieldToFront(q1, q2, cur, st, cx)
    <2>1. /\ front # NULL
          /\ queue_priority_1' = q1
          /\ queue_priority_2' = q2
          /\ current' = front
          /\ state' = st
          /\ armed' = FALSE
          /\ swapcontext(cur, front, cx)
      BY <1>2 DEF YieldToFront, setitimer
    <2>2. front \in Threads
      BY <2>1, FrontFacts
    <2>3. OwnContexts(ctx') /\ cpu' = front
      BY <2>1, <2>2, SwitchFacts
    <2> QED
      BY <2>1, <2>2, <2>3 DEF Dispatched
  <1>3. CASE YieldRotate(q1, q2, cur, st, cx)
    <2> DEFINE rest1 == dequeue(q1)
               rest2 == IF q1 # <<>> THEN q2 ELSE dequeue(q2)
               back  == enqueue(front, rest2)
               next  == peekEither(rest1, back)
    <2>1. front # NULL /\ cur = front /\ front \in Threads /\ st[front] = "ACTIVE"
      BY <1>3, FrontFacts DEF YieldRotate
    <2>2. /\ queue_priority_1' = rest1
          /\ queue_priority_2' = back
          /\ current' = next
          /\ state' = [st EXCEPT ![next] = "ACTIVE"]
          /\ swapcontext(cur, next, cx)
      BY <1>3, <2>1 DEF YieldRotate
    <2>3. armed' \in BOOLEAN
      BY <1>3 DEF YieldRotate, setitimer, TypeOK
    \* What is left when the front is taken out.
    <2>4. /\ rest1 \in Seq(Threads)
          /\ rest2 \in Seq(Threads)
          /\ IsInjective(rest1)
          /\ IsInjective(rest2)
          /\ Range(rest1) \intersect Range(rest2) = {}
          /\ Range(rest1) \union Range(rest2)
               = (Range(q1) \union Range(q2)) \ {front}
      BY <2>1, TakeFrontFacts
    <2>5. /\ back \in Seq(Threads)
          /\ back # <<>>
          /\ Range(back) = Range(rest2) \union {front}
          /\ IsInjective(back)
      <3>1. /\ front \notin Range(rest2)
            /\ front \in Threads
            /\ rest2 \in Seq(Threads)
            /\ IsInjective(rest2)
        BY <2>1, <2>4
      <3> HIDE DEF rest2, front
      <3> QED
        BY <3>1, EnqueueThread
    <2>6. Consistent(rest1, back, st)
      BY <2>1, <2>4, <2>5, RangeOfQueue DEF Consistent
    <2>7. next \in Threads /\ st[next] = "ACTIVE" /\ next # NULL
      BY <2>5, <2>6, FrontFacts
    <2>8. state' = st
      BY <2>2, <2>7
    <2>9. OwnContexts(ctx') /\ cpu' = next
      BY <2>1, <2>2, <2>7, SwitchFacts
    <2> QED
      BY <2>2, <2>3, <2>6, <2>7, <2>8, <2>9 DEF Dispatched
  <1> QED
    BY <1>1, <1>2, <1>3 DEF my_pthread_yield

\* The thread that runs after a yield has an id that was handed out.
LEMMA DispatchedIsBorn ==
  ASSUME TypeOK, TypeOK', cpu < threadIDS, threadIDS' >= threadIDS,
         NEW st, Dispatched(st),
         \A t \in Threads : t >= threadIDS' => state'[t] = "UNBORN"
  PROVE  cpu' < threadIDS'
  <1>1. CASE current' = NULL
    BY <1>1 DEF Dispatched, TypeOK, Threads
  <1>2. CASE current' # NULL
    <2>1. cpu' \in Threads /\ state'[cpu'] = "ACTIVE"
      BY <1>2, FrontFacts DEF Dispatched
    <2>2. ~(cpu' >= threadIDS')
      BY <2>1
    <2> QED
      BY <2>1, <2>2 DEF TypeOK, Threads
  <1> QED
    BY <1>1, <1>2

-----------------------------------------------------------------------------
(* The inductive invariant.                                                *)

\* Ids are handed out in order, and main gets its descriptor with the first
\* my_pthread_create.
Lifecycle ==
  /\ \A t \in Threads : t >= threadIDS => state[t] = "UNBORN"
  /\ \A t \in 1..(threadIDS - 1) : state[t] # "UNBORN"
  /\ cpu < threadIDS
  /\ ~isInitialized => /\ current = NULL
                       /\ cpu = Main
                       /\ state[Main] = "UNBORN"

\* A completed thread's descriptor keeps the value it exited with.
ExitRecorded ==
  \A t \in Threads : state[t] = "COMPLETED" /\ passed[t] # NULL
                       => return_value[t] = passed[t]

SchedulerInvariant ==
  /\ TypeOK
  /\ Consistent(queue_priority_1, queue_priority_2, state)
  /\ RunningIsFront
  /\ OwnContexts(ctx)
  /\ Lifecycle
  /\ ExitCompletesCaller
  /\ JoinTargetIsLive
  /\ ExitRecorded
  /\ JoinPassesBack

\* The queues' part of the invariant is NoLostThreads.
LEMMA ConsistentIsNoLostThreads ==
  TypeOK => (Consistent(queue_priority_1, queue_priority_2, state)
               <=> NoLostThreads)
  BY DEF TypeOK, Consistent, NoLostThreads, Queued

LEMMA InitEstablishes == Init => SchedulerInvariant
  <1> SUFFICES ASSUME Init PROVE SchedulerInvariant
    OBVIOUS
  <1>1. Main \in Threads /\ NULL \notin Threads
    BY MaxThreadsAssumption, NullAssumption DEF Main, Threads
  <1>2. TypeOK
    <2>1. queue_priority_1 \in Seq(Threads) /\ queue_priority_2 \in Seq(Threads)
      BY EmptyQueue DEF Init
    <2>2. threadIDS \in 1..MaxThreads
      BY MaxThreadsAssumption DEF Init
    <2>3. /\ state \in [Threads -> {"UNBORN", "ACTIVE", "COMPLETED", "FREED"}]
          /\ at \in [Threads -> {"unborn", "user", "join", "exited"}]
          /\ ctx \in [Threads -> Threads]
      BY DEF Init
    <2>4. /\ return_value \in [Threads -> Pointers]
          /\ passed \in [Threads -> Pointers]
          /\ delivered \in [Threads -> Pointers]
          /\ target \in [Threads -> Threads \union {NULL}]
      BY DEF Init, Pointers
    <2> QED
      BY <1>1, <2>1, <2>2, <2>3, <2>4 DEF Init, TypeOK
  <1>3. Consistent(queue_priority_1, queue_priority_2, state)
    BY EmptyQueue DEF Init, Consistent
  <1>4. RunningIsFront
    BY DEF Init, RunningIsFront, peekEither, peek
  <1>5. OwnContexts(ctx)
    BY DEF Init, OwnContexts
  <1>6. Lifecycle
    BY <1>1, MaxThreadsAssumption DEF Init, Lifecycle, Threads, Main
  <1>7. ExitCompletesCaller /\ JoinTargetIsLive /\ ExitRecorded /\ JoinPassesBack
    BY DEF Init, ExitCompletesCaller, JoinTargetIsLive, ExitRecorded,
           JoinPassesBack
  <1> QED
    BY <1>2, <1>3, <1>4, <1>5, <1>6, <1>7 DEF SchedulerInvariant

\* A call of my_pthread_yield that changes nothing else, by the thread itself,
\* by the timer's handler or from a join.
LEMMA YieldPreserves ==
  ASSUME SchedulerInvariant, Yield
  PROVE  SchedulerInvariant' /\ state' = state
  <1> USE DEF SchedulerInvariant
  <1>1. /\ my_pthread_yield(queue_priority_1, queue_priority_2, current, state,
                            ctx)
        /\ UNCHANGED <<threadIDS, isInitialized, return_value, at, target, proc,
                       passed, delivered>>
    BY DEF Yield
  <1>2. queue_priority_1 = <<>> /\ queue_priority_2 = <<>> => current = NULL
    BY DEF RunningIsFront, peekEither, peek
  <1>3. Dispatched(state)
    <2>1. state \in [Threads -> States] /\ current \in Threads \union {NULL}
      BY DEF TypeOK, States
    <2>2. current # NULL => cpu = current
      BY DEF RunningIsFront
    <2> QED
      BY <1>1, <1>2, <2>1, <2>2, YieldFacts
  <1>4. state' = state
    BY <1>3 DEF Dispatched
  <1>5. /\ Consistent(queue_priority_1, queue_priority_2, state)'
        /\ RunningIsFront'
        /\ OwnContexts(ctx)'
    BY <1>3 DEF Dispatched, RunningIsFront, Consistent, OwnContexts, peekEither,
                peek
  <1>6. current' \in Threads \union {NULL}
    BY <1>5, FrontFacts DEF RunningIsFront
  <1>7. TypeOK'
    BY <1>1, <1>3, <1>4, <1>6 DEF TypeOK, Dispatched, Consistent, OwnContexts
  \* Before the first create nothing is queued and main keeps running.
  <1>8. Lifecycle'
    <2>1. CASE isInitialized
      <3>1. threadIDS' = threadIDS /\ threadIDS' >= threadIDS
        BY <1>1 DEF TypeOK
      <3>2. \A t \in Threads : t >= threadIDS' => state'[t] = "UNBORN"
        BY <1>4, <3>1 DEF Lifecycle
      <3>3. cpu' < threadIDS'
        BY <1>3, <1>7, <3>1, <3>2, DispatchedIsBorn DEF Lifecycle
      <3> QED
        BY <1>1, <1>4, <2>1, <3>3 DEF Lifecycle
    <2>2. CASE ~isInitialized
      <3>1. queue_priority_1 = <<>> /\ queue_priority_2 = <<>>
        BY <2>2, FrontFacts DEF Lifecycle, RunningIsFront
      <3>2. YieldNoThreads(queue_priority_1, queue_priority_2, current, state,
                           ctx)
        BY <1>1, <3>1 DEF my_pthread_yield, YieldToFront, YieldRotate,
                          peekEither, peek
      <3> QED
        BY <1>1, <1>4, <2>2, <3>2 DEF Lifecycle, YieldNoThreads
    <2> QED
      BY <2>1, <2>2
  <1>9. ExitCompletesCaller' /\ JoinTargetIsLive' /\ ExitRecorded' /\ JoinPassesBack'
    BY <1>1, <1>4 DEF ExitCompletesCaller, JoinTargetIsLive, ExitRecorded,
                      JoinPassesBack
  <1> QED
    BY <1>4, <1>5, <1>7, <1>8, <1>9

\* The states and the first queue my_pthread_create hands to my_pthread_yield.
CreatedStates(new) ==
  LET st == [state EXCEPT ![new] = "ACTIVE"]
  IN  IF isInitialized THEN st ELSE [st EXCEPT ![Main] = "ACTIVE"]

CreatedQueue(new) ==
  LET q == enqueue(new, queue_priority_1)
  IN  IF isInitialized THEN q ELSE enqueue(Main, q)

\* They are consistent, and the new descriptor was not in use.
LEMMA CreatesConsistent ==
  ASSUME SchedulerInvariant, NEW new \in Threads,
         new = threadIDS \/ state[new] = "FREED"
  PROVE  /\ state[new] \in {"UNBORN", "FREED"}
         /\ CreatedStates(new) \in [Threads -> States]
         /\ \A t \in Threads :
              CreatedStates(new)[t] =
                IF t = new \/ (t = Main /\ ~isInitialized) THEN "ACTIVE"
                ELSE state[t]
         /\ Consistent(CreatedQueue(new), queue_priority_2, CreatedStates(new))
         /\ CreatedQueue(new) # <<>>
  <1> USE DEF SchedulerInvariant
  <1> DEFINE st  == [state EXCEPT ![new] = "ACTIVE"]
             st0 == IF isInitialized THEN st ELSE [st EXCEPT ![Main] = "ACTIVE"]
             q   == enqueue(new, queue_priority_1)
             q0  == IF isInitialized THEN q ELSE enqueue(Main, q)
  <1>1. Main \in Threads /\ NULL \notin Threads
    BY MaxThreadsAssumption, NullAssumption DEF Threads, Main
  <1>2. /\ state[new] \in {"UNBORN", "FREED"}
        /\ ~isInitialized => new # Main
    <2>1. CASE new = threadIDS
      BY <2>1 DEF Lifecycle, TypeOK, Threads, Main
    <2>2. CASE state[new] = "FREED"
      BY <2>2 DEF Lifecycle
    <2> QED
      BY <2>1, <2>2
  <1>3. new \notin Range(queue_priority_1) /\ new \notin Range(queue_priority_2)
    BY <1>2 DEF Consistent
  <1>4. /\ st0 \in [Threads -> States]
        /\ \A t \in Threads :
             st0[t] = IF t = new \/ (t = Main /\ ~isInitialized) THEN "ACTIVE"
                      ELSE state[t]
    BY <1>1 DEF TypeOK, States
  <1>5. Consistent(q0, queue_priority_2, st0) /\ q0 # <<>>
    <2>1. /\ q \in Seq(Threads)
          /\ q # <<>>
          /\ Range(q) = Range(queue_priority_1) \union {new}
          /\ IsInjective(q)
      BY <1>3, EnqueueThread DEF Consistent
    <2>2. CASE isInitialized
      BY <1>3, <1>4, <2>1, <2>2 DEF Consistent
    <2>3. CASE ~isInitialized
      <3>1. Main \notin Range(queue_priority_1) /\ Main \notin Range(queue_priority_2)
        BY <1>1, <2>3 DEF Lifecycle, Consistent
      <3>2. Main \notin Range(q)
        BY <1>2, <2>1, <2>3, <3>1
      <3>3. /\ q0 \in Seq(Threads)
            /\ q0 # <<>>
            /\ Range(q0) = Range(q) \union {Main}
            /\ IsInjective(q0)
        <4> HIDE DEF q
        <4> QED
          BY <1>1, <2>1, <2>3, <3>2, EnqueueThread
      <3>4. Range(q0) = Range(queue_priority_1) \union {new, Main}
        BY <2>1, <3>3
      <3>5. \A t \in Threads : t \in Range(q0) \union Range(queue_priority_2)
                                <=> st0[t] = "ACTIVE"
        <4> HIDE DEF q0, st0
        <4> QED
          BY <1>4, <2>3, <3>4 DEF Consistent
      <3> QED
        BY <1>3, <3>1, <3>3, <3>4, <3>5 DEF Consistent
    <2> QED
      BY <2>2, <2>3
  <1> QED
    BY <1>2, <1>4, <1>5 DEF CreatedStates, CreatedQueue

\* my_pthread_create: the new thread, and at the first call main, join the
\* first queue under ids that are in neither queue.
LEMMA CreatePreserves ==
  ASSUME SchedulerInvariant, NEW new \in Threads, NEW garbage \in Pointers,
         my_pthread_create(new, garbage)
  PROVE  /\ SchedulerInvariant'
         /\ \A t \in Threads \ {new} : state[t] # "UNBORN" => state'[t] = state[t]
         /\ state[new] # "COMPLETED"
  <1> USE DEF SchedulerInvariant
  <1> DEFINE st  == [state EXCEPT ![new] = "ACTIVE"]
             st0 == IF isInitialized THEN st ELSE [st EXCEPT ![Main] = "ACTIVE"]
             q   == enqueue(new, queue_priority_1)
             q0  == IF isInitialized THEN q ELSE enqueue(Main, q)
             cx  == [ctx EXCEPT ![new] = new]
             cx0 == IF isInitialized THEN cx ELSE [cx EXCEPT ![Main] = cpu]
             cur == IF isInitialized THEN current ELSE Main
  <1>1. /\ Running("user")
        /\ new = threadIDS \/ state[new] = "FREED"
        /\ threadIDS' = IF new = threadIDS THEN threadIDS + 1 ELSE threadIDS
        /\ return_value' = [return_value EXCEPT ![new] = garbage]
        /\ at' = [at EXCEPT ![new] = "user"]
        /\ isInitialized' = TRUE
        /\ my_pthread_yield(q0, queue_priority_2, cur, st0, cx0)
        /\ UNCHANGED <<target, proc, passed, delivered>>
    BY DEF my_pthread_create, NextThreadID
  <1>0. st0 = CreatedStates(new) /\ q0 = CreatedQueue(new)
    BY DEF CreatedStates, CreatedQueue
  <1>2. Main \in Threads /\ NULL \notin Threads
    BY MaxThreadsAssumption, NullAssumption DEF Threads, Main
  <1>3. state[new] \in {"UNBORN", "FREED"}
    BY <1>1, CreatesConsistent
  <1>4. /\ st0 \in [Threads -> States]
        /\ \A t \in Threads :
             st0[t] = IF t = new \/ (t = Main /\ ~isInitialized) THEN "ACTIVE"
                      ELSE state[t]
    <2> HIDE DEF st0
    <2> QED
      BY <1>0, <1>1, CreatesConsistent
  <1>5. Consistent(q0, queue_priority_2, st0) /\ q0 # <<>>
    <2> HIDE DEF st0, q0
    <2> QED
      BY <1>0, <1>1, CreatesConsistent
  <1>6. OwnContexts(cx0)
    BY <1>2 DEF OwnContexts, Lifecycle
  <1>7. cur \in Threads \union {NULL} /\ (cur # NULL => cpu = cur)
    BY <1>2 DEF TypeOK, RunningIsFront, Lifecycle
  <1>8. Dispatched(st0)
    <2> HIDE DEF st0, q0, cx0, cur
    <2> QED
      BY <1>1, <1>4, <1>5, <1>6, <1>7, YieldFacts
  <1>9. state' = st0
    BY <1>8 DEF Dispatched
  <1>10. /\ Consistent(queue_priority_1, queue_priority_2, state)'
         /\ RunningIsFront'
         /\ OwnContexts(ctx)'
    BY <1>8 DEF Dispatched, RunningIsFront, Consistent, OwnContexts, peekEither,
                peek
  <1>11. current' \in Threads \union {NULL}
    BY <1>10, FrontFacts DEF RunningIsFront
  <1>12. TypeOK'
    <2>1. threadIDS' \in 1..MaxThreads
      BY <1>1, MaxThreadsAssumption DEF TypeOK, Threads
    <2>2. state' \in [Threads -> {"UNBORN", "ACTIVE", "COMPLETED", "FREED"}]
      BY <1>4, <1>9 DEF States
    <2> QED
      BY <1>1, <1>8, <1>11, <2>1, <2>2
         DEF TypeOK, Dispatched, Consistent, OwnContexts
  <1> HIDE DEF st0
  <1>13. Lifecycle'
    <2>1. threadIDS \in Nat /\ threadIDS >= 1 /\ Main = 0
      BY DEF TypeOK, Main
    <2>2. threadIDS' \in 1..MaxThreads /\ threadIDS' >= threadIDS
      BY <1>1, <2>1, MaxThreadsAssumption DEF TypeOK, Threads
    <2>3. \A t \in Threads : t >= threadIDS' => state'[t] = "UNBORN"
      <3> SUFFICES ASSUME NEW t \in Threads, t >= threadIDS'
                   PROVE  state'[t] = "UNBORN"
        OBVIOUS
      <3>1. t # Main /\ t >= threadIDS /\ state[t] = "UNBORN"
        BY <2>1, <2>2 DEF Threads, Lifecycle
      <3>2. t # new
        BY <1>1, <2>1, <3>1 DEF Threads
      <3> QED
        BY <1>4, <1>9, <3>1, <3>2
    <2>4. \A t \in 1..(threadIDS' - 1) : state'[t] # "UNBORN"
      <3>1. \A t \in 1..threadIDS : t = threadIDS \/ t \in 1..(threadIDS - 1)
        BY <2>1
      <3>2. threadIDS' - 1 = IF new = threadIDS THEN threadIDS ELSE threadIDS - 1
        BY <1>1, <2>1
      <3>3. \A t \in 1..(threadIDS' - 1) : t = new \/ t \in 1..(threadIDS - 1)
        BY <3>1, <3>2
      <3>4. 1..(threadIDS - 1) \subseteq Threads
        BY MaxThreadsAssumption DEF TypeOK, Threads
      <3> QED
        BY <1>4, <1>9, <3>3, <3>4 DEF Lifecycle
    <2>5. cpu' < threadIDS'
      BY <1>8, <1>12, <2>2, <2>3, DispatchedIsBorn DEF Lifecycle
    <2> QED
      BY <1>1, <2>3, <2>4, <2>5 DEF Lifecycle
  <1>14. \A t \in Threads : state'[t] # state[t] => state'[t] = "ACTIVE"
    BY <1>4, <1>9
  <1>15. /\ state'[new] = "ACTIVE"
         /\ \A t \in Threads \ {new} : state[t] # "UNBORN" => state'[t] = state[t]
         /\ \A t \in Threads \ {new} : state'[t] = state[t]
                                        \/ (state[t] = "UNBORN" /\ state'[t] = "ACTIVE")
    BY <1>4, <1>9 DEF Lifecycle
  <1>16. ExitCompletesCaller'
    BY <1>1, <1>15 DEF ExitCompletesCaller, TypeOK
  <1>17. JoinTargetIsLive'
    BY <1>1, <1>14 DEF JoinTargetIsLive, TypeOK
  <1>18. ExitRecorded' /\ JoinPassesBack'
    BY <1>1, <1>15 DEF ExitRecorded, JoinPassesBack, TypeOK
  <1> QED
    BY <1>3, <1>10, <1>12, <1>13, <1>15, <1>16, <1>17, <1>18

\* my_pthread_exit: the caller is at the front, so that it is the thread
\* removed and marked, and the value lands in its own descriptor.
LEMMA ExitPreserves ==
  ASSUME SchedulerInvariant, NEW value_ptr \in Pointers,
         my_pthread_exit(value_ptr)
  PROVE  /\ SchedulerInvariant'
         /\ \A t \in Threads : state[t] # "ACTIVE" => state'[t] = state[t]
  <1> USE DEF SchedulerInvariant
  <1> DEFINE rest1 == dequeue(queue_priority_1)
             rest2 == IF queue_priority_1 # <<>> THEN queue_priority_2
                      ELSE dequeue(queue_priority_2)
             st    == [state EXCEPT ![cpu] = "COMPLETED"]
  <1>1. cpu = current /\ current \in Threads /\ current # NULL /\ NULL \notin Threads
    BY NullAssumption DEF my_pthread_exit, RunningIsFront, TypeOK, Threads
  <1>2. /\ queue_priority_1 # <<>> => peek(queue_priority_1) = current
        /\ queue_priority_1 = <<>> => /\ peek(queue_priority_1) # current
                                     /\ peek(queue_priority_2) = current
    BY <1>1 DEF RunningIsFront, peekEither, peek
  <1>3. ExitRemoves = cpu
    BY <1>1, <1>2 DEF ExitRemoves
  <1>4. /\ Running("user")
        /\ return_value' = IF value_ptr = NULL THEN return_value
                           ELSE [return_value EXCEPT ![cpu] = value_ptr]
        /\ at' = [at EXCEPT ![cpu] = "exited"]
        /\ passed' = [passed EXCEPT ![cpu] = value_ptr]
        /\ UNCHANGED <<threadIDS, isInitialized, target, proc, delivered>>
    BY <1>3 DEF my_pthread_exit, StoreReturnValue
  <1>5. my_pthread_yield(rest1, rest2, NULL, st, ctx)
    <2>1. CASE queue_priority_1 # <<>>
      BY <1>2, <1>3, <2>1 DEF my_pthread_exit, Complete
    <2>2. CASE queue_priority_1 = <<>>
      <3>1. rest1 = queue_priority_1
        BY <2>2 DEF dequeue
      <3> QED
        BY <1>2, <1>3, <2>2, <3>1 DEF my_pthread_exit, Complete
    <2> QED
      BY <2>1, <2>2
  <1>6. Consistent(rest1, rest2, st)
    <2>1. peekEither(queue_priority_1, queue_priority_2) = cpu
      BY <1>1 DEF RunningIsFront
    <2>2. /\ rest1 \in Seq(Threads)
          /\ rest2 \in Seq(Threads)
          /\ IsInjective(rest1)
          /\ IsInjective(rest2)
          /\ Range(rest1) \intersect Range(rest2) = {}
          /\ Range(rest1) \union Range(rest2)
               = (Range(queue_priority_1) \union Range(queue_priority_2)) \ {cpu}
      BY <1>1, <2>1, TakeFrontFacts
    <2> HIDE DEF rest1, rest2
    <2>3. \A t \in Threads : st[t] = IF t = cpu THEN "COMPLETED" ELSE state[t]
      BY DEF TypeOK
    <2> QED
      BY <2>2, <2>3 DEF Consistent
  <1>7. st \in [Threads -> States]
    BY DEF TypeOK, States
  <1>8. Dispatched(st)
    <2> HIDE DEF rest1, rest2, st
    <2> QED
      BY <1>5, <1>6, <1>7, YieldFacts
  <1>9. state' = st
    BY <1>8 DEF Dispatched
  <1>10. /\ Consistent(queue_priority_1, queue_priority_2, state)'
         /\ RunningIsFront'
         /\ OwnContexts(ctx)'
    BY <1>8 DEF Dispatched, RunningIsFront, Consistent, OwnContexts, peekEither,
                peek
  <1>11. current' \in Threads \union {NULL}
    BY <1>10, FrontFacts DEF RunningIsFront
  <1>12. TypeOK'
    <2>1. return_value' \in [Threads -> Pointers]
      BY <1>4 DEF TypeOK
    <2>2. passed' \in [Threads -> Pointers]
      BY <1>4 DEF TypeOK
    <2>3. at' \in [Threads -> {"unborn", "user", "join", "exited"}]
      BY <1>4 DEF TypeOK
    <2> QED
      BY <1>4, <1>7, <1>8, <1>9, <1>11, <2>1, <2>2, <2>3
         DEF TypeOK, Dispatched, Consistent, OwnContexts, States
  <1>13. at[cpu] = "user" /\ state[cpu] = "ACTIVE"
    BY <1>1, <1>4, FrontFacts DEF Running, RunningIsFront
  <1>14. isInitialized
    BY <1>1 DEF Lifecycle
  <1>15. Lifecycle'
    <2>1. \A t \in Threads : state'[t] = "UNBORN" <=> state[t] = "UNBORN"
      BY <1>9, <1>13 DEF TypeOK
    <2>2. \A t \in 1..(threadIDS - 1) : t \in Threads
      BY MaxThreadsAssumption DEF TypeOK, Threads
    <2>3. \A t \in Threads : t >= threadIDS' => state'[t] = "UNBORN"
      BY <1>4, <2>1 DEF Lifecycle
    <2>4. threadIDS' = threadIDS /\ threadIDS' >= threadIDS
      BY <1>4 DEF TypeOK
    <2>5. cpu' < threadIDS'
      BY <1>8, <1>12, <2>3, <2>4, DispatchedIsBorn DEF Lifecycle
    <2> QED
      BY <1>4, <1>14, <2>1, <2>2, <2>5 DEF Lifecycle
  <1>16. ExitCompletesCaller'
    BY <1>4, <1>9 DEF ExitCompletesCaller, TypeOK
  <1>17. JoinTargetIsLive'
    BY <1>4, <1>9, <1>13 DEF JoinTargetIsLive, TypeOK
  <1>18. ExitRecorded' /\ JoinPassesBack'
    BY <1>4, <1>9, <1>13 DEF ExitRecorded, JoinPassesBack, TypeOK
  <1>19. \A t \in Threads : state[t] # "ACTIVE" => state'[t] = state[t]
    BY <1>9, <1>13 DEF TypeOK
  <1> QED
    BY <1>10, <1>12, <1>15, <1>16, <1>17, <1>18, <1>19

\* Facts that only depend on the queues, current, cpu and the contexts.
LEMMA SameDispatch ==
  ASSUME SchedulerInvariant,
         UNCHANGED <<queues, current, cpu, ctx>>,
         \A t \in Threads : state'[t] = "ACTIVE" <=> state[t] = "ACTIVE"
  PROVE  /\ Consistent(queue_priority_1, queue_priority_2, state)'
         /\ RunningIsFront'
         /\ OwnContexts(ctx)'
  BY DEF SchedulerInvariant, queues, Consistent, RunningIsFront, OwnContexts,
         peekEither, peek

LEMMA JoinCallPreserves ==
  ASSUME SchedulerInvariant, NEW u \in Threads, JoinCall(u)
  PROVE  SchedulerInvariant'
  <1> USE DEF SchedulerInvariant
  <1>1. /\ Running("user")
        /\ u \in 1..(threadIDS - 1)
        /\ state[u] # "FREED"
        /\ \A t \in Threads : target[t] # u
        /\ at' = [at EXCEPT ![cpu] = "join"]
        /\ target' = [target EXCEPT ![cpu] = u]
        /\ UNCHANGED <<queues, current, threadIDS, isInitialized, armed, state,
                       return_value, ctx, cpu, proc, passed, delivered>>
    BY DEF JoinCall
  <1>2. /\ Consistent(queue_priority_1, queue_priority_2, state)'
        /\ RunningIsFront'
        /\ OwnContexts(ctx)'
    BY <1>1, SameDispatch
  <1>3. TypeOK'
    BY <1>1 DEF TypeOK, queues
  <1>4. Lifecycle' /\ ExitRecorded' /\ JoinPassesBack'
    BY <1>1 DEF Lifecycle, ExitRecorded, JoinPassesBack
  <1>5. ExitCompletesCaller'
    BY <1>1 DEF ExitCompletesCaller, Running, TypeOK
  <1>6. state[u] \in {"ACTIVE", "COMPLETED"} /\ u # NULL
    BY <1>1, NullAssumption DEF Lifecycle, TypeOK, Threads
  <1>7. JoinTargetIsLive'
    BY <1>1, <1>6 DEF JoinTargetIsLive, TypeOK
  <1> QED
    BY <1>2, <1>3, <1>4, <1>5, <1>7

\* my_pthread_join's end: the descriptor it frees is nobody else's target.
LEMMA JoinReturnPreserves ==
  ASSUME SchedulerInvariant, JoinReturn
  PROVE  SchedulerInvariant'
  <1> USE DEF SchedulerInvariant
  <1> DEFINE u == target[cpu]
  <1>1. /\ Running("join")
        /\ state[u] = "COMPLETED"
        /\ delivered' = [delivered EXCEPT ![u] = return_value[u]]
        /\ state' = [state EXCEPT ![u] = "FREED"]
        /\ at' = [at EXCEPT ![cpu] = "user"]
        /\ target' = [target EXCEPT ![cpu] = NULL]
        /\ UNCHANGED <<queues, current, threadIDS, isInitialized, armed,
                       return_value, ctx, cpu, proc, passed>>
    BY DEF JoinReturn
  <1>2. u \in Threads /\ cpu \in Threads /\ at[cpu] = "join"
    BY <1>1 DEF Running, JoinTargetIsLive, TypeOK
  <1>3. \A t \in Threads : state'[t] = IF t = u THEN "FREED" ELSE state[t]
    BY <1>1 DEF TypeOK
  <1>4. /\ Consistent(queue_priority_1, queue_priority_2, state)'
        /\ RunningIsFront'
        /\ OwnContexts(ctx)'
    BY <1>1, <1>3, SameDispatch
  <1>5. TypeOK'
    BY <1>1, <1>2 DEF TypeOK, queues
  <1>6. Lifecycle'
    <2>1. \A t \in Threads : state'[t] = "UNBORN" <=> state[t] = "UNBORN"
      BY <1>1, <1>3
    <2>2. \A t \in 1..(threadIDS - 1) : t \in Threads
      BY MaxThreadsAssumption DEF TypeOK, Threads
    <2>3. Main \in Threads
      BY MaxThreadsAssumption DEF Threads, Main
    <2> QED
      BY <1>1, <2>1, <2>2, <2>3 DEF Lifecycle
  <1>7. ExitCompletesCaller'
    BY <1>1, <1>2, <1>3 DEF ExitCompletesCaller, TypeOK
  <1>8. JoinTargetIsLive'
    BY <1>1, <1>2, <1>3 DEF JoinTargetIsLive, TypeOK
  <1>9. ExitRecorded' /\ JoinPassesBack'
    BY <1>1, <1>2, <1>3 DEF ExitRecorded, JoinPassesBack, TypeOK
  <1> QED
    BY <1>4, <1>5, <1>6, <1>7, <1>8, <1>9

\* The end of the process leaves the library's state as it is.
LEMMA EndPreserves ==
  ASSUME SchedulerInvariant,
         UNCHANGED <<queues, current, threadIDS, isInitialized, armed, state,
                     return_value, ctx, cpu, at, target, passed, delivered>>,
         proc' \in {"up", "ended", "crashed"}
  PROVE  SchedulerInvariant'
  <1> USE DEF SchedulerInvariant
  <1>1. /\ Consistent(queue_priority_1, queue_priority_2, state)'
        /\ RunningIsFront'
        /\ OwnContexts(ctx)'
    BY SameDispatch
  <1>2. TypeOK'
    BY DEF TypeOK, queues
  <1>3. /\ Lifecycle' /\ ExitCompletesCaller' /\ JoinTargetIsLive'
        /\ ExitRecorded' /\ JoinPassesBack'
    BY DEF Lifecycle, ExitCompletesCaller, JoinTargetIsLive, ExitRecorded,
           JoinPassesBack
  <1> QED
    BY <1>1, <1>2, <1>3

-----------------------------------------------------------------------------
(* The theorems.                                                           *)

LEMMA NextPreserves == SchedulerInvariant /\ [Next]_vars => SchedulerInvariant'
  <1> SUFFICES ASSUME SchedulerInvariant, [Next]_vars
               PROVE  SchedulerInvariant'
    OBVIOUS
  <1>1. ASSUME NEW new \in Threads, NEW garbage \in Pointers,
               my_pthread_create(new, garbage)
        PROVE  SchedulerInvariant'
    BY <1>1, CreatePreserves
  <1>2. CASE VoluntaryYield \/ timer_handler \/ JoinSpin
    BY <1>2, YieldPreserves DEF VoluntaryYield, timer_handler, JoinSpin
  <1>3. ASSUME NEW value_ptr \in Pointers, my_pthread_exit(value_ptr)
        PROVE  SchedulerInvariant'
    BY <1>3, ExitPreserves
  <1>4. CASE ExitWithoutCurrent \/ ReturnFromFunction
    BY <1>4, EndPreserves DEF ExitWithoutCurrent, ReturnFromFunction
  <1>5. ASSUME NEW u \in Threads, JoinCall(u)
        PROVE  SchedulerInvariant'
    BY <1>5, JoinCallPreserves
  <1>6. CASE JoinReturn
    BY <1>6, JoinReturnPreserves
  <1>7. CASE Terminated \/ UNCHANGED vars
    <2>1. UNCHANGED vars
      BY <1>7 DEF Terminated
    <2>2. proc' \in {"up", "ended", "crashed"}
      BY <2>1 DEF vars, SchedulerInvariant, TypeOK
    <2> QED
      BY <2>1, <2>2, EndPreserves DEF vars, queues
  <1> QED
    BY <1>1, <1>2, <1>3, <1>4, <1>5, <1>6, <1>7 DEF Next

\* Every call and every timer signal between calls keeps the invariant.
THEOREM SchedulerInvariantHolds == Spec => []SchedulerInvariant
  BY InitEstablishes, NextPreserves, PTL DEF Spec

\* Type correctness of the library's state.
THEOREM TypeCorrect == Spec => []TypeOK
  BY SchedulerInvariantHolds, PTL DEF SchedulerInvariant

\* No my_pthread_create, my_pthread_yield, my_pthread_exit, my_pthread_join or
\* timer signal loses or duplicates a thread.
THEOREM ThreadsAreNotLost == Spec => []NoLostThreads
  <1>1. SchedulerInvariant => NoLostThreads
    BY ConsistentIsNoLostThreads DEF SchedulerInvariant
  <1> QED
    BY <1>1, SchedulerInvariantHolds, PTL

\* The executing thread is the one the library calls current, and is at the
\* front of the queues.
THEOREM ExecutingIsFront == Spec => []RunningIsFront
  BY SchedulerInvariantHolds, PTL DEF SchedulerInvariant

\* A queued thread resumes its own execution.
THEOREM ContextsAreKept == Spec => []ContextsIntact
  <1>1. SchedulerInvariant => ContextsIntact
    BY DEF SchedulerInvariant, ContextsIntact, OwnContexts, Queued, Consistent,
           TypeOK, Range
  <1> QED
    BY <1>1, SchedulerInvariantHolds, PTL

\* my_pthread_exit marks its caller's descriptor and nobody else's, although it
\* marks whatever current points to.
THEOREM ExitCompletesItsCaller == Spec => []ExitCompletesCaller
  BY SchedulerInvariantHolds, PTL DEF SchedulerInvariant

\* my_pthread_join polls a descriptor that was created and that nobody else
\* joined and freed.
THEOREM JoinWaitsForLive == Spec => []JoinTargetIsLive
  BY SchedulerInvariantHolds, PTL DEF SchedulerInvariant

\* my_pthread_join hands back the value its target exited with.
THEOREM JoinMeetsExit == Spec => []JoinPassesBack
  BY SchedulerInvariantHolds, PTL DEF SchedulerInvariant

\* A thread that completed is freed by a join, and a freed one made anew by a
\* my_pthread_create; nothing else changes its state.
LEMMA CompletedStays ==
  ASSUME SchedulerInvariant, [Next]_vars, NEW t \in Threads,
         state[t] \in {"COMPLETED", "FREED"}
  PROVE  \/ state'[t] = state[t]
         \/ state[t] = "COMPLETED" /\ state'[t] = "FREED"
         \/ /\ state[t] = "FREED"
            /\ \E garbage \in Pointers : my_pthread_create(t, garbage)
  <1>1. ASSUME NEW new \in Threads, NEW garbage \in Pointers,
               my_pthread_create(new, garbage)
        PROVE  \/ state'[t] = state[t]
               \/ /\ state[t] = "FREED"
                  /\ \E g \in Pointers : my_pthread_create(t, g)
    <2>1. CASE t = new
      <3>1. state[t] # "COMPLETED"
        BY <1>1, <2>1, CreatePreserves
      <3> QED
        BY <1>1, <2>1, <3>1
    <2>2. CASE t # new
      BY <1>1, <2>2, CreatePreserves
    <2> QED
      BY <2>1, <2>2
  <1>2. CASE VoluntaryYield \/ timer_handler \/ JoinSpin
    BY <1>2, YieldPreserves DEF VoluntaryYield, timer_handler, JoinSpin
  <1>3. ASSUME NEW value_ptr \in Pointers, my_pthread_exit(value_ptr)
        PROVE  state'[t] = state[t]
    BY <1>3, ExitPreserves
  <1>4. CASE ExitWithoutCurrent \/ ReturnFromFunction
    BY <1>4 DEF ExitWithoutCurrent, ReturnFromFunction
  <1>5. ASSUME NEW u \in Threads, JoinCall(u)
        PROVE  state'[t] = state[t]
    BY <1>5 DEF JoinCall
  <1>6. CASE JoinReturn
    BY <1>6 DEF JoinReturn, SchedulerInvariant, TypeOK
  <1>7. CASE Terminated \/ UNCHANGED vars
    BY <1>7 DEF Terminated, vars
  <1> QED
    BY <1>1, <1>2, <1>3, <1>4, <1>5, <1>6, <1>7 DEF Next

\* yield's unconditional state = ACTIVE never revives a completed thread: only
\* a join ends its being completed, and only a create makes a thread of it.
THEOREM CompletionIsForever == Spec => CompletionIsFinal
  <1>1. SchedulerInvariant /\ [Next]_vars
          => \A t \in Threads :
               /\ state[t] = "COMPLETED" => state'[t] \in {"COMPLETED", "FREED"}
               /\ state[t] = "FREED" /\ state'[t] # "FREED" =>
                    \E garbage \in Pointers : my_pthread_create(t, garbage)
    <2> SUFFICES ASSUME SchedulerInvariant, [Next]_vars, NEW t \in Threads,
                        state[t] \in {"COMPLETED", "FREED"}
                 PROVE  /\ state[t] = "COMPLETED" =>
                             state'[t] \in {"COMPLETED", "FREED"}
                        /\ state[t] = "FREED" /\ state'[t] # "FREED" =>
                             \E garbage \in Pointers : my_pthread_create(t, garbage)
      OBVIOUS
    <2> QED
      BY CompletedStays
  <1> QED
    BY <1>1, SchedulerInvariantHolds, PTL DEF Spec, CompletionIsFinal

-----------------------------------------------------------------------------
(* The order of the second queue.                                          *)

\* The threads of q but its first keep their order in r.
OrderKept(q, r) ==
  \A i, j \in 2..Len(q) : i < j =>
    \E k, m \in 1..Len(r) :
       /\ k < m
       /\ r[k] = q[i]
       /\ r[m] = q[j]

LEMMA EnqueueKeepsOrder ==
  ASSUME NEW q \in Seq(Threads), NEW r \in Seq(Threads), OrderKept(q, r),
         NEW t \in Threads
  PROVE  OrderKept(q, enqueue(t, r))
  <1>1. /\ Len(enqueue(t, r)) = Len(r) + 1
        /\ \A k \in 1..Len(r) : enqueue(t, r)[k] = r[k]
    BY DEF enqueue
  <1>2. 1..Len(r) \subseteq 1..(Len(r) + 1)
    OBVIOUS
  <1> SUFFICES ASSUME NEW i \in 2..Len(q), NEW j \in 2..Len(q), i < j
               PROVE  \E k, m \in 1..Len(enqueue(t, r)) :
                        /\ k < m
                        /\ enqueue(t, r)[k] = q[i]
                        /\ enqueue(t, r)[m] = q[j]
    BY DEF OrderKept
  <1>3. PICK k, m \in 1..Len(r) : k < m /\ r[k] = q[i] /\ r[m] = q[j]
    BY DEF OrderKept
  <1> HIDE DEF enqueue
  <1>4. /\ k \in 1..Len(enqueue(t, r)) /\ m \in 1..Len(enqueue(t, r))
        /\ enqueue(t, r)[k] = q[i] /\ enqueue(t, r)[m] = q[j]
    BY <1>1, <1>2, <1>3
  <1> QED
    BY <1>3, <1>4

LEMMA QueueKeepsOrder ==
  ASSUME NEW q \in Seq(Threads)
  PROVE  OrderKept(q, q) /\ OrderKept(q, dequeue(q)) /\ dequeue(q) \in Seq(Threads)
  <1>1. OrderKept(q, q)
    BY DEF OrderKept
  <1>2. CASE q = <<>>
    BY <1>1, <1>2 DEF dequeue
  <1>3. CASE q # <<>>
    <2>1. /\ dequeue(q) \in Seq(Threads)
          /\ Len(dequeue(q)) = Len(q) - 1
          /\ \A k \in 1..(Len(q) - 1) : dequeue(q)[k] = q[k + 1]
      BY <1>3 DEF dequeue
    <2>2. ASSUME NEW i \in 2..Len(q), NEW j \in 2..Len(q), i < j
          PROVE  \E k, m \in 1..Len(dequeue(q)) :
                   k < m /\ dequeue(q)[k] = q[i] /\ dequeue(q)[m] = q[j]
      <3>1. /\ i - 1 \in 1..(Len(q) - 1) /\ j - 1 \in 1..(Len(q) - 1)
            /\ i - 1 < j - 1 /\ (i - 1) + 1 = i /\ (j - 1) + 1 = j
        BY <2>2
      <3> QED
        BY <2>1, <3>1
    <2> QED
      BY <1>1, <2>1, <2>2 DEF OrderKept
  <1> QED
    BY <1>2, <1>3

\* What my_pthread_yield does to the queues it is called with: it never adds to
\* the first one and only ever appends to the second.
LEMMA YieldQueues ==
  ASSUME NEW q1, NEW q2, NEW cur, NEW st, NEW cx, Consistent(q1, q2, st),
         my_pthread_yield(q1, q2, cur, st, cx)
  PROVE  /\ Range(queue_priority_1') \subseteq Range(q1)
         /\ OrderKept(q2, queue_priority_2')
         /\ cur = NULL => queue_priority_2' = q2
  <1>1. q1 \in Seq(Threads) /\ q2 \in Seq(Threads)
    BY DEF Consistent
  <1>2. CASE YieldNoThreads(q1, q2, cur, st, cx)
    BY <1>1, <1>2, QueueKeepsOrder DEF YieldNoThreads
  <1>3. CASE YieldToFront(q1, q2, cur, st, cx)
    BY <1>1, <1>3, QueueKeepsOrder DEF YieldToFront
  <1>4. CASE YieldRotate(q1, q2, cur, st, cx)
    <2> DEFINE front == peekEither(q1, q2)
               rest2 == IF q1 # <<>> THEN q2 ELSE dequeue(q2)
    <2>1. /\ front # NULL /\ cur = front
          /\ queue_priority_1' = dequeue(q1)
          /\ queue_priority_2' = IF st[front] = "ACTIVE" THEN enqueue(front, rest2)
                                 ELSE rest2
      BY <1>4 DEF YieldRotate
    <2>2. front \in Threads
      BY <2>1, FrontFacts
    <2>3. OrderKept(q2, rest2) /\ rest2 \in Seq(Threads)
      BY <1>1, QueueKeepsOrder
    <2>4. OrderKept(q2, queue_priority_2')
      <3> HIDE DEF front, rest2
      <3> QED
        BY <1>1, <2>1, <2>2, <2>3, EnqueueKeepsOrder
    <2>5. Range(dequeue(q1)) \subseteq Range(q1)
      BY <1>1, DequeueFacts DEF Consistent, dequeue
    <2> QED
      BY <2>1, <2>4, <2>5
  <1> QED
    BY <1>2, <1>3, <1>4 DEF my_pthread_yield

\* my_pthread_yield, my_pthread_create and my_pthread_exit never put a thread
\* of the second queue back into the first, and keep its order.
THEOREM DemotionIsForGood == Spec => DemotionIsPermanent
  <1>1. ASSUME SchedulerInvariant, [Next]_vars
        PROVE  /\ Range(queue_priority_2) \intersect Range(queue_priority_1') = {}
               /\ OrderKept(queue_priority_2, queue_priority_2')
    <2> USE DEF SchedulerInvariant
    <2>1. /\ queue_priority_1 \in Seq(Threads) /\ queue_priority_2 \in Seq(Threads)
          /\ Range(queue_priority_1) \intersect Range(queue_priority_2) = {}
          /\ IsInjective(queue_priority_1) /\ IsInjective(queue_priority_2)
      BY <1>1 DEF Consistent
    <2>2. ASSUME Yield
          PROVE  /\ Range(queue_priority_1') \subseteq Range(queue_priority_1)
                 /\ OrderKept(queue_priority_2, queue_priority_2')
      BY <1>1, <2>2, YieldQueues DEF Yield
    <2>3. CASE UNCHANGED queues
      BY <2>1, <2>3, QueueKeepsOrder DEF queues
    <2>4. ASSUME NEW new \in Threads, NEW garbage \in Pointers,
                 my_pthread_create(new, garbage)
          PROVE  /\ Range(queue_priority_2) \intersect Range(queue_priority_1') = {}
                 /\ OrderKept(queue_priority_2, queue_priority_2')
      <3> DEFINE st0 == CreatedStates(new)
                 q0  == CreatedQueue(new)
                 cur == IF isInitialized THEN current ELSE Main
      <3>1. PICK cx : my_pthread_yield(q0, queue_priority_2, cur, st0, cx)
        BY <2>4 DEF my_pthread_create, CreatedStates, CreatedQueue
      <3>2. Consistent(q0, queue_priority_2, st0)
        <4>1. new = threadIDS \/ state[new] = "FREED"
          BY <2>4 DEF my_pthread_create
        <4> QED
          BY <1>1, <4>1, CreatesConsistent
      <3>3. Range(q0) \intersect Range(queue_priority_2) = {}
        BY <3>2 DEF Consistent
      <3> HIDE DEF q0, st0, cur
      <3> QED
        BY <3>1, <3>2, <3>3, YieldQueues
    <2>5. ASSUME NEW value_ptr \in Pointers, my_pthread_exit(value_ptr)
          PROVE  /\ Range(queue_priority_2) \intersect Range(queue_priority_1') = {}
                 /\ OrderKept(queue_priority_2, queue_priority_2')
      <3> DEFINE from1 == peek(queue_priority_1) = current
                 q1 == IF from1 THEN dequeue(queue_priority_1) ELSE queue_priority_1
                 q2 == IF from1 THEN queue_priority_2 ELSE dequeue(queue_priority_2)
      <3>1. /\ queue_priority_1' = q1
            /\ queue_priority_2' = q2
        BY <2>5 DEF my_pthread_exit, my_pthread_yield, YieldNoThreads, YieldToFront,
                    YieldRotate
      <3>2. Range(q1) \subseteq Range(queue_priority_1)
        BY <2>1, DequeueFacts DEF dequeue
      <3>3. OrderKept(queue_priority_2, q2)
        BY <2>1, QueueKeepsOrder
      <3> HIDE DEF q1, q2
      <3> QED
        BY <2>1, <3>1, <3>2, <3>3
    <2>6. CASE VoluntaryYield \/ timer_handler \/ JoinSpin
      BY <2>1, <2>2, <2>6 DEF VoluntaryYield, timer_handler, JoinSpin
    <2>7. CASE \/ ExitWithoutCurrent \/ (\E u \in Threads : JoinCall(u))
               \/ JoinReturn \/ ReturnFromFunction \/ Terminated \/ UNCHANGED vars
      BY <2>3, <2>7 DEF ExitWithoutCurrent, JoinCall, JoinReturn,
                        ReturnFromFunction, Terminated, vars, queues
    <2> QED
      BY <1>1, <2>4, <2>5, <2>6, <2>7 DEF Next
  <1>2. SchedulerInvariant /\ [Next]_vars =>
          /\ Range(queue_priority_2) \intersect Range(queue_priority_1') = {}
          /\ \A i, j \in 2..Len(queue_priority_2) : i < j =>
               \E k, m \in 1..Len(queue_priority_2') :
                  /\ k < m
                  /\ queue_priority_2'[k] = queue_priority_2[i]
                  /\ queue_priority_2'[m] = queue_priority_2[j]
    <2> SUFFICES ASSUME SchedulerInvariant, [Next]_vars
                 PROVE  /\ Range(queue_priority_2) \intersect Range(queue_priority_1') = {}
                        /\ OrderKept(queue_priority_2, queue_priority_2')
      BY Zenon DEF OrderKept
    <2> QED
      BY <1>1
  <1> QED
    BY <1>2, SchedulerInvariantHolds, PTL DEF Spec, DemotionIsPermanent

=============================================================================
