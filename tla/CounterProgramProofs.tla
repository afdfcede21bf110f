------------------------ MODULE CounterProgramProofs ------------------------
(***************************************************************************)
(* Proofs about the programs of CounterProgram.  In main.c the count is    *)
(* right, and in a program that fits the paging is clean with large blocks *)
(* too.  When only main allocates past its first page, less is left: what  *)
(* is marked is held by a thread, and the running thread's pages are in    *)
(* their frames.                                                           *)
(***************************************************************************)
EXTENDS PagedThreadsProofs

-----------------------------------------------------------------------------
(* main.c.  A created thread runs until it exits, and main only then.      *)

Newest == threadIDS - 1

Counting == Newest # Main /\ state[Newest] = "ACTIVE"

ProgSched ==
  /\ numThreads \in 1..(MaxThreads - 1)
  /\ threadIDS <= numThreads + 1
  /\ mainEnqueued <=> threadIDS > 1
  /\ state[Main] = "ACTIVE" /\ at[Main] \in {"user", "join"}
  /\ \A t \in Born \ {Main, Newest} : state[t] # "ACTIVE"
  /\ current = IF Counting THEN Newest ELSE Main
  /\ Counting => at[Newest] = "user" /\ NoneFreed
  /\ Counting => \/ queue_priority_1 = <<Newest, Main>> /\ queue_priority_2 = <<>>
                 \/ queue_priority_1 = <<Newest>> /\ queue_priority_2 = <<Main>>
  /\ ~Counting /\ threadIDS > 1 =>
                 \/ queue_priority_1 = <<Main>> /\ queue_priority_2 = <<>>
                 \/ queue_priority_1 = <<>> /\ queue_priority_2 = <<Main>>
  /\ at[Main] = "join" =>
       /\ ~Counting /\ threadIDS = numThreads + 1 /\ pc = "run"
       /\ target[Main] \in 1..numThreads /\ state[target[Main]] = "COMPLETED"
  /\ ~NoneFreed => threadIDS = numThreads + 1 /\ pc = "run"

\* Main allocates before it creates threads, a thread before it counts.
ProgMallocs ==
  /\ malloced \subseteq Born
  /\ threadIDS > 1 => Main \in malloced
  /\ \A t \in Born \ malloced : t = Main \/ (t = Newest /\ Counting)
  /\ pc \in {"tags", "fault"} =>
       /\ current \in malloced
       /\ last = IF current = Main THEN 0 ELSE HalfOfPages
  /\ pc = "out" => temp = Main
  /\ pc \in {"out", "in"} => threadIDS > 1
  /\ pc = "out" \/ (pc = "in" /\ temp # NULL) => Counting /\ Newest \notin malloced
  /\ pc = "in" /\ temp = NULL => ~Counting

\* Nobody waits for the mutex: the thread that takes a ticket is the only one.
Locks ==
  /\ lockPc \in [Threads -> {"outside", "waiting", "inside", "unlocking"}]
  /\ DOMAIN myturn = Threads /\ DOMAIN loaded = Threads
  /\ \A t \in Threads : lockPc[t] # "outside" =>
       /\ t = Newest /\ Counting /\ t \in malloced /\ pc = "run"
       /\ myturn[t] = turn /\ ticket = Mutex!Increment(turn)
       /\ lockPc[t] = "unlocking" => loaded[t] = turn
  /\ (\A t \in Threads : lockPc[t] = "outside") => ticket = turn

\* The rounds that the newest thread has finished.
Rounds == iter[Newest] - IF lockPc[Newest] \in {"waiting", "inside"} THEN 1 ELSE 0

CountInv ==
  /\ iter \in [Threads -> 0..ITER] /\ DOMAIN tmp = Threads
  /\ \A t \in Threads : t \notin malloced => iter[t] = 0
  /\ \A t \in Threads : tmp[t] # NULL => lockPc[t] \in {"inside", "unlocking"}
  /\ \A t \in Threads : tmp[t] # NULL /\ lockPc[t] = "inside" => tmp[t] = c
  /\ Counting => c = ITER * (Newest - 1) + Rounds
  /\ ~Counting => c = ITER * Newest
  /\ proc = "over" => ~Counting /\ threadIDS = numThreads + 1

\* Main keeps to its first page, every other thread has the one block.
ProgData ==
  /\ written[Main] = EndPages
  /\ \A t \in Born \ malloced : written[t] = EndPages
  /\ \A t \in malloced \ {Main} : HalfOfPages \in written[t] \/ (t = current /\ last # 0)

\* Before the first block, no page is in the frame where it will end ...
EarlyFrames ==
  malloced \subseteq {Main} =>
    \A t \in Born : \A k \in PagesOf(t) : pageTables[t][k] # HalfOfPages

\* ... and after it the frame is used for page HalfOfPages only, and accessible.
Blocked == NoneFreed /\ \E t \in malloced \ {Main} : ~(t = current /\ last # 0)

BlockEnd ==
  /\ Blocked => /\ prot[HalfOfPages] /\ masterTable[HalfOfPages] = 1
                /\ \A t \in Born : \A k \in PagesOf(t) :
                      pageTables[t][k] = HalfOfPages => k = HalfOfPages
  /\ last # 0 /\ want # <<>> => prot[HalfOfPages] \/ masterTable[HalfOfPages] = 0
  /\ pc = "fault" => masterTable[HalfOfPages] = 0

ProgInv == client = "counter" => ProgSched /\ ProgMallocs /\ Locks /\ CountInv

BlocksInv ==
  client = "counter" /\ Fits => Clean /\ ProgData /\ EarlyFrames /\ BlockEnd

LEMMA NewestFacts ==
  ASSUME SchedInv, ProgSched
  PROVE  /\ Newest \in Nat /\ Newest \in Threads /\ Newest \in Born
         /\ Newest + 1 = threadIDS /\ Main = 0 /\ Main \in Born
         /\ Newest = Main <=> threadIDS = 1
         /\ current \in Threads /\ current # NULL /\ current \in Born
         /\ current = Main <=> ~Counting
         /\ Counting => current = Newest /\ Newest # Main
         /\ threadIDS \in Nat /\ numThreads \in Nat
  <1> USE ThreadFacts
  <1>1. threadIDS \in Nat /\ threadIDS >= 1 /\ threadIDS <= MaxThreads /\ numThreads \in Nat
    BY DEF SchedInv, ProgSched
  <1>2. /\ Newest \in Nat /\ Newest \in Threads /\ Newest \in Born
        /\ Newest + 1 = threadIDS /\ Main = 0 /\ Main \in Born
        /\ Newest = Main <=> threadIDS = 1
    BY <1>1 DEF Newest, Threads, Born, Main
  <1>3. current = IF Counting THEN Newest ELSE Main
    BY DEF ProgSched
  <1> QED
    BY <1>1, <1>2, <1>3 DEF Counting

LEMMA ShortQueues ==
  ASSUME NEW x \in Threads, NEW y \in Threads
  PROVE  /\ <<x>> # <<>> /\ <<x, y>> # <<>>
         /\ Head(<<x>>) = x /\ Head(<<x, y>>) = x
         /\ dequeue(<<x>>) = <<>> /\ dequeue(<<x, y>>) = <<y>>
         /\ enqueue(x, <<>>) = <<x>> /\ enqueue(y, <<x>>) = <<x, y>>
         /\ \A q : peekEither(<<x>>, q) = x /\ peekEither(<<x, y>>, q) = x
         /\ peekEither(<<>>, <<x>>) = x
  <1>1. <<x>> # <<>> /\ <<x, y>> # <<>> /\ Head(<<x>>) = x /\ Head(<<x, y>>) = x
    OBVIOUS
  <1>2. Tail(<<x>>) = <<>> /\ Tail(<<x, y>>) = <<y>> /\ Append(<<>>, x) = <<x>>
    OBVIOUS
  <1>3. Append(<<x>>, y) = <<x, y>>
    <2>1. <<x>> \in Seq(Threads) /\ Len(<<x>>) = 1 /\ <<x>>[1] = x
      OBVIOUS
    <2>2. <<x, y>> \in Seq(Threads) /\ Len(<<x, y>>) = 2
          /\ <<x, y>>[1] = x /\ <<x, y>>[2] = y
      OBVIOUS
    <2>3. /\ Append(<<x>>, y) \in Seq(Threads) /\ Len(Append(<<x>>, y)) = 2
          /\ Append(<<x>>, y)[1] = x /\ Append(<<x>>, y)[2] = y
      BY <2>1, AppendProperties
    <2>4. \A n \in 1..Len(<<x, y>>) : n = 1 \/ n = 2
      BY <2>2
    <2> QED
      BY <2>2, <2>3, <2>4, SeqEqual
  <1> QED
    BY <1>1, <1>2, <1>3 DEF dequeue, enqueue, peekEither, peek

\* main.c's create: the new thread is next.
LEMMA ProgCreates ==
  ASSUME SchedInv, LoopInv, ProgSched, InMain, my_pthread_create
  PROVE  /\ ~Counting /\ threadIDS \in Threads /\ NoneFreed
         /\ threadIDS' = threadIDS + 1 /\ mainEnqueued' = TRUE
         /\ current' = threadIDS /\ proc' = "up"
         /\ state' = [state EXCEPT ![threadIDS] = "ACTIVE"]
         /\ at' = [at EXCEPT ![threadIDS] = "user"]
         /\ pc' = "out" /\ temp' = Main /\ target' = target
         /\ \/ queue_priority_1' = <<threadIDS, Main>> /\ queue_priority_2' = <<>>
            \/ queue_priority_1' = <<threadIDS>> /\ queue_priority_2' = <<Main>>
         /\ UNCHANGED <<want, last>>
  <1> USE ThreadFacts, NewestFacts
  <1> DEFINE new == threadIDS
             q  == enqueue(new, queue_priority_1)
             q1 == IF mainEnqueued THEN q ELSE enqueue(current, q)
             q2 == queue_priority_2
             st == [state EXCEPT ![new] = "ACTIVE"]
  <1>1. /\ current = Main /\ proc = "up" /\ ~Counting
        /\ new \in Threads /\ NoneFreed
        /\ threadIDS' = threadIDS + 1 /\ mainEnqueued' = TRUE
        /\ at' = [at EXCEPT ![new] = "user"]
        /\ my_pthread_yield(q1, q2, Main, st)
        /\ UNCHANGED <<target, want, last>>
    BY DEF InMain, UserCode, Running, my_pthread_create, NoneFreed
  <1>2. new # Main /\ new # NULL /\ Main # NULL
    BY <1>1 DEF SchedInv, Main
  <1>3. st[Main] = "ACTIVE" /\ st[new] = "ACTIVE" /\ [st EXCEPT ![new] = "ACTIVE"] = st
        /\ state \in [Threads -> States]
    BY <1>1, <1>2 DEF ProgSched, SchedInv
  <1>4. /\ enqueue(new, <<>>) = <<new>> /\ enqueue(Main, <<new>>) = <<new, Main>>
        /\ enqueue(new, <<Main>>) = <<Main, new>> /\ enqueue(Main, <<>>) = <<Main>>
        /\ dequeue(<<Main, new>>) = <<new>>
        /\ peekEither(<<new>>, <<Main>>) = new /\ peekEither(<<new, Main>>, <<>>) = new
        /\ peekEither(<<Main, new>>, <<>>) = Main
        /\ <<Main, new>> # <<>>
    <2>1. new \in Threads /\ Main \in Threads
      BY <1>1
    <2> HIDE DEF new
    <2>2. /\ enqueue(new, <<>>) = <<new>> /\ enqueue(Main, <<new>>) = <<new, Main>>
          /\ \A s : peekEither(<<new>>, s) = new /\ peekEither(<<new, Main>>, s) = new
      BY <2>1, ShortQueues
    <2>3. /\ enqueue(new, <<Main>>) = <<Main, new>> /\ enqueue(Main, <<>>) = <<Main>>
          /\ dequeue(<<Main, new>>) = <<new>> /\ <<Main, new>> # <<>>
          /\ \A s : peekEither(<<Main, new>>, s) = Main
      BY <2>1, ShortQueues
    <2> QED
      BY <2>2, <2>3
  <1>5. \/ q1 = <<new, Main>> /\ q2 = <<>>
        \/ q1 = <<new>> /\ q2 = <<Main>>
        \/ q1 = <<Main, new>> /\ q2 = <<>>
    <2>1. CASE threadIDS = 1
      <3>1. ~mainEnqueued /\ queue_priority_1 = <<>> /\ queue_priority_2 = <<>>
        BY <2>1 DEF ProgSched, SchedInv
      <3> QED
        BY <1>1, <1>4, <3>1
    <2>2. CASE threadIDS # 1
      <3>1. threadIDS > 1
        BY <2>2 DEF SchedInv
      <3>2. mainEnqueued /\ (\/ queue_priority_1 = <<Main>> /\ queue_priority_2 = <<>>
                             \/ queue_priority_1 = <<>> /\ queue_priority_2 = <<Main>>)
        BY <1>1, <3>1 DEF ProgSched
      <3> QED
        BY <1>4, <3>2
    <2> QED
      BY <2>1, <2>2
  <1> HIDE DEF st, q1, q2
  <1>6. CASE \/ q1 = <<new, Main>> /\ q2 = <<>>
             \/ q1 = <<new>> /\ q2 = <<Main>>
    <2>1. peekEither(q1, q2) = new
      BY <1>4, <1>6
    <2>2. YieldToFront(q1, q2, Main, st)
      BY <1>1, <1>2, <2>1 DEF my_pthread_yield, YieldNoThreads, YieldRotate
    <2> QED
      BY <1>1, <1>2, <1>6, <2>1, <2>2 DEF YieldToFront, st
  <1>7. CASE q1 = <<Main, new>> /\ q2 = <<>>
    <2>1. peekEither(q1, q2) = Main /\ q1 # <<>>
      BY <1>4, <1>7
    <2>2. dequeue(q1) = <<new>> /\ enqueue(Main, q2) = <<Main>>
      BY <1>4, <1>7
    <2>3. YieldRotate(q1, q2, Main, st)
      BY <1>1, <1>2, <2>1 DEF my_pthread_yield, YieldNoThreads, YieldToFront
    <2>4. /\ queue_priority_1' = <<new>> /\ queue_priority_2' = <<Main>>
          /\ current' = new /\ state' = [st EXCEPT ![new] = "ACTIVE"]
          /\ temp' = Main /\ pc' = "out" /\ proc' = proc
      BY <1>3, <1>4, <2>1, <2>2, <2>3 DEF YieldRotate
    <2> QED
      BY <1>1, <1>3, <2>4 DEF st
  <1> QED
    BY <1>5, <1>6, <1>7

\* A counting thread's exit: main is next.
LEMMA ProgExits ==
  ASSUME SchedInv, LoopInv, ProgSched, Counting, Running("user"), my_pthread_exit
  PROVE  /\ UNCHANGED <<threadIDS, mainEnqueued, target, paging, want, last>>
         /\ current' = Main /\ proc' = "up"
         /\ state' = [state EXCEPT ![Newest] = "COMPLETED"]
         /\ at' = [at EXCEPT ![Newest] = "exited"]
         /\ pc' = "in" /\ temp' = NULL
         /\ \/ queue_priority_1' = <<Main>> /\ queue_priority_2' = <<>>
            \/ queue_priority_1' = <<>> /\ queue_priority_2' = <<Main>>
  <1> USE ThreadFacts, NewestFacts
  <1> DEFINE from1   == peek(queue_priority_1) = current
             removed == IF from1 THEN current ELSE peek(queue_priority_2)
             q1 == IF from1 THEN dequeue(queue_priority_1) ELSE queue_priority_1
             q2 == IF from1 THEN queue_priority_2 ELSE dequeue(queue_priority_2)
             st == IF removed = NULL THEN state
                   ELSE [state EXCEPT ![removed] = "COMPLETED"]
  <1>1. /\ at' = [at EXCEPT ![current] = "exited"]
        /\ my_pthread_yield(q1, q2, NULL, st)
        /\ UNCHANGED <<threadIDS, mainEnqueued, target, paging, want, last>>
        /\ proc = "up"
    BY DEF my_pthread_exit, Running
  <1>2. from1 /\ removed = Newest
    <2>1. peek(queue_priority_1) = Newest
      BY DEF ProgSched, peek
    <2> QED
      BY <2>1
  <1>3. \/ q1 = <<Main>> /\ q2 = <<>>
        \/ q1 = <<>> /\ q2 = <<Main>>
    <2>1. q1 = dequeue(queue_priority_1) /\ q2 = queue_priority_2
      BY <1>2
    <2>2. dequeue(<<Newest, Main>>) = <<Main>> /\ dequeue(<<Newest>>) = <<>>
      BY ShortQueues
    <2> HIDE DEF q1, q2
    <2>3. \/ queue_priority_1 = <<Newest, Main>> /\ queue_priority_2 = <<>>
          \/ queue_priority_1 = <<Newest>> /\ queue_priority_2 = <<Main>>
      BY DEF ProgSched
    <2> QED
      BY <2>1, <2>2, <2>3
  <1>4. st = [state EXCEPT ![Newest] = "COMPLETED"]
    BY <1>2
  <1> HIDE DEF q1, q2, st
  <1>5. peekEither(q1, q2) = Main /\ Main # NULL
    <2>1. peekEither(<<Main>>, <<>>) = Main /\ peekEither(<<>>, <<Main>>) = Main
      BY ShortQueues
    <2> QED
      BY <1>3, <2>1
  <1>6. YieldToFront(q1, q2, NULL, st)
    BY <1>1, <1>5 DEF my_pthread_yield, YieldNoThreads, YieldRotate
  <1>7. /\ queue_priority_1' = q1 /\ queue_priority_2' = q2
        /\ current' = Main /\ state' = st /\ temp' = NULL /\ pc' = "in" /\ proc' = proc
    BY <1>5, <1>6 DEF YieldToFront
  <1> QED
    BY <1>1, <1>3, <1>4, <1>7

LEMMA ProgSchedKept ==
  ASSUME ProgSched, SchedKept, numThreads' = numThreads,
         at[Main] = "join" \/ ~NoneFreed => pc' = "run"
  PROVE  /\ ProgSched'
         /\ Counting' = Counting /\ Newest' = Newest /\ Born' = Born
         /\ NoneFreed' = NoneFreed /\ current' = current /\ threadIDS' = threadIDS
  <1>1. /\ UNCHANGED <<queue_priority_1, queue_priority_2, current, threadIDS,
                       mainEnqueued, state, at, target>>
    BY DEF SchedKept
  <1>2. /\ Counting' = Counting /\ Newest' = Newest /\ Born' = Born
        /\ NoneFreed' = NoneFreed
    BY <1>1 DEF Counting, Newest, Born, NoneFreed
  <1> QED
    BY <1>1, <1>2 DEF ProgSched

\* A thread that is created, before its malloc, or main between threads.
LEMMA ProgStages ==
  ASSUME SchedInv, LoopInv, ProgSched, ProgMallocs
  PROVE  /\ pc = "run" => \/ current = Main \/ current = Newest
         /\ Running("user") /\ current \notin malloced =>
              \/ current = Main /\ threadIDS = 1
              \/ current = Newest /\ Counting
         /\ current \in malloced \ {Main} => Counting
         /\ ~JoinSpin
  <1> USE NewestFacts
  <1>1. current = Main \/ current = Newest
    BY DEF ProgSched
  <1>2. ~JoinSpin
    <2> SUFFICES ASSUME JoinSpin PROVE FALSE
      OBVIOUS
    <2>1. at[current] = "join" /\ state[target[current]] # "COMPLETED"
      BY DEF JoinSpin, Running
    <2>2. current = Main
      BY <2>1 DEF ProgSched
    <2> QED
      BY <2>1, <2>2 DEF ProgSched
  <1>3. threadIDS # 1 => threadIDS > 1
    BY DEF SchedInv
  <1> QED
    BY <1>1, <1>2, <1>3 DEF ProgMallocs

\* The client's own steps, with the effect that they have in the library.
LEMMA ProgCases ==
  ASSUME SchedInv, LoopInv, ProgSched, ProgMallocs, Locks,
         client = "counter", ProgramNext
  PROVE  /\ client' = client /\ numThreads' = numThreads /\ proc = "up"
         /\ \/ mallocHandles \/ createThread \/ joinThread \/ mallocHalf \/ exitCounter
            \/ JoinReturn /\ UNCHANGED <<clientVars, mutexVars>>
            \/ ProcessEnds /\ UNCHANGED <<clientVars, mutexVars>>
               /\ (proc' = "over" => mainReturns)
            \/ LibraryLoop
            \/ UNCHANGED <<vars, malloced>> /\ Running("user") /\ current \in malloced \ {Main}
               /\ \/ lockCalled \/ loadCounter \/ storeCounter \/ unlockReturns
                  \/ Mutex!EnterWhenTurn(current) /\ UNCHANGED clientVars
  <1> USE ThreadFacts, NewestFacts
  <1>1. CASE mallocHandles \/ createThread \/ joinThread \/ mallocHalf \/ exitCounter
    BY <1>1 DEF mallocHandles, createThread, joinThread, mallocHalf, exitCounter,
                InMain, InCounter, UserCode, Running, clientVars
  <1>2. CASE mainReturns \/ SliceEnds
    <2>1. proc = "up" /\ proc' # "up"
          /\ UNCHANGED <<sched, paging, pc, locals, clientVars, mutexVars>>
      BY <1>2 DEF mainReturns, SliceEnds, SIGVTALRM, InMain, UserCode, Running
    <2>2. proc' = "over" => mainReturns
      BY <1>2 DEF SliceEnds, SIGVTALRM
    <2>3. ProcessEnds
      BY <2>1 DEF ProcessEnds
    <2> QED
      BY <2>1, <2>2, <2>3 DEF clientVars
  <1>3. CASE JoinStep
    BY <1>3, ProgStages DEF JoinStep, JoinReturn, Running, clientVars
  <1>4. CASE LibraryLoop
    BY <1>4, LoopStepsKeepSched DEF LibraryLoop, clientVars
  <1>5. CASE lockWaits
    <2>1. InCounter /\ lockPc[current] = "waiting" /\ UNCHANGED clientVars
      BY <1>5 DEF lockWaits
    <2>2. turn = myturn[current]
      BY <2>1 DEF Locks
    <2> QED
      BY <1>5, <2>1, <2>2 DEF lockWaits, InCounter, UserCode, Running, clientVars
  <1>6. CASE lockCalled \/ loadCounter \/ storeCounter \/ unlockReturns
    <2>1. InCounter /\ UNCHANGED <<vars, client, numThreads, malloced>>
      BY <1>6 DEF lockCalled, loadCounter, storeCounter, unlockReturns
    <2>2. Running("user") /\ current \in malloced \ {Main} /\ proc = "up"
      BY <2>1 DEF InCounter, UserCode, Running
    <2>3. client' = client /\ numThreads' = numThreads /\ UNCHANGED <<vars, malloced>>
      BY <2>1
    <2>4. lockCalled \/ loadCounter \/ storeCounter \/ unlockReturns
      BY <1>6
    <2> QED
      BY <2>2, <2>3, <2>4, Zenon
  <1> QED
    BY <1>1, <1>2, <1>3, <1>4, <1>5, <1>6 DEF ProgramNext, Program, AnyClient

LEMMA ProgControlCreate ==
  ASSUME SchedInv, LoopInv, ProgSched, ProgMallocs, createThread
  PROVE  /\ ProgSched' /\ ProgMallocs'
         /\ Counting' /\ Newest' = threadIDS /\ NoneFreed'
  <1> USE ThreadFacts, NewestFacts
  <1>1. /\ InMain /\ Main \in malloced /\ threadIDS <= numThreads
        /\ my_pthread_create /\ numThreads' = numThreads /\ malloced' = malloced
    BY DEF createThread, CreateLoop, clientVars
  <1>2. /\ ~Counting /\ threadIDS \in Threads /\ NoneFreed
        /\ threadIDS' = threadIDS + 1 /\ mainEnqueued' = TRUE
        /\ current' = threadIDS
        /\ state' = [state EXCEPT ![threadIDS] = "ACTIVE"]
        /\ at' = [at EXCEPT ![threadIDS] = "user"]
        /\ pc' = "out" /\ temp' = Main /\ target' = target
        /\ \/ queue_priority_1' = <<threadIDS, Main>> /\ queue_priority_2' = <<>>
           \/ queue_priority_1' = <<threadIDS>> /\ queue_priority_2' = <<Main>>
    BY <1>1, ProgCreates
  <1>3. /\ threadIDS # Main /\ threadIDS > 0 /\ Newest' = threadIDS
        /\ threadIDS \notin malloced
    BY <1>1, <1>2 DEF Newest, Main, SchedInv, ProgMallocs, Born
  <1>4. /\ state'[threadIDS] = "ACTIVE" /\ at'[threadIDS] = "user"
        /\ \A t \in Threads \ {threadIDS} : state'[t] = state[t] /\ at'[t] = at[t]
    BY <1>2 DEF SchedInv
  <1>5. Counting'
    BY <1>3, <1>4 DEF Counting
  <1>6. NoneFreed'
    BY <1>2, <1>4 DEF NoneFreed
  <1>7. Born' = Born \union {threadIDS}
    BY <1>2 DEF Born, Threads
  <1>8. at[Main] = "user"
    BY <1>1 DEF InMain, UserCode, Running
  <1>9. \A t \in Born \ {Main} : state'[t] # "ACTIVE"
    BY <1>2, <1>3, <1>4 DEF ProgSched, Counting, Born
  <1>10. ProgSched'
    BY <1>1, <1>2, <1>3, <1>4, <1>5, <1>6, <1>7, <1>8, <1>9 DEF ProgSched, Main
  <1>11. ProgMallocs'
    BY <1>1, <1>2, <1>3, <1>5, <1>7 DEF ProgMallocs
  <1> QED
    BY <1>3, <1>5, <1>6, <1>10, <1>11

LEMMA ProgControlExit ==
  ASSUME SchedInv, LoopInv, ProgSched, ProgMallocs, exitCounter
  PROVE  ProgSched' /\ ProgMallocs' /\ Counting /\ ~Counting' /\ Newest' = Newest
  <1> USE ThreadFacts, NewestFacts
  <1>1. /\ Running("user") /\ current \in malloced \ {Main}
        /\ my_pthread_exit /\ numThreads' = numThreads /\ malloced' = malloced
    BY DEF exitCounter, InCounter, UserCode, clientVars
  <1>2. Counting
    BY <1>1, ProgStages
  <1>3. /\ UNCHANGED <<threadIDS, mainEnqueued, target>>
        /\ current' = Main
        /\ state' = [state EXCEPT ![Newest] = "COMPLETED"]
        /\ at' = [at EXCEPT ![Newest] = "exited"]
        /\ pc' = "in" /\ temp' = NULL
        /\ \/ queue_priority_1' = <<Main>> /\ queue_priority_2' = <<>>
           \/ queue_priority_1' = <<>> /\ queue_priority_2' = <<Main>>
    BY <1>1, <1>2, ProgExits
  <1>4. /\ state'[Newest] = "COMPLETED"
        /\ \A t \in Threads \ {Newest} : state'[t] = state[t] /\ at'[t] = at[t]
        /\ Newest' = Newest /\ Newest # Main /\ Born' = Born
    BY <1>2, <1>3 DEF SchedInv, Newest, Born
  <1>5. ~Counting' /\ threadIDS > 1
    BY <1>4 DEF Counting, SchedInv
  <1>6. NoneFreed'
    BY <1>2, <1>4 DEF NoneFreed, ProgSched
  <1>7. at'[Main] = "user"
    BY <1>2, <1>4 DEF ProgSched
  <1>8. Born \ malloced = {}
    BY <1>1, <1>2 DEF ProgMallocs
  <1>9. ProgSched'
    BY <1>1, <1>2, <1>3, <1>4, <1>5, <1>6, <1>7 DEF ProgSched
  <1>10. ProgMallocs'
    BY <1>1, <1>3, <1>4, <1>5, <1>8 DEF ProgMallocs
  <1> QED
    BY <1>2, <1>4, <1>5, <1>9, <1>10

LEMMA ProgControlJoins ==
  ASSUME SchedInv, LoopInv, ProgSched, ProgMallocs,
         joinThread \/ (JoinReturn /\ UNCHANGED clientVars)
  PROVE  /\ ProgSched' /\ ProgMallocs' /\ ~Counting /\ ~Counting' /\ Newest' = Newest
         /\ current = Main /\ threadIDS' = threadIDS
  <1> USE ThreadFacts, NewestFacts
  <1>1. CASE joinThread
    <2>1. /\ InMain /\ Main \in malloced /\ ~CreateLoop /\ JoinCall(Min(Unjoined))
          /\ UNCHANGED clientVars
      BY <1>1 DEF joinThread
    <2> DEFINE u == Min(Unjoined)
    <2>2. /\ current = Main /\ pc = "run" /\ ~Counting /\ threadIDS = numThreads + 1
          /\ numThreads' = numThreads /\ malloced' = malloced
      BY <2>1 DEF InMain, UserCode, Running, CreateLoop, ProgSched, clientVars
    <2>3. /\ u \in 1..(threadIDS - 1) /\ state[u] # "FREED"
          /\ at' = [at EXCEPT ![Main] = "join"] /\ target' = [target EXCEPT ![Main] = u]
          /\ UNCHANGED <<queue_priority_1, queue_priority_2, current, threadIDS,
                         mainEnqueued, state, pc, temp, last>>
      BY <2>1, <2>2 DEF JoinCall, locals
    <2> HIDE DEF u
    <2>4. u \in Born \ {Main} /\ u \in 1..numThreads
      BY <2>2, <2>3 DEF Born, Threads, SchedInv, Main
    <2>5. state[u] = "COMPLETED"
      <3>1. state[u] \in States /\ state[u] # "UNBORN" /\ state[u] # "ACTIVE"
        BY <2>2, <2>4 DEF ProgSched, SchedInv, Counting, Born
      <3> QED
        BY <2>3, <3>1 DEF States
    <2>6. /\ at'[Main] = "join" /\ target'[Main] = u
          /\ \A t \in Threads \ {Main} : at'[t] = at[t]
      BY <2>3 DEF SchedInv
    <2>7. Counting' = Counting /\ Newest' = Newest /\ Born' = Born /\ NoneFreed' = NoneFreed
      BY <2>3 DEF Counting, Newest, Born, NoneFreed
    <2>8. ProgSched'
      BY <2>2, <2>3, <2>4, <2>5, <2>6, <2>7 DEF ProgSched
    <2>9. ProgMallocs'
      BY <2>2, <2>3, <2>7 DEF ProgMallocs
    <2> QED
      BY <2>2, <2>3, <2>7, <2>8, <2>9
  <1>2. CASE JoinReturn /\ UNCHANGED clientVars
    <2> DEFINE u == target[current]
    <2>1. /\ at[current] = "join" /\ pc = "run" /\ state[u] = "COMPLETED"
          /\ state' = [state EXCEPT ![u] = "FREED"]
          /\ at' = [at EXCEPT ![current] = "user"]
          /\ target' = [target EXCEPT ![current] = NULL]
          /\ UNCHANGED <<queue_priority_1, queue_priority_2, current, threadIDS,
                         mainEnqueued, pc, temp, last, numThreads, malloced>>
      BY <1>2 DEF JoinReturn, Running, locals, clientVars
    <2>2. current = Main
      BY <2>1 DEF ProgSched
    <2>3. /\ ~Counting /\ threadIDS = numThreads + 1 /\ u \in 1..numThreads
      BY <2>1, <2>2 DEF ProgSched
    <2> HIDE DEF u
    <2>4. u \in Threads /\ u # Main
      BY <2>3 DEF SchedInv, Threads, Main
    <2>5. /\ at'[Main] = "user" /\ state'[u] = "FREED"
          /\ \A t \in Threads \ {u} : state'[t] = state[t]
      BY <2>1, <2>2, <2>4 DEF SchedInv
    <2>6. Newest' = Newest /\ Born' = Born
      BY <2>1 DEF Newest, Born
    <2>7. ~Counting'
      BY <2>3, <2>5, <2>6 DEF Counting
    <2>8. \A t \in Born \ {Main} : state'[t] # "ACTIVE"
      BY <2>3, <2>5 DEF ProgSched, Counting, Born
    <2>9. ProgSched'
      BY <2>1, <2>2, <2>3, <2>4, <2>5, <2>6, <2>7, <2>8 DEF ProgSched
    <2>10. ProgMallocs'
      BY <2>1, <2>2, <2>3, <2>6, <2>7 DEF ProgMallocs
    <2> QED
      BY <2>1, <2>2, <2>3, <2>6, <2>7, <2>9, <2>10
  <1> QED
    BY <1>1, <1>2

\* Main's malloc is its first step, a thread's is the first that it does.
LEMMA ProgControlMalloc ==
  ASSUME SchedInv, LoopInv, ProgSched, ProgMallocs, mallocHandles \/ mallocHalf
  PROVE  /\ ProgSched' /\ ProgMallocs' /\ SchedKept /\ NoneFreed
         /\ Counting' = Counting /\ Newest' = Newest
         /\ malloced' = malloced \union {current} /\ current \notin malloced
         /\ \/ mallocHandles /\ current = Main /\ threadIDS = 1 /\ myallocate(0, 0)
            \/ mallocHalf /\ current = Newest /\ Counting
               /\ myallocate(HalfOfPages, HalfOfPages)
         /\ UNCHANGED <<client, numThreads, c, tmp, iter, mutexVars>>
  <1> USE ThreadFacts, NewestFacts, PageFacts
  <1>1. /\ Running("user") /\ current \notin malloced
        /\ malloced' = malloced \union {current}
        /\ UNCHANGED <<client, numThreads, c, tmp, iter, mutexVars>>
    BY DEF mallocHandles, mallocHalf, InMain, UserCode
  <1>2. \/ mallocHandles /\ current = Main /\ myallocate(0, 0)
        \/ mallocHalf /\ current # Main /\ myallocate(HalfOfPages, HalfOfPages)
    BY DEF mallocHandles, mallocHalf, InMain, UserCode
  <1>3. \/ mallocHandles /\ current = Main /\ threadIDS = 1 /\ myallocate(0, 0)
        \/ mallocHalf /\ current = Newest /\ Counting
           /\ myallocate(HalfOfPages, HalfOfPages)
    BY <1>1, <1>2, ProgStages
  <1>4. NoneFreed /\ at[Main] # "join"
    BY <1>1, <1>3 DEF ProgSched, Running
  <1>5. \E f, r \in 0..(MEMORYPAGES - 3) : myallocate(f, r)
    <2>1. 0 \in 0..(MEMORYPAGES - 3) /\ HalfOfPages \in 0..(MEMORYPAGES - 3)
      BY HalfAssumption, SizeAssumption
    <2> QED
      BY <1>3, <2>1
  <1>6. SchedKept
    BY <1>5, LoopStepsKeepSched
  <1>7. /\ ProgSched' /\ Counting' = Counting /\ Newest' = Newest /\ Born' = Born
        /\ current' = current /\ threadIDS' = threadIDS
    BY <1>1, <1>4, <1>6, ProgSchedKept
  <1>8. pc' = "tags" /\ last' = IF current = Main THEN 0 ELSE HalfOfPages
    BY <1>3 DEF myallocate
  <1>9. ProgMallocs'
    BY <1>1, <1>7, <1>8 DEF ProgMallocs
  <1> QED
    BY <1>1, <1>3, <1>4, <1>6, <1>7, <1>9

\* The other steps change no thread.
LEMMA ProgControlKept ==
  ASSUME SchedInv, LoopInv, ProgSched, ProgMallocs,
         Switch \/ Allocation \/ ProcessEnds \/ UNCHANGED vars,
         UNCHANGED <<numThreads, malloced>>
  PROVE  ProgSched' /\ ProgMallocs' /\ Counting' = Counting /\ Newest' = Newest
         /\ NoneFreed' = NoneFreed /\ SchedKept
  <1> USE ThreadFacts, NewestFacts
  <1>1. CASE Switch
    <2>1. /\ pc \in {"out", "in"} /\ pc' \in {"out", "in", "run"}
          /\ SchedKept /\ last' = last /\ (pc' = "out" => pc = "out")
          /\ (pc' # "run" => temp' = temp)
      BY <1>1, SwitchStepFacts
    <2>2. /\ ProgSched' /\ Counting' = Counting /\ Newest' = Newest /\ Born' = Born
          /\ NoneFreed' = NoneFreed /\ current' = current /\ threadIDS' = threadIDS
      <3>1. ~(at[Main] = "join" \/ ~NoneFreed)
        BY <2>1 DEF ProgSched
      <3> QED
        BY <2>1, <3>1, ProgSchedKept
    <2>3. ProgMallocs'
      BY <2>1, <2>2 DEF ProgMallocs
    <2> QED
      BY <2>1, <2>2, <2>3
  <1>2. CASE Allocation
    <2>1. /\ pc \in {"tags", "fault"} /\ SchedKept
          /\ \/ pc' \in {"tags", "fault"} /\ last' = last
             \/ pc' = "run"
      BY <1>2, AllocationStepFacts
    <2>2. /\ ProgSched' /\ Counting' = Counting /\ Newest' = Newest /\ Born' = Born
          /\ NoneFreed' = NoneFreed /\ current' = current /\ threadIDS' = threadIDS
      <3>1. ~(at[Main] = "join" \/ ~NoneFreed)
        BY <2>1 DEF ProgSched
      <3> QED
        BY <2>1, <3>1, ProgSchedKept
    <2>3. ProgMallocs'
      BY <2>1, <2>2 DEF ProgMallocs
    <2> QED
      BY <2>1, <2>2, <2>3
  <1>3. CASE ProcessEnds \/ UNCHANGED vars
    <2>1. SchedKept /\ UNCHANGED <<pc, last, temp>>
      BY <1>3 DEF ProcessEnds, vars, sched, locals, SchedKept
    <2>2. /\ ProgSched' /\ Counting' = Counting /\ Newest' = Newest /\ Born' = Born
          /\ NoneFreed' = NoneFreed /\ current' = current /\ threadIDS' = threadIDS
      <3>1. at[Main] = "join" \/ ~NoneFreed => pc = "run"
        BY DEF ProgSched
      <3> QED
        BY <2>1, <3>1, ProgSchedKept
    <2>3. ProgMallocs'
      BY <2>1, <2>2 DEF ProgMallocs
    <2> QED
      BY <2>1, <2>2, <2>3
  <1> QED
    BY <1>1, <1>2, <1>3

\* Only a thread that counts is in the mutex, and it stays in its code.
LEMMA LocksStep ==
  ASSUME SchedInv, LoopInv, ProgSched, ProgMallocs, Locks,
         client = "counter", ProgramNext
  PROVE  Locks'
  <1> USE ThreadFacts, NewestFacts
  <1> DEFINE AllOut == \A t \in Threads : lockPc[t] = "outside"
  <1>1. CASE \/ mallocHandles \/ createThread \/ joinThread \/ mallocHalf \/ exitCounter
             \/ JoinReturn /\ UNCHANGED <<clientVars, mutexVars>>
             \/ LibraryLoop
    <2>1. UNCHANGED mutexVars
      BY <1>1 DEF mallocHandles, createThread, joinThread, mallocHalf, exitCounter,
                  LibraryLoop, mutexVars
    <2>2. AllOut
      <3>1. CASE mallocHandles \/ mallocHalf
        <4>1. current \notin malloced /\ (current = Main \/ current = Newest)
          BY <3>1, ProgControlMalloc
        <4> QED
          BY <4>1 DEF Locks
      <3>2. CASE createThread
        <4>1. ~Counting
          BY <3>2, ProgCreates DEF createThread
        <4> QED
          BY <4>1 DEF Locks
      <3>3. CASE joinThread \/ (JoinReturn /\ UNCHANGED <<clientVars, mutexVars>>)
        <4>1. ~Counting
          BY <3>3, ProgControlJoins
        <4> QED
          BY <4>1 DEF Locks
      <3>4. CASE exitCounter
        <4>1. lockPc[current] = "outside" /\ Counting
          BY <3>4, ProgControlExit DEF exitCounter
        <4> QED
          BY <4>1 DEF Locks
      <3>5. CASE LibraryLoop
        <4>1. pc # "run"
          BY <3>5, SwitchStepFacts, AllocationStepFacts DEF LibraryLoop
        <4> QED
          BY <4>1 DEF Locks
      <3> QED
        BY <1>1, <3>1, <3>2, <3>3, <3>4, <3>5
    <2>3. /\ lockPc' = lockPc /\ myturn' = myturn /\ loaded' = loaded
          /\ ticket' = ticket /\ turn' = turn
      BY <2>1 DEF mutexVars
    <2> QED
      BY <2>2, <2>3 DEF Locks
  <1>2. CASE ProcessEnds /\ UNCHANGED <<clientVars, mutexVars>>
    <2>1. Newest' = Newest /\ Counting' = Counting
      BY <1>2, ProgControlKept DEF clientVars
    <2>2. UNCHANGED <<pc, malloced, ticket, turn, myturn, loaded, lockPc>>
      BY <1>2 DEF ProcessEnds, clientVars, mutexVars
    <2> QED
      BY <2>1, <2>2 DEF Locks, Mutex!Increment
  <1>3. CASE /\ UNCHANGED <<vars, malloced>> /\ current \in malloced \ {Main}
             /\ \/ lockCalled \/ loadCounter \/ storeCounter \/ unlockReturns
                \/ Mutex!EnterWhenTurn(current)
    <2>1. Newest' = Newest /\ Counting' = Counting /\ current = Newest /\ Counting
          /\ pc' = pc /\ malloced' = malloced
      <3>1. UNCHANGED <<threadIDS, state, pc>>
        BY <1>3 DEF vars, sched
      <3> QED
        BY <1>3, <3>1, ProgStages DEF Newest, Counting
    <2>2. \A t \in Threads \ {current} : lockPc[t] = "outside"
      BY <2>1 DEF Locks
    <2>3. CASE lockCalled
      <3>1. Mutex!TakeTicket(current)
        BY <2>3 DEF lockCalled
      <3>2. ticket = turn /\ pc = "run"
        BY <2>2, <2>3, <3>1 DEF Locks, Mutex!TakeTicket, lockCalled, InCounter, UserCode,
                                Running
      <3> QED
        BY <1>3, <2>1, <2>2, <3>1, <3>2 DEF Locks, Mutex!TakeTicket, Mutex!Increment
    <2>4. CASE Mutex!EnterWhenTurn(current)
      BY <1>3, <2>1, <2>2, <2>4 DEF Locks, Mutex!EnterWhenTurn, Mutex!Increment
    <2>5. CASE loadCounter
      BY <1>3, <2>1, <2>2, <2>5 DEF Locks, loadCounter, mutexVars, Mutex!Increment
    <2>6. CASE storeCounter
      BY <1>3, <2>1, <2>2, <2>6 DEF Locks, storeCounter, Mutex!LoadTurn, Mutex!Increment
    <2>7. CASE unlockReturns
      BY <1>3, <2>1, <2>2, <2>7 DEF Locks, unlockReturns, Mutex!StoreTurn,
                                    Mutex!EndLocals, Mutex!Increment
    <2> QED
      BY <1>3, <2>3, <2>4, <2>5, <2>6, <2>7
  <1> QED
    BY <1>1, <1>2, <1>3, ProgCases

\* ITER more rounds are one more thread.
LEMMA Products ==
  ASSUME NEW n \in Nat
  PROVE  ITER * n \in Nat /\ ITER * (n + 1 - 1) = ITER * n
         /\ (n > 0 => ITER * (n - 1) + ITER = ITER * n)
  <1>1. ITER \in Nat
    BY IterAssumption
  <1> QED
    BY <1>1

\* The counter is the number of rounds that are finished.
LEMMA CountStep ==
  ASSUME SchedInv, LoopInv, ProgSched, ProgMallocs, Locks, CountInv,
         client = "counter", ProgramNext
  PROVE  CountInv'
  <1> USE ThreadFacts, NewestFacts
  <1> DEFINE RoundData == /\ iter \in [Threads -> 0..ITER] /\ DOMAIN tmp = Threads
                          /\ \A t \in Threads : t \notin malloced => iter[t] = 0
                          /\ \A t \in Threads : tmp[t] # NULL =>
                                                  lockPc[t] \in {"inside", "unlocking"}
                          /\ \A t \in Threads : tmp[t] # NULL /\ lockPc[t] = "inside" =>
                                                  tmp[t] = c
  <1>i. ITER \in Nat
    BY IterAssumption
  <1>1. CASE \/ mallocHandles \/ createThread \/ joinThread \/ mallocHalf \/ exitCounter
             \/ JoinReturn /\ UNCHANGED <<clientVars, mutexVars>>
             \/ LibraryLoop
             \/ ProcessEnds /\ UNCHANGED <<clientVars, mutexVars>>
                /\ (proc' = "over" => mainReturns)
    <2>1. UNCHANGED <<c, tmp, iter, lockPc>> /\ malloced \subseteq malloced'
      BY <1>1 DEF mallocHandles, createThread, joinThread, mallocHalf, exitCounter,
                  LibraryLoop, clientVars, mutexVars
    <2>2. RoundData'
      BY <2>1 DEF CountInv
    <2>3. CASE createThread
      <3>1. /\ ~Counting /\ Counting' /\ Newest' = threadIDS /\ threadIDS \in Threads
            /\ proc' = "up"
        BY <2>3, ProgControlCreate, ProgCreates DEF createThread
      <3>2. lockPc[threadIDS] = "outside" /\ iter[threadIDS] = 0
        <4>1. lockPc[threadIDS] = "outside"
          BY <3>1 DEF Locks
        <4>2. threadIDS \notin malloced
          BY <3>1 DEF ProgMallocs, Born
        <4> QED
          BY <3>1, <4>1, <4>2 DEF CountInv
      <3>3. Rounds' = 0
        <4>1. iter' = iter /\ lockPc' = lockPc
          BY <2>1
        <4>2. iter'[Newest'] = 0 /\ lockPc'[Newest'] = "outside"
          BY <3>1, <3>2, <4>1
        <4>3. Rounds' = iter'[Newest'] -
                          IF lockPc'[Newest'] \in {"waiting", "inside"} THEN 1 ELSE 0
          BY DEF Rounds
        <4>4. lockPc'[Newest'] \notin {"waiting", "inside"}
          BY <4>2
        <4>5. Rounds' = 0 - 0
          BY <4>2, <4>3, <4>4, Zenon
        <4> QED
          BY <4>5
      <3>4. c = ITER * Newest /\ Newest' - 1 = Newest
        BY <3>1 DEF CountInv
      <3>5. c' = ITER * (Newest' - 1) + Rounds'
        BY <2>1, <3>3, <3>4, Products
      <3> QED
        BY <2>2, <3>1, <3>5 DEF CountInv
    <2>4. CASE exitCounter
      <3>1. Counting /\ ~Counting' /\ Newest' = Newest
        BY <2>4, ProgControlExit
      <3>2. iter[Newest] = ITER /\ lockPc[Newest] = "outside"
        BY <2>4, <3>1 DEF exitCounter
      <3>3. proc' = "up"
        BY <2>4, <3>1, ProgExits DEF exitCounter, InCounter, UserCode
      <3>4. c = ITER * (Newest - 1) + ITER
        BY <3>1, <3>2 DEF CountInv, Rounds
      <3>5. Newest > 0
        BY <3>1
      <3>6. c' = ITER * Newest'
        BY <2>1, <3>1, <3>4, <3>5, Products
      <3> QED
        BY <2>2, <3>1, <3>3, <3>6 DEF CountInv
    <2>5. CASE ~createThread /\ ~exitCounter
      <3>1. Counting' = Counting /\ Newest' = Newest
        <4>1. CASE mallocHandles \/ mallocHalf
          <5>1. Counting' = Counting /\ Newest' = Newest
            BY <4>1, ProgControlMalloc
          <5> QED
            BY <5>1
        <4>2. CASE joinThread \/ (JoinReturn /\ UNCHANGED <<clientVars, mutexVars>>)
          <5>1. joinThread \/ (JoinReturn /\ UNCHANGED clientVars)
            BY <4>2
          <5>2. ~Counting /\ ~Counting' /\ Newest' = Newest
            BY <5>1, ProgControlJoins
          <5> QED
            BY <5>2 DEF Counting
        <4>3. CASE LibraryLoop \/ (ProcessEnds /\ UNCHANGED <<clientVars, mutexVars>>)
          BY <4>3, ProgControlKept DEF LibraryLoop, clientVars
        <4> QED
          BY <1>1, <2>5, <4>1, <4>2, <4>3
      <3>2. Rounds' = Rounds
        BY <2>1, <3>1 DEF Rounds
      <3>3. proc' = "over" => ~Counting /\ threadIDS' = numThreads' + 1
        <4>1. CASE mainReturns
          BY <4>1 DEF mainReturns, InMain, UserCode, CreateLoop, ProgSched, sched, clientVars
        <4>2. CASE ~mainReturns
          <5>1. proc = "up"
            BY ProgCases
          <5>2. CASE LibraryLoop
            BY <5>1, <5>2 DEF LibraryLoop, Switch, Allocation, SwapOutPage, SwapOutLast,
                 Evict, SwapInPage, EvictLast, SwapInLast, WriteTag, Fault,
                 FaultOnFreeFrame, FaultScan, FaultGivesUp, ClaimEvicts, ClaimPage,
                 myallocateReturns
          <5>3. CASE mallocHandles \/ mallocHalf \/ joinThread \/ JoinReturn
            BY <5>1, <5>3 DEF mallocHandles, mallocHalf, joinThread, myallocate, JoinCall,
                              JoinReturn
          <5> QED
            BY <1>1, <2>5, <4>2, <5>2, <5>3
        <4> QED
          BY <4>1, <4>2
      <3> QED
        BY <2>1, <2>2, <3>1, <3>2, <3>3 DEF CountInv
    <2> QED
      BY <2>3, <2>4, <2>5
  <1>2. CASE /\ UNCHANGED <<vars, malloced>> /\ current \in malloced \ {Main}
             /\ \/ lockCalled \/ loadCounter \/ storeCounter \/ unlockReturns
                \/ Mutex!EnterWhenTurn(current) /\ UNCHANGED clientVars
    <2>1. /\ Newest' = Newest /\ Counting' = Counting /\ current = Newest /\ Counting
          /\ malloced' = malloced /\ proc' = proc
      <3>1. UNCHANGED <<threadIDS, state, proc>>
        BY <1>2 DEF vars, sched
      <3> QED
        BY <1>2, <3>1, ProgStages DEF Newest, Counting
    <2>2. proc = "up" /\ Newest \in malloced
      BY <1>2, <2>1, ProgCases
    <2>3. /\ DOMAIN lockPc = Threads /\ DOMAIN iter = Threads /\ iter[Newest] \in 0..ITER
          /\ c = ITER * (Newest - 1) + Rounds
      BY <2>1 DEF Locks, CountInv
    <2>4. ITER * (Newest - 1) \in Nat
      BY <2>1, Products
    <2>5. Rounds \in Int
      BY <2>3 DEF Rounds
    <2>6. CASE lockCalled
      <3>1. /\ lockPc[Newest] = "outside" /\ lockPc' = [lockPc EXCEPT ![Newest] = "waiting"]
            /\ iter[Newest] < ITER /\ iter' = [iter EXCEPT ![Newest] = @ + 1]
            /\ UNCHANGED <<c, tmp>>
        BY <2>1, <2>6 DEF lockCalled, Mutex!TakeTicket
      <3>2. RoundData'
        BY <1>i, <2>1, <2>2, <2>3, <3>1 DEF CountInv
      <3>3. Rounds' = Rounds
        BY <2>1, <2>3, <3>1 DEF Rounds
      <3> QED
        BY <2>1, <2>2, <2>3, <3>1, <3>2, <3>3 DEF CountInv
    <2>7. CASE Mutex!EnterWhenTurn(current) /\ UNCHANGED clientVars
      <3>1. /\ lockPc[Newest] = "waiting" /\ lockPc' = [lockPc EXCEPT ![Newest] = "inside"]
            /\ UNCHANGED <<c, tmp, iter>>
        BY <2>1, <2>7 DEF Mutex!EnterWhenTurn, clientVars
      <3>2. RoundData'
        BY <2>1, <2>3, <3>1 DEF CountInv
      <3>3. Rounds' = Rounds
        BY <2>1, <2>3, <3>1 DEF Rounds
      <3> QED
        BY <2>1, <2>2, <2>3, <3>1, <3>2, <3>3 DEF CountInv
    <2>8. CASE loadCounter
      <3>1. /\ lockPc[Newest] = "inside" /\ tmp' = [tmp EXCEPT ![Newest] = c]
            /\ UNCHANGED <<c, iter, lockPc>>
        BY <2>1, <2>8 DEF loadCounter, mutexVars
      <3>2. RoundData'
        BY <2>1, <2>3, <3>1 DEF CountInv
      <3>3. Rounds' = Rounds
        BY <2>1, <3>1 DEF Rounds
      <3> QED
        BY <2>1, <2>2, <2>3, <3>1, <3>2, <3>3 DEF CountInv
    <2>9. CASE storeCounter
      <3>1. /\ lockPc[Newest] = "inside" /\ lockPc' = [lockPc EXCEPT ![Newest] = "unlocking"]
            /\ tmp[Newest] # NULL /\ c' = tmp[Newest] + 1 /\ UNCHANGED <<tmp, iter>>
        BY <2>1, <2>9 DEF storeCounter, Mutex!LoadTurn
      <3>2. tmp[Newest] = c /\ \A t \in Threads \ {Newest} : lockPc[t] = "outside"
        BY <3>1 DEF CountInv, Locks
      <3>3. RoundData'
        BY <2>1, <2>3, <3>1, <3>2 DEF CountInv
      <3>4. Rounds' = Rounds + 1
        BY <2>1, <2>3, <3>1 DEF Rounds
      <3>5. c' = ITER * (Newest' - 1) + Rounds'
        BY <2>1, <2>3, <2>4, <2>5, <3>1, <3>2, <3>4
      <3> QED
        BY <2>1, <2>2, <3>3, <3>5 DEF CountInv
    <2>10. CASE unlockReturns
      <3>1. /\ lockPc[Newest] = "unlocking" /\ lockPc' = [lockPc EXCEPT ![Newest] = "outside"]
            /\ tmp' = [tmp EXCEPT ![Newest] = NULL] /\ UNCHANGED <<c, iter>>
        BY <2>1, <2>10 DEF unlockReturns, Mutex!StoreTurn
      <3>2. RoundData'
        BY <2>1, <2>3, <3>1 DEF CountInv
      <3>3. Rounds' = Rounds
        BY <2>1, <2>3, <3>1 DEF Rounds
      <3> QED
        BY <2>1, <2>2, <2>3, <3>1, <3>2, <3>3 DEF CountInv
    <2> QED
      BY <1>2, <2>6, <2>7, <2>8, <2>9, <2>10
  <1> QED
    BY <1>1, <1>2, ProgCases

LEMMA ProgramStarts ==
  ASSUME ProgramInit
  PROVE  ProgInv /\ BlocksInv
  <1> USE ThreadFacts
  <1>1. /\ threadIDS = 1 /\ current = Main /\ malloced = {} /\ mainEnqueued = FALSE
        /\ queue_priority_1 = <<>> /\ queue_priority_2 = <<>> /\ proc = "up" /\ pc = "run"
        /\ state = [t \in Threads |-> IF t = Main THEN "ACTIVE" ELSE "UNBORN"]
        /\ at = [t \in Threads |-> IF t = Main THEN "user" ELSE "unborn"]
        /\ last = 0 /\ want = <<>>
        /\ numThreads \in 1..(MaxThreads - 1)
    BY DEF ProgramInit, Init
  <1>2. Newest = Main /\ ~Counting /\ Born = {Main}
    BY <1>1 DEF Newest, Counting, Born, Main, Threads
  <1>3. NoneFreed /\ state[Main] = "ACTIVE" /\ at[Main] = "user"
    BY <1>1 DEF NoneFreed
  <1>4. ProgSched
    BY <1>1, <1>2, <1>3 DEF ProgSched, Main
  <1>5. ProgMallocs
    BY <1>1, <1>2 DEF ProgMallocs
  <1>6. Locks
    BY DEF ProgramInit, Mutex!Init, Locks
  <1>7. CountInv
    <2>1. /\ c = 0 /\ tmp = [t \in Threads |-> NULL] /\ iter = [t \in Threads |-> 0]
      BY DEF ProgramInit
    <2>2. ITER * Newest = 0
      BY <1>2, IterAssumption DEF Main
    <2>3. iter \in [Threads -> 0..ITER]
      BY <2>1, IterAssumption
    <2> QED
      BY <1>1, <1>2, <2>1, <2>2, <2>3 DEF CountInv
  <1>8. Clean
    BY PagingInit DEF ProgramInit
  <1>9. written = [t \in Threads |-> IF t = Main THEN EndPages ELSE {}]
        /\ PagesOf(Main) = EndPages /\ \A k \in EndPages : pageTables[Main][k] = k
    BY DEF ProgramInit, Init, EndPages, PagesOf
  <1>10. ProgData
    BY <1>1, <1>2, <1>9 DEF ProgData
  <1>11. EarlyFrames
    <2>1. HalfOfPages # 0 /\ HalfOfPages # Last
      BY HalfAssumption, SizeAssumption DEF Last
    <2> QED
      BY <1>2, <1>9, <2>1 DEF EarlyFrames, EndPages
  <1>12. BlockEnd
    BY <1>1 DEF BlockEnd, Blocked
  <1> QED
    BY <1>4, <1>5, <1>6, <1>7, <1>8, <1>10, <1>11, <1>12 DEF ProgInv, BlocksInv

LEMMA ProgInvStep ==
  ASSUME PagingInv, ProgInv, [ProgramNext]_programVars
  PROVE  ProgInv'
  <1> SUFFICES ASSUME client' = "counter"
               PROVE  (ProgSched /\ ProgMallocs /\ Locks /\ CountInv)'
    BY DEF ProgInv
  <1>1. client = "counter" => ProgSched /\ ProgMallocs /\ Locks /\ CountInv
    BY DEF ProgInv
  <1>2. SchedInv /\ LoopInv
    BY DEF PagingInv
  <1>3. CASE UNCHANGED programVars
    <2>1. /\ UNCHANGED <<vars, client, numThreads, malloced>> /\ UNCHANGED mutexVars
          /\ UNCHANGED <<c, tmp, iter, lockPc, proc, threadIDS, pc>>
      BY <1>3 DEF programVars, clientVars, mutexVars, vars, sched
    <2>2. client = "counter"
      BY <2>1
    <2>3. ProgSched' /\ ProgMallocs' /\ Counting' = Counting /\ Newest' = Newest
      BY <1>1, <1>2, <2>1, <2>2, ProgControlKept
    <2>4. Rounds' = Rounds
      BY <2>1, <2>3 DEF Rounds
    <2>5. Locks'
      BY <1>1, <2>1, <2>2, <2>3 DEF Locks, mutexVars, Mutex!Increment
    <2>6. CountInv'
      BY <1>1, <2>1, <2>2, <2>3, <2>4 DEF CountInv
    <2> QED
      BY <2>3, <2>5, <2>6
  <1>4. CASE ProgramNext
    <2>1. client = "counter"
      BY <1>4 DEF ProgramNext, Program, AnyClient, SliceEnds, JoinStep, LibraryLoop,
           mallocHandles, createThread, joinThread, mainReturns, mallocHalf, lockCalled,
           lockWaits, loadCounter, storeCounter, unlockReturns, exitCounter, clientVars
    <2>2. ProgSched /\ ProgMallocs /\ Locks /\ CountInv
      BY <1>1, <2>1
    <2>3. Locks' /\ CountInv'
      BY <1>2, <1>4, <2>1, <2>2, LocksStep, CountStep
    <2>4. ProgSched' /\ ProgMallocs'
      <3>1. CASE mallocHandles \/ mallocHalf
        BY <1>2, <2>2, <3>1, ProgControlMalloc
      <3>2. CASE createThread
        BY <1>2, <2>2, <3>2, ProgControlCreate
      <3>3. CASE exitCounter
        BY <1>2, <2>2, <3>3, ProgControlExit
      <3>4. CASE joinThread \/ (JoinReturn /\ UNCHANGED clientVars)
        BY <1>2, <2>2, <3>4, ProgControlJoins
      <3>5. CASE /\ Switch \/ Allocation \/ ProcessEnds \/ UNCHANGED vars
                 /\ UNCHANGED <<numThreads, malloced>>
        BY <1>2, <2>2, <3>5, ProgControlKept
      <3>6. \/ mallocHandles \/ mallocHalf \/ createThread \/ exitCounter \/ joinThread
            \/ JoinReturn /\ UNCHANGED clientVars
            \/ /\ Switch \/ Allocation \/ ProcessEnds \/ UNCHANGED vars
               /\ UNCHANGED <<numThreads, malloced>>
        BY <1>2, <1>4, <2>1, <2>2, ProgCases DEF LibraryLoop, clientVars
      <3> QED
        BY <3>1, <3>2, <3>3, <3>4, <3>5, <3>6
    <2> QED
      BY <2>3, <2>4
  <1> QED
    BY <1>3, <1>4

\* What main.c keeps: one thread at a time counts, and the mutex is free when a
\* thread takes a ticket.
THEOREM ProgramProgInv == ProgramSpec => []ProgInv
  <1>1. ProgramInit => ProgInv
    BY ProgramStarts
  <1>2. PagingInv /\ ProgInv /\ [ProgramNext]_programVars => ProgInv'
    BY ProgInvStep
  <1> QED
    BY <1>1, <1>2, ProgramPagingInv, PTL DEF ProgramSpec

\* A program that returns from main has counted ITER rounds of every thread, for
\* any ITER, however often the counters of the mutex wrap around, and for any
\* number of threads, and prints what it expects: no increment is lost.
\* (It may be killed before, and whether it gets here is for CountIsPrinted.)
THEOREM CountIsRight ==
  ProgramSpec => [](client = "counter" /\ proc = "over" => c = ITER * numThreads)
  <1>1. PagingInv /\ ProgInv /\ client = "counter" /\ proc = "over"
          => c = ITER * numThreads
    <2> SUFFICES ASSUME PagingInv, ProgInv, client = "counter", proc = "over"
                 PROVE  c = ITER * numThreads
      OBVIOUS
    <2>1. ProgSched /\ CountInv /\ SchedInv
      BY DEF ProgInv, PagingInv
    <2>2. ~Counting /\ c = ITER * Newest /\ threadIDS = numThreads + 1
      BY <2>1 DEF CountInv
    <2>3. Newest = numThreads
      BY <2>1, <2>2, NewestFacts
    <2> QED
      BY <2>2, <2>3
  <1> QED
    BY <1>1, ProgramPagingInv, ProgramProgInv, PTL

-----------------------------------------------------------------------------
(* main.c: a program that fits finds its blocks.                           *)

ProgPaging ==
  /\ SchedInv /\ LoopInv /\ ProgSched /\ ProgMallocs /\ Fits
  /\ Clean /\ ProgData /\ EarlyFrames /\ BlockEnd

LEMMA ProgPages ==
  ASSUME ProgPaging
  PROVE  /\ \A t \in Live : t = Main \/ t \in 1..(threadIDS - 1)
         /\ ~(current = Main /\ last # 0) => PagesOf(Main) = EndPages
         /\ pc \in {"run", "out", "in"} => last = 0
         /\ last # 0 => current # Main
         /\ current \in Threads /\ current \in Born
  <1> USE ThreadFacts, PageFacts
  <1>1. SchedInv /\ LoopInv /\ ProgSched /\ ProgMallocs /\ Shape /\ Allocating /\ ProgData
    BY DEF ProgPaging, Clean
  <1>2. \A t \in Live : t = Main \/ t \in 1..(threadIDS - 1)
    BY <1>1, LiveOrFreed DEF Born, Threads, Main, SchedInv
  <1>3. Main \in Born /\ current \in Threads /\ current \in Born
    BY <1>1, NewestFacts
  <1>4. ~(current = Main /\ last # 0) => PagesOf(Main) = EndPages
    BY <1>1, <1>3 DEF Shape, ProgData
  <1>5. pc \in {"run", "out", "in"} => last = 0
    BY <1>1 DEF LoopInv
  <1>6. last # 0 => current # Main
    BY <1>1, <1>5 DEF LoopInv, ProgMallocs
  <1> QED
    BY <1>2, <1>3, <1>4, <1>5, <1>6

LEMMA ProgAlone ==
  ASSUME ProgPaging
  PROVE  Alone
  <1> USE ThreadFacts, PageFacts
  <1>1. SchedInv /\ LoopInv /\ ProgSched /\ ProgMallocs /\ ProgData
    BY DEF ProgPaging
  <1>2. /\ Newest \in Born /\ current = IF Counting THEN Newest ELSE Main
    BY <1>1, NewestFacts DEF ProgSched
  <1>3. ASSUME NEW t \in Threads \ {current}, state[t] = "ACTIVE"
        PROVE  written[t] = EndPages
    <2>1. t \in Born
      BY <1>1, <1>3, LiveOrFreed DEF Live
    <2>2. t = Main
      BY <1>1, <1>2, <1>3, <2>1 DEF ProgSched, Counting
    <2> QED
      BY <1>1, <2>2 DEF ProgData
  <1>4. ASSUME pc \in {"out", "in"}
        PROVE  written[current] = EndPages
    <2>1. CASE current = Main
      BY <1>1, <2>1 DEF ProgData
    <2>2. CASE current # Main
      <3>1. Counting /\ current = Newest /\ Newest \notin malloced
        BY <1>1, <1>2, <1>4, <2>2 DEF ProgMallocs
      <3> QED
        BY <1>1, <1>2, <3>1 DEF ProgData
    <2> QED
      BY <2>1, <2>2
  <1> QED
    BY <1>3, <1>4 DEF Alone

LEMMA ThreadCount ==
  ASSUME NEW n \in 0..(MaxThreads - 1)
  PROVE  1..n \in SUBSET Threads /\ Cardinality(1..n) = n
  <1>1. 1 \in Int /\ n \in Int /\ n >= 0 /\ (1 > n <=> n = 0) /\ n - 1 + 1 = n
    BY ThreadFacts
  <1>2. Cardinality(1..n) = IF 1 > n THEN 0 ELSE n - 1 + 1
    BY <1>1, FS_Interval
  <1>3. 1..n \in SUBSET Threads
    BY ThreadFacts DEF Threads
  <1> QED
    BY <1>1, <1>2, <1>3

\* The swap file has room for what the last thread's block displaces.
LEMMA ProgRoom ==
  ASSUME ProgPaging, pc \in {"out", "in"} \/ ClaimEvicts
  PROVE  Room
  <1> USE ThreadFacts, PageFacts
  <1> SUFFICES ASSUME ~Room PROVE FALSE
    OBVIOUS
  <1> DEFINE X == IF pc = "tags" THEN {i} ELSE EndPages
             N == 1..numThreads
  <1>1. Shape /\ Marked /\ SchedInv /\ LoopInv /\ Clean /\ ProgSched
    BY DEF ProgPaging, Clean
  <1>2. \A l \in Locations : masterTable[l] = 1
    BY <1>1 DEF Room, Marked
  <1>3. /\ numThreads \in 1..(MaxThreads - 1) /\ threadIDS - 1 <= numThreads
        /\ threadIDS \in Nat
    BY <1>1 DEF ProgSched, SchedInv
  <1>4. PagesOf(Main) = EndPages
    <2>1. CASE pc \in {"out", "in"}
      BY <2>1, ProgPages
    <2>2. CASE ClaimEvicts
      <3>1. last = HalfOfPages
        BY <1>1, <2>2, ClaimEvictsPage
      <3> QED
        BY <3>1, ProgPages
    <2> QED
      BY <2>1, <2>2
  <1>5. IsFiniteSet(X) /\ Cardinality(X) <= 2 /\ Cardinality(X) \in Nat
    <2>1. IsFiniteSet({i}) /\ Cardinality({i}) = 1
      BY FS_Singleton
    <2>2. IsFiniteSet(EndPages) /\ Cardinality(EndPages) = 2
      BY PageCounts
    <2>3. X = {i} \/ X = EndPages
      OBVIOUS
    <2> HIDE DEF X
    <2>4. CASE X = {i}
      BY <2>1, <2>4
    <2>5. CASE X = EndPages
      BY <2>2, <2>5
    <2> QED
      BY <2>3, <2>4, <2>5
  <1>6. ASSUME NEW l \in Locations
        PROVE  \/ l \in X
               \/ \E t \in N : \E k \in BlockPages : pageTables[t][k] = l
               \/ \E t \in {Main} : \E k \in EndPages : pageTables[t][k] = l
    <2>1. \/ \E t \in Live : \E k \in PagesOf(t) : pageTables[t][k] = l
          \/ l \in EndPages /\ Vacating
          \/ pc = "tags" /\ l = i
      BY <1>1, <1>2 DEF Marked
    <2>2. CASE \E t \in Live : \E k \in PagesOf(t) : pageTables[t][k] = l
      <3>1. PICK t \in Live : \E k \in PagesOf(t) : pageTables[t][k] = l
        BY <2>2
      <3>2. CASE t = Main
        BY <1>4, <3>1, <3>2
      <3>3. CASE t # Main
        <4>1. t \in N
          BY <1>3, <3>3, ProgPages
        <4>2. PagesOf(t) \subseteq BlockPages
          BY <1>1, LiveOrFreed DEF Shape
        <4> QED
          BY <3>1, <4>1, <4>2
      <3> QED
        BY <3>2, <3>3
    <2>3. CASE l \in EndPages /\ Vacating
      BY <2>3 DEF Vacating
    <2> QED
      BY <2>1, <2>2, <2>3
  <1>7. N \in SUBSET Threads /\ Cardinality(N) = numThreads
    BY <1>3, ThreadCount
  <1>8. {Main} \in SUBSET Threads /\ Cardinality({Main}) = 1
    BY FS_Singleton
  <1> HIDE DEF X, N
  <1>9. Cardinality(Locations) <=
          Cardinality(X) + Cardinality(N) * (HalfOfPages + 2) + 2 * Cardinality({Main})
    BY <1>5, <1>6, <1>7, <1>8, Counted
  <1>10. TOTALPAGES <= 2 + numThreads * (HalfOfPages + 2) + 2
    <2> DEFINE nb == numThreads * (HalfOfPages + 2)
    <2>1. nb \in Nat
      BY <1>3
    <2> HIDE DEF nb
    <2>2. TOTALPAGES <= Cardinality(X) + nb + 2 * 1
      BY <1>7, <1>8, <1>9, PageCounts DEF nb
    <2> QED
      BY <1>5, <2>1, <2>2 DEF nb
  <1>11. numThreads * (HalfOfPages + 2)
           = (HalfOfPages + 2) * (numThreads - 1) + (HalfOfPages + 2)
    BY <1>3
  <1>12. (HalfOfPages + 2) * (numThreads - 1) \in Nat
    BY <1>3
  <1>13. (HalfOfPages + 2) * (numThreads - 1) + 4 <= MEMORYPAGES
    BY DEF ProgPaging, Fits
  <1> QED
    BY <1>10, <1>11, <1>12, <1>13, HalfAssumption, SizeAssumption, RoomAssumption

\* The headers of a thread that is created go to free frames.
LEMMA ProgFrames ==
  ASSUME ProgPaging, createThread
  PROVE  FramesFree
  <1> USE ThreadFacts, PageFacts
  <1> SUFFICES ASSUME ~FramesFree PROVE FALSE
    OBVIOUS
  <1> DEFINE n == numThreads - 1
             N == 1..n
  <1>1. Shape /\ Marked /\ Place /\ SchedInv /\ LoopInv /\ ProgSched
    BY DEF ProgPaging, Clean
  <1>2. PICK x \in Pages : \A y \in Pages \ {x} : masterTable[y] = 1
    BY <1>1, AllButOne
  <1>3. /\ current = Main /\ pc = "run" /\ current # NULL /\ threadIDS <= numThreads
    BY DEF createThread, CreateLoop, InMain, UserCode, Running
  <1>4. numThreads \in 1..(MaxThreads - 1) /\ threadIDS \in Nat
    BY <1>1 DEF ProgSched, SchedInv
  <1>5. n \in 0..(MaxThreads - 1) /\ threadIDS - 1 <= n
    BY <1>3, <1>4
  <1>6. PagesOf(Main) = EndPages /\ last = 0
    BY <1>3, ProgPages
  <1>7. ASSUME NEW l \in Pages \ {x}
        PROVE  \/ l \in EndPages
               \/ \E t \in N : \E k \in BlockPages : pageTables[t][k] = l
               \/ \E t \in {} : \E k \in EndPages : pageTables[t][k] = l
    <2>1. ~Vacating /\ masterTable[l] = 1 /\ l \in Locations
      BY <1>2, <1>3 DEF Vacating
    <2>2. PICK t \in Live : \E k \in PagesOf(t) : pageTables[t][k] = l
      BY <1>1, <1>3, <2>1 DEF Marked
    <2>3. CASE t = Main
      BY <1>1, <1>3, <1>6, <2>2, <2>3 DEF Place
    <2>4. CASE t # Main
      <3>1. t \in N
        BY <1>4, <1>5, <2>4, ProgPages
      <3>2. PagesOf(t) \subseteq BlockPages
        BY <1>1, LiveOrFreed DEF Shape
      <3> QED
        BY <2>2, <3>1, <3>2
    <2> QED
      BY <2>3, <2>4
  <1> HIDE DEF n
  <1>8. N \in SUBSET Threads /\ Cardinality(N) = n
    BY <1>5, ThreadCount
  <1> HIDE DEF N
  <1>9. Cardinality(Pages \ {x}) <=
          Cardinality(EndPages) + Cardinality(N) * (HalfOfPages + 2) + 2 * Cardinality({})
    <2>1. {} \in SUBSET Threads /\ IsFiniteSet(EndPages)
      BY PageCounts
    <2> QED
      BY <1>7, <1>8, <2>1, Counted
  <1>10. Cardinality(Pages \ {x}) = MEMORYPAGES - 1
    BY PageCounts, FS_RemoveElement
  <1>11. MEMORYPAGES - 1 <= 2 + n * (HalfOfPages + 2) + 2 * 0
    BY <1>8, <1>9, <1>10, PageCounts, FS_EmptySet
  <1>12. n * (HalfOfPages + 2) + 4 <= MEMORYPAGES /\ n * (HalfOfPages + 2) \in Nat
    <2>1. (HalfOfPages + 2) * n + 4 <= MEMORYPAGES
      BY DEF ProgPaging, Fits, n
    <2> QED
      BY <1>5, <2>1
  <1> QED
    BY <1>11, <1>12

LEMMA ProgCleanStep ==
  ASSUME ProgPaging, Locks, client = "counter", ProgramNext
  PROVE  Clean'
  <1> USE ThreadFacts, PageFacts
  <1>1. SchedInv /\ LoopInv /\ ProgSched /\ ProgMallocs /\ Clean /\ BlockEnd
    BY DEF ProgPaging
  <1>2. Alone /\ (pc \in {"out", "in"} \/ ClaimEvicts => Room)
        /\ (pc = "fault" => masterTable[HalfOfPages] = 0)
    BY <1>1, ProgAlone, ProgRoom DEF BlockEnd
  <1>20. InReach
    BY <1>1 DEF InReach, Reachable, ProgSched
  <1>3. CASE mallocHandles \/ mallocHalf
    <2>1. NoneFreed /\ (myallocate(0, 0) \/ myallocate(HalfOfPages, HalfOfPages))
      BY <1>1, <1>3, ProgControlMalloc
    <2> QED
      BY <1>1, <2>1, myallocateClean
  <1>4. CASE createThread
    <2>1. my_pthread_create /\ FramesFree
      BY <1>4, ProgFrames DEF createThread
    <2> QED
      BY <1>1, <1>2, <2>1, CreateClean
  <1>5. CASE exitCounter
    <2>1. my_pthread_exit
      BY <1>5 DEF exitCounter
    <2> QED
      BY <1>1, <2>1, <1>2, ExitClean
  <1>6. CASE joinThread
    <2>1. \E u \in Threads : JoinCall(u)
      <3>1. JoinCall(Min(Unjoined))
        BY <1>6 DEF joinThread
      <3>2. Min(Unjoined) \in Threads
        BY <3>1, <1>1 DEF JoinCall, SchedInv, Threads
      <3> QED
        BY <3>1, <3>2
    <2> QED
      BY <1>1, <2>1, QuietClean
  <1>7. CASE JoinReturn
    BY <1>1, <1>7, JoinReturnClean
  <1>8. CASE Switch \/ Allocation \/ ProcessEnds
    <2>1. my_pthread_create => pc = "run"
      BY DEF my_pthread_create, Running
    <2>2. Switch \/ Allocation => pc # "run"
      BY <1>1, SwitchStepFacts, AllocationStepFacts
    <2>3. CASE ProcessEnds
      BY <1>1, <2>3, QuietClean
    <2> QED
      BY <1>1, <1>2, <1>20, <1>8, <2>1, <2>2, <2>3, CleanStep
  <1>9. CASE UNCHANGED vars
    BY <1>1, <1>9, PagingStutters
  <1> QED
    BY <1>1, <1>3, <1>4, <1>5, <1>6, <1>7, <1>8, <1>9, ProgCases DEF LibraryLoop

LEMMA ProgDataKept ==
  ASSUME ProgData, Born' = Born, UNCHANGED <<written, malloced>>,
         last = 0 \/ UNCHANGED <<current, last>>
  PROVE  ProgData'
  BY DEF ProgData

LEMMA ProgDataStep ==
  ASSUME ProgPaging, Locks, client = "counter", ProgramNext
  PROVE  ProgData'
  <1> USE ThreadFacts, PageFacts
  <1>1. SchedInv /\ LoopInv /\ ProgSched /\ ProgMallocs /\ ProgData /\ Shape /\ Allocating
    BY DEF ProgPaging, Clean
  <1>2. CASE mallocHandles \/ mallocHalf
    <2>1. /\ malloced' = malloced \union {current} /\ threadIDS' = threadIDS
          /\ current' = current
          /\ \/ current = Main /\ myallocate(0, 0)
             \/ myallocate(HalfOfPages, HalfOfPages)
      BY <1>1, <1>2, ProgControlMalloc DEF SchedKept
    <2>2. /\ written' = written /\ last = 0
          /\ current = Main \/ last' = HalfOfPages
      <3>1. written' = written /\ Running("user") /\ (current = Main \/ last' = HalfOfPages)
        BY <2>1 DEF myallocate, paging
      <3> QED
        BY <1>1, <3>1, RunningFacts
    <2>3. Born' = Born
      BY <2>1 DEF Born
    <2> QED
      BY <1>1, <2>1, <2>2, <2>3 DEF ProgData
  <1>3. CASE createThread
    <2>1. /\ my_pthread_create /\ malloced' = malloced /\ last = 0
          /\ threadIDS \in Threads /\ threadIDS' = threadIDS + 1
          /\ written' = [written EXCEPT ![threadIDS] = EndPages]
      BY <1>1, <1>3, RunningFacts DEF createThread, my_pthread_create, clientVars, EndPages
    <2>2. Born' = Born \union {threadIDS} /\ threadIDS \notin Born
      BY <1>1, <2>1 DEF Born, Threads, SchedInv
    <2>3. /\ written'[threadIDS] = EndPages
          /\ \A t \in Born : written'[t] = written[t]
      BY <1>1, <2>1, <2>2 DEF LoopInv
    <2>4. Main \in Born /\ malloced \subseteq Born
      BY <1>1, NewestFacts DEF ProgMallocs
    <2> QED
      BY <1>1, <2>1, <2>2, <2>3, <2>4 DEF ProgData
  <1>4. CASE exitCounter
    <2>1. /\ my_pthread_exit /\ malloced' = malloced /\ last = 0 /\ written' = written
          /\ threadIDS' = threadIDS
      BY <1>1, <1>4, RunningFacts DEF exitCounter, my_pthread_exit, clientVars, paging
    <2>2. Born' = Born
      BY <2>1 DEF Born
    <2> QED
      BY <1>1, <2>1, <2>2, ProgDataKept
  <1>5. CASE joinThread \/ (JoinReturn /\ UNCHANGED <<clientVars, mutexVars>>)
    <2>1. /\ malloced' = malloced /\ written' = written /\ threadIDS' = threadIDS
          /\ UNCHANGED <<current, last>>
      BY <1>5 DEF joinThread, JoinCall, JoinReturn, clientVars, paging, locals
    <2>2. Born' = Born
      BY <2>1 DEF Born
    <2> QED
      BY <1>1, <2>1, <2>2, ProgDataKept
  <1>6. CASE \/ Switch /\ UNCHANGED clientVars
             \/ ProcessEnds /\ UNCHANGED clientVars
             \/ UNCHANGED <<vars, malloced>>
    <2>1. /\ malloced' = malloced /\ written' = written /\ threadIDS' = threadIDS
          /\ UNCHANGED <<current, last>>
      BY <1>6, SwitchStepFacts DEF ProcessEnds, vars, sched, paging, locals, SchedKept,
                                   clientVars
    <2>2. Born' = Born
      BY <2>1 DEF Born
    <2> QED
      BY <1>1, <2>1, <2>2, ProgDataKept
  <1>7. CASE Allocation /\ UNCHANGED clientVars
    <2>1. /\ pc \in {"tags", "fault"} /\ SchedKept /\ malloced' = malloced
          /\ \A t \in Threads : written[t] \subseteq written'[t]
          /\ \A t \in Threads \ {current} : written'[t] = written[t]
          /\ \/ last' = last
             \/ want = <<>> /\ last' = 0
      BY <1>1, <1>7, AllocationStepFacts DEF clientVars
    <2>2. /\ current \in malloced /\ last = IF current = Main THEN 0 ELSE HalfOfPages
          /\ want = <<>> => last \in written[current]
      BY <1>1, <2>1 DEF ProgMallocs, Allocating
    <2>3. Born' = Born /\ current' = current
      BY <2>1 DEF Born, SchedKept
    <2>4. written'[Main] = EndPages
      <3>1. CASE current # Main
        BY <1>1, <2>1, <3>1 DEF ProgData
      <3>2. CASE current = Main
        <4>1. last = 0 /\ pc # "fault"
          BY <1>1, <2>2, <3>2 DEF Allocating
        <4>2. want # <<>> => Head(want) = 0
          <5>1. want \in Seq(0..(Last - 1)) /\ \A k \in DOMAIN want : want[k] = 0
            BY <1>1, <2>1, <4>1 DEF LoopInv, Allocating
          <5> QED
            BY <5>1, HeadTailProperties, LenProperties, EmptySeq
        <4>3. i \in 0..(last + 1)
          BY <1>1, <2>1 DEF LoopInv
        <4>4. CASE WriteTag
          <5>1. want # <<>> /\ written' = [written EXCEPT ![current] = @ \union {Head(want)}]
            BY <4>4 DEF WriteTag
          <5>2. written'[Main] = written[Main] \union {Head(want)}
            BY <1>1, <3>2, <5>1 DEF LoopInv
          <5> QED
            BY <1>1, <4>2, <5>1, <5>2 DEF ProgData, EndPages
        <4>5. CASE ClaimPage
          <5>1. i <= last /\ written' = [written EXCEPT ![current] = @ \union {i}]
            BY <4>5 DEF ClaimPage
          <5>2. written'[Main] = written[Main] \union {i} /\ i = 0
            BY <1>1, <3>2, <4>1, <4>3, <5>1 DEF LoopInv
          <5> QED
            BY <1>1, <5>2 DEF ProgData, EndPages
        <4>6. CASE ~WriteTag /\ ~ClaimPage
          <5>1. written' = written
            BY <1>7, <4>6 DEF Allocation, Fault, FaultOnFreeFrame, FaultScan, FaultGivesUp,
                              ClaimEvicts, myallocateReturns, paging
          <5> QED
            BY <1>1, <5>1 DEF ProgData
        <4> QED
          BY <4>4, <4>5, <4>6
      <3> QED
        BY <3>1, <3>2
    <2>5. \A t \in Born \ malloced : written'[t] = EndPages
      BY <1>1, <2>1, <2>2 DEF ProgData
    <2>6. ASSUME NEW t \in malloced \ {Main}
          PROVE  HalfOfPages \in written'[t] \/ (t = current /\ last' # 0)
      <3>1. t \in Threads
        BY <1>1 DEF ProgMallocs
      <3>2. CASE t # current \/ last = 0
        BY <1>1, <2>1, <3>1, <3>2 DEF ProgData
      <3>3. CASE t = current /\ last # 0
        BY <2>1, <2>2, <3>1, <3>3
      <3> QED
        BY <3>2, <3>3
    <2> QED
      BY <2>1, <2>3, <2>4, <2>5, <2>6 DEF ProgData
  <1>8. \/ Switch /\ UNCHANGED clientVars
        \/ ProcessEnds /\ UNCHANGED clientVars
        \/ Allocation /\ UNCHANGED clientVars
        \/ UNCHANGED <<vars, malloced>>
        \/ mallocHandles \/ mallocHalf \/ createThread \/ exitCounter \/ joinThread
        \/ JoinReturn /\ UNCHANGED <<clientVars, mutexVars>>
    BY <1>1, ProgCases DEF LibraryLoop
  <1> QED
    BY <1>2, <1>3, <1>4, <1>5, <1>6, <1>7, <1>8

\* A switch moves no page to the frame where a block ends, if it is in use, nor
\* takes it from the page that is there.
OnlyItsPage(f) == \A t \in Born : \A k \in PagesOf(t) : pageTables[t][k] = f => k = f

LEMMA SwitchSpares ==
  ASSUME SchedInv, LoopInv, Clean, Room, Switch
  PROVE  /\ \A t \in Threads : \A k \in Pages :
               pageTables'[t][k] = HalfOfPages =>
                  \/ pageTables[t][k] = HalfOfPages
                  \/ nextFreePage(masterTable) = HalfOfPages /\ (pc = "out" \/ temp = NULL)
         /\ masterTable[HalfOfPages] = 1 =>
              /\ nextFreePage(masterTable) # HalfOfPages
              /\ prot[HalfOfPages] => prot'[HalfOfPages]
              /\ OnlyItsPage(HalfOfPages) => masterTable'[HalfOfPages] = 1
  <1> USE ThreadFacts, PageFacts
  <1> DEFINE h == HalfOfPages
             l == nextFreePage(masterTable)
             Spared == /\ prot[h] /\ l # h => prot'[h]
                       /\ masterTable[h] = 1 => masterTable'[h] = 1
             Stays == \A t \in Threads : \A k \in Pages :
                         pageTables'[t][k] = h => pageTables[t][k] = h \/ l = h
             MovesTo(k) == \/ pageTables' = [pageTables EXCEPT ![j][k] = l]
                           \/ pageTables' = [[pageTables EXCEPT ![j][k] = l]
                                              EXCEPT ![current][i] = i]
  <1>1. /\ pageTables \in [Threads -> [Pages -> Locations \union {NONE}]]
        /\ masterTable \in [Locations -> {0, 1}] /\ prot \in [Pages -> BOOLEAN]
        /\ Place /\ Shape
    BY DEF Clean, Shape, Marked, Protection
  <1>2. l \in Locations /\ masterTable[l] = 0
    BY FreePlace DEF Room
  <1>3. h \in Locations /\ h \in Pages /\ h \notin {0, 1, Last}
    OBVIOUS
  <1>4. /\ pc \in {"out", "in"} /\ i \in {0, 1}
        /\ current \in Threads /\ current \in Born
    BY <1>1, SwitchStepFacts, CurrentIsBorn DEF Place, LoopInv, SchedInv
  <1> HIDE DEF l, h
  <1>5. CASE SwapOutPage
    <2>1. /\ pc = "out" /\ swap_out(i, l)
          /\ pageTables' = [pageTables EXCEPT ![temp][i] = l]
          /\ masterTable' = [masterTable EXCEPT ![l] = 1]
      BY <1>5 DEF SwapOutPage, InLoop, l
    <2>2. Stays
      BY <1>1, <2>1
    <2>3. Spared
      BY <1>1, <1>2, <1>3, <2>1 DEF swap_out
    <2> QED
      BY <1>2, <2>1, <2>2, <2>3 DEF h, l
  <1>6. CASE SwapOutLast
    <2>1. /\ pc = "out" /\ swap_out(Last, l)
          /\ pageTables' = [pageTables EXCEPT ![temp][Last] = l]
          /\ masterTable' = Vacated(i, l)
      BY <1>6 DEF SwapOutLast, InLoop, l
    <2>2. Stays
      BY <1>1, <2>1
    <2>3. ~(h < i)
      BY <1>3, <1>4 DEF h
    <2>4. Spared
      BY <1>1, <1>2, <1>3, <2>1, <2>3 DEF swap_out, Vacated
    <2> QED
      BY <1>2, <2>1, <2>2, <2>4 DEF h, l
  <1>7. CASE Evict \/ EvictLast
    <2>1. /\ pc = "in" /\ temp = NULL
          /\ \/ \E p \in {i, Last}, k \in Pages : /\ swap_out(p, l)
                              /\ MovesTo(k)
                              /\ masterTable' = [masterTable EXCEPT ![l] = 1]
             \/ UNCHANGED <<pageTables, masterTable, prot>>
      <3>1. CASE Evict
        <4> DEFINE ks == {k \in Pages : pageTables[j][k] = i}
        <4>1. pc = "in" /\ temp = NULL /\ MoveFrom(i)
          BY <3>1 DEF Evict, InLoop
        <4>2. ks # {} => Min(ks) \in Pages
          BY LeastExists DEF Pages
        <4>3. /\ ks = {} => UNCHANGED <<pageTables, masterTable, prot>>
              /\ ks # {} => /\ swap_out(i, l)
                            /\ MovesTo(Min(ks))
                            /\ masterTable' = [masterTable EXCEPT ![l] = 1]
          BY <4>1 DEF MoveFrom, l
        <4> QED
          BY <4>1, <4>2, <4>3
      <3>2. CASE EvictLast
        BY <3>2 DEF EvictLast, InLoop, l
      <3> QED
        BY <1>7, <3>1, <3>2
    <2>2. CASE UNCHANGED <<pageTables, masterTable, prot>>
      BY <1>2, <2>1, <2>2 DEF h, l
    <2>3. CASE \E p \in {i, Last}, k \in Pages :
                              /\ swap_out(p, l)
                              /\ MovesTo(k)
                              /\ masterTable' = [masterTable EXCEPT ![l] = 1]
      <3>1. PICK p \in {i, Last}, k \in Pages :
                              /\ swap_out(p, l)
                              /\ MovesTo(k)
                              /\ masterTable' = [masterTable EXCEPT ![l] = 1]
        BY <2>3
      <3>2. Stays
        <4>1. i # h
          BY <1>3, <1>4
        <4> QED
          BY <1>1, <3>1, <4>1
      <3>3. Spared
        BY <1>1, <1>2, <1>3, <3>1 DEF swap_out
      <3> QED
        BY <1>2, <2>1, <3>2, <3>3 DEF h, l
    <2> QED
      BY <2>1, <2>2, <2>3
  <1>8. CASE SwapInPage \/ SwapInLast
    <2>1. PICK p \in {i, Last} :
             /\ p \in PagesOf(current)
             /\ \/ UNCHANGED <<store, prot>>
                \/ swap_in(pageTables[current][p], p)
             /\ pageTables' = [pageTables EXCEPT ![current][p] = p]
             /\ masterTable' = [masterTable EXCEPT ![pageTables[current][p]] = 0, ![p] = 1]
      <3>1. Last \in PagesOf(current) /\ (pageTables[current][i] # NONE => i \in PagesOf(current))
        BY <1>1, <1>4 DEF Shape, EndPages, PagesOf
      <3>2. CASE SwapInPage
        BY <3>1, <3>2 DEF SwapInPage, Arrived
      <3>3. CASE SwapInLast
        BY <3>1, <3>3 DEF SwapInLast, Arrived
      <3> QED
        BY <1>8, <3>2, <3>3
    <2>2. p \in Pages /\ p # h
      BY <1>3, <1>4, <2>1
    <2>3. \A t \in Threads : \A k \in Pages : pageTables'[t][k] = h => pageTables[t][k] = h
      BY <1>1, <2>1, <2>2
    <2>4. prot[h] => prot'[h]
      BY <1>1, <1>3, <2>1 DEF swap_in
    <2>5. masterTable[h] = 1 /\ OnlyItsPage(h) => masterTable'[h] = 1
      <3>1. OnlyItsPage(h) => pageTables[current][p] # h
        BY <1>4, <2>1, <2>2 DEF OnlyItsPage
      <3>2. p # h /\ p \in Locations
        BY <2>2
      <3> QED
        BY <1>1, <1>3, <2>1, <3>1, <3>2
    <2>6. masterTable[h] = 1 => l # h
      BY <1>2
    <2> HIDE DEF Spared, Stays, MovesTo
    <2> QED
      BY <2>3, <2>4, <2>5, <2>6, Zenon DEF h, l
  <1> QED
    BY <1>5, <1>6, <1>7, <1>8 DEF Switch

\* Before the first block there are at most two threads, with two pages each.
LEMMA EarlyThreads ==
  ASSUME ProgPaging, malloced \subseteq {Main}
  PROVE  /\ \A t \in Born : (t = Main \/ t = Newest) /\ PagesOf(t) = EndPages
         /\ last = 0 /\ pc # "fault" /\ ~(pc = "in" /\ temp = NULL)
         /\ ~Counting => Newest = Main
  <1> USE ThreadFacts, PageFacts
  <1>1. /\ SchedInv /\ LoopInv /\ ProgSched /\ ProgMallocs /\ ProgData
        /\ Shape /\ Allocating
    BY DEF ProgPaging, Clean
  <1>2. last = 0 /\ pc # "fault"
    BY <1>1 DEF LoopInv, ProgMallocs, Allocating
  <1>3. \A t \in Born : t = Main \/ (t = Newest /\ Counting)
    BY <1>1 DEF ProgMallocs
  <1>4. \A t \in Born : written[t] = EndPages
    BY <1>1 DEF ProgData
  <1>5. \A t \in Born : PagesOf(t) = EndPages
    BY <1>1, <1>2, <1>4 DEF Shape
  <1>6. ~Counting => Newest = Main
    BY <1>1, <1>3, NewestFacts
  <1>7. ~(pc = "in" /\ temp = NULL)
    <2>1. pc = "in" /\ temp = NULL => ~Counting /\ threadIDS > 1
      BY <1>1 DEF ProgMallocs
    <2>2. Newest = Main => threadIDS = 1
      BY <1>1, NewestFacts
    <2> QED
      BY <1>6, <2>1, <2>2
  <1> QED
    BY <1>2, <1>3, <1>5, <1>6, <1>7

LEMMA EarlyRoom ==
  ASSUME ProgPaging, malloced \subseteq {Main}, pc = "out"
  PROVE  nextFreePage(masterTable) # HalfOfPages
  <1> USE ThreadFacts, PageFacts
  <1>1. Marked /\ Place /\ SchedInv /\ ProgMallocs /\ Main = 0
    BY DEF ProgPaging, Clean, Main
  <1>2. pageTables[Main][Last] = Last
    BY <1>1 DEF Place, ProgMallocs
  <1> DEFINE a == pageTables[Main][0]
             b == pageTables[Newest][0]
             d == pageTables[Newest][Last]
  <1>3. PICK x \in {1, 2, 3, 4} : x # a /\ x # b /\ x # d
    OBVIOUS
  <1>4. x \in Locations /\ x \notin EndPages /\ x < HalfOfPages /\ x \in Nat
    BY DEF EndPages, Pages, Last
  <1>5. masterTable[x] # 1
    <2> SUFFICES ASSUME masterTable[x] = 1 PROVE FALSE
      OBVIOUS
    <2>1. \E t \in Live : \E k \in PagesOf(t) : pageTables[t][k] = x
      BY <1>1, <1>4 DEF Marked
    <2>2. PICK t \in Live : \E k \in PagesOf(t) : pageTables[t][k] = x
      BY <2>1
    <2>3. (t = Main \/ t = Newest) /\ PagesOf(t) = EndPages
      BY <1>1, EarlyThreads, LiveOrFreed
    <2> QED
      BY <1>2, <1>3, <1>4, <2>2, <2>3 DEF EndPages
  <1>6. masterTable[x] = 0
    BY <1>1, <1>4, <1>5 DEF Marked
  <1>7. nextFreePage(masterTable) <= x /\ nextFreePage(masterTable) \in Locations
    BY <1>4, <1>6, FreePlace
  <1> QED
    BY <1>4, <1>7 DEF Locations

\* The frames of the first thread that is created are low ones.
LEMMA EarlyFramesFree ==
  ASSUME ProgPaging, malloced \subseteq {Main}, createThread
  PROVE  /\ nextFreePage(masterTable) # HalfOfPages
         /\ EndIndex(nextFreePage(masterTable)) # HalfOfPages
  <1> USE ThreadFacts, PageFacts
  <1>1. Marked /\ Place /\ SchedInv /\ LoopInv /\ ProgSched
    BY DEF ProgPaging, Clean
  <1>2. current = Main /\ pc = "run" /\ current # NULL /\ ~Counting
    BY <1>1, NewestFacts DEF createThread, InMain, UserCode, Running
  <1>3. \A t \in Live : t = Main /\ PagesOf(t) = EndPages
    BY <1>1, <1>2, EarlyThreads, LiveOrFreed
  <1>4. ASSUME NEW x \in {1, 2}
        PROVE  x \in Locations /\ masterTable[x] = 0 /\ x < HalfOfPages /\ x \in Nat
    <2>1. x \in Locations /\ x \notin EndPages /\ x < HalfOfPages /\ x \in Nat
      BY DEF EndPages, Pages, Last
    <2>2. masterTable[x] # 1
      BY <1>1, <1>2, <1>3, <2>1 DEF Marked, Vacating, Place
    <2> QED
      BY <1>1, <2>1, <2>2 DEF Marked
  <1> DEFINE p == nextFreePage(masterTable)
             m == [masterTable EXCEPT ![p] = 1]
  <1>5. p \in Locations /\ p <= 1
    BY <1>4, FreePlace
  <1>6. m[2] = 0
    BY <1>1, <1>4, <1>5 DEF Marked, Locations
  <1> HIDE DEF m
  <1>7. nextFreePage(m) \in Locations /\ nextFreePage(m) <= 2
    BY <1>4, <1>6, FreePlace
  <1> QED
    BY <1>5, <1>7 DEF Locations, EndIndex, m

LEMMA EarlyStep ==
  ASSUME ProgPaging, Locks, client = "counter", ProgramNext
  PROVE  EarlyFrames'
  <1> USE ThreadFacts, PageFacts
  <1> SUFFICES ASSUME malloced' \subseteq {Main}, NEW t \in Born', NEW k \in Pages,
                      pageTables'[t][k] # NONE, pageTables'[t][k] = HalfOfPages
               PROVE  FALSE
    BY DEF EarlyFrames, PagesOf
  <1>1. /\ SchedInv /\ LoopInv /\ ProgSched /\ ProgMallocs /\ ProgData
        /\ Shape /\ Allocating /\ Clean /\ EarlyFrames
    BY DEF ProgPaging, Clean
  <1>2. /\ pageTables \in [Threads -> [Pages -> Locations \union {NONE}]]
        /\ HalfOfPages \in Locations /\ HalfOfPages # NONE
    BY <1>1 DEF Shape
  <1>3. ASSUME malloced \subseteq {Main}, t \in Born
        PROVE  pageTables[t][k] # HalfOfPages
    BY <1>1, <1>2, <1>3 DEF EarlyFrames, PagesOf
  <1>4. CASE mallocHandles \/ mallocHalf
    <2>1. /\ malloced' = malloced \union {current} /\ threadIDS' = threadIDS
          /\ pageTables' = pageTables
      BY <1>1, <1>4, ProgControlMalloc DEF SchedKept, myallocate, paging
    <2> QED
      BY <1>3, <2>1 DEF Born
  <1>5. CASE createThread
    <2>1. malloced' = malloced /\ threadIDS' = threadIDS + 1 /\ threadIDS \in Threads
          /\ pageTables' = [pageTables EXCEPT ![threadIDS] =
               [m \in Pages |-> CASE m = 0 -> nextFreePage(masterTable)
                                  [] m = Last -> EndIndex(nextFreePage(masterTable))
                                  [] OTHER -> NONE]]
      BY <1>5 DEF createThread, my_pthread_create, clientVars
    <2>2. CASE t = threadIDS
      BY <1>2, <1>5, <2>1, <2>2, EarlyFramesFree
    <2>3. CASE t # threadIDS
      <3>1. t \in Born /\ pageTables'[t] = pageTables[t]
        BY <1>1, <1>2, <2>1, <2>3 DEF Born, Threads, SchedInv
      <3> QED
        BY <1>3, <2>1, <3>1
    <2> QED
      BY <2>2, <2>3
  <1>6. CASE exitCounter \/ joinThread \/ (JoinReturn /\ UNCHANGED <<clientVars, mutexVars>>)
          \/ (ProcessEnds /\ UNCHANGED clientVars) \/ UNCHANGED <<vars, malloced>>
    <2>1. malloced' = malloced /\ threadIDS' = threadIDS /\ pageTables' = pageTables
      BY <1>6 DEF exitCounter, joinThread, my_pthread_exit, JoinCall, JoinReturn, ProcessEnds,
                  vars, sched, paging, clientVars
    <2> QED
      BY <1>3, <2>1 DEF Born
  <1>7. CASE Switch /\ UNCHANGED clientVars
    <2>1. malloced' = malloced /\ threadIDS' = threadIDS
      BY <1>7, SwitchStepFacts DEF SchedKept, clientVars
    <2>2. Room /\ pc \in {"out", "in"}
      BY <1>7, SwitchStepFacts, ProgRoom
    <2>3. \/ pageTables[t][k] = HalfOfPages
          \/ nextFreePage(masterTable) = HalfOfPages /\ (pc = "out" \/ temp = NULL)
      BY <1>1, <1>7, <2>1, <2>2, SwitchSpares DEF Born
    <2> QED
      BY <1>3, <2>1, <2>2, <2>3, EarlyRoom, EarlyThreads DEF Born
  <1>8. CASE Allocation /\ UNCHANGED clientVars
    <2>1. malloced' = malloced /\ threadIDS' = threadIDS /\ pc \in {"tags", "fault"}
      BY <1>1, <1>8, AllocationStepFacts DEF SchedKept, clientVars
    <2>2. last = 0 /\ pc = "tags"
      BY <2>1, EarlyThreads
    <2>3. CASE ClaimPage
      <3>1. i <= last /\ pageTables' = [pageTables EXCEPT ![current][i] = i]
        BY <2>3 DEF ClaimPage, TakeFrame
      <3>2. i \in 0..(last + 1)
        BY <1>1, <2>1 DEF LoopInv
      <3>3. i # HalfOfPages
        BY <2>2, <3>1, <3>2
      <3> QED
        BY <1>2, <1>3, <2>1, <3>1, <3>3 DEF Born
    <2>4. CASE ClaimEvicts
      BY <1>1, <2>2, <2>4, ClaimEvictsPage
    <2>5. CASE ~ClaimPage /\ ~ClaimEvicts
      <3>1. pageTables' = pageTables
        BY <1>8, <2>2, <2>5 DEF Allocation, WriteTag, Fault, FaultOnFreeFrame, FaultScan,
             FaultGivesUp, myallocateReturns, InLoop, paging
      <3> QED
        BY <1>3, <2>1, <3>1 DEF Born
    <2> QED
      BY <2>3, <2>4, <2>5
  <1>9. \/ Switch /\ UNCHANGED clientVars
        \/ ProcessEnds /\ UNCHANGED clientVars
        \/ Allocation /\ UNCHANGED clientVars
        \/ UNCHANGED <<vars, malloced>>
        \/ mallocHandles \/ mallocHalf \/ createThread \/ exitCounter \/ joinThread
        \/ JoinReturn /\ UNCHANGED <<clientVars, mutexVars>>
    BY <1>1, ProgCases DEF LibraryLoop
  <1> QED
    BY <1>4, <1>5, <1>6, <1>7, <1>8, <1>9

\* Between the calls, and before the first block, the frame is free.
LEMMA EndIsFree ==
  ASSUME ProgPaging, malloced \subseteq {Main}, pc = "run"
  PROVE  masterTable[HalfOfPages] = 0
  <1> USE ThreadFacts, PageFacts
  <1>1. Marked /\ EarlyFrames /\ SchedInv
    BY DEF ProgPaging, Clean
  <1>2. \A t \in Live : \A k \in PagesOf(t) : pageTables[t][k] # HalfOfPages
    BY <1>1, LiveOrFreed DEF EarlyFrames
  <1>3. HalfOfPages \in Locations
    OBVIOUS
  <1> QED
    BY <1>1, <1>2, <1>3 DEF Marked, Vacating

\* What a step keeps that leaves the paging alone.
LEMMA BlockEndKept ==
  ASSUME BlockEnd, UNCHANGED <<pageTables, masterTable, prot>>, Born' = Born,
         Blocked' => Blocked,
         last' # 0 /\ want' # <<>> => \/ last # 0 /\ want # <<>>
                                      \/ prot[HalfOfPages] \/ masterTable[HalfOfPages] = 0,
         pc' # "fault"
  PROVE  BlockEnd'
  BY DEF BlockEnd, PagesOf

LEMMA BlockEndSwitch ==
  ASSUME ProgPaging, Switch, UNCHANGED malloced
  PROVE  BlockEnd'
  <1> USE ThreadFacts, PageFacts
  <1>1. SchedInv /\ LoopInv /\ Clean /\ BlockEnd /\ Room
    BY SwitchStepFacts, ProgRoom DEF ProgPaging
  <1>2. /\ last = 0 /\ last' = 0 /\ pc' # "fault" /\ Born' = Born /\ Blocked' = Blocked
    BY <1>1, SwitchStepFacts
    DEF LoopInv, SchedKept, Born, Blocked, NoneFreed
  <1>3. ASSUME Blocked
        PROVE  /\ prot'[HalfOfPages] /\ masterTable'[HalfOfPages] = 1
               /\ \A t \in Born : \A k \in Pages :
                     pageTables'[t][k] = HalfOfPages => k = HalfOfPages
    <2>1. /\ prot[HalfOfPages] /\ masterTable[HalfOfPages] = 1
          /\ OnlyItsPage(HalfOfPages)
      BY <1>1, <1>3 DEF BlockEnd, OnlyItsPage
    <2>2. /\ prot'[HalfOfPages] /\ masterTable'[HalfOfPages] = 1
          /\ \A t \in Threads : \A k \in Pages :
                pageTables'[t][k] = HalfOfPages => pageTables[t][k] = HalfOfPages
      BY <1>1, <2>1, SwitchSpares
    <2>3. ASSUME NEW t \in Born, NEW k \in Pages, pageTables'[t][k] = HalfOfPages
          PROVE  k = HalfOfPages
      <3>1. pageTables[t][k] = HalfOfPages
        BY <2>2, <2>3
      <3>2. k \in PagesOf(t)
        BY <3>1 DEF PagesOf
      <3> QED
        BY <2>1, <3>1, <3>2 DEF OnlyItsPage
    <2> QED
      BY <2>2, <2>3
  <1> QED
    BY <1>2, <1>3 DEF BlockEnd, PagesOf

LEMMA BlockEndCreate ==
  ASSUME ProgPaging, createThread
  PROVE  BlockEnd'
  <1> USE ThreadFacts, PageFacts
  <1>1. /\ SchedInv /\ LoopInv /\ ProgSched /\ ProgMallocs /\ Clean /\ BlockEnd
        /\ Marked /\ Protection /\ Shape
    BY DEF ProgPaging, Clean
  <1> DEFINE p == nextFreePage(masterTable)
             e == EndIndex(p)
  <1>2. /\ my_pthread_create /\ malloced' = malloced /\ Running("user")
        /\ threadIDS \in Threads /\ threadIDS' = threadIDS + 1
        /\ pageTables' = [pageTables EXCEPT ![threadIDS] =
             [k \in Pages |-> CASE k = 0 -> p [] k = Last -> e [] OTHER -> NONE]]
        /\ masterTable' = [masterTable EXCEPT ![p] = 1, ![e] = 1]
        /\ prot' = [f \in Pages |-> f \notin {p, e} /\ prot[f]]
        /\ last' = last
    BY DEF createThread, my_pthread_create, clientVars
  <1>3. last = 0 /\ NoneFreed /\ pc' = "out"
    BY <1>1, <1>2, ProgPages, ProgCreates, RunningFacts DEF createThread
  <1>4. p \in Locations /\ e \in Locations /\ masterTable[p] = 0 /\ masterTable[e] = 0
    <2>1. masterTable[0] = 1 /\ masterTable[Last] = 1
      BY <1>1, <1>2, RunningFacts, OwnFrames
    <2>2. p \in Pages /\ e \in Pages /\ masterTable[p] = 0 /\ masterTable[e] = 0
      BY <1>1, <2>1, ProgFrames, NewFrames
    <2> QED
      BY <2>2
  <1> HIDE DEF p, e
  <1>5. ASSUME Blocked'
        PROVE  /\ prot'[HalfOfPages] /\ masterTable'[HalfOfPages] = 1
               /\ \A t \in Born' : \A k \in Pages :
                     pageTables'[t][k] = HalfOfPages => k = HalfOfPages
    <2>1. Blocked
      BY <1>2, <1>3, <1>5 DEF Blocked
    <2>2. /\ prot[HalfOfPages] /\ masterTable[HalfOfPages] = 1
          /\ OnlyItsPage(HalfOfPages)
      BY <1>1, <2>1 DEF BlockEnd, OnlyItsPage
    <2>3. HalfOfPages # p /\ HalfOfPages # e /\ HalfOfPages # NONE
          /\ HalfOfPages \in Locations /\ HalfOfPages \in Pages
      BY <1>4, <2>2
    <2>4. prot'[HalfOfPages] /\ masterTable'[HalfOfPages] = 1
      BY <1>1, <1>2, <1>4, <2>2, <2>3 DEF Marked
    <2>5. ASSUME NEW t \in Born', NEW k \in Pages, pageTables'[t][k] = HalfOfPages
          PROVE  k = HalfOfPages
      <3>1. CASE t = threadIDS
        <4>1. pageTables'[t][k] \in {p, e, NONE}
          BY <1>1, <1>2, <3>1 DEF Shape
        <4> QED
          BY <2>3, <2>5, <4>1
      <3>2. CASE t # threadIDS
        <4>1. t \in Born /\ pageTables'[t] = pageTables[t]
          BY <1>1, <1>2, <3>2 DEF Born, Threads, SchedInv, Shape
        <4> QED
          BY <2>2, <2>3, <2>5, <4>1 DEF OnlyItsPage, PagesOf
      <3> QED
        BY <3>1, <3>2
    <2> QED
      BY <2>4, <2>5
  <1> QED
    BY <1>2, <1>3, <1>5 DEF BlockEnd, PagesOf

LEMMA BlockEndAllocation ==
  ASSUME ProgPaging, Allocation, UNCHANGED malloced
  PROVE  BlockEnd'
  <1> USE ThreadFacts, PageFacts
  <1> DEFINE h == HalfOfPages
  <1>1. /\ SchedInv /\ LoopInv /\ ProgSched /\ ProgMallocs /\ Clean /\ BlockEnd
        /\ Shape /\ Apart /\ Marked /\ Protection /\ Place /\ Allocating
    BY DEF ProgPaging, Clean
  <1>2. /\ pc \in {"tags", "fault"} /\ SchedKept
        /\ Born' = Born /\ current' = current /\ NoneFreed' = NoneFreed
    BY <1>1, AllocationStepFacts DEF SchedKept, Born, NoneFreed
  <1>3. current \in Threads /\ current \in Born /\ current # NULL
    BY ProgPages
  <1>4. h \in Pages /\ h \in Locations /\ h \notin EndPages /\ h # NONE
    OBVIOUS
  <1>5. /\ DOMAIN masterTable = Locations /\ DOMAIN prot = Pages
        /\ pageTables \in [Threads -> [Pages -> Locations \union {NONE}]]
    BY <1>1 DEF Marked, Protection, Shape
  <1>6. last' = last => Blocked' = Blocked
    BY <1>2 DEF Blocked
  <1> HIDE DEF h
  <1>7. CASE WriteTag
    <2>1. /\ UNCHANGED <<pageTables, masterTable, prot, last>> /\ pc' = "tags"
          /\ want # <<>>
      BY <1>7 DEF WriteTag, InLoop
    <2>2. (Blocked' => Blocked) /\ pc' # "fault"
      BY <1>6, <2>1
    <2> QED
      BY <1>1, <1>2, <2>1, <2>2, BlockEndKept
  <1>8. CASE Fault
    <2>1. /\ UNCHANGED <<pageTables, masterTable, prot, last, want>>
          /\ want # <<>> /\ ~prot[Head(want)]
      BY <1>8 DEF Fault, paging
    <2>2. Head(want) = last
      <3>1. want \in Seq(0..(Last - 1)) /\ \A k \in DOMAIN want : want[k] = last
        BY <1>1, <1>2 DEF LoopInv, Allocating
      <3> QED
        BY <2>1, <3>1, HeadTailProperties, LenProperties, EmptySeq
    <2>3. last # 0 /\ last = h
      <3>1. last \in {0, HalfOfPages} /\ prot[0]
        BY <1>1, <1>2 DEF Allocating, Protection
      <3> QED
        BY <2>1, <2>2, <3>1 DEF h
    <2>4. masterTable[h] = 0
      BY <1>1, <2>1, <2>2, <2>3 DEF BlockEnd, h
    <2> QED
      BY <1>1, <1>2, <1>6, <2>1, <2>4 DEF BlockEnd, PagesOf, h
  <1>9. CASE FaultOnFreeFrame
    <2>1. /\ pc = "fault" /\ Head(want) = h /\ masterTable[h] = 0
          /\ prot' = [prot EXCEPT ![h] = TRUE] /\ pc' = "tags" /\ last' = last
      BY <1>1, <1>9, FaultPage DEF FaultOnFreeFrame, InLoop, locals, h
    <2>2. prot'[h] /\ ~Blocked'
      BY <1>1, <1>4, <1>5, <1>6, <2>1 DEF BlockEnd, h
    <2> QED
      BY <2>1, <2>2 DEF BlockEnd, h
  <1>10. CASE FaultScan \/ FaultGivesUp
    <2>1. pc = "fault" /\ (j > 0 \/ masterTable[Head(want)] = 1)
      BY <1>10 DEF FaultScan, FaultGivesUp, InLoop
    <2>2. Head(want) = h /\ j = 0 /\ masterTable[h] = 0
      BY <1>1, <2>1, FaultPage DEF BlockEnd, h
    <2> QED
      BY <2>1, <2>2
  <1>11. CASE ClaimEvicts
    <2> DEFINE l == nextFreePage(masterTable)
               ks == {k \in Pages : pageTables[j][k] = i}
    <2>1. /\ want = <<>> /\ i \in Pages /\ j \in Threads /\ MoveFrom(i)
          /\ UNCHANGED <<pc, want, last>> /\ pc = "tags"
      BY <1>1, <1>11, ClaimEvictsPage
    <2>2. l \in Locations /\ masterTable[l] = 0
      BY <1>11, ProgRoom, FreePlace DEF Room
    <2>3. ks # {} => Min(ks) \in Pages
      BY LeastExists DEF Pages
    <2>4. /\ ks = {} => UNCHANGED <<pageTables, masterTable, prot>>
          /\ ks # {} => /\ swap_out(i, l)
                        /\ pageTables' = [pageTables EXCEPT ![j][Min(ks)] = l]
                        /\ masterTable' = [masterTable EXCEPT ![l] = 1]
      <3>1. l # i
        BY <1>11, <2>2 DEF ClaimEvicts, Claimable
      <3> QED
        BY <2>1, <3>1 DEF MoveFrom
    <2> HIDE DEF l
    <2>5. ASSUME Blocked
          PROVE  /\ prot'[h] /\ masterTable'[h] = 1
                 /\ \A t \in Born : \A k \in Pages : pageTables'[t][k] = h => k = h
      <3>1. /\ prot[h] /\ masterTable[h] = 1 /\ OnlyItsPage(h)
        BY <1>1, <2>5 DEF BlockEnd, OnlyItsPage, h
      <3>2. l # h
        BY <2>2, <3>1
      <3>3. CASE ks = {}
        <4>1. UNCHANGED <<pageTables, masterTable, prot>>
          BY <2>4, <3>3
        <4>2. \A t \in Born : \A k \in Pages : pageTables[t][k] = h => k = h
          BY <1>4, <3>1 DEF OnlyItsPage, PagesOf
        <4> HIDE DEF ks
        <4> QED
          BY <3>1, <4>1, <4>2
      <3>4. CASE ks # {}
        <4>1. /\ prot' = [f \in Pages |-> IF f = i THEN TRUE
                                         ELSE IF f = l THEN FALSE ELSE prot[f]]
              /\ pageTables' = [pageTables EXCEPT ![j][Min(ks)] = l]
              /\ masterTable' = [masterTable EXCEPT ![l] = 1]
          BY <2>4, <3>4 DEF swap_out
        <4> HIDE DEF ks
        <4>2. prot'[h] = (IF h = i THEN TRUE ELSE prot[h])
          BY <1>4, <3>2, <4>1
        <4>3. prot'[h] /\ masterTable'[h] = 1
          BY <1>4, <1>5, <3>1, <3>2, <4>1, <4>2
        <4>4. \A t \in Threads : \A k \in Pages :
                 pageTables'[t][k] = pageTables[t][k] \/ pageTables'[t][k] = l
          BY <1>5, <4>1
        <4>5. ASSUME NEW t \in Born, NEW k \in Pages, pageTables'[t][k] = h
              PROVE  k = h
          <5>1. pageTables[t][k] = h
            BY <3>2, <4>4, <4>5
          <5>2. k \in PagesOf(t)
            BY <1>4, <5>1 DEF PagesOf
          <5> QED
            BY <3>1, <5>1, <5>2 DEF OnlyItsPage
        <4> QED
          BY <4>3, <4>5
      <3> QED
        BY <3>3, <3>4
    <2> QED
      BY <1>2, <1>6, <2>1, <2>5 DEF BlockEnd, PagesOf, h
  <1>12. CASE ClaimPage
    <2>1. /\ want = <<>> /\ UNCHANGED <<pc, want, last>> /\ pc = "tags"
          /\ pageTables' = [pageTables EXCEPT ![current][i] = i]
          /\ masterTable' = [masterTable EXCEPT ![i] = 1]
          /\ \A f \in Pages : prot[f] => prot'[f]
      BY <1>5, <1>12 DEF ClaimPage, TakeFrame, InLoop
    <2>2. ASSUME Blocked
          PROVE  /\ prot'[h] /\ masterTable'[h] = 1
                 /\ \A t \in Born : \A k \in Pages : pageTables'[t][k] = h => k = h
      <3>1. /\ prot[h] /\ masterTable[h] = 1 /\ OnlyItsPage(h)
        BY <1>1, <2>2 DEF BlockEnd, OnlyItsPage, h
      <3>2. prot'[h] /\ masterTable'[h] = 1
        BY <1>4, <1>5, <2>1, <3>1
      <3>3. \A t \in Threads : \A k \in Pages :
               pageTables'[t][k] = pageTables[t][k] \/ (pageTables'[t][k] = i /\ k = i)
        BY <1>5, <2>1
      <3>4. ASSUME NEW t \in Born, NEW k \in Pages, pageTables'[t][k] = h
            PROVE  k = h
        <4>1. t \in Threads
          BY DEF Born
        <4>2. CASE pageTables'[t][k] = pageTables[t][k]
          <5>1. pageTables[t][k] = h /\ k \in PagesOf(t)
            BY <1>4, <3>4, <4>2 DEF PagesOf
          <5> QED
            BY <3>1, <5>1 DEF OnlyItsPage
        <4>3. CASE pageTables'[t][k] = i /\ k = i
          BY <3>4, <4>3
        <4> QED
          BY <3>3, <4>1, <4>2, <4>3
      <3> QED
        BY <3>2, <3>4
    <2> QED
      BY <1>2, <1>6, <2>1, <2>2 DEF BlockEnd, PagesOf, h
  <1>13. CASE myallocateReturns
    <2>1. /\ UNCHANGED <<pageTables, masterTable, prot, want>> /\ pc' = "run" /\ last' = 0
          /\ pc = "tags" /\ want = <<>> /\ i > last
      BY <1>13 DEF myallocateReturns, InLoop, paging
    <2>2. CASE current = Main
      <3>1. Blocked' => Blocked
        BY <1>2, <2>2 DEF Blocked
      <3> QED
        BY <1>1, <1>2, <2>1, <3>1, BlockEndKept
    <2>3. CASE current # Main
      <3>1. last = h /\ i \in 0..(last + 1) /\ h \in Nat
        BY <1>1, <2>1, <2>3 DEF ProgMallocs, LoopInv, h
      <3>2. h \in 0..(i - 1)
        BY <2>1, <3>1
      <3>3. h \in PagesOf(current) /\ NoneFreed
        BY <1>1, <2>1, <3>1, <3>2 DEF Allocating, h
      <3>4. pageTables[current][h] = h /\ prot[h]
        BY <1>1, <1>3, <2>1, <3>3 DEF Place
      <3>5. \A t \in Born : t \in Live
        BY <1>1, <3>3, LiveOrFreed DEF NoneFreed
      <3>6. masterTable[h] = 1
        BY <1>1, <1>3, <3>3, <3>4, <3>5 DEF Marked
      <3>7. \A t \in Born : \A k \in PagesOf(t) : pageTables[t][k] = h => k = h
        BY <1>1, <1>3, <3>3, <3>4, <3>5 DEF Apart
      <3> QED
        BY <1>2, <2>1, <3>4, <3>6, <3>7 DEF BlockEnd, PagesOf, h
    <2> QED
      BY <2>2, <2>3
  <1> QED
    BY <1>7, <1>8, <1>9, <1>10, <1>11, <1>12, <1>13 DEF Allocation

LEMMA BlockEndStep ==
  ASSUME ProgPaging, Locks, client = "counter", ProgramNext
  PROVE  BlockEnd'
  <1> USE ThreadFacts, PageFacts
  <1>1. SchedInv /\ LoopInv /\ ProgSched /\ ProgMallocs /\ BlockEnd
    BY DEF ProgPaging
  <1>2. CASE mallocHandles \/ mallocHalf
    <2>1. /\ SchedKept /\ malloced' = malloced \union {current}
          /\ pc = "run" /\ pc' = "tags" /\ last = 0
          /\ UNCHANGED <<pageTables, masterTable, prot>>
          /\ current = Main \/ last' # 0
          /\ last' # 0 => NoneFreed
      <3>1. /\ SchedKept /\ malloced' = malloced \union {current} /\ NoneFreed
            /\ \/ current = Main /\ myallocate(0, 0)
               \/ myallocate(HalfOfPages, HalfOfPages)
        BY <1>1, <1>2, ProgControlMalloc
      <3>2. Running("user") /\ UNCHANGED paging /\ pc' = "tags"
            /\ (current = Main \/ last' = HalfOfPages)
        BY <3>1 DEF myallocate
      <3> QED
        BY <1>1, <3>1, <3>2, RunningFacts DEF paging
    <2>2. Born' = Born /\ (Blocked' => Blocked)
      BY <2>1 DEF SchedKept, Born, Blocked, NoneFreed
    <2>3. last' # 0 => prot[HalfOfPages] \/ masterTable[HalfOfPages] = 0
      <3>1. CASE malloced \subseteq {Main}
        BY <2>1, <3>1, EndIsFree
      <3>2. CASE ~(malloced \subseteq {Main}) /\ last' # 0
        BY <1>1, <2>1, <3>2 DEF Blocked, BlockEnd
      <3> QED
        BY <3>1, <3>2
    <2> QED
      BY <1>1, <2>1, <2>2, <2>3, BlockEndKept
  <1>3. CASE exitCounter \/ joinThread
    <2>1. /\ UNCHANGED <<pageTables, masterTable, prot, threadIDS, malloced, last>>
          /\ Running("user")
      BY <1>3 DEF exitCounter, joinThread, my_pthread_exit, JoinCall, paging, clientVars, locals
    <2>2. last = 0 /\ pc = "run" /\ Born' = Born
      BY <1>1, <2>1, RunningFacts DEF Born
    <2>3. NoneFreed' => NoneFreed
      <3>1. CASE exitCounter
        <4>1. Counting
          BY <1>1, <3>1, ProgControlExit
        <4> QED
          BY <1>1, <4>1 DEF ProgSched
      <3>2. CASE joinThread
        BY <3>2 DEF joinThread, JoinCall, NoneFreed
      <3> QED
        BY <1>3, <3>1, <3>2
    <2>4. Blocked' => Blocked
      BY <2>1, <2>2, <2>3 DEF Blocked
    <2>5. pc' # "fault"
      <3>1. CASE exitCounter
        <4>1. Counting /\ my_pthread_exit
          BY <1>1, <3>1, ProgControlExit DEF exitCounter
        <4> QED
          BY <1>1, <2>1, <4>1, ProgExits
      <3>2. CASE joinThread
        BY <2>2, <3>2 DEF joinThread, JoinCall
      <3> QED
        BY <1>3, <3>1, <3>2
    <2> QED
      BY <1>1, <2>1, <2>2, <2>4, <2>5, BlockEndKept
  <1>4. CASE JoinReturn /\ UNCHANGED <<clientVars, mutexVars>>
    <2>1. /\ state' = [state EXCEPT ![target[current]] = "FREED"]
          /\ Running("join") /\ UNCHANGED <<pc, last>>
      BY <1>4 DEF JoinReturn, locals
    <2>2. current = Main /\ last = 0 /\ pc = "run"
      BY <1>1, <2>1, NewestFacts, RunningFacts DEF ProgSched
    <2>3. target[current] \in Threads
      BY <1>1, <2>1, <2>2 DEF ProgSched, Running, Threads
    <2>4. ~NoneFreed'
      BY <1>1, <2>1, <2>3 DEF NoneFreed, SchedInv
    <2> QED
      BY <2>1, <2>2, <2>4 DEF BlockEnd, Blocked
  <1>5. CASE (ProcessEnds /\ UNCHANGED clientVars) \/ UNCHANGED <<vars, malloced>>
    <2>1. UNCHANGED <<pageTables, masterTable, prot, threadIDS, malloced, last, want,
                      pc, current, state>>
      BY <1>5 DEF ProcessEnds, clientVars, vars, sched, paging, locals
    <2>2. Born' = Born /\ Blocked' = Blocked
      BY <2>1 DEF Born, Blocked, NoneFreed
    <2> QED
      BY <1>1, <2>1, <2>2 DEF BlockEnd, PagesOf
  <1>6. CASE createThread
    BY <1>6, BlockEndCreate
  <1>7. CASE (Switch \/ Allocation) /\ UNCHANGED clientVars
    BY <1>7, BlockEndSwitch, BlockEndAllocation DEF clientVars
  <1>8. \/ (Switch \/ Allocation) /\ UNCHANGED clientVars
        \/ ProcessEnds /\ UNCHANGED clientVars
        \/ UNCHANGED <<vars, malloced>>
        \/ mallocHandles \/ mallocHalf \/ createThread \/ exitCounter \/ joinThread
        \/ JoinReturn /\ UNCHANGED <<clientVars, mutexVars>>
    BY <1>1, ProgCases DEF LibraryLoop
  <1> QED
    BY <1>2, <1>3, <1>4, <1>5, <1>6, <1>7, <1>8

LEMMA BlocksInvStep ==
  ASSUME PagingInv, ProgInv, BlocksInv, [ProgramNext]_programVars
  PROVE  BlocksInv'
  <1> SUFFICES ASSUME client' = "counter", Fits'
               PROVE  (Clean /\ ProgData /\ EarlyFrames /\ BlockEnd)'
    BY DEF BlocksInv
  <1>1. client = "counter" /\ numThreads' = numThreads
    BY DEF ProgramNext, Program, AnyClient, SliceEnds, JoinStep, LibraryLoop,
       mallocHandles, createThread, joinThread, mainReturns, mallocHalf, lockCalled,
       lockWaits, loadCounter, storeCounter, unlockReturns, exitCounter, clientVars,
       programVars
  <1>2. Fits
    BY <1>1 DEF Fits
  <1>3. ProgPaging /\ Locks
    BY <1>1, <1>2 DEF ProgPaging, PagingInv, ProgInv, BlocksInv
  <1>4. CASE ProgramNext
    BY <1>1, <1>3, <1>4, ProgCleanStep, ProgDataStep, EarlyStep, BlockEndStep
  <1>5. CASE UNCHANGED programVars
    <2>1. UNCHANGED <<vars, malloced>> /\ UNCHANGED <<pageTables, masterTable, prot, threadIDS,
                 malloced, last, want, pc, current, state, written>>
      BY <1>5 DEF programVars, clientVars, vars, sched, paging, locals
    <2>2. Born' = Born /\ Blocked' = Blocked
      BY <2>1 DEF Born, Blocked, NoneFreed
    <2>3. Clean'
      BY <1>3, <2>1, PagingStutters DEF ProgPaging
    <2>4. ProgData' /\ EarlyFrames' /\ BlockEnd'
      BY <1>3, <2>1, <2>2 DEF ProgPaging, ProgData, EarlyFrames, BlockEnd, PagesOf
    <2> QED
      BY <2>3, <2>4
  <1> QED
    BY <1>4, <1>5

\* What main.c keeps of its pages when its threads fit into the frames: the paging
\* stays clean although every thread allocates half of the memory, because the
\* only pages in the way of a block are first, last and block pages of threads
\* that the free locations can hold.
THEOREM ProgramBlocksInv == ProgramSpec => []BlocksInv
  <1>1. ProgramInit => BlocksInv
    BY ProgramStarts
  <1>2. PagingInv /\ ProgInv /\ BlocksInv /\ [ProgramNext]_programVars => BlocksInv'
    BY BlocksInvStep
  <1> QED
    BY <1>1, <1>2, ProgramPagingInv, ProgramProgInv, PTL DEF ProgramSpec

\* For any number of frames and slots of the swap file that satisfy the assumptions,
\* and any number of threads that fit into them: whenever main.c's own code
\* executes, each page that the executing thread has written is in its own frame,
\* accessible, with the data that this thread stored.
THEOREM BlocksIntactHolds == ProgramSpec => []BlocksIntact
  <1>1. PagingInv /\ ProgInv /\ BlocksInv => BlocksIntact
    <2> USE ThreadFacts, PageFacts
    <2> SUFFICES ASSUME PagingInv, ProgInv, BlocksInv, UserCode, Fits,
                        NEW k \in written[current]
                 PROVE  /\ pageTables[current][k] = k /\ prot[k]
                        /\ store[k] = <<current, k>>
      BY DEF BlocksIntact
    <2>1. ProgPaging /\ client = "counter" /\ Running("user")
      BY DEF UserCode, ProgPaging, PagingInv, ProgInv, BlocksInv
    <2>2. SchedInv /\ LoopInv /\ Shape /\ Place /\ Data
      BY <2>1 DEF ProgPaging, Clean
    <2>3. /\ current \in Threads /\ current \in Born /\ pc = "run" /\ last = 0
          /\ current # NULL /\ current \in Kept
      BY <2>1, <2>2, RunningFacts, LiveOrFreed
    <2>4. k \in PagesOf(current)
      BY <2>2, <2>3 DEF Shape
    <2>5. pageTables[current][k] = k /\ prot[k]
      BY <2>2, <2>3, <2>4 DEF Place
    <2> QED
      BY <2>2, <2>3, <2>4, <2>5 DEF Data
  <1> QED
    BY <1>1, ProgramPagingInv, ProgramProgInv, ProgramBlocksInv, PTL

-----------------------------------------------------------------------------
(* Programs in which no thread but main allocates past its first page.      *)

OnlyMain == OnFirstPages(Threads \ {Main})

Busy == pc \in {"tags", "fault"}

Tables ==
  /\ pageTables \in [Threads -> [Pages -> Locations \union {NONE}]]
  /\ masterTable \in [Locations -> {0, 1}]
  /\ prot \in [Pages -> BOOLEAN]

\* A thread has its first and last page, and never the last but one; only main
\* has others.
Rows ==
  \A t \in Born :
    /\ EndPages \subseteq PagesOf(t)
    /\ Last - 1 \notin PagesOf(t)
    /\ t # Main => PagesOf(t) = EndPages

\* Main has all pages up to the highest one on which it has written, but for that
\* one perhaps ...
Filled ==
  ~(Busy /\ current = Main) =>
    /\ PagesOf(Main) \subseteq written[Main]
    /\ \A k \in written[Main] \ {Last} : 0..(k - 1) \subseteq PagesOf(Main)

\* ... and while it allocates, the pages that are claimed so far and those that
\* tags are still written on.
Growing ==
  Busy /\ current = Main =>
    /\ \A k \in written[Main] \ {Last} : k <= last + 1
    /\ 0..(i - 1) \subseteq PagesOf(Main)
    /\ Len(want) \in 0..2
    /\ \A n \in DOMAIN want : want[n] \in {last, last + 1} /\ want[n] < Last - 1
    /\ Len(want) = 2 => want[1] = last /\ \A k \in written[Main] \ {Last} : k <= last
    /\ want = <<>> => PagesOf(Main) \subseteq written[Main]
    /\ want # <<>> =>
         /\ PagesOf(Main) \subseteq written[Main] \union {Head(want)}
         /\ Head(want) \in PagesOf(Main) =>
              prot[Head(want)] /\ ~(pc = "fault" /\ j = 0)

\* The other threads allocate on their first page, and do not fault there.
Quiet == Busy /\ current # Main => pc = "tags" /\ prot[0]

\* The thread that runs has its pages in their frames; of the thread that stops
\* those that are not yet moved are there, of the one that starts those that
\* have come in.
Homes ==
  /\ j \in Nat
  /\ pc \in {"run", "tags", "fault"} /\ current # NULL =>
       \A k \in PagesOf(current) : pageTables[current][k] = k
  /\ pc \in {"out", "in"} => i \in 0..(Last - 1)
  /\ pc = "out" => \A k \in PagesOf(temp) : k >= i => pageTables[temp][k] = k
  /\ pc = "in" => \A k \in PagesOf(current) : k < i => pageTables[current][k] = k

HeldBy(l) == \E t \in Born : \E k \in Pages : pageTables[t][k] = l

\* The frames that are being vacated.
InTransit(l) ==
  \/ pc = "out" /\ l < i
  \/ pc = "in" /\ (l = Last \/ (l = i /\ i \in PagesOf(current)))
  \/ pc = "tags" /\ want = <<>> /\ i <= last /\ l = i

MarksHeld ==
  \A l \in Locations : masterTable[l] = 1 => HeldBy(l) \/ InTransit(l)

\* The search for the owner of a frame has the owner before it, or found one.
Scanned ==
  pc = "fault" /\ j > 0 =>
    \/ Head(want) \in PagesOf(Main)
    \/ \E t \in Born : t >= j /\ \E k \in EndPages : pageTables[t][k] = Head(want)

Grown == Tables /\ Rows /\ Filled /\ Growing /\ Quiet /\ Homes /\ MarksHeld
           /\ Scanned

\* The first and last frames are accessible, and hold nothing but first and last
\* pages ...
EndFrames ==
  /\ prot[0] /\ prot[Last]
  /\ \A t \in Born : \A k \in Pages :
        pageTables[t][k] \in EndPages => pageTables[t][k] = k
  /\ ~(pc = "in" /\ temp # NULL) => masterTable[0] = 1 /\ masterTable[Last] = 1
  /\ pc = "in" /\ i > 0 => masterTable[0] = 1

\* ... the frames that main's pages are in are marked and accessible, and the
\* pages that are elsewhere are in none of main's frames.
InFrame(k) ==
  current = Main /\ (pc \in {"run", "tags", "fault"} \/ (pc = "in" /\ k < i))

Leaving(k) == pc = "out" /\ temp = Main /\ k >= i

MainFrames ==
  proc = "up" /\ state[Main] = "ACTIVE" =>
    \A k \in PagesOf(Main) :
      /\ InFrame(k) => masterTable[k] = 1 /\ prot[k]
      /\ pc = "out" /\ temp = Main => masterTable[k] = 1
      /\ InFrame(k) \/ Leaving(k) \/ pageTables[Main][k] \notin PagesOf(Main)

\* After an exit, the frames to which the next thread's pages come are marked: the
\* page that gives way to one of them goes to the following frame, if that is free.
Evicting ==
  pc = "in" /\ temp = NULL /\ i \in PagesOf(current) =>
    /\ masterTable[i] = 1
    /\ i + 1 \in PagesOf(current) =>
         \/ masterTable[i + 1] = 1
         \/ \E t \in Born : t >= j /\ \E k \in Pages : pageTables[t][k] = i

\* The invariant.
MainInv ==
  OnlyMain /\ NoneFreed => Grown /\ EndFrames /\ MainFrames /\ Evicting

LEMMA MainIsBorn ==
  ASSUME SchedInv, LoopInv
  PROVE  /\ Main \in Born /\ Main = 0 /\ Born \subseteq Threads
         /\ current \in Threads => current \in Born
         /\ pc # "run" => current \in Threads
         /\ pc = "out" => temp \in Threads /\ temp \in Born
  <1>1. Main \in Born /\ Main = 0 /\ Born \subseteq Threads
    BY ThreadFacts DEF SchedInv, Born, Main
  <1>2. \A t \in Threads : state[t] = "ACTIVE" => t \in Born
    BY ThreadFacts DEF SchedInv, Born
  <1>3. current # NULL => current \in Threads /\ state[current] = "ACTIVE"
    BY DEF SchedInv
  <1>4. NULL \notin Threads
    BY ThreadFacts
  <1>5. /\ pc # "run" => current # NULL
        /\ pc = "out" => temp \in Threads /\ state[temp] = "ACTIVE"
    BY DEF LoopInv
  <1> QED
    BY <1>1, <1>2, <1>3, <1>4, <1>5

LEMMA TransitIsFrame ==
  ASSUME SchedInv, LoopInv, Grown, NEW l \in Locations, InTransit(l)
  PROVE  l \in Pages
  <1> USE ThreadFacts
  <1>1. l \in Nat
    BY DEF Locations
  <1>2. CASE pc \in {"out", "in"}
    BY <1>1, <1>2 DEF InTransit, Grown, Homes, Pages, Last
  <1>3. CASE pc = "tags"
    BY <1>1, <1>3 DEF InTransit, LoopInv, Pages
  <1> QED
    BY <1>2, <1>3 DEF InTransit

\* There is room for two more pages.
TwoFree ==
  \E x, y \in Locations : x # y /\ masterTable[x] = 0 /\ masterTable[y] = 0

LEMMA MainRoom ==
  ASSUME SchedInv, LoopInv, Grown
  PROVE  TwoFree /\ Room
  <1> USE ThreadFacts, PageFacts
  <1>0. Tables /\ Rows /\ MarksHeld
    BY DEF Grown
  <1>1. ASSUME ~TwoFree PROVE FALSE
    <2>1. \E x \in Locations : \A y \in Locations \ {x} : masterTable[y] = 1
      <3>1. 0 \in Locations
        OBVIOUS
      <3>2. \A y \in Locations : masterTable[y] \in {0, 1}
        BY <1>0 DEF Tables
      <3> QED
        BY <1>1, <3>1, <3>2 DEF TwoFree
    <2>2. PICK x \in Locations : \A y \in Locations \ {x} : masterTable[y] = 1
      BY <2>1
    <2> DEFINE S == Locations \ {x}
               M == Threads \ {Main}
    <2>3. ASSUME NEW l \in S
          PROVE  \/ l \in Pages
                 \/ \E t \in {Main} : \E k \in Pages : pageTables[t][k] = l
                 \/ \E t \in M : \E k \in EndPages : pageTables[t][k] = l
      <3>1. l \in Locations /\ (HeldBy(l) \/ InTransit(l))
        BY <1>0, <2>2 DEF MarksHeld
      <3>2. CASE InTransit(l)
        BY <3>1, <3>2, TransitIsFrame
      <3>3. CASE HeldBy(l)
        <4>1. PICK t \in Born : \E k \in Pages : pageTables[t][k] = l
          BY <3>3 DEF HeldBy
        <4>2. PICK k \in Pages : pageTables[t][k] = l
          BY <4>1
        <4>3. k \in PagesOf(t)
          BY <3>1, <4>2 DEF PagesOf
        <4>4. t # Main => k \in EndPages
          BY <1>0, <4>3 DEF Rows
        <4> QED
          BY <4>2, <4>4
      <3> QED
        BY <3>1, <3>2, <3>3
    <2>4. /\ IsFiniteSet(S) /\ Cardinality(S) = TOTALPAGES - 1
      BY PageCounts, FS_RemoveElement
    <2>5. /\ IsFiniteSet(M) /\ Cardinality(M) = MaxThreads - 1
      BY PageCounts, FS_RemoveElement
    <2>6. IsFiniteSet({Main}) /\ Cardinality({Main}) = 1
      BY FS_Singleton
    <2>7. {Main} \in SUBSET Threads /\ M \in SUBSET Threads
      OBVIOUS
    <2> HIDE DEF S, M
    <2>8. Cardinality(S) <= Cardinality(Pages) + Cardinality({Main}) * Cardinality(Pages)
                              + 2 * Cardinality(M)
      BY <2>3, <2>7, PageCounts, CountedOn
    <2>9. TOTALPAGES - 1 <= MEMORYPAGES + 1 * MEMORYPAGES + 2 * (MaxThreads - 1)
      BY <2>4, <2>5, <2>6, <2>8, PageCounts
    <2> QED
      BY <2>9, RoomAssumption
  <1> QED
    BY <1>1 DEF TwoFree, Room

LEMMA TableMoves ==
  ASSUME Tables, NEW t \in Threads, NEW k \in PagesOf(t), NEW l \in Locations,
         Moved(t, k, l)
  PROVE  /\ pageTables' \in [Threads -> [Pages -> Locations \union {NONE}]]
         /\ pageTables'[t][k] = l /\ k \in Pages
         /\ \A u \in Threads : \A m \in Pages :
              u # t \/ m # k => pageTables'[u][m] = pageTables[u][m]
         /\ \A u \in Threads : {m \in Pages : pageTables'[u][m] # NONE} = PagesOf(u)
  <1>1. k \in Pages /\ pageTables[t][k] # NONE /\ l # NONE
    BY ThreadFacts DEF PagesOf
  <1>2. /\ pageTables' \in [Threads -> [Pages -> Locations \union {NONE}]]
        /\ pageTables'[t][k] = l
        /\ \A u \in Threads : \A m \in Pages :
              u # t \/ m # k => pageTables'[u][m] = pageTables[u][m]
    BY <1>1 DEF Tables, Moved
  <1>3. \A u \in Threads : \A m \in Pages :
              pageTables'[u][m] # NONE <=> pageTables[u][m] # NONE
    BY <1>1, <1>2
  <1> QED
    BY <1>1, <1>2, <1>3 DEF PagesOf

\* Outside allocations, when every thread keeps the pages that it has.
LEMMA RowsKept ==
  ASSUME SchedInv, LoopInv, Grown, Born' = Born, UNCHANGED written, ~Busy, ~Busy',
         \A u \in Threads : {m \in Pages : pageTables'[u][m] # NONE} = PagesOf(u)
  PROVE  Rows' /\ Filled' /\ Growing' /\ Quiet' /\ Scanned'
  <1> USE ThreadFacts, PageFacts
  <1>1. Rows /\ Filled
    BY DEF Grown
  <1>2. \A u \in Threads : {m \in Pages : pageTables'[u][m] # NONE} = PagesOf(u)
    OBVIOUS
  <1>3. Rows'
    BY <1>1, <1>2 DEF Rows, PagesOf
  <1>4. Filled'
    <2>1. {m \in Pages : pageTables'[Main][m] # NONE} = PagesOf(Main)
      BY <1>2
    <2>2. /\ PagesOf(Main) \subseteq written[Main]
          /\ \A k \in written[Main] \ {Last} : 0..(k - 1) \subseteq PagesOf(Main)
      BY <1>1 DEF Filled
    <2> QED
      BY <2>1, <2>2 DEF Filled, PagesOf
  <1>5. Growing' /\ Quiet' /\ Scanned'
    BY DEF Growing, Quiet, Scanned, Busy
  <1> QED
    BY <1>3, <1>4, <1>5

\* The marks after a page has moved to a location that is marked for it.
LEMMA MoveMarks ==
  ASSUME Tables, MarksHeld, NEW t \in Born, NEW k \in PagesOf(t),
         NEW l \in Locations, Moved(t, k, l), MarkedToo(l)
  PROVE  /\ masterTable' \in [Locations -> {0, 1}]
         /\ masterTable'[l] = 1
         /\ \A m \in Locations : masterTable[m] = 1 => masterTable'[m] = 1
         /\ \A m \in Locations : masterTable'[m] = 1 =>
              \/ \E u \in Born : \E n \in Pages : pageTables'[u][n] = m
              \/ m = pageTables[t][k]
              \/ InTransit(m)
  <1> USE ThreadFacts, PageFacts
  <1>1. /\ pageTables'[t][k] = l /\ k \in Pages
        /\ \A u \in Threads : \A m \in Pages :
              u # t \/ m # k => pageTables'[u][m] = pageTables[u][m]
    BY TableMoves
  <1>2. /\ masterTable' \in [Locations -> {0, 1}] /\ masterTable'[l] = 1
        /\ \A m \in Locations : m # l => masterTable'[m] = masterTable[m]
    BY DEF Tables, MarkedToo
  <1>3. ASSUME NEW m \in Locations, masterTable'[m] = 1, m # pageTables[t][k],
               ~InTransit(m)
        PROVE  \E u \in Born : \E n \in Pages : pageTables'[u][n] = m
    <2>1. CASE m = l
      BY <1>1, <2>1
    <2>2. CASE m # l
      <3>1. HeldBy(m)
        BY <1>2, <1>3, <2>2 DEF MarksHeld
      <3>2. PICK u \in Born, n \in Pages : pageTables[u][n] = m
        BY <3>1 DEF HeldBy
      <3>3. pageTables'[u][n] = m
        BY <1>1, <1>3, <3>2
      <3> QED
        BY <3>3
    <2> QED
      BY <2>1, <2>2
  <1> QED
    BY <1>2, <1>3

\* swap_out and swap_in keep the type of prot.
LEMMA ProtType ==
  ASSUME Tables, NEW p \in Pages, NEW l, swap_out(p, l) \/ swap_in(l, p)
  PROVE  prot' \in [Pages -> BOOLEAN]
  BY DEF Tables, swap_out, swap_in

LEMMA NewAddr ==
  ASSUME Room
  PROVE  /\ nextFreePage(masterTable) \in Locations
         /\ masterTable[nextFreePage(masterTable)] = 0
  BY FreePlace DEF Room

LEMMA SwapOutPageGrown ==
  ASSUME SchedInv, LoopInv, Grown, SwapOutPage
  PROVE  Grown'
  <1> USE ThreadFacts, PageFacts
  <1> DEFINE l == nextFreePage(masterTable)
  <1>1. /\ pc = "out" /\ pageTables[temp][i] # NONE /\ swap_out(i, l)
        /\ Moved(temp, i, l) /\ MarkedToo(l) /\ i' = i + 1
        /\ SchedKept /\ UNCHANGED <<written, pc, j, temp, want, last>>
    BY DEF SwapOutPage, InLoop, Moved, MarkedToo, SchedKept, sched
  <1>2. Tables /\ Rows /\ Homes /\ MarksHeld
    BY DEF Grown
  <1>3. l \in Locations
    BY MainRoom, NewAddr
  <1> HIDE DEF l
  <1>4. temp \in Threads /\ temp \in Born /\ i \in 0..(Last - 1) /\ i \in Pages
        /\ i \in PagesOf(temp)
    <2>1. i \in 0..(Last - 1) /\ temp \in Threads /\ temp \in Born
      BY <1>1, <1>2, MainIsBorn DEF Homes
    <2>2. i \in Pages
      BY <2>1 DEF Pages, Last
    <2> QED
      BY <1>1, <2>1, <2>2 DEF PagesOf
  <1>5. i + 1 \in 0..(Last - 1) /\ i \in Nat
    <2>1. i # Last - 1
      BY <1>2, <1>4 DEF Rows
    <2> QED
      BY <1>4, <2>1
  <1>6. /\ pageTables' \in [Threads -> [Pages -> Locations \union {NONE}]]
        /\ \A u \in Threads : \A m \in Pages :
              u # temp \/ m # i => pageTables'[u][m] = pageTables[u][m]
        /\ \A u \in Threads : {m \in Pages : pageTables'[u][m] # NONE} = PagesOf(u)
    BY <1>1, <1>2, <1>3, <1>4, TableMoves
  <1>7. /\ masterTable' \in [Locations -> {0, 1}]
        /\ \A m \in Locations : masterTable'[m] = 1 =>
              \/ \E u \in Born : \E n \in Pages : pageTables'[u][n] = m
              \/ m = pageTables[temp][i]
              \/ InTransit(m)
    BY <1>1, <1>2, <1>3, <1>4, MoveMarks
  <1>8. pageTables[temp][i] = i
    BY <1>1, <1>2, <1>4, <1>5 DEF Homes
  <1>9. Born' = Born
    BY <1>1 DEF SchedKept, Born
  <1>10. Tables'
    BY <1>1, <1>2, <1>4, <1>6, <1>7, ProtType DEF Tables
  <1>11. Rows' /\ Filled' /\ Growing' /\ Quiet' /\ Scanned'
    BY <1>1, <1>6, <1>9, RowsKept DEF Busy
  <1>12. Homes'
    <2> SUFFICES ASSUME NEW k \in Pages, pageTables'[temp][k] # NONE, k >= i + 1
                 PROVE  pageTables'[temp][k] = k
      BY <1>1, <1>2, <1>5 DEF Homes, PagesOf
    <2>1. k # i /\ k >= i
      BY <1>5 DEF Pages
    <2>2. k \in {m \in Pages : pageTables'[temp][m] # NONE}
      OBVIOUS
    <2>3. k \in PagesOf(temp)
      BY <1>4, <1>6, <2>2
    <2> QED
      BY <1>1, <1>2, <1>4, <1>6, <2>1, <2>3 DEF Homes
  <1>13. MarksHeld'
    <2> SUFFICES ASSUME NEW m \in Locations, masterTable'[m] = 1,
                        ~\E u \in Born : \E n \in Pages : pageTables'[u][n] = m
                 PROVE  m < i + 1
      BY <1>1, <1>9 DEF MarksHeld, HeldBy, InTransit
    <2>1. m = i \/ InTransit(m)
      BY <1>7, <1>8
    <2>2. m = i \/ m < i
      BY <1>1, <2>1 DEF InTransit
    <2> QED
      BY <1>5, <2>2 DEF Locations
  <1> QED
    BY <1>10, <1>11, <1>12, <1>13 DEF Grown

LEMMA SwapOutLastGrown ==
  ASSUME SchedInv, LoopInv, Grown, SwapOutLast
  PROVE  Grown'
  <1> USE ThreadFacts, PageFacts
  <1> DEFINE l == nextFreePage(masterTable)
  <1>1. /\ pc = "out" /\ swap_out(Last, l) /\ Moved(temp, Last, l)
        /\ masterTable' = Vacated(i, l) /\ pc' = "in" /\ i' = 0
        /\ SchedKept /\ UNCHANGED <<written, j, temp, want, last>>
    BY DEF SwapOutLast, InLoop, Moved, SchedKept, sched
  <1>2. Tables /\ Rows /\ Homes /\ MarksHeld
    BY DEF Grown
  <1>3. l \in Locations
    BY MainRoom, NewAddr
  <1> HIDE DEF l
  <1>4. temp \in Threads /\ temp \in Born /\ i \in 0..(Last - 1)
        /\ Last \in PagesOf(temp)
    BY <1>1, <1>2, MainIsBorn DEF Homes, Rows, EndPages
  <1>5. pageTables[temp][Last] = Last
    BY <1>1, <1>2, <1>4 DEF Homes
  <1>6. /\ pageTables' \in [Threads -> [Pages -> Locations \union {NONE}]]
        /\ pageTables'[temp][Last] = l
        /\ \A u \in Threads : \A m \in Pages :
              u # temp \/ m # Last => pageTables'[u][m] = pageTables[u][m]
        /\ \A u \in Threads : {m \in Pages : pageTables'[u][m] # NONE} = PagesOf(u)
    <2>1. Tables /\ temp \in Threads /\ Last \in PagesOf(temp) /\ l \in Locations
          /\ Moved(temp, Last, l)
      BY <1>1, <1>2, <1>3, <1>4
    <2> QED
      BY <2>1, TableMoves
  <1>7. Born' = Born
    BY <1>1 DEF SchedKept, Born
  <1>8. masterTable' \in [Locations -> {0, 1}]
    BY <1>1, <1>2 DEF Tables, Vacated
  <1>9. Tables'
    BY <1>1, <1>2, <1>6, <1>8, ProtType DEF Tables
  <1>10. Rows' /\ Filled' /\ Growing' /\ Quiet' /\ Scanned'
    BY <1>1, <1>6, <1>7, RowsKept DEF Busy
  <1>11. Homes'
    <2>1. \A k \in Pages : ~(k < 0)
      BY DEF Pages
    <2> QED
      BY <1>1, <1>2, <2>1 DEF Homes, PagesOf
  <1>12. MarksHeld'
    <2> SUFFICES ASSUME NEW m \in Locations, masterTable'[m] = 1
                 PROVE  \E u \in Born : \E n \in Pages : pageTables'[u][n] = m
      BY <1>7 DEF MarksHeld, HeldBy
    <2>1. CASE m = l
      BY <1>4, <1>6, <2>1
    <2>2. CASE m # l
      <3>1. ~(m < i) /\ m # Last /\ masterTable[m] = 1
        BY <1>1, <2>2 DEF Vacated
      <3>2. HeldBy(m)
        BY <1>1, <1>2, <3>1 DEF MarksHeld, InTransit
      <3>3. PICK u \in Born, n \in Pages : pageTables[u][n] = m
        BY <3>2 DEF HeldBy
      <3>4. pageTables'[u][n] = m
        BY <1>5, <1>6, <3>1, <3>3
      <3> QED
        BY <3>4
    <2> QED
      BY <2>1, <2>2
  <1> QED
    BY <1>9, <1>10, <1>11, <1>12 DEF Grown

\* A page that table j has in frame p goes to a free location.
LEMMA MoveFromFacts ==
  ASSUME SchedInv, LoopInv, Grown, NEW p \in Pages, masterTable[p] = 1,
         HasTable(j), MoveFrom(p)
  PROVE  \/ UNCHANGED <<pageTables, masterTable, prot, store>>
         \/ \E k \in PagesOf(j), l \in Locations :
               /\ pageTables[j][k] = p /\ masterTable[l] = 0
               /\ swap_out(p, l) /\ Moved(j, k, l) /\ MarkedToo(l)
  <1> USE ThreadFacts, PageFacts
  <1> DEFINE l  == nextFreePage(masterTable)
             ks == {k \in Pages : pageTables[j][k] = p}
  <1>1. l \in Locations /\ masterTable[l] = 0
    BY MainRoom, NewAddr
  <1>2. CASE ks = {}
    BY <1>2 DEF MoveFrom
  <1>3. CASE ks # {}
    <2>1. swap_out(p, l) /\ Moved(j, Min(ks), l) /\ MarkedToo(l)
      BY <1>1, <1>3 DEF MoveFrom, Moved, MarkedToo
    <2>2. ks \subseteq Nat
      BY DEF Pages
    <2>3. Min(ks) \in ks
      BY <1>3, <2>2, LeastExists
    <2>4. Min(ks) \in PagesOf(j) /\ pageTables[j][Min(ks)] = p
      BY <2>3 DEF PagesOf
    <2> HIDE DEF l, ks
    <2> QED
      BY <1>1, <2>1, <2>4
  <1> QED
    BY <1>2, <1>3

LEMMA EvictGrown ==
  ASSUME SchedInv, LoopInv, Grown, Evicting, Evict
  PROVE  Grown'
  <1> USE ThreadFacts, PageFacts
  <1>1. /\ pc = "in" /\ temp = NULL /\ pageTables[current][i] # NONE /\ HasTable(j)
        /\ MoveFrom(i) /\ j' = j + 1 /\ SchedKept
        /\ UNCHANGED <<written, pc, i, temp, want, last>>
    BY DEF Evict, InLoop, SchedKept, sched
  <1>2. Tables /\ Rows /\ Homes /\ MarksHeld
    BY DEF Grown
  <1>3. current \in Threads /\ i \in 0..(Last - 1) /\ i \in Pages
        /\ i \in PagesOf(current)
    <2>1. i \in 0..(Last - 1) /\ current \in Threads
      BY <1>1, <1>2, MainIsBorn DEF Homes
    <2>2. i \in Pages
      BY <2>1 DEF Pages, Last
    <2> QED
      BY <1>1, <2>1, <2>2 DEF PagesOf
  <1>30. masterTable[i] = 1
    BY <1>1, <1>3 DEF Evicting
  <1>4. j \in Born /\ j \in Threads /\ j + 1 \in Nat
    BY <1>1 DEF HasTable, Born
  <1>5. Born' = Born
    BY <1>1 DEF SchedKept, Born
  <1>6. CASE UNCHANGED <<pageTables, masterTable, prot, store>>
    <2>1. Tables'
      BY <1>2, <1>6 DEF Tables
    <2>2. Rows' /\ Filled' /\ Growing' /\ Quiet' /\ Scanned'
      BY <1>1, <1>5, <1>6, RowsKept DEF Busy, PagesOf
    <2>3. Homes'
      BY <1>1, <1>2, <1>4, <1>6 DEF Homes, PagesOf, SchedKept
    <2>4. MarksHeld'
      BY <1>1, <1>2, <1>5, <1>6 DEF MarksHeld, HeldBy, InTransit, PagesOf, SchedKept
    <2> QED
      BY <2>1, <2>2, <2>3, <2>4 DEF Grown
  <1>7. CASE \E k \in PagesOf(j), l \in Locations :
               /\ pageTables[j][k] = i /\ masterTable[l] = 0
               /\ swap_out(i, l) /\ Moved(j, k, l) /\ MarkedToo(l)
    <2>1. PICK k \in PagesOf(j), l \in Locations :
               /\ pageTables[j][k] = i /\ masterTable[l] = 0
               /\ swap_out(i, l) /\ Moved(j, k, l) /\ MarkedToo(l)
      BY <1>7
    <2>2. /\ pageTables' \in [Threads -> [Pages -> Locations \union {NONE}]]
          /\ \A u \in Threads : \A m \in Pages :
                u # j \/ m # k => pageTables'[u][m] = pageTables[u][m]
          /\ \A u \in Threads : {m \in Pages : pageTables'[u][m] # NONE} = PagesOf(u)
      BY <1>2, <1>4, <2>1, TableMoves
    <2>3. /\ masterTable' \in [Locations -> {0, 1}]
          /\ \A m \in Locations : masterTable'[m] = 1 =>
                \/ \E u \in Born : \E n \in Pages : pageTables'[u][n] = m
                \/ m = pageTables[j][k]
                \/ InTransit(m)
      BY <1>2, <1>4, <2>1, MoveMarks
    <2>4. Tables'
      BY <1>2, <1>3, <2>1, <2>2, <2>3, ProtType DEF Tables
    <2>5. Rows' /\ Filled' /\ Growing' /\ Quiet' /\ Scanned'
      BY <1>1, <1>5, <2>2, RowsKept DEF Busy
    <2>6. {m \in Pages : pageTables'[current][m] # NONE} = PagesOf(current)
      BY <1>3, <2>2
    <2>7. Homes'
      <3> SUFFICES ASSUME NEW m \in PagesOf(current), m < i
                   PROVE  pageTables'[current][m] = m
        BY <1>1, <1>2, <1>4, <2>6 DEF Homes, PagesOf, SchedKept
      <3>1. pageTables[current][m] = m /\ m # i /\ m \in Pages
        BY <1>1, <1>2, <1>3 DEF Homes, PagesOf, Pages
      <3> QED
        BY <1>3, <2>1, <2>2, <3>1
    <2>8. MarksHeld'
      <3> SUFFICES ASSUME NEW m \in Locations, masterTable'[m] = 1,
                          ~\E u \in Born : \E n \in Pages : pageTables'[u][n] = m
                   PROVE  m = Last \/ (m = i /\ i \in PagesOf(current))
        BY <1>1, <1>5, <2>6 DEF MarksHeld, HeldBy, InTransit, PagesOf, SchedKept
      <3>1. m = i \/ InTransit(m)
        BY <2>1, <2>3
      <3> QED
        BY <1>1, <1>3, <3>1 DEF InTransit
    <2> QED
      BY <2>4, <2>5, <2>7, <2>8 DEF Grown
  <1> QED
    BY <1>1, <1>3, <1>30, <1>6, <1>7, MoveFromFacts

LEMMA EvictLastGrown ==
  ASSUME SchedInv, LoopInv, Grown, EvictLast
  PROVE  Grown'
  <1> USE ThreadFacts, PageFacts
  <1> DEFINE l == nextFreePage(masterTable)
  <1>1. /\ pc = "in" /\ HasTable(j) /\ SchedKept
        /\ UNCHANGED <<written, pc, i, temp, want, last>>
        /\ IF pageTables[j][Last] = Last
             THEN swap_out(Last, l) /\ Moved(j, Last, l) /\ MarkedToo(l)
                  /\ j' = threadIDS
             ELSE j' = j + 1 /\ UNCHANGED <<pageTables, masterTable, prot, store>>
    BY DEF EvictLast, InLoop, SchedKept, sched, Moved, MarkedToo
  <1>2. Tables /\ Rows /\ Homes /\ MarksHeld
    BY DEF Grown
  <1>3. current \in Threads /\ i \in 0..(Last - 1)
    BY <1>1, <1>2, MainIsBorn DEF Homes
  <1>4. j \in Born /\ j \in Threads /\ j' \in Nat
    <2>1. threadIDS \in Nat
      BY DEF SchedInv
    <2>2. j \in Born /\ j \in Threads /\ j \in Nat
      BY <1>1 DEF HasTable, Born
    <2> QED
      BY <1>1, <2>1, <2>2
  <1>5. Born' = Born
    BY <1>1 DEF SchedKept, Born
  <1>6. CASE UNCHANGED <<pageTables, masterTable, prot, store>>
    <2>1. Tables'
      BY <1>2, <1>6 DEF Tables
    <2>2. Rows' /\ Filled' /\ Growing' /\ Quiet' /\ Scanned'
      BY <1>1, <1>5, <1>6, RowsKept DEF Busy, PagesOf
    <2>3. Homes'
      BY <1>1, <1>2, <1>4, <1>6 DEF Homes, PagesOf, SchedKept
    <2>4. MarksHeld'
      BY <1>1, <1>2, <1>5, <1>6 DEF MarksHeld, HeldBy, InTransit, PagesOf, SchedKept
    <2> QED
      BY <2>1, <2>2, <2>3, <2>4 DEF Grown
  <1>7. CASE pageTables[j][Last] = Last
    <2>0. l \in Locations
      BY MainRoom, NewAddr
    <2> HIDE DEF l
    <2>1. swap_out(Last, l) /\ Moved(j, Last, l) /\ MarkedToo(l)
          /\ Last \in PagesOf(j)
      BY <1>1, <1>2, <1>4, <1>7 DEF Rows, EndPages
    <2>2. /\ pageTables' \in [Threads -> [Pages -> Locations \union {NONE}]]
          /\ \A u \in Threads : \A m \in Pages :
                u # j \/ m # Last => pageTables'[u][m] = pageTables[u][m]
          /\ \A u \in Threads : {m \in Pages : pageTables'[u][m] # NONE} = PagesOf(u)
      BY <1>2, <1>4, <2>0, <2>1, TableMoves
    <2>3. /\ masterTable' \in [Locations -> {0, 1}]
          /\ \A m \in Locations : masterTable'[m] = 1 =>
                \/ \E u \in Born : \E n \in Pages : pageTables'[u][n] = m
                \/ m = pageTables[j][Last]
                \/ InTransit(m)
      BY <1>2, <1>4, <2>0, <2>1, MoveMarks
    <2>4. Tables'
      BY <1>2, <2>1, <2>2, <2>3, ProtType DEF Tables
    <2>5. Rows' /\ Filled' /\ Growing' /\ Quiet' /\ Scanned'
      BY <1>1, <1>5, <2>2, RowsKept DEF Busy
    <2>6. {m \in Pages : pageTables'[current][m] # NONE} = PagesOf(current)
      BY <1>3, <2>2
    <2>7. Homes'
      <3> SUFFICES ASSUME NEW m \in PagesOf(current), m < i
                   PROVE  pageTables'[current][m] = m
        BY <1>1, <1>2, <1>4, <2>6 DEF Homes, PagesOf, SchedKept
      <3>1. pageTables[current][m] = m /\ m # Last /\ m \in Pages
        BY <1>1, <1>2, <1>3 DEF Homes, PagesOf, Pages
      <3> QED
        BY <1>3, <2>2, <3>1
    <2>8. MarksHeld'
      <3> SUFFICES ASSUME NEW m \in Locations, masterTable'[m] = 1,
                          ~\E u \in Born : \E n \in Pages : pageTables'[u][n] = m
                   PROVE  m = Last \/ (m = i /\ i \in PagesOf(current))
        BY <1>1, <1>5, <2>6 DEF MarksHeld, HeldBy, InTransit, PagesOf, SchedKept
      <3>1. m = Last \/ InTransit(m)
        BY <1>7, <2>3
      <3> QED
        BY <1>1, <3>1 DEF InTransit
    <2> QED
      BY <2>4, <2>5, <2>7, <2>8 DEF Grown
  <1> QED
    BY <1>1, <1>6, <1>7

\* The marks after page k of the current thread has come in.
LEMMA ArriveMarks ==
  ASSUME Tables, MarksHeld, current \in Born, NEW k \in PagesOf(current),
         Moved(current, k, k),
         masterTable' = [masterTable EXCEPT ![pageTables[current][k]] = 0, ![k] = 1]
  PROVE  /\ masterTable' \in [Locations -> {0, 1}]
         /\ masterTable'[k] = 1
         /\ \A m \in Locations : m # k /\ masterTable'[m] = 1 =>
              /\ masterTable[m] = 1
              /\ (\E u \in Born : \E n \in Pages : pageTables'[u][n] = m) \/ InTransit(m)
         /\ \A m \in Locations : m # pageTables[current][k] /\ masterTable[m] = 1 =>
              masterTable'[m] = 1
  <1> USE ThreadFacts, PageFacts
  <1>0. current \in Threads /\ k \in Pages /\ k \in Locations
        /\ pageTables[current][k] \in Locations
    BY DEF PagesOf, Tables
  <1>1. \A u \in Threads : \A m \in Pages :
              u # current \/ m # k => pageTables'[u][m] = pageTables[u][m]
    BY <1>0 DEF Moved, Tables
  <1>2. /\ masterTable' \in [Locations -> {0, 1}] /\ masterTable'[k] = 1
        /\ \A m \in Locations : m # k /\ m # pageTables[current][k] =>
              masterTable'[m] = masterTable[m]
        /\ pageTables[current][k] # k => masterTable'[pageTables[current][k]] = 0
    BY <1>0 DEF Tables
  <1>3. ASSUME NEW m \in Locations, masterTable'[m] = 1, m # k, ~InTransit(m)
        PROVE  \E u \in Born : \E n \in Pages : pageTables'[u][n] = m
    <2>1. m # pageTables[current][k] /\ masterTable[m] = 1
      BY <1>2, <1>3
    <2>2. HeldBy(m)
      BY <1>3, <2>1 DEF MarksHeld
    <2>3. PICK u \in Born, n \in Pages : pageTables[u][n] = m
      BY <2>2 DEF HeldBy
    <2>4. pageTables'[u][n] = m
      BY <1>1, <2>1, <2>3
    <2> QED
      BY <2>4
  <1>4. \A m \in Locations : m # k /\ masterTable'[m] = 1 => masterTable[m] = 1
    BY <1>0, <1>2
  <1> QED
    BY <1>2, <1>3, <1>4

LEMMA SwapInPageGrown ==
  ASSUME SchedInv, LoopInv, Grown, SwapInPage
  PROVE  Grown'
  <1> USE ThreadFacts, PageFacts
  <1>1. /\ pc = "in" /\ pageTables[current][i] # NONE
        /\ \/ pageTables[current][i] = i /\ UNCHANGED <<store, prot>>
           \/ swap_in(pageTables[current][i], i)
        /\ Moved(current, i, i) /\ i' = i + 1 /\ j' = 0
        /\ masterTable' = [masterTable EXCEPT ![pageTables[current][i]] = 0, ![i] = 1]
        /\ SchedKept /\ UNCHANGED <<written, pc, temp, want, last>>
    BY DEF SwapInPage, InLoop, Moved, SchedKept, sched, Arrived, NextPage
  <1>2. Tables /\ Rows /\ Homes /\ MarksHeld
    BY DEF Grown
  <1>3. current \in Threads /\ current \in Born /\ i \in 0..(Last - 1) /\ i \in Pages
        /\ i \in PagesOf(current) /\ i \in Locations
    <2>1. i \in 0..(Last - 1) /\ current \in Threads /\ current \in Born
      BY <1>1, <1>2, MainIsBorn DEF Homes
    <2>2. i \in Pages
      BY <2>1 DEF Pages, Last
    <2> QED
      BY <1>1, <2>1, <2>2 DEF PagesOf
  <1>4. i + 1 \in 0..(Last - 1) /\ i \in Nat
    <2>1. i # Last - 1
      BY <1>2, <1>3 DEF Rows
    <2> QED
      BY <1>3, <2>1
  <1>5. /\ pageTables' \in [Threads -> [Pages -> Locations \union {NONE}]]
        /\ pageTables'[current][i] = i
        /\ \A u \in Threads : \A m \in Pages :
              u # current \/ m # i => pageTables'[u][m] = pageTables[u][m]
        /\ \A u \in Threads : {m \in Pages : pageTables'[u][m] # NONE} = PagesOf(u)
    BY <1>1, <1>2, <1>3, TableMoves
  <1>6. /\ masterTable' \in [Locations -> {0, 1}]
        /\ \A m \in Locations : m # i /\ masterTable'[m] = 1 =>
              (\E u \in Born : \E n \in Pages : pageTables'[u][n] = m) \/ InTransit(m)
    BY <1>1, <1>2, <1>3, ArriveMarks
  <1>7. Born' = Born
    BY <1>1 DEF SchedKept, Born
  <1>8. Tables'
    <2>1. prot' \in [Pages -> BOOLEAN]
      BY <1>1, <1>2, <1>3, ProtType DEF Tables
    <2> QED
      BY <1>5, <1>6, <2>1 DEF Tables
  <1>9. Rows' /\ Filled' /\ Growing' /\ Quiet' /\ Scanned'
    BY <1>1, <1>5, <1>7, RowsKept DEF Busy
  <1>10. {m \in Pages : pageTables'[current][m] # NONE} = PagesOf(current)
    BY <1>3, <1>5
  <1>11. Homes'
    <2> SUFFICES ASSUME NEW m \in PagesOf(current), m < i + 1
                 PROVE  pageTables'[current][m] = m
      BY <1>1, <1>2, <1>4, <1>10 DEF Homes, PagesOf, SchedKept
    <2>1. m \in Pages /\ (m = i \/ m < i)
      BY <1>4 DEF PagesOf, Pages
    <2> QED
      BY <1>1, <1>2, <1>3, <1>5, <2>1 DEF Homes
  <1>12. MarksHeld'
    <2> SUFFICES ASSUME NEW m \in Locations, masterTable'[m] = 1,
                        ~\E u \in Born : \E n \in Pages : pageTables'[u][n] = m
                 PROVE  m = Last
      BY <1>1, <1>7 DEF MarksHeld, HeldBy, InTransit
    <2>1. m # i /\ InTransit(m)
      BY <1>3, <1>5, <1>6
    <2> QED
      BY <1>1, <2>1 DEF InTransit
  <1> QED
    BY <1>8, <1>9, <1>11, <1>12 DEF Grown

\* A thread has the pages before its first hole, and the last one.
LEMMA BeforeHole ==
  ASSUME SchedInv, LoopInv, Grown, ~Busy, NEW t \in Born, NEW n \in 0..(Last - 1),
         pageTables[t][n] = NONE, NEW k \in PagesOf(t), k # Last
  PROVE  k < n
  <1> USE ThreadFacts, PageFacts
  <1>0. Tables /\ Rows /\ Filled
    BY DEF Grown
  <1>1. n \in Pages /\ n \notin PagesOf(t) /\ k \in Nat /\ n \in Nat /\ k # n
    BY DEF Pages, PagesOf, Last
  <1>2. CASE t # Main
    BY <1>0, <1>1, <1>2 DEF Rows, EndPages
  <1>3. CASE t = Main
    <2>1. 0..(k - 1) \subseteq PagesOf(t)
      BY <1>0, <1>3 DEF Filled
    <2> QED
      BY <1>1, <2>1
  <1> QED
    BY <1>2, <1>3

LEMMA SwapInLastGrown ==
  ASSUME SchedInv, LoopInv, Grown, SwapInLast
  PROVE  Grown'
  <1> USE ThreadFacts, PageFacts
  <1>1. /\ pc = "in" /\ pageTables[current][i] = NONE
        /\ IF pageTables[current][Last] = Last THEN UNCHANGED <<store, prot>>
             ELSE swap_in(pageTables[current][Last], Last)
        /\ Moved(current, Last, Last) /\ j' = 0 /\ pc' = "run"
        /\ masterTable' = [masterTable EXCEPT ![pageTables[current][Last]] = 0,
                                              ![Last] = 1]
        /\ SchedKept /\ UNCHANGED <<written, want, last>>
    BY DEF SwapInLast, InLoop, Moved, SchedKept, sched, Arrived
  <1>2. Tables /\ Rows /\ Homes /\ MarksHeld /\ ~Busy
    BY <1>1 DEF Grown, Busy
  <1>3. current \in Threads /\ current \in Born /\ i \in 0..(Last - 1)
        /\ Last \in PagesOf(current) /\ Last \in Locations
    BY <1>1, <1>2, MainIsBorn DEF Homes, Rows, EndPages
  <1>5. /\ pageTables' \in [Threads -> [Pages -> Locations \union {NONE}]]
        /\ pageTables'[current][Last] = Last
        /\ \A u \in Threads : \A m \in Pages :
              u # current \/ m # Last => pageTables'[u][m] = pageTables[u][m]
        /\ \A u \in Threads : {m \in Pages : pageTables'[u][m] # NONE} = PagesOf(u)
    <2>1. Tables /\ current \in Threads /\ Last \in PagesOf(current)
          /\ Last \in Locations /\ Moved(current, Last, Last)
      BY <1>1, <1>2, <1>3
    <2> QED
      BY <2>1, TableMoves
  <1>6. /\ masterTable' \in [Locations -> {0, 1}]
        /\ \A m \in Locations : m # Last /\ masterTable'[m] = 1 =>
              (\E u \in Born : \E n \in Pages : pageTables'[u][n] = m) \/ InTransit(m)
    BY <1>1, <1>2, <1>3, ArriveMarks
  <1>7. Born' = Born
    BY <1>1 DEF SchedKept, Born
  <1>8. Tables'
    <2>1. prot' \in [Pages -> BOOLEAN]
      BY <1>1, <1>2, ProtType DEF Tables
    <2> QED
      BY <1>5, <1>6, <2>1 DEF Tables
  <1>9. Rows' /\ Filled' /\ Growing' /\ Quiet' /\ Scanned'
    BY <1>1, <1>5, <1>7, RowsKept DEF Busy
  <1>10. {m \in Pages : pageTables'[current][m] # NONE} = PagesOf(current)
    BY <1>3, <1>5
  <1>11. Homes'
    <2> SUFFICES ASSUME NEW m \in PagesOf(current)
                 PROVE  pageTables'[current][m] = m
      BY <1>1, <1>10 DEF Homes, PagesOf, SchedKept
    <2>1. m \in Pages
      BY DEF PagesOf
    <2>2. m # Last => m < i
      BY <1>1, <1>2, <1>3, BeforeHole
    <2> QED
      BY <1>1, <1>2, <1>3, <1>5, <2>1, <2>2 DEF Homes
  <1>12. MarksHeld'
    <2> SUFFICES ASSUME NEW m \in Locations, masterTable'[m] = 1,
                        ~\E u \in Born : \E n \in Pages : pageTables'[u][n] = m
                 PROVE  FALSE
      BY <1>7 DEF MarksHeld, HeldBy
    <2>1. m # Last /\ InTransit(m)
      BY <1>3, <1>5, <1>6
    <2> QED
      BY <1>1, <2>1 DEF InTransit, PagesOf
  <1> QED
    BY <1>8, <1>9, <1>11, <1>12 DEF Grown

\* Steps that leave the pages and the loops alone.
LEMMA GrownStutters ==
  ASSUME UNCHANGED <<paging, pc, locals, current, threadIDS>>
  PROVE  Grown' = Grown
  <1>1. /\ UNCHANGED <<pageTables, masterTable, prot, store, written>>
        /\ UNCHANGED <<pc, i, j, temp, want, last, current, threadIDS>>
    BY DEF paging, locals
  <1>2. Born' = Born /\ Busy' = Busy
    BY <1>1 DEF Born, Busy
  <1>3. Tables' = Tables /\ Rows' = Rows
    BY <1>1, <1>2 DEF Tables, Rows, PagesOf
  <1>4. Filled' = Filled
    BY <1>1, <1>2 DEF Filled, PagesOf
  <1>5. Growing' = Growing
    BY <1>1, <1>2 DEF Growing, PagesOf
  <1>6. Quiet' = Quiet
    BY <1>1, <1>2 DEF Quiet
  <1>7. Homes' = Homes
    BY <1>1, <1>2 DEF Homes, PagesOf
  <1>8. MarksHeld' = MarksHeld
    BY <1>1, <1>2 DEF MarksHeld, HeldBy, InTransit, PagesOf
  <1>9. Scanned' = Scanned
    BY <1>1, <1>2 DEF Scanned, PagesOf
  <1> QED
    BY <1>3, <1>4, <1>5, <1>6, <1>7, <1>8, <1>9 DEF Grown

\* A yield or an exit that touches no page.
LEMMA SwitchBegins ==
  ASSUME SchedInv, LoopInv, Grown, UNCHANGED <<paging, threadIDS, want, last>>,
         pc = "run", current \in Threads, NEW cur \in {current, NULL},
         NoSwitch(cur) \/ SwitchStarts(cur)
  PROVE  Grown'
  <1> USE ThreadFacts, PageFacts
  <1>1. UNCHANGED <<pageTables, masterTable, prot, store, written>>
    BY DEF paging
  <1>2. Tables /\ Rows /\ Homes /\ MarksHeld
    BY DEF Grown
  <1>3. Born' = Born /\ \A u \in Threads :
           {m \in Pages : pageTables'[u][m] # NONE} = PagesOf(u)
    BY <1>1 DEF Born, PagesOf
  <1>4. ~Busy /\ ~Busy'
    BY DEF Busy, NoSwitch, SwitchStarts
  <1>5. Tables'
    BY <1>1, <1>2 DEF Tables
  <1>6. Rows' /\ Filled' /\ Growing' /\ Quiet' /\ Scanned'
    BY <1>1, <1>3, <1>4, RowsKept
  <1>7. \A k \in PagesOf(current) : pageTables[current][k] = k
    BY <1>2 DEF Homes
  <1>8. Homes'
    <2>1. CASE NoSwitch(cur)
      BY <1>1, <1>2, <1>7, <2>1 DEF NoSwitch, Homes, PagesOf
    <2>2. CASE SwitchStarts(cur)
      <3>1. 0 \in 0..(Last - 1) /\ 0 \in Nat /\ \A k \in Pages : ~(k < 0)
        BY DEF Pages
      <3>2. \A k \in Pages : pageTables'[current][k] # NONE => pageTables'[current][k] = k
        BY <1>1, <1>7 DEF PagesOf
      <3>3. CASE cur = current
        BY <2>2, <3>1, <3>2, <3>3 DEF SwitchStarts, Homes, PagesOf
      <3>4. CASE cur = NULL
        BY <2>2, <3>1, <3>4 DEF SwitchStarts, Homes, PagesOf
      <3> QED
        BY <3>3, <3>4
    <2> QED
      BY <2>1, <2>2
  <1>9. MarksHeld'
    <2> SUFFICES ASSUME NEW l \in Locations, masterTable[l] = 1
                 PROVE  \E u \in Born : \E n \in Pages : pageTables[u][n] = l
      BY <1>1, <1>3 DEF MarksHeld, HeldBy
    <2> QED
      BY <1>2 DEF MarksHeld, HeldBy, InTransit
  <1> QED
    BY <1>5, <1>6, <1>8, <1>9 DEF Grown

LEMMA YieldGrown ==
  ASSUME SchedInv, LoopInv, Grown, VoluntaryYield \/ JoinSpin
  PROVE  Grown'
  <1>1. proc = "up" /\ pc = "run" /\ current # NULL /\ current \in Threads /\ Yield
    BY RunningFacts, ThreadFacts DEF VoluntaryYield, JoinSpin, Running
  <1>2. NoSwitch(current) \/ SwitchStarts(current)
    BY <1>1, YieldStep
  <1>3. UNCHANGED <<paging, threadIDS, want, last>>
    BY <1>1 DEF Yield
  <1> QED
    BY <1>1, <1>2, <1>3, SwitchBegins

LEMMA ExitGrown ==
  ASSUME SchedInv, LoopInv, Grown, my_pthread_exit
  PROVE  Grown'
  <1>1. pc = "run" /\ current \in Threads
    BY RunningFacts DEF my_pthread_exit
  <1>2. NoSwitch(NULL) \/ SwitchStarts(NULL)
    BY ExitStep
  <1>3. UNCHANGED <<paging, threadIDS, want, last>>
    BY DEF my_pthread_exit
  <1> QED
    BY <1>1, <1>2, <1>3, SwitchBegins

\* Where a new thread's pages go.
LEMMA NewPlaces ==
  ASSUME Tables, TwoFree
  PROVE  LET p == nextFreePage(masterTable)
             e == EndIndex(p)
         IN  /\ p \in Locations /\ e \in Locations /\ p # e
             /\ masterTable[p] = 0 /\ masterTable[e] = 0
  <1> DEFINE p == nextFreePage(masterTable)
             m == [masterTable EXCEPT ![p] = 1]
             e == nextFreePage(m)
  <1>1. PICK x \in Locations, y \in Locations :
           x # y /\ masterTable[x] = 0 /\ masterTable[y] = 0
    BY DEF TwoFree
  <1>2. p \in Locations /\ masterTable[p] = 0
    BY <1>1, FreePlace
  <1>3. \A l \in Locations : m[l] = IF l = p THEN 1 ELSE masterTable[l]
    BY <1>2 DEF Tables
  <1>4. PICK z \in {x, y} : z # p /\ m[z] = 0
    BY <1>1, <1>2, <1>3
  <1> HIDE DEF m, p
  <1>5. e \in Locations /\ m[e] = 0
    BY <1>1, <1>4, FreePlace
  <1> HIDE DEF e
  <1>6. e # p /\ masterTable[e] = 0
    BY <1>3, <1>5
  <1> QED
    BY <1>2, <1>5, <1>6 DEF EndIndex, m, p, e

\* The effect of my_pthread_create with the new pages at p and e.
NewThread(p, e) ==
  /\ p # e /\ masterTable[p] = 0 /\ masterTable[e] = 0
  /\ threadIDS \in Threads /\ threadIDS # Main /\ threadIDS \notin Born
  /\ Born' = Born \union {threadIDS}
  /\ current \in Threads /\ pc = "run" /\ current # threadIDS
  /\ pc' = "out" /\ temp' = current /\ i' = 0 /\ j' = 0
  /\ UNCHANGED <<want, last>>
  /\ pageTables' \in [Threads -> [Pages -> Locations \union {NONE}]]
  /\ pageTables'[threadIDS][0] = p /\ pageTables'[threadIDS][Last] = e
  /\ {k \in Pages : pageTables'[threadIDS][k] # NONE} = EndPages
  /\ \A t \in Threads \ {threadIDS} : pageTables'[t] = pageTables[t]
  /\ \A t \in Threads \ {threadIDS} : written'[t] = written[t]
  /\ masterTable' = [masterTable EXCEPT ![p] = 1, ![e] = 1]
  /\ prot' = [f \in Pages |-> f \notin {p, e} /\ prot[f]]

LEMMA CreateFacts ==
  ASSUME SchedInv, LoopInv, Grown, my_pthread_create
  PROVE  \E p, e \in Locations : NewThread(p, e)
  <1> USE ThreadFacts, PageFacts
  <1> DEFINE new == threadIDS
             p == nextFreePage(masterTable)
             e == EndIndex(p)
  <1>1. /\ Running("user") /\ new \in Threads
        /\ threadIDS' = threadIDS + 1
        /\ pageTables' = [pageTables EXCEPT ![new] =
             [k \in Pages |-> CASE k = 0 -> p [] k = Last -> e [] OTHER -> NONE]]
        /\ masterTable' = [masterTable EXCEPT ![p] = 1, ![e] = 1]
        /\ prot' = [f \in Pages |-> f \notin {p, e} /\ prot[f]]
        /\ written' = [written EXCEPT ![new] = {0, Last}]
        /\ UNCHANGED <<want, last>>
    BY DEF my_pthread_create
  <1>2. /\ current \in Threads /\ pc = "run" /\ current # new
        /\ pc' = "out" /\ temp' = current /\ i' = 0 /\ j' = 0
    BY <1>1, RunningFacts, CreateStep DEF SwitchStarts
  <1>3. Tables
    BY DEF Grown
  <1>4. /\ p \in Locations /\ e \in Locations /\ p # e
        /\ masterTable[p] = 0 /\ masterTable[e] = 0
    BY <1>3, MainRoom, NewPlaces
  <1> HIDE DEF p, e
  <1>5. Born' = Born \union {new} /\ new \notin Born /\ new # Main
    BY <1>1 DEF Born, SchedInv, Threads, Main
  <1>6. /\ pageTables' \in [Threads -> [Pages -> Locations \union {NONE}]]
        /\ pageTables'[new][0] = p /\ pageTables'[new][Last] = e
        /\ \A k \in Pages \ EndPages : pageTables'[new][k] = NONE
        /\ \A t \in Threads \ {new} : pageTables'[t] = pageTables[t]
    BY <1>1, <1>3, <1>4 DEF Tables, EndPages
  <1>7. {k \in Pages : pageTables'[new][k] # NONE} = EndPages
    BY <1>4, <1>6 DEF EndPages
  <1>8. \A t \in Threads \ {new} : written'[t] = written[t]
    BY <1>1 DEF LoopInv
  <1>9. NewThread(p, e)
    BY <1>1, <1>2, <1>4, <1>5, <1>6, <1>7, <1>8 DEF NewThread
  <1> QED
    BY <1>4, <1>9

LEMMA CreateGrown ==
  ASSUME SchedInv, LoopInv, Grown, my_pthread_create
  PROVE  Grown'
  <1> USE ThreadFacts, PageFacts
  <1>a. PICK p \in Locations, e \in Locations : NewThread(p, e)
    BY CreateFacts
  <1>0. /\ p # e /\ masterTable[p] = 0 /\ masterTable[e] = 0
        /\ threadIDS \in Threads /\ threadIDS # Main /\ threadIDS \notin Born
        /\ Born' = Born \union {threadIDS}
        /\ current \in Threads /\ pc = "run" /\ current # threadIDS
        /\ pc' = "out" /\ temp' = current /\ i' = 0 /\ j' = 0
        /\ UNCHANGED <<want, last>>
        /\ pageTables' \in [Threads -> [Pages -> Locations \union {NONE}]]
        /\ pageTables'[threadIDS][0] = p /\ pageTables'[threadIDS][Last] = e
        /\ {k \in Pages : pageTables'[threadIDS][k] # NONE} = EndPages
        /\ \A t \in Threads \ {threadIDS} : pageTables'[t] = pageTables[t]
        /\ \A t \in Threads \ {threadIDS} : written'[t] = written[t]
        /\ masterTable' = [masterTable EXCEPT ![p] = 1, ![e] = 1]
        /\ prot' = [f \in Pages |-> f \notin {p, e} /\ prot[f]]
    BY <1>a DEF NewThread
  <1>1. Tables /\ Rows /\ Filled /\ Homes /\ MarksHeld
    BY DEF Grown
  <1>2. \A t \in Threads \ {threadIDS} :
           {k \in Pages : pageTables'[t][k] # NONE} = PagesOf(t)
    BY <1>0 DEF PagesOf
  <1>3. /\ masterTable' \in [Locations -> {0, 1}]
        /\ \A m \in Locations : m # p /\ m # e => masterTable'[m] = masterTable[m]
    BY <1>0, <1>1 DEF Tables
  <1>4. Tables'
    <2>1. prot' \in [Pages -> BOOLEAN]
      BY <1>0, <1>1 DEF Tables
    <2> QED
      BY <1>0, <1>3, <2>1 DEF Tables
  <1>5. Rows'
    <2> SUFFICES ASSUME NEW t \in Born \union {threadIDS}
                 PROVE  /\ EndPages \subseteq {k \in Pages : pageTables'[t][k] # NONE}
                        /\ Last - 1 \notin {k \in Pages : pageTables'[t][k] # NONE}
                        /\ t # Main =>
                             {k \in Pages : pageTables'[t][k] # NONE} = EndPages
      BY <1>0 DEF Rows, PagesOf
    <2>1. Last - 1 \notin EndPages
      BY DEF EndPages
    <2>2. CASE t = threadIDS
      BY <1>0, <2>1, <2>2
    <2>3. CASE t # threadIDS
      <3>1. t \in Born /\ t \in Threads
        BY <2>3
      <3>2. {k \in Pages : pageTables'[t][k] # NONE} = PagesOf(t)
        BY <1>2, <2>3, <3>1
      <3> QED
        BY <1>1, <3>1, <3>2 DEF Rows
    <2> QED
      BY <2>2, <2>3
  <1>6. Filled'
    <2>1. /\ {k \in Pages : pageTables'[Main][k] # NONE} = PagesOf(Main)
          /\ written'[Main] = written[Main]
      BY <1>0, <1>2
    <2>2. /\ PagesOf(Main) \subseteq written[Main]
          /\ \A k \in written[Main] \ {Last} : 0..(k - 1) \subseteq PagesOf(Main)
      BY <1>0, <1>1 DEF Filled, Busy
    <2> QED
      BY <2>1, <2>2 DEF Filled, PagesOf
  <1>7. Growing' /\ Quiet' /\ Scanned'
    BY <1>0 DEF Growing, Quiet, Scanned, Busy
  <1>8. Homes'
    <2>1. 0 \in 0..(Last - 1) /\ 0 \in Nat
      OBVIOUS
    <2>2. \A k \in PagesOf(current) : pageTables[current][k] = k
      BY <1>0, <1>1 DEF Homes
    <2>3. \A k \in Pages : pageTables'[current][k] # NONE => pageTables'[current][k] = k
      BY <1>0, <2>2 DEF PagesOf
    <2> QED
      BY <1>0, <2>1, <2>3 DEF Homes, PagesOf
  <1>9. MarksHeld'
    <2> SUFFICES ASSUME NEW m \in Locations, masterTable'[m] = 1
                 PROVE  \E u \in Born \union {threadIDS} : \E n \in Pages :
                           pageTables'[u][n] = m
      BY <1>0 DEF MarksHeld, HeldBy
    <2>1. CASE m \in {p, e}
      BY <1>0, <2>1
    <2>2. CASE m \notin {p, e}
      <3>1. masterTable[m] = 1
        BY <1>3, <2>2
      <3>2. PICK u \in Born, n \in Pages : pageTables[u][n] = m
        BY <1>0, <1>1, <3>1 DEF MarksHeld, HeldBy, InTransit
      <3>3. pageTables'[u] = pageTables[u]
        BY <1>0, <3>2
      <3> QED
        BY <3>2, <3>3
    <2> QED
      BY <2>1, <2>2
  <1> QED
    BY <1>4, <1>5, <1>6, <1>7, <1>8, <1>9 DEF Grown

\* An allocation begins.
LEMMA myallocateGrown ==
  ASSUME SchedInv, LoopInv, Grown, OnlyMain', NEW f \in 0..(MEMORYPAGES - 3),
         NEW r \in 0..(MEMORYPAGES - 3), myallocate(f, r)
  PROVE  Grown'
  <1> USE ThreadFacts, PageFacts
  <1>1. /\ pc = "run" /\ current \in Threads /\ current \in Born
        /\ \A k \in written[current] : prot[k]
        /\ f >= HighestPage /\ r \in f..(f + 1) /\ want' = <<f, r>> /\ last' = f
        /\ i' = HighestPage /\ pc' = "tags"
        /\ UNCHANGED <<current, threadIDS, pageTables, masterTable, prot, written, j>>
    BY RunningFacts DEF myallocate, sched, paging
  <1>2. Tables /\ Rows /\ Filled /\ Homes /\ MarksHeld
    BY DEF Grown
  <1>3. Born' = Born /\ f \in Nat /\ r \in Nat /\ f < Last - 1 /\ r < Last - 1
        /\ r \in {f, f + 1}
    BY <1>1 DEF Born, Last
  <1>4. /\ PagesOf(Main) \subseteq written[Main]
        /\ \A k \in written[Main] \ {Last} : 0..(k - 1) \subseteq PagesOf(Main)
    BY <1>1, <1>2 DEF Filled, Busy
  <1>5. /\ HighestPage \in written[current] \ {Last} /\ HighestPage \in Nat
        /\ \A k \in written[current] \ {Last} : k <= HighestPage
    BY <1>1, HighestPageFacts
  <1>6. Tables' /\ Rows' /\ Filled' /\ Scanned'
    BY <1>1, <1>2, <1>3, <1>4 DEF Tables, Rows, Filled, Scanned, PagesOf
  <1>7. Homes'
    BY <1>1, <1>2 DEF Homes, PagesOf
  <1>8. MarksHeld'
    BY <1>1, <1>2, <1>3 DEF MarksHeld, HeldBy, InTransit
  <1>9. Quiet'
    <2>1. 0 \in written[current]
      BY <1>1 DEF LoopInv, EndPages
    <2> QED
      BY <1>1, <2>1 DEF Quiet
  <1>10. Growing'
    <2> SUFFICES ASSUME current = Main PROVE Growing'
      BY <1>1 DEF Growing
    <2>1. \A k \in written[Main] \ {Last} : k \in Nat /\ k <= f /\ k <= f + 1
      <3>1. \A k \in written[Main] : k \in Nat
        BY DEF LoopInv, Pages
      <3> QED
        BY <1>1, <1>3, <1>5, <3>1
    <2>2. 0..(HighestPage - 1) \subseteq PagesOf(Main)
      BY <1>4, <1>5
    <2>3. /\ Len(want') = 2 /\ DOMAIN want' = {1, 2} /\ want'[1] = f /\ want'[2] = r
          /\ want' # <<>> /\ Head(want') = f
      BY <1>1
    <2>4. f \in PagesOf(Main) => prot[f]
      BY <1>1, <1>4
    <2>5. PagesOf(Main)' = PagesOf(Main)
      BY <1>1 DEF PagesOf
    <2>6. \A n \in DOMAIN want' : want'[n] \in {f, f + 1} /\ want'[n] < Last - 1
      BY <1>3, <2>3
    <2> QED
      BY <1>1, <1>4, <2>1, <2>2, <2>3, <2>4, <2>5, <2>6 DEF Growing
  <1> QED
    BY <1>6, <1>7, <1>8, <1>9, <1>10 DEF Grown

\* The steps of an allocation that change no page table.
LEMMA WriteTagGrown ==
  ASSUME SchedInv, LoopInv, Grown, WriteTag
  PROVE  Grown'
  <1> USE ThreadFacts, PageFacts
  <1> DEFINE p == Head(want)
  <1>1. /\ pc = "tags" /\ want # <<>> /\ prot[p]
        /\ written' = [written EXCEPT ![current] = @ \union {p}] /\ want' = Tail(want)
        /\ UNCHANGED <<current, threadIDS, pageTables, masterTable, prot, pc, i, j, last>>
    BY DEF WriteTag, InLoop, sched
  <1>2. Tables /\ Rows /\ Filled /\ Growing /\ Quiet /\ Homes /\ MarksHeld
    BY DEF Grown
  <1>3. current \in Threads /\ Born' = Born /\ (Busy' <=> Busy) /\ Busy
    BY <1>1, MainIsBorn DEF Born, Busy
  <1>4. Tables' /\ Rows' /\ Quiet' /\ Homes' /\ Scanned'
    BY <1>1, <1>2, <1>3 DEF Tables, Rows, Quiet, Homes, Scanned, PagesOf
  <1>5. MarksHeld'
    BY <1>1, <1>2, <1>3 DEF MarksHeld, HeldBy, InTransit
  <1>6. PagesOf(Main)' = PagesOf(Main)
    BY <1>1 DEF PagesOf
  <1>7. current # Main => Filled' /\ Growing'
    <2>1. current # Main => written'[Main] = written[Main]
      BY <1>1, <1>3 DEF LoopInv
    <2> QED
      BY <1>1, <1>2, <1>3, <1>6, <2>1 DEF Filled, Growing
  <1>8. ASSUME current = Main PROVE Filled' /\ Growing'
    <2>0. written'[Main] = written[Main] \union {p}
      BY <1>1, <1>8 DEF LoopInv
    <2>1. want \in Seq(0..(Last - 1)) /\ p = want[1] /\ Len(want) \in 1..2
      <3>1. want \in Seq(0..(Last - 1))
        BY DEF LoopInv
      <3>2. Len(want) \in 0..2
        BY <1>2, <1>3, <1>8 DEF Growing
      <3> QED
        BY <1>1, <3>1, <3>2
    <2>2. /\ Len(want') = Len(want) - 1
          /\ Len(want) = 1 => want' = <<>>
          /\ Len(want) = 2 => Head(want') = want[2]
          /\ DOMAIN want = 1..Len(want) /\ DOMAIN want' = 1..Len(want')
          /\ \A n \in DOMAIN want' : n + 1 \in DOMAIN want /\ want'[n] = want[n + 1]
      <3>1. /\ want' \in Seq(0..(Last - 1)) /\ Len(want') = Len(want) - 1
            /\ \A n \in 1..Len(want') : want'[n] = want[n + 1]
        BY <1>1, <2>1
      <3>2. DOMAIN want = 1..Len(want) /\ DOMAIN want' = 1..Len(want')
        BY <2>1, <3>1
      <3>3. Len(want') = 0 => want' = <<>>
        BY <3>1
      <3>4. Len(want') = 1 => Head(want') = want'[1]
        BY <3>1
      <3>5. Len(want) = 1 \/ Len(want) = 2
        BY <2>1
      <3>6. \A n \in DOMAIN want' : n + 1 \in DOMAIN want /\ want'[n] = want[n + 1]
        BY <3>1, <3>2, <3>5
      <3>7. /\ Len(want) = 1 => want' = <<>>
            /\ Len(want) = 2 => Head(want') = want[2]
        BY <3>1, <3>3, <3>4
      <3> QED
        BY <3>1, <3>2, <3>6, <3>7
    <2>3. /\ \A k \in written[Main] \ {Last} : k <= last + 1
          /\ 0..(i - 1) \subseteq PagesOf(Main)
          /\ \A n \in DOMAIN want : want[n] \in {last, last + 1} /\ want[n] < Last - 1
          /\ Len(want) = 2 => want[1] = last /\ \A k \in written[Main] \ {Last} : k <= last
          /\ PagesOf(Main) \subseteq written[Main] \union {p}
      BY <1>1, <1>2, <1>3, <1>8 DEF Growing
    <2>4. last \in Nat /\ p \in {last, last + 1}
      <3>1. 1 \in DOMAIN want /\ p = want[1]
        BY <2>1, <2>2
      <3>2. last \in Nat
        BY DEF LoopInv
      <3> QED
        BY <2>3, <3>1, <3>2
    <2>5. \A k \in written'[Main] \ {Last} : k <= last + 1
      BY <2>0, <2>3, <2>4
    <2>6. \A n \in DOMAIN want' : want'[n] \in {last, last + 1} /\ want'[n] < Last - 1
      BY <2>1, <2>2, <2>3
    <2>7. /\ Len(want) = 1 \/ Len(want) = 2
          /\ Len(want') \in 0..2 /\ Len(want') # 2
      <3>1. Len(want) = 1 \/ Len(want) = 2
        BY <2>1
      <3>2. Len(want') = 0 \/ Len(want') = 1
        BY <2>2, <3>1
      <3>3. \A n \in {0, 1} : n \in 0..2 /\ n # 2
        OBVIOUS
      <3> QED
        BY <3>1, <3>2, <3>3, Zenon
    <2>8. PagesOf(Main) \subseteq written'[Main]
      BY <2>0, <2>3
    <2>9. want' # <<>> /\ Head(want') \in PagesOf(Main) => prot[Head(want')]
      <3> SUFFICES ASSUME Len(want) = 2, want[2] \in PagesOf(Main), want[2] # want[1]
                   PROVE  FALSE
        BY <1>1, <2>1, <2>2, <2>7, Zenon
      <3>1. want[2] \in {last, last + 1} /\ want[2] < Last - 1 /\ want[1] = last
        BY <2>2, <2>3
      <3>2. want[2] \in written[Main] \ {Last}
        BY <2>1, <2>3, <2>4, <3>1
      <3> QED
        BY <2>3, <2>4, <3>1, <3>2
    <2>10. pc' # "fault"
      BY <1>1
    <2> QED
      BY <1>1, <1>3, <1>6, <1>8, <2>3, <2>5, <2>6, <2>7, <2>8, <2>9, <2>10 DEF Filled, Growing
  <1> QED
    BY <1>4, <1>5, <1>7, <1>8 DEF Grown

LEMMA FaultGrown ==
  ASSUME SchedInv, LoopInv, Grown, OnlyMain, Fault
  PROVE  Grown'
  <1> USE ThreadFacts, PageFacts
  <1>1. /\ pc = "tags" /\ want # <<>> /\ ~prot[Head(want)] /\ pc' = "fault" /\ j' = 0
        /\ UNCHANGED <<current, threadIDS, pageTables, masterTable, prot, written, i,
                       want, last>>
    BY DEF Fault, InLoop, sched, paging
  <1>2. Tables /\ Rows /\ Filled /\ Growing /\ Quiet /\ Homes /\ MarksHeld
    BY DEF Grown
  <1>3. current \in Threads /\ Born' = Born /\ Busy /\ Busy'
    BY <1>1, MainIsBorn DEF Born, Busy
  <1>4. current = Main
    <2> SUFFICES ASSUME current # Main PROVE FALSE
      OBVIOUS
    <2>1. \A k \in DOMAIN want : want[k] = 0
      BY <1>3 DEF OnlyMain, OnFirstPages
    <2>2. Head(want) = 0
      BY <1>1, <2>1 DEF LoopInv
    <2> QED
      BY <1>1, <1>2, <1>3, <2>2 DEF Quiet
  <1>5. Tables' /\ Rows' /\ Quiet' /\ Homes' /\ Scanned' /\ Filled'
    BY <1>1, <1>2, <1>3, <1>4 DEF Tables, Rows, Quiet, Homes, Scanned, Filled, PagesOf
  <1>6. MarksHeld'
    BY <1>1, <1>2, <1>3 DEF MarksHeld, HeldBy, InTransit
  <1>7. PagesOf(Main)' = PagesOf(Main)
    BY <1>1 DEF PagesOf
  <1>8. Growing'
    BY <1>1, <1>2, <1>3, <1>4, <1>7 DEF Growing
  <1> QED
    BY <1>5, <1>6, <1>8 DEF Grown

\* The tables after the current thread, whose pages are in their frames, has been
\* given frame p too.
LEMMA TakenTables ==
  ASSUME Tables, MarksHeld, current \in Born, NEW p \in Pages,
         \A k \in PagesOf(current) : pageTables[current][k] = k,
         TakeFrame(p, pageTables, masterTable)
  PROVE  /\ pageTables' \in [Threads -> [Pages -> Locations \union {NONE}]]
         /\ masterTable' \in [Locations -> {0, 1}]
         /\ \A u \in Threads : \A m \in Pages :
              u # current \/ m # p => pageTables'[u][m] = pageTables[u][m]
         /\ {m \in Pages : pageTables'[current][m] # NONE} = PagesOf(current) \union {p}
         /\ \A u \in Threads \ {current} :
              {m \in Pages : pageTables'[u][m] # NONE} = PagesOf(u)
         /\ \A m \in Pages : pageTables'[current][m] # NONE => pageTables'[current][m] = m
         /\ \A m \in Locations : masterTable'[m] = 1 =>
              \/ \E u \in Born : \E n \in Pages : pageTables'[u][n] = m
              \/ InTransit(m) /\ m # p
  <1> USE ThreadFacts, PageFacts
  <1>1. current \in Threads /\ p \in Locations /\ p # NONE
    OBVIOUS
  <1>2. /\ pageTables' = [pageTables EXCEPT ![current][p] = p]
        /\ masterTable' = [masterTable EXCEPT ![p] = 1]
    BY DEF TakeFrame
  <1>3. /\ pageTables' \in [Threads -> [Pages -> Locations \union {NONE}]]
        /\ pageTables'[current][p] = p
        /\ \A u \in Threads : \A m \in Pages :
              u # current \/ m # p => pageTables'[u][m] = pageTables[u][m]
    BY <1>1, <1>2 DEF Tables
  <1>4. /\ masterTable' \in [Locations -> {0, 1}]
        /\ \A m \in Locations : m # p => masterTable'[m] = masterTable[m]
    BY <1>1, <1>2 DEF Tables
  <1>5. {m \in Pages : pageTables'[current][m] # NONE} = PagesOf(current) \union {p}
    BY <1>1, <1>3 DEF PagesOf
  <1>6. \A u \in Threads \ {current} :
              {m \in Pages : pageTables'[u][m] # NONE} = PagesOf(u)
    <2> TAKE u \in Threads \ {current}
    <2>1. \A m \in Pages : pageTables'[u][m] = pageTables[u][m]
      BY <1>3
    <2> QED
      BY <2>1 DEF PagesOf
  <1>7. \A m \in Pages : pageTables'[current][m] # NONE => pageTables'[current][m] = m
    BY <1>1, <1>3 DEF PagesOf
  <1>8. ASSUME NEW m \in Locations, masterTable'[m] = 1, ~(InTransit(m) /\ m # p)
        PROVE  \E u \in Born : \E n \in Pages : pageTables'[u][n] = m
    <2>1. CASE m = p
      BY <1>3, <2>1
    <2>2. CASE m # p
      <3>1. HeldBy(m)
        BY <1>4, <1>8, <2>2 DEF MarksHeld
      <3>2. PICK u \in Born, n \in Pages : pageTables[u][n] = m
        BY <3>1 DEF HeldBy
      <3>3. u # current \/ n # p
        <4> SUFFICES ASSUME u = current, n = p PROVE FALSE
          OBVIOUS
        <4>1. p \in PagesOf(current)
          BY <3>2 DEF PagesOf
        <4> QED
          BY <2>2, <3>2, <4>1
      <3>4. pageTables'[u][n] = m
        BY <1>3, <3>2, <3>3
      <3> QED
        BY <3>4
    <2> QED
      BY <2>1, <2>2
  <1> QED
    BY <1>3, <1>4, <1>5, <1>6, <1>7, <1>8

LEMMA FaultOnFreeFrameGrown ==
  ASSUME SchedInv, LoopInv, Grown, FaultOnFreeFrame
  PROVE  Grown'
  <1> USE ThreadFacts, PageFacts
  <1> DEFINE p == Head(want)
  <1>1. /\ pc = "fault" /\ j = 0 /\ TakeFrame(p, pageTables, masterTable)
        /\ prot' = [prot EXCEPT ![p] = TRUE] /\ pc' = "tags"
        /\ UNCHANGED <<current, threadIDS, written, i, j, want, last>>
    BY DEF FaultOnFreeFrame, InLoop, sched, locals
  <1>2. Tables /\ Rows /\ Filled /\ Growing /\ Quiet /\ Homes /\ MarksHeld
    BY DEF Grown
  <1>3. current = Main /\ Main \in Born /\ Born' = Born /\ Busy /\ Busy' /\ current' = Main
    BY <1>1, <1>2, MainIsBorn DEF Born, Busy, Quiet
  <1>4. want # <<>> /\ want \in Seq(0..(Last - 1))
    BY <1>1 DEF LoopInv
  <1>5. p \in Pages /\ p < Last - 1 /\ p \in Nat
    <2>1. 1 \in DOMAIN want /\ p = want[1]
      BY <1>4
    <2>2. p < Last - 1
      BY <1>2, <1>3, <2>1 DEF Growing
    <2>3. p \in 0..(Last - 1)
      BY <1>4, <2>1
    <2> QED
      BY <2>2, <2>3 DEF Pages, Last
  <1>6. p # Last /\ p # Last - 1
    BY <1>5
  <1>7. \A k \in PagesOf(current) : pageTables[current][k] = k
    BY <1>1, <1>2, <1>3 DEF Homes
  <1> HIDE DEF p
  <1>8. /\ pageTables' \in [Threads -> [Pages -> Locations \union {NONE}]]
        /\ masterTable' \in [Locations -> {0, 1}]
        /\ {m \in Pages : pageTables'[current][m] # NONE} = PagesOf(current) \union {p}
        /\ \A u \in Threads \ {current} :
              {m \in Pages : pageTables'[u][m] # NONE} = PagesOf(u)
        /\ \A m \in Pages : pageTables'[current][m] # NONE => pageTables'[current][m] = m
        /\ \A m \in Locations : masterTable'[m] = 1 =>
              \/ \E u \in Born : \E n \in Pages : pageTables'[u][n] = m
              \/ InTransit(m) /\ m # p
    BY <1>1, <1>2, <1>3, <1>5, <1>7, TakenTables
  <1>9. prot' \in [Pages -> BOOLEAN] /\ prot'[p]
    BY <1>1, <1>2, <1>5 DEF Tables
  <1>10. Tables'
    BY <1>8, <1>9 DEF Tables
  <1>11. Rows'
    <2>1. \A t \in Born : t # Main => {m \in Pages : pageTables'[t][m] # NONE} = EndPages
      BY <1>2, <1>3, <1>8 DEF Rows
    <2>2. {m \in Pages : pageTables'[Main][m] # NONE} = PagesOf(Main) \union {p}
      BY <1>3, <1>8
    <2>3. EndPages \subseteq PagesOf(Main) /\ Last - 1 \notin PagesOf(Main)
          /\ Last - 1 \notin EndPages
      BY <1>2, <1>3 DEF Rows, EndPages
    <2> QED
      BY <1>3, <1>6, <2>1, <2>2, <2>3 DEF Rows, PagesOf
  <1>12. Filled' /\ Quiet' /\ Scanned'
    BY <1>1, <1>3 DEF Filled, Quiet, Scanned
  <1>13. Homes'
    BY <1>1, <1>2, <1>8 DEF Homes, PagesOf
  <1>14. MarksHeld'
    BY <1>1, <1>3, <1>8 DEF MarksHeld, HeldBy, InTransit
  <1>15. Growing'
    <2>1. PagesOf(Main)' = PagesOf(Main) \union {p}
      BY <1>3, <1>8 DEF PagesOf
    <2> QED
      BY <1>1, <1>2, <1>3, <1>4, <1>9, <2>1 DEF Growing, p
  <1> QED
    BY <1>10, <1>11, <1>12, <1>13, <1>14, <1>15 DEF Grown

LEMMA ClaimPageGrown ==
  ASSUME SchedInv, LoopInv, Grown, OnlyMain, ClaimPage
  PROVE  Grown'
  <1> USE ThreadFacts, PageFacts
  <1>1. /\ pc = "tags" /\ want = <<>> /\ i <= last /\ TakeFrame(i, pageTables, masterTable)
        /\ prot' = [prot EXCEPT ![i] = @ \/ pageTables[current][i] # i \/ masterTable[i] = 0]
        /\ written' = [written EXCEPT ![current] = @ \union {i}]
        /\ i' = i + 1 /\ j' = 0 /\ pc' = "tags" /\ want' = <<>>
        /\ UNCHANGED <<current, threadIDS, last>>
    BY DEF ClaimPage, InLoop, sched, NextPage
  <1>2. Tables /\ Rows /\ Filled /\ Growing /\ Quiet /\ Homes /\ MarksHeld
    BY DEF Grown
  <1>3. /\ current \in Born /\ current \in Threads /\ Main \in Born /\ Born' = Born
        /\ Busy /\ Busy'
    BY <1>1, MainIsBorn DEF Born, Busy
  <1>4. i \in Nat /\ last \in Nat /\ i \in Pages /\ i < Last - 1 /\ i # Last /\ i # Last - 1
        /\ Last - 1 \notin EndPages
    BY <1>1 DEF LoopInv, Pages, Last, EndPages
  <1>5. \A k \in PagesOf(current) : pageTables[current][k] = k
    BY <1>1, <1>2, <1>3 DEF Homes
  <1>6. /\ pageTables' \in [Threads -> [Pages -> Locations \union {NONE}]]
        /\ masterTable' \in [Locations -> {0, 1}]
        /\ {m \in Pages : pageTables'[current][m] # NONE} = PagesOf(current) \union {i}
        /\ \A u \in Threads \ {current} :
              {m \in Pages : pageTables'[u][m] # NONE} = PagesOf(u)
        /\ \A m \in Pages : pageTables'[current][m] # NONE => pageTables'[current][m] = m
        /\ \A m \in Locations : masterTable'[m] = 1 =>
              \/ \E u \in Born : \E n \in Pages : pageTables'[u][n] = m
              \/ InTransit(m) /\ m # i
    BY <1>1, <1>2, <1>3, <1>4, <1>5, TakenTables
  <1>7. prot' \in [Pages -> BOOLEAN] /\ (prot[i] => prot'[i])
    BY <1>1, <1>2, <1>4 DEF Tables
  <1>8. Tables'
    BY <1>6, <1>7 DEF Tables
  <1>9. current # Main => i = 0 /\ i \in EndPages
    BY <1>1, <1>3, <1>4 DEF OnlyMain, OnFirstPages, EndPages
  <1>10. Rows'
    <2>1. ASSUME NEW t \in Born, t # Main
          PROVE  {m \in Pages : pageTables'[t][m] # NONE} = EndPages
      <3>1. PagesOf(t) = EndPages
        BY <1>2, <2>1 DEF Rows
      <3>2. CASE t # current
        BY <1>6, <3>1, <3>2
      <3>3. CASE t = current
        BY <1>6, <1>9, <2>1, <3>1, <3>3
      <3> QED
        BY <3>2, <3>3
    <2>2. {m \in Pages : pageTables'[Main][m] # NONE} \in {PagesOf(Main), PagesOf(Main) \union {i}}
      BY <1>3, <1>6
    <2>3. EndPages \subseteq PagesOf(Main) /\ Last - 1 \notin PagesOf(Main)
      BY <1>2, <1>3 DEF Rows
    <2> QED
      BY <1>3, <1>4, <2>1, <2>2, <2>3 DEF Rows, PagesOf
  <1>11. Scanned' /\ Quiet'
    <2>1. current # Main => prot'[0]
      BY <1>2, <1>3, <1>7, <1>9 DEF Quiet
    <2> QED
      BY <1>1, <2>1 DEF Quiet, Scanned
  <1>12. Homes'
    BY <1>1, <1>2, <1>6 DEF Homes, PagesOf
  <1>13. MarksHeld'
    <2>1. \A m \in Locations : ~(InTransit(m) /\ m # i)
      BY <1>1 DEF InTransit
    <2> QED
      BY <1>3, <1>6, <2>1 DEF MarksHeld, HeldBy
  <1>14. CASE current = Main
    <2>1. PagesOf(Main)' = PagesOf(Main) \union {i} /\ written'[Main] = written[Main] \union {i}
      BY <1>1, <1>6, <1>14 DEF PagesOf, LoopInv
    <2>2. /\ \A k \in written[Main] \ {Last} : k <= last + 1
          /\ 0..(i - 1) \subseteq PagesOf(Main)
          /\ PagesOf(Main) \subseteq written[Main]
      BY <1>1, <1>2, <1>3, <1>14 DEF Growing
    <2>3. \A k \in written'[Main] \ {Last} : k <= last' + 1
      BY <1>1, <1>4, <2>1, <2>2
    <2>4. 0..(i' - 1) \subseteq PagesOf(Main)'
      BY <1>1, <1>4, <2>1, <2>2
    <2>5. Len(want') \in 0..2 /\ Len(want') # 2 /\ DOMAIN want' = {}
      BY <1>1
    <2>6. PagesOf(Main)' \subseteq written'[Main]
      BY <2>1, <2>2
    <2>7. Growing'
      BY <1>1, <1>3, <1>14, <2>3, <2>4, <2>5, <2>6 DEF Growing
    <2>8. Filled'
      BY <1>1, <1>3, <1>14 DEF Filled
    <2> QED
      BY <1>8, <1>10, <1>11, <1>12, <1>13, <2>7, <2>8 DEF Grown
  <1>15. CASE current # Main
    <2>1. PagesOf(Main)' = PagesOf(Main) /\ written'[Main] = written[Main]
      BY <1>1, <1>3, <1>6, <1>15 DEF PagesOf, LoopInv
    <2>2. Growing' /\ Filled'
      BY <1>1, <1>2, <1>15, <2>1 DEF Growing, Filled
    <2> QED
      BY <1>8, <1>10, <1>11, <1>12, <1>13, <2>2 DEF Grown
  <1> QED
    BY <1>14, <1>15

\* A page that is in the way of a block moves: the block is main's, and the page
\* another thread's.
LEMMA ClaimEvictsIsMain ==
  ASSUME SchedInv, LoopInv, Grown, OnlyMain, ClaimEvicts
  PROVE  /\ current = Main /\ i \in Pages /\ i \notin PagesOf(Main)
         /\ \A k \in PagesOf(Main) : pageTables[Main][k] = k
         /\ j \in Born /\ masterTable[i] = 1
         /\ \A k \in PagesOf(j) : pageTables[j][k] = i => j # Main
  <1> USE ThreadFacts, PageFacts
  <1>1. /\ pc = "tags" /\ want = <<>> /\ i <= last /\ ~Claimable /\ HasTable(j)
    BY DEF ClaimEvicts, InLoop
  <1>2. Rows /\ Homes
    BY DEF Grown
  <1>3. current \in Born /\ current \in Threads /\ j \in Born /\ current # NULL
    BY <1>1, MainIsBorn DEF Born, HasTable
  <1>4. i \in Nat /\ last \in Nat /\ i \in Pages
    BY <1>1 DEF LoopInv, Pages
  <1>5. \A k \in PagesOf(current) : pageTables[current][k] = k
    BY <1>1, <1>2, <1>3 DEF Homes
  <1>6. i \notin PagesOf(current)
    BY <1>1, <1>5 DEF Claimable
  <1>7. current = Main
    <2>1. current # Main => i = 0
      BY <1>1, <1>3, <1>4 DEF OnlyMain, OnFirstPages
    <2> QED
      BY <1>2, <1>3, <1>6, <2>1 DEF Rows, EndPages
  <1>8. masterTable[i] = 1
    <2>1. Tables /\ i \in Locations
      BY <1>4 DEF Grown
    <2> QED
      BY <1>1, <2>1 DEF Tables, Claimable
  <1> QED
    BY <1>3, <1>4, <1>5, <1>6, <1>7, <1>8

LEMMA ClaimEvictsGrown ==
  ASSUME SchedInv, LoopInv, Grown, OnlyMain, ClaimEvicts
  PROVE  Grown'
  <1> USE ThreadFacts, PageFacts
  <1>1. /\ pc = "tags" /\ want = <<>> /\ i <= last /\ HasTable(j)
        /\ MoveFrom(i) /\ j' = j + 1
        /\ UNCHANGED <<current, threadIDS, written, pc, i, want, last>>
    BY DEF ClaimEvicts, InLoop, sched
  <1>2. Tables /\ Rows /\ Filled /\ Growing /\ Quiet /\ Homes /\ MarksHeld
    BY DEF Grown
  <1>3. /\ current = Main /\ i \in Pages /\ i \notin PagesOf(Main)
        /\ \A k \in PagesOf(Main) : pageTables[Main][k] = k
        /\ j \in Born /\ masterTable[i] = 1
        /\ \A k \in PagesOf(j) : pageTables[j][k] = i => j # Main
    BY ClaimEvictsIsMain
  <1>4. Main \in Born /\ Born' = Born /\ j \in Threads /\ j + 1 \in Nat /\ Busy /\ Busy'
        /\ current' = Main
    BY <1>1, <1>3, MainIsBorn DEF Born, Busy
  <1>5. CASE UNCHANGED <<pageTables, masterTable, prot, store>>
    <2>1. PagesOf(Main)' = PagesOf(Main)
      BY <1>5 DEF PagesOf
    <2>2. Tables' /\ Rows' /\ Filled' /\ Quiet' /\ Scanned'
      BY <1>1, <1>2, <1>3, <1>4, <1>5 DEF Tables, Rows, Filled, Quiet, Scanned, PagesOf
    <2>3. Homes'
      BY <1>1, <1>2, <1>4, <1>5 DEF Homes, PagesOf
    <2>4. MarksHeld'
      BY <1>1, <1>2, <1>4, <1>5 DEF MarksHeld, HeldBy, InTransit, PagesOf
    <2>5. Growing'
      BY <1>1, <1>2, <1>3, <1>4, <2>1 DEF Growing
    <2> QED
      BY <2>2, <2>3, <2>4, <2>5 DEF Grown
  <1>6. CASE \E k \in PagesOf(j), l \in Locations :
               /\ pageTables[j][k] = i /\ masterTable[l] = 0
               /\ swap_out(i, l) /\ Moved(j, k, l) /\ MarkedToo(l)
    <2>1. PICK k \in PagesOf(j), l \in Locations :
               /\ pageTables[j][k] = i /\ masterTable[l] = 0
               /\ swap_out(i, l) /\ Moved(j, k, l) /\ MarkedToo(l)
      BY <1>6
    <2>2. /\ pageTables' \in [Threads -> [Pages -> Locations \union {NONE}]]
          /\ \A u \in Threads : \A m \in Pages :
                u # j \/ m # k => pageTables'[u][m] = pageTables[u][m]
          /\ \A u \in Threads : {m \in Pages : pageTables'[u][m] # NONE} = PagesOf(u)
      BY <1>2, <1>4, <2>1, TableMoves
    <2>3. /\ masterTable' \in [Locations -> {0, 1}]
          /\ \A m \in Locations : masterTable'[m] = 1 =>
                \/ \E u \in Born : \E n \in Pages : pageTables'[u][n] = m
                \/ m = pageTables[j][k]
                \/ InTransit(m)
      BY <1>2, <1>3, <1>4, <2>1, MoveMarks
    <2>4. Tables'
      BY <1>2, <1>3, <2>1, <2>2, <2>3, ProtType DEF Tables
    <2>5. PagesOf(Main)' = PagesOf(Main)
      BY <1>4, <2>2 DEF PagesOf
    <2>6. Rows'
      BY <1>2, <1>4, <2>2 DEF Rows, PagesOf
    <2>7. Filled' /\ Quiet' /\ Scanned'
      BY <1>1, <1>3, <1>4 DEF Filled, Quiet, Scanned
    <2>8. Growing'
      BY <1>1, <1>2, <1>3, <1>4, <2>5 DEF Growing
    <2>9. Homes'
      <3>1. j # Main
        BY <1>3, <2>1
      <3>2. \A m \in Pages : pageTables'[Main][m] = pageTables[Main][m]
        BY <1>4, <2>2, <3>1
      <3> QED
        BY <1>1, <1>2, <1>3, <1>4, <3>2 DEF Homes, PagesOf
    <2>10. MarksHeld'
      <3> SUFFICES ASSUME NEW m \in Locations, masterTable'[m] = 1,
                          ~\E u \in Born : \E n \in Pages : pageTables'[u][n] = m
                   PROVE  m = i
        BY <1>1, <1>4 DEF MarksHeld, HeldBy, InTransit
      <3>1. m = i \/ InTransit(m)
        BY <2>1, <2>3
      <3> QED
        BY <1>1, <3>1 DEF InTransit
    <2> QED
      BY <2>4, <2>6, <2>7, <2>8, <2>9, <2>10 DEF Grown
  <1> QED
    BY <1>1, <1>3, <1>5, <1>6, MoveFromFacts

LEMMA myallocateReturnsGrown ==
  ASSUME SchedInv, LoopInv, Grown, myallocateReturns
  PROVE  Grown'
  <1> USE ThreadFacts, PageFacts
  <1>1. /\ pc = "tags" /\ want = <<>> /\ i > last /\ pc' = "run" /\ i' = 0 /\ last' = 0
        /\ UNCHANGED <<current, threadIDS, pageTables, masterTable, prot, written, j, want>>
    BY DEF myallocateReturns, InLoop, sched, paging
  <1>2. Tables /\ Rows /\ Filled /\ Growing /\ Homes /\ MarksHeld
    BY DEF Grown
  <1>3. Born' = Born /\ Busy /\ ~Busy'
    BY <1>1 DEF Born, Busy
  <1>4. Tables' /\ Rows' /\ Growing' /\ Quiet' /\ Scanned'
    BY <1>1, <1>2, <1>3 DEF Tables, Rows, Growing, Quiet, Scanned, PagesOf
  <1>5. Homes'
    BY <1>1, <1>2 DEF Homes, PagesOf
  <1>6. MarksHeld'
    <2>1. last \in Nat /\ i \in Nat
      BY <1>1 DEF LoopInv
    <2> QED
      BY <1>1, <1>2, <1>3, <2>1 DEF MarksHeld, HeldBy, InTransit
  <1>7. PagesOf(Main)' = PagesOf(Main)
    BY <1>1 DEF PagesOf
  <1>8. Filled'
    <2>1. CASE current # Main
      BY <1>1, <1>2, <1>7, <2>1 DEF Filled
    <2>2. CASE current = Main
      <3>1. /\ \A k \in written[Main] \ {Last} : k <= last + 1
            /\ 0..(i - 1) \subseteq PagesOf(Main)
            /\ PagesOf(Main) \subseteq written[Main]
        BY <1>1, <1>2, <1>3, <2>2 DEF Growing
      <3>2. i = last + 1 /\ last \in Nat
        BY <1>1 DEF LoopInv
      <3>3. ASSUME NEW k \in written[Main] \ {Last} PROVE 0..(k - 1) \subseteq PagesOf(Main)
        <4>1. k \in Nat
          BY DEF LoopInv, Pages
        <4> QED
          BY <3>1, <3>2, <4>1
      <3> QED
        BY <1>1, <1>7, <3>1, <3>3 DEF Filled
    <2> QED
      BY <2>1, <2>2
  <1> QED
    BY <1>4, <1>5, <1>6, <1>8 DEF Grown

\* The search in seg_handler: main is looking for the owner of a frame, and table
\* j does not have it, or another thread's page moves out of it.
FaultMoves(p, k, l) ==
  /\ pageTables[j][k] = p /\ masterTable[l] = 0
  /\ swap_out(p, l)
  /\ TakeFrame(p, [pageTables EXCEPT ![j][k] = l], [masterTable EXCEPT ![l] = 1])

LEMMA FaultPageFacts ==
  ASSUME SchedInv, LoopInv, Grown, pc = "fault"
  PROVE  /\ current = Main /\ Main \in Born /\ want # <<>>
         /\ Head(want) \in Pages /\ Head(want) < Last - 1 /\ Head(want) \in Nat
         /\ \A k \in PagesOf(Main) : pageTables[Main][k] = k
         /\ Head(want) \in PagesOf(Main) => prot[Head(want)] /\ j # 0
  <1> USE ThreadFacts, PageFacts
  <1>1. Growing /\ Quiet /\ Homes
    BY DEF Grown
  <1>2. current = Main /\ Main \in Born /\ Busy
    BY <1>1, MainIsBorn DEF Busy, Quiet
  <1>3. want # <<>> /\ want \in Seq(0..(Last - 1))
    BY DEF LoopInv
  <1>4. 1 \in DOMAIN want /\ Head(want) = want[1]
    BY <1>3
  <1>5. Head(want) < Last - 1
    BY <1>1, <1>2, <1>4 DEF Growing
  <1>6. Head(want) \in 0..(Last - 1)
    BY <1>3, <1>4
  <1>7. Head(want) \in Pages /\ Head(want) \in Nat
    BY <1>6 DEF Pages, Last
  <1>8. \A k \in PagesOf(Main) : pageTables[Main][k] = k
    BY <1>1, <1>2 DEF Homes
  <1>9. Head(want) \in PagesOf(Main) => prot[Head(want)] /\ j # 0
    BY <1>1, <1>2, <1>3 DEF Growing
  <1> QED
    BY <1>2, <1>3, <1>5, <1>7, <1>8, <1>9

LEMMA FaultScanFacts ==
  ASSUME SchedInv, LoopInv, Grown, FaultScan
  PROVE  /\ j \in Born /\ j \in Nat
         /\ \/ /\ UNCHANGED <<pageTables, masterTable, prot, store, pc>> /\ j' = j + 1
               /\ j # Main => \A k \in EndPages : pageTables[j][k] # Head(want)
            \/ /\ j # Main
               /\ \E k \in PagesOf(j), l \in Locations : FaultMoves(Head(want), k, l)
               /\ (pc' = "tags" /\ j' = 0) \/ (pc' = "fault" /\ j' = j + 1)
  <1> USE ThreadFacts, PageFacts
  <1> DEFINE p    == Head(want)
             hits == HitsBeforeHole(j, p)
             k    == PageToMove(hits)
             l    == nextFreePage(masterTable)
  <1>1. /\ pc = "fault" /\ HasTable(j) /\ (j > 0 \/ masterTable[p] = 1)
        /\ IF pageTables[j][k] = p
             THEN /\ swap_out(p, l)
                  /\ TakeFrame(p, [pageTables EXCEPT ![j][k] = l],
                               [masterTable EXCEPT ![l] = 1])
             ELSE UNCHANGED <<pageTables, masterTable, prot, store>>
        /\ IF hits # {} THEN pc' = "tags" /\ j' = 0 ELSE j' = j + 1 /\ UNCHANGED pc
    BY DEF FaultScan, InLoop
  <1>2. /\ current = Main /\ p \in Pages
        /\ \A m \in PagesOf(Main) : pageTables[Main][m] = m
        /\ p \in PagesOf(Main) => j # 0
    BY <1>1, FaultPageFacts
  <1>3. j \in Born /\ j \in Nat /\ j \in Threads
    BY <1>1 DEF HasTable, Born
  <1>4. l \in Locations /\ masterTable[l] = 0
    BY MainRoom, NewAddr
  <1>5. hits = {m \in Pages : pageTables[j][m] = p /\ \A n \in 0..m : pageTables[j][n] # NONE}
    BY DEF HitsBeforeHole
  <1>6. hits # {} => k \in hits /\ pageTables[j][k] = p /\ k \in Pages
    <2>1. hits \subseteq Nat
      BY <1>5 DEF Pages
    <2>2. hits # {} => Min(hits) \in hits
      BY <2>1, LeastExists
    <2> QED
      BY <1>5, <2>2 DEF PageToMove
  <1>7. hits = {} => k = Last /\ k \in Pages
    BY DEF PageToMove
  <1>8. pageTables[j][k] = p => k \in PagesOf(j)
    BY <1>2, <1>6, <1>7 DEF PagesOf
  <1>9. CASE j = Main
    <2>1. \A m \in Pages : pageTables[j][m] # p
      BY <1>2, <1>9 DEF PagesOf, Main
    <2>2. hits = {}
      BY <1>5, <2>1
    <2> QED
      BY <1>1, <1>3, <1>7, <1>9, <2>1, <2>2
  <1>10. CASE j # Main /\ pageTables[j][k] = p
    <2>1. FaultMoves(p, k, l) /\ k \in PagesOf(j)
      BY <1>1, <1>4, <1>8, <1>10 DEF FaultMoves
    <2>2. (pc' = "tags" /\ j' = 0) \/ (pc' = "fault" /\ j' = j + 1)
      BY <1>1
    <2> HIDE DEF p, k, l
    <2>3. \E m \in PagesOf(j), n \in Locations : FaultMoves(p, m, n)
      BY <1>4, <2>1
    <2> QED
      BY <1>3, <1>10, <2>2, <2>3 DEF p
  <1>11. CASE j # Main /\ pageTables[j][k] # p
    <2>1. hits = {} /\ k = Last
      BY <1>6, <1>7, <1>11
    <2>2. pageTables[j][0] # p
      <3> SUFFICES ASSUME pageTables[j][0] = p PROVE FALSE
        OBVIOUS
      <3>1. \A n \in 0..0 : n = 0
        OBVIOUS
      <3>a. p # NONE
        BY <1>2
      <3>2. 0 \in hits
        BY <1>5, <3>1, <3>a
      <3> QED
        BY <2>1, <3>2
    <2>3. \A m \in EndPages : pageTables[j][m] # p
      BY <1>11, <2>1, <2>2 DEF EndPages
    <2>4. UNCHANGED <<pageTables, masterTable, prot, store, pc>> /\ j' = j + 1
      BY <1>1, <1>11, <2>1
    <2> QED
      BY <1>3, <2>3, <2>4
  <1> QED
    BY <1>9, <1>10, <1>11

LEMMA FaultMovesTables ==
  ASSUME Tables, MarksHeld, current = Main, Main \in Born, j \in Born, j # Main,
         NEW p \in Pages, NEW k \in PagesOf(j), NEW l \in Locations,
         \A m \in PagesOf(Main) : pageTables[Main][m] = m,
         FaultMoves(p, k, l)
  PROVE  /\ pageTables' \in [Threads -> [Pages -> Locations \union {NONE}]]
         /\ masterTable' \in [Locations -> {0, 1}]
         /\ prot' \in [Pages -> BOOLEAN] /\ prot'[p] /\ pageTables'[j][k] = l
         /\ \A u \in Threads : \A m \in Pages :
              \/ u = Main /\ m = p
              \/ u = j /\ m = k
              \/ pageTables'[u][m] = pageTables[u][m]
         /\ {m \in Pages : pageTables'[Main][m] # NONE} = PagesOf(Main) \union {p}
         /\ \A u \in Threads \ {Main} :
              {m \in Pages : pageTables'[u][m] # NONE} = PagesOf(u)
         /\ \A m \in Pages : pageTables'[Main][m] # NONE => pageTables'[Main][m] = m
         /\ \A m \in Locations : masterTable[m] = 1 => masterTable'[m] = 1
         /\ masterTable'[p] = 1
         /\ \A m \in Locations : masterTable'[m] = 1 =>
              \/ \E u \in Born : \E n \in Pages : pageTables'[u][n] = m
              \/ InTransit(m)
  <1> USE ThreadFacts, PageFacts
  <1>1. j \in Threads /\ k \in Pages /\ p \in Locations /\ p # NONE /\ l # NONE
        /\ pageTables[j][k] = p
    BY DEF PagesOf, FaultMoves
  <1>2. /\ pageTables' = [[pageTables EXCEPT ![j][k] = l] EXCEPT ![Main][p] = p]
        /\ masterTable' = [[masterTable EXCEPT ![l] = 1] EXCEPT ![p] = 1]
    BY DEF FaultMoves, TakeFrame
  <1>3. /\ pageTables' \in [Threads -> [Pages -> Locations \union {NONE}]]
        /\ pageTables'[Main][p] = p /\ pageTables'[j][k] = l
        /\ \A u \in Threads : \A m \in Pages :
              \/ u = Main /\ m = p
              \/ u = j /\ m = k
              \/ pageTables'[u][m] = pageTables[u][m]
    BY <1>1, <1>2 DEF Tables
  <1>4. /\ masterTable' \in [Locations -> {0, 1}] /\ masterTable'[p] = 1
        /\ \A m \in Locations : m # p /\ m # l => masterTable'[m] = masterTable[m]
        /\ \A m \in Locations : masterTable[m] = 1 => masterTable'[m] = 1
    BY <1>1, <1>2 DEF Tables
  <1>5. prot' \in [Pages -> BOOLEAN] /\ prot'[p]
    BY DEF Tables, FaultMoves, swap_out
  <1>6. {m \in Pages : pageTables'[Main][m] # NONE} = PagesOf(Main) \union {p}
    <2>1. \A m \in Pages : m # p => pageTables'[Main][m] = pageTables[Main][m]
      BY <1>3
    <2> QED
      BY <1>1, <1>3, <2>1 DEF PagesOf
  <1>7. ASSUME NEW u \in Threads \ {Main}
        PROVE  {m \in Pages : pageTables'[u][m] # NONE} = PagesOf(u)
    <2>1. \A m \in Pages : pageTables'[u][m] # NONE <=> pageTables[u][m] # NONE
      BY <1>1, <1>3
    <2> QED
      BY <2>1 DEF PagesOf
  <1>8. \A m \in Pages : pageTables'[Main][m] # NONE => pageTables'[Main][m] = m
    BY <1>3 DEF PagesOf
  <1>9. ASSUME NEW m \in Locations, masterTable'[m] = 1, ~InTransit(m)
        PROVE  \E u \in Born : \E n \in Pages : pageTables'[u][n] = m
    <2>1. CASE m = p \/ m = l
      BY <1>1, <1>3, <2>1
    <2>2. CASE m # p /\ m # l
      <3>1. HeldBy(m)
        BY <1>4, <1>9, <2>2 DEF MarksHeld
      <3>2. PICK u \in Born, n \in Pages : pageTables[u][n] = m
        BY <3>1 DEF HeldBy
      <3>3. ~(u = Main /\ n = p)
        BY <2>2, <3>2 DEF PagesOf
      <3>4. pageTables'[u][n] = m
        BY <1>1, <1>3, <2>2, <3>2, <3>3
      <3> QED
        BY <3>4
    <2> QED
      BY <2>1, <2>2
  <1> QED
    BY <1>3, <1>4, <1>5, <1>6, <1>7, <1>8, <1>9

LEMMA FaultScanGrown ==
  ASSUME SchedInv, LoopInv, Grown, FaultScan
  PROVE  Grown'
  <1> USE ThreadFacts, PageFacts
  <1> DEFINE p == Head(want)
  <1>1. /\ pc = "fault" /\ (j > 0 \/ masterTable[p] = 1)
        /\ UNCHANGED <<current, threadIDS, written, i, want, last>>
    BY DEF FaultScan, InLoop, sched
  <1>2. Tables /\ Rows /\ Growing /\ Homes /\ MarksHeld /\ Scanned
    BY DEF Grown
  <1>3. /\ current = Main /\ Main \in Born /\ want # <<>>
        /\ p \in Pages /\ p < Last - 1 /\ p \in Nat
        /\ \A k \in PagesOf(Main) : pageTables[Main][k] = k
        /\ p \in PagesOf(Main) => prot[p] /\ j # 0
    BY <1>1, FaultPageFacts
  <1>4. Born' = Born /\ Busy /\ current' = Main
    BY <1>1, <1>3 DEF Born, Busy
  <1>5. /\ j \in Born /\ j \in Nat
        /\ \/ /\ UNCHANGED <<pageTables, masterTable, prot, store, pc>> /\ j' = j + 1
              /\ j # Main => \A k \in EndPages : pageTables[j][k] # p
           \/ /\ j # Main
              /\ \E k \in PagesOf(j), l \in Locations : FaultMoves(p, k, l)
              /\ (pc' = "tags" /\ j' = 0) \/ (pc' = "fault" /\ j' = j + 1)
    BY FaultScanFacts
  <1> HIDE DEF p
  <1>6. Busy' /\ j' \in Nat
    BY <1>1, <1>5 DEF Busy
  <1>7. Filled' /\ Quiet'
    BY <1>4, <1>6 DEF Filled, Quiet
  <1>8. CASE /\ UNCHANGED <<pageTables, masterTable, prot, store, pc>> /\ j' = j + 1
             /\ j # Main => \A k \in EndPages : pageTables[j][k] # p
    <2>1. PagesOf(Main)' = PagesOf(Main)
      BY <1>8 DEF PagesOf
    <2>2. Tables' /\ Rows'
      BY <1>2, <1>4, <1>8 DEF Tables, Rows, PagesOf
    <2>3. Homes'
      BY <1>1, <1>2, <1>4, <1>5, <1>8 DEF Homes, PagesOf
    <2>4. MarksHeld'
      BY <1>1, <1>2, <1>4, <1>8 DEF MarksHeld, HeldBy, InTransit
    <2>5. j' # 0
      BY <1>5, <1>8
    <2>6. Growing'
      BY <1>1, <1>2, <1>3, <1>4, <1>8, <2>1, <2>5 DEF Growing
    <2>7. \/ p \in PagesOf(Main)
          \/ \E t \in Born : t >= j + 1 /\ \E k \in EndPages : pageTables[t][k] = p
      <3> SUFFICES ASSUME p \notin PagesOf(Main)
                   PROVE  \E t \in Born : t >= j + 1 /\ \E k \in EndPages : pageTables[t][k] = p
        OBVIOUS
      <3>1. CASE j > 0
        <4>1. PICK t \in Born : t >= j /\ \E k \in EndPages : pageTables[t][k] = p
          BY <1>1, <1>2, <3>1 DEF Scanned, p
        <4>2. t # j /\ t \in Nat
          BY <1>8, <3>1, <4>1 DEF Main
        <4> QED
          BY <1>5, <4>1, <4>2
      <3>2. CASE ~(j > 0)
        <4>1. j = 0 /\ p \in Locations /\ masterTable[p] = 1 /\ ~InTransit(p)
          BY <1>1, <1>3, <1>5, <3>2 DEF InTransit
        <4>2. HeldBy(p)
          BY <1>2, <4>1 DEF MarksHeld
        <4>3. PICK t \in Born, k \in Pages : pageTables[t][k] = p
          BY <4>2 DEF HeldBy
        <4>4. k \in PagesOf(t)
          BY <1>3, <4>3 DEF PagesOf
        <4>5. t # Main
          BY <1>3, <4>3, <4>4
        <4>6. k \in EndPages /\ t \in Nat /\ t # 0
          BY <1>2, <4>4, <4>5 DEF Rows, Main
        <4>7. t >= j + 1
          BY <4>1, <4>6
        <4> QED
          BY <4>3, <4>6, <4>7
      <3> QED
        BY <3>1, <3>2
    <2>8. Scanned'
      BY <1>1, <1>4, <1>8, <2>1, <2>7 DEF Scanned, p
    <2> QED
      BY <1>7, <2>2, <2>3, <2>4, <2>6, <2>8 DEF Grown
  <1>9. CASE /\ j # Main
             /\ \E k \in PagesOf(j), l \in Locations : FaultMoves(p, k, l)
             /\ (pc' = "tags" /\ j' = 0) \/ (pc' = "fault" /\ j' = j + 1)
    <2>1. PICK k \in PagesOf(j), l \in Locations : FaultMoves(p, k, l)
      BY <1>9
    <2>2. /\ pageTables' \in [Threads -> [Pages -> Locations \union {NONE}]]
          /\ masterTable' \in [Locations -> {0, 1}]
          /\ prot' \in [Pages -> BOOLEAN] /\ prot'[p]
          /\ {m \in Pages : pageTables'[Main][m] # NONE} = PagesOf(Main) \union {p}
          /\ \A u \in Threads \ {Main} :
               {m \in Pages : pageTables'[u][m] # NONE} = PagesOf(u)
          /\ \A m \in Pages : pageTables'[Main][m] # NONE => pageTables'[Main][m] = m
          /\ \A m \in Locations : masterTable'[m] = 1 =>
               \/ \E u \in Born : \E n \in Pages : pageTables'[u][n] = m
               \/ InTransit(m)
      BY <1>2, <1>3, <1>5, <1>9, <2>1, FaultMovesTables
    <2>3. Tables'
      BY <2>2 DEF Tables
    <2>4. Rows'
      <3>1. \A t \in Born : t # Main => {m \in Pages : pageTables'[t][m] # NONE} = EndPages
        BY <1>2, <2>2 DEF Rows
      <3>2. EndPages \subseteq PagesOf(Main) /\ Last - 1 \notin PagesOf(Main)
            /\ Last - 1 \notin EndPages /\ p # Last - 1
        BY <1>2, <1>3 DEF Rows, EndPages
      <3> QED
        BY <1>4, <2>2, <3>1, <3>2 DEF Rows, PagesOf
    <2>5. PagesOf(Main)' = PagesOf(Main) \union {p}
      BY <2>2 DEF PagesOf
    <2>6. Homes'
      BY <1>2, <1>4, <1>6, <1>9, <2>2 DEF Homes, PagesOf
    <2>7. MarksHeld'
      <3>1. \A m \in Locations : ~InTransit(m)
        BY <1>1 DEF InTransit
      <3> QED
        BY <1>4, <2>2, <3>1 DEF MarksHeld, HeldBy
    <2>8. Scanned'
      BY <1>1, <2>5 DEF Scanned, p
    <2>9. ~(pc' = "fault" /\ j' = 0)
      BY <1>5, <1>9
    <2>10. Growing'
      BY <1>1, <1>2, <1>3, <1>4, <2>2, <2>5, <2>9 DEF Growing, p
    <2> QED
      BY <1>7, <2>3, <2>4, <2>6, <2>7, <2>8, <2>10 DEF Grown
  <1> QED
    BY <1>5, <1>8, <1>9

LEMMA NoJoinReturns ==
  ASSUME SchedInv, LoopInv, NoneFreed', JoinReturn
  PROVE  FALSE
  <1>1. target[current] \in Threads
    BY RunningFacts DEF SchedInv, JoinReturn
  <1>2. state'[target[current]] = "FREED"
    BY <1>1 DEF JoinReturn, SchedInv
  <1> QED
    BY <1>1, <1>2 DEF NoneFreed

LEMMA GrownStep ==
  ASSUME SchedInv, LoopInv, Grown, Evicting, OnlyMain, OnlyMain', NoneFreed', LibStep
  PROVE  Grown'
  <1>1. CASE Calls
    <2>1. ASSUME NEW u \in Threads, JoinCall(u) PROVE Grown'
      BY <2>1, GrownStutters DEF JoinCall
    <2> QED
      BY <1>1, <2>1, CreateGrown, YieldGrown, ExitGrown, NoJoinReturns DEF Calls
  <1>2. CASE Switch
    BY <1>2, SwapOutPageGrown, SwapOutLastGrown, EvictGrown, SwapInPageGrown,
       EvictLastGrown, SwapInLastGrown DEF Switch
  <1>3. CASE Allocation
    <2>1. ASSUME FaultGivesUp PROVE Grown'
      BY <2>1, GrownStutters DEF FaultGivesUp, sched
    <2> QED
      BY <1>3, <2>1, WriteTagGrown, FaultGrown, FaultOnFreeFrameGrown, FaultScanGrown,
         ClaimEvictsGrown, ClaimPageGrown, myallocateReturnsGrown DEF Allocation
  <1>4. CASE ProcessEnds
    BY <1>4, GrownStutters DEF ProcessEnds, sched
  <1>5. CASE \E f, r \in 0..(MEMORYPAGES - 3) : myallocate(f, r)
    BY <1>5, myallocateGrown
  <1> QED
    BY <1>1, <1>2, <1>3, <1>4, <1>5 DEF LibStep

\* A page moves to a free location: that is none of the end frames, and frames
\* that are marked stay accessible.
LEMMA FramesMove ==
  ASSUME Tables, EndFrames, ~(pc = "in" /\ temp # NULL), NEW t \in Born,
         NEW k \in PagesOf(t), NEW l \in Locations, NEW p \in Pages,
         masterTable[l] = 0, swap_out(p, l), Moved(t, k, l)
  PROVE  /\ l \notin EndPages /\ prot'[0] /\ prot'[Last]
         /\ \A u \in Born : \A n \in Pages :
              pageTables'[u][n] \in EndPages => pageTables'[u][n] = n
         /\ \A f \in Pages : masterTable[f] = 1 /\ prot[f] => prot'[f]
  <1> USE ThreadFacts, PageFacts
  <1>1. masterTable[0] = 1 /\ masterTable[Last] = 1 /\ prot[0] /\ prot[Last]
    BY DEF EndFrames
  <1>2. l \notin EndPages
    BY <1>1 DEF EndPages
  <1>3. /\ pageTables'[t][k] = l /\ k \in Pages /\ t \in Threads
        /\ \A u \in Threads : \A m \in Pages :
              u # t \/ m # k => pageTables'[u][m] = pageTables[u][m]
    <2>1. t \in Threads /\ k \in PagesOf(t) /\ Tables /\ Moved(t, k, l)
      OBVIOUS
    <2> QED
      BY <2>1, TableMoves
  <1>4. \A f \in Pages : masterTable[f] = 1 /\ prot[f] => prot'[f]
    BY DEF swap_out
  <1>5. \A u \in Born : \A n \in Pages :
              pageTables'[u][n] \in EndPages => pageTables'[u][n] = n
    <2>1. \A u \in Born : \A n \in Pages :
              pageTables[u][n] \in EndPages => pageTables[u][n] = n
      BY DEF EndFrames
    <2> SUFFICES ASSUME NEW u \in Born, NEW n \in Pages, pageTables'[u][n] \in EndPages
                 PROVE  pageTables'[u][n] = n
      OBVIOUS
    <2>2. CASE u = t /\ n = k
      BY <1>2, <1>3, <2>2
    <2>3. CASE u # t \/ n # k
      <3>1. pageTables'[u][n] = pageTables[u][n]
        BY <1>3, <2>3
      <3> QED
        BY <2>1, <3>1
    <2> QED
      BY <2>2, <2>3
  <1> QED
    BY <1>1, <1>2, <1>4, <1>5

LEMMA SwapOutPageFrames ==
  ASSUME SchedInv, LoopInv, Grown, EndFrames, MainFrames, SwapOutPage
  PROVE  EndFrames' /\ MainFrames'
  <1> USE ThreadFacts, PageFacts
  <1> DEFINE l == nextFreePage(masterTable)
  <1>1. /\ pc = "out" /\ pageTables[temp][i] # NONE /\ swap_out(i, l)
        /\ Moved(temp, i, l) /\ MarkedToo(l) /\ i' = i + 1 /\ proc = "up"
        /\ SchedKept /\ UNCHANGED <<pc, temp>>
    BY DEF SwapOutPage, InLoop, Moved, MarkedToo, SchedKept, sched
  <1>2. Tables /\ Homes
    BY DEF Grown
  <1>3. l \in Locations /\ masterTable[l] = 0
    BY MainRoom, NewAddr
  <1> HIDE DEF l
  <1>4. temp \in Threads /\ temp \in Born /\ i \in Nat /\ i \in Pages /\ i \in PagesOf(temp)
    <2>1. i \in 0..(Last - 1) /\ temp \in Threads /\ temp \in Born
      BY <1>1, <1>2, MainIsBorn DEF Homes
    <2>2. i \in Pages
      BY <2>1 DEF Pages, Last
    <2> QED
      BY <1>1, <2>1, <2>2 DEF PagesOf
  <1>5. /\ pageTables'[temp][i] = l
        /\ \A u \in Threads : \A m \in Pages :
              u # temp \/ m # i => pageTables'[u][m] = pageTables[u][m]
        /\ \A u \in Threads : {m \in Pages : pageTables'[u][m] # NONE} = PagesOf(u)
    BY <1>1, <1>2, <1>3, <1>4, TableMoves
  <1>6. \A m \in Locations : masterTable[m] = 1 => masterTable'[m] = 1
    BY <1>1, <1>2, <1>3 DEF MarkedToo, Tables
  <1>7. Born' = Born /\ PagesOf(Main)' = PagesOf(Main)
    BY <1>1, <1>5 DEF SchedKept, Born, PagesOf
  <1>8. EndFrames'
    <2>1. /\ prot'[0] /\ prot'[Last]
          /\ \A u \in Born : \A n \in Pages :
               pageTables'[u][n] \in EndPages => pageTables'[u][n] = n
      BY <1>1, <1>2, <1>3, <1>4, FramesMove
    <2>2. masterTable'[0] = 1 /\ masterTable'[Last] = 1
      BY <1>1, <1>6 DEF EndFrames
    <2> QED
      BY <1>1, <1>7, <2>1, <2>2 DEF EndFrames
  <1>9. MainFrames'
    <2> SUFFICES ASSUME state[Main] = "ACTIVE", NEW k \in PagesOf(Main)
                 PROVE  /\ temp = Main => masterTable'[k] = 1
                        /\ \/ temp = Main /\ k >= i + 1
                           \/ pageTables'[Main][k] \notin PagesOf(Main)
      BY <1>1, <1>7 DEF MainFrames, InFrame, Leaving, SchedKept
    <2>1. /\ temp = Main => \A m \in PagesOf(Main) : masterTable[m] = 1
          /\ (temp = Main /\ k >= i) \/ pageTables[Main][k] \notin PagesOf(Main)
      BY <1>1 DEF MainFrames, InFrame, Leaving
    <2>2. k \in Pages /\ k \in Nat /\ k \in Locations
      BY DEF PagesOf, Pages
    <2>3. temp = Main => masterTable'[k] = 1
      BY <1>6, <2>1, <2>2
    <2>4. CASE temp = Main /\ k = i
      <3>1. pageTables'[Main][k] = l
        BY <1>5, <2>4
      <3> QED
        BY <1>3, <2>1, <2>3, <2>4, <3>1
    <2>5. CASE temp # Main \/ k # i
      <3>1. pageTables'[Main][k] = pageTables[Main][k]
        BY <1>5, <2>2, <2>5
      <3> QED
        BY <1>4, <2>1, <2>2, <2>3, <2>5, <3>1
    <2> QED
      BY <2>3, <2>4, <2>5
  <1> QED
    BY <1>8, <1>9

LEMMA SwapOutLastFrames ==
  ASSUME SchedInv, LoopInv, Grown, EndFrames, MainFrames, SwapOutLast
  PROVE  EndFrames' /\ MainFrames'
  <1> USE ThreadFacts, PageFacts
  <1> DEFINE l == nextFreePage(masterTable)
  <1>1. /\ pc = "out" /\ pageTables[temp][i] = NONE /\ swap_out(Last, l)
        /\ Moved(temp, Last, l) /\ proc = "up" /\ pc' = "in" /\ i' = 0
        /\ SchedKept /\ UNCHANGED temp
    BY DEF SwapOutLast, InLoop, Moved, SchedKept, sched
  <1>2. Tables /\ Homes /\ Rows /\ ~Busy
    BY <1>1 DEF Grown, Busy
  <1>3. l \in Locations /\ masterTable[l] = 0
    BY MainRoom, NewAddr
  <1> HIDE DEF l
  <1>4. temp \in Threads /\ temp \in Born /\ i \in 0..(Last - 1) /\ temp # NULL
        /\ Last \in PagesOf(temp)
    BY <1>1, <1>2, MainIsBorn DEF Homes, Rows, EndPages
  <1>5. /\ pageTables'[temp][Last] = l
        /\ \A u \in Threads : \A m \in Pages :
              u # temp \/ m # Last => pageTables'[u][m] = pageTables[u][m]
        /\ \A u \in Threads : {m \in Pages : pageTables'[u][m] # NONE} = PagesOf(u)
    <2>1. Tables /\ temp \in Threads /\ Last \in PagesOf(temp) /\ l \in Locations
          /\ Moved(temp, Last, l)
      BY <1>1, <1>2, <1>3, <1>4
    <2> QED
      BY <2>1, TableMoves
  <1>6. Born' = Born /\ PagesOf(Main)' = PagesOf(Main)
    BY <1>1, <1>5 DEF SchedKept, Born, PagesOf
  <1>7. EndFrames'
    <2>1. /\ prot'[0] /\ prot'[Last]
          /\ \A u \in Born : \A n \in Pages :
               pageTables'[u][n] \in EndPages => pageTables'[u][n] = n
      BY <1>1, <1>2, <1>3, <1>4, FramesMove
    <2> QED
      BY <1>1, <1>4, <1>6, <2>1 DEF EndFrames
  <1>8. MainFrames'
    <2> SUFFICES ASSUME state[Main] = "ACTIVE", NEW k \in PagesOf(Main)
                 PROVE  ~(k < 0) /\ pageTables'[Main][k] \notin PagesOf(Main)
      BY <1>1, <1>6 DEF MainFrames, InFrame, Leaving, SchedKept
    <2>1. /\ temp = Main => \A m \in PagesOf(Main) : masterTable[m] = 1
          /\ (temp = Main /\ k >= i) \/ pageTables[Main][k] \notin PagesOf(Main)
      BY <1>1 DEF MainFrames, InFrame, Leaving
    <2>2. k \in Pages /\ k \in Nat
      BY DEF PagesOf, Pages
    <2>3. CASE temp = Main /\ k = Last
      BY <1>3, <1>5, <2>1, <2>2, <2>3
    <2>4. CASE temp = Main /\ k # Last
      <3>1. k < i
        BY <1>1, <1>2, <1>4, <2>4, BeforeHole
      <3> QED
        BY <1>4, <1>5, <2>1, <2>2, <2>4, <3>1
    <2>5. CASE temp # Main
      BY <1>5, <2>1, <2>2, <2>5
    <2> QED
      BY <2>3, <2>4, <2>5
  <1> QED
    BY <1>7, <1>8

\* Where main's pages are while a thread's pages come in.
LEMMA MainComesIn ==
  ASSUME MainFrames, Homes, proc = "up", state[Main] = "ACTIVE", pc = "in",
         NEW k \in PagesOf(Main)
  PROVE  /\ current = Main /\ k < i => masterTable[k] = 1 /\ prot[k] /\ pageTables[Main][k] = k
         /\ ~(current = Main /\ k < i) => pageTables[Main][k] \notin PagesOf(Main)
  <1>1. current = Main /\ k < i => masterTable[k] = 1 /\ prot[k]
    BY DEF MainFrames, InFrame
  <1>2. ~(current = Main /\ k < i) => pageTables[Main][k] \notin PagesOf(Main)
    BY DEF MainFrames, InFrame, Leaving
  <1>3. current = Main /\ k < i => pageTables[Main][k] = k
    BY DEF Homes
  <1> QED
    BY <1>1, <1>2, <1>3

\* A page of another thread moves to a free location while pages come in.
LEMMA EvictedFrames ==
  ASSUME SchedInv, LoopInv, Grown, EndFrames, MainFrames, pc = "in", temp = NULL,
         proc = "up", SchedKept, UNCHANGED <<pc, i, temp, proc>>,
         NEW t \in Born, NEW k \in PagesOf(t), NEW l \in Locations, NEW p \in Pages,
         masterTable[l] = 0, swap_out(p, l), Moved(t, k, l), MarkedToo(l),
         state[Main] = "ACTIVE" => t # Main
  PROVE  EndFrames' /\ MainFrames'
  <1> USE ThreadFacts, PageFacts
  <1>1. Tables /\ Homes
    BY DEF Grown
  <1>2. /\ \A u \in Threads : \A m \in Pages :
              u # t \/ m # k => pageTables'[u][m] = pageTables[u][m]
        /\ \A u \in Threads : {m \in Pages : pageTables'[u][m] # NONE} = PagesOf(u)
    <2>1. t \in Threads /\ k \in PagesOf(t) /\ Tables /\ Moved(t, k, l)
      BY <1>1
    <2> QED
      BY <2>1, TableMoves
  <1>3. \A m \in Locations : masterTable[m] = 1 => masterTable'[m] = 1
    BY <1>1 DEF MarkedToo, Tables
  <1>4. Born' = Born /\ PagesOf(Main)' = PagesOf(Main)
    BY <1>2 DEF SchedKept, Born, PagesOf
  <1>5. /\ prot'[0] /\ prot'[Last]
        /\ \A u \in Born : \A n \in Pages :
               pageTables'[u][n] \in EndPages => pageTables'[u][n] = n
        /\ \A f \in Pages : masterTable[f] = 1 /\ prot[f] => prot'[f]
    BY <1>1, FramesMove
  <1>6. EndFrames'
    <2>1. masterTable'[0] = 1 /\ masterTable'[Last] = 1
      BY <1>3 DEF EndFrames
    <2> QED
      BY <1>4, <1>5, <2>1 DEF EndFrames
  <1>7. MainFrames'
    <2> SUFFICES ASSUME state[Main] = "ACTIVE", NEW m \in PagesOf(Main)
                 PROVE  /\ current = Main /\ m < i => masterTable'[m] = 1 /\ prot'[m]
                        /\ (current = Main /\ m < i) \/ pageTables'[Main][m] \notin PagesOf(Main)
      BY <1>4 DEF MainFrames, InFrame, Leaving, SchedKept
    <2>1. m \in Pages /\ m \in Locations
      BY DEF PagesOf
    <2>2. pageTables'[Main][m] = pageTables[Main][m]
      BY <1>2, <2>1
    <2>3. /\ current = Main /\ m < i => masterTable[m] = 1 /\ prot[m]
          /\ ~(current = Main /\ m < i) => pageTables[Main][m] \notin PagesOf(Main)
      BY <1>1, MainComesIn
    <2> QED
      BY <1>3, <1>5, <2>1, <2>2, <2>3
  <1> QED
    BY <1>6, <1>7

\* Steps of the loops that move no page.
LEMMA FramesStay ==
  ASSUME EndFrames, MainFrames, UNCHANGED <<pageTables, masterTable, prot, current,
         threadIDS, state>>, pc' = pc, i' = i, temp' = temp, proc' = proc \/ proc' # "up"
  PROVE  EndFrames' /\ MainFrames'
  <1>1. Born' = Born /\ PagesOf(Main)' = PagesOf(Main)
    BY DEF Born, PagesOf
  <1>2. EndFrames'
    BY <1>1 DEF EndFrames
  <1>3. MainFrames'
    BY <1>1 DEF MainFrames, InFrame, Leaving
  <1> QED
    BY <1>2, <1>3

LEMMA EvictFrames ==
  ASSUME SchedInv, LoopInv, Grown, EndFrames, MainFrames, Evicting, Evict
  PROVE  EndFrames' /\ MainFrames'
  <1> USE ThreadFacts, PageFacts
  <1>1. /\ pc = "in" /\ temp = NULL /\ proc = "up"
        /\ pageTables[current][i] # NONE /\ HasTable(j)
        /\ MoveFrom(i) /\ SchedKept /\ UNCHANGED <<pc, i, temp, proc>>
    BY DEF Evict, InLoop, SchedKept, sched
  <1>2. Tables /\ Rows /\ Homes
    BY DEF Grown
  <1>3. current \in Threads /\ current \in Born /\ i \in Nat /\ i \in Pages
        /\ i \in PagesOf(current) /\ i # Last
    <2>1. i \in 0..(Last - 1) /\ current \in Threads /\ current \in Born
      BY <1>1, <1>2, MainIsBorn DEF Homes
    <2>2. i \in Pages /\ i # Last
      BY <2>1 DEF Pages, Last
    <2> QED
      BY <1>1, <2>1, <2>2 DEF PagesOf
  <1>4. j \in Born /\ masterTable[i] = 1
    BY <1>1, <1>3 DEF HasTable, Born, Evicting
  <1>5. CASE UNCHANGED <<pageTables, masterTable, prot, store>>
    BY <1>1, <1>5, FramesStay DEF SchedKept
  <1>6. CASE \E k \in PagesOf(j), l \in Locations :
               /\ pageTables[j][k] = i /\ masterTable[l] = 0
               /\ swap_out(i, l) /\ Moved(j, k, l) /\ MarkedToo(l)
    <2>1. PICK k \in PagesOf(j), l \in Locations :
               /\ pageTables[j][k] = i /\ masterTable[l] = 0
               /\ swap_out(i, l) /\ Moved(j, k, l) /\ MarkedToo(l)
      BY <1>6
    <2>2. ASSUME state[Main] = "ACTIVE", j = Main PROVE FALSE
      <3>0. k \in PagesOf(Main) /\ k \in Nat
        BY <2>1, <2>2 DEF PagesOf, Pages
      <3>1. /\ current = Main /\ k < i => pageTables[Main][k] = k
            /\ ~(current = Main /\ k < i) => pageTables[Main][k] \notin PagesOf(Main)
        BY <1>1, <1>2, <2>2, <3>0, MainComesIn
      <3>2. CASE current = Main
        BY <1>3, <2>1, <2>2, <3>0, <3>1, <3>2
      <3>3. CASE current # Main
        <4>1. i = 0
          BY <1>2, <1>3, <3>3 DEF Rows, EndPages
        <4>2. 0 \in PagesOf(Main)
          BY <1>2, <1>4, <2>2 DEF Rows, EndPages
        <4> QED
          BY <2>1, <2>2, <3>1, <3>3, <4>1, <4>2
      <3> QED
        BY <3>2, <3>3
    <2> QED
      BY <1>1, <1>3, <1>4, <2>1, <2>2, EvictedFrames
  <1> QED
    BY <1>1, <1>3, <1>4, <1>5, <1>6, MoveFromFacts

LEMMA EvictLastFrames ==
  ASSUME SchedInv, LoopInv, Grown, EndFrames, MainFrames, EvictLast
  PROVE  EndFrames' /\ MainFrames'
  <1> USE ThreadFacts, PageFacts
  <1> DEFINE l == nextFreePage(masterTable)
  <1>1. /\ pc = "in" /\ temp = NULL /\ proc = "up" /\ HasTable(j) /\ SchedKept
        /\ UNCHANGED <<pc, i, temp, proc>>
        /\ IF pageTables[j][Last] = Last
             THEN swap_out(Last, l) /\ Moved(j, Last, l) /\ MarkedToo(l)
             ELSE UNCHANGED <<pageTables, masterTable, prot, store>>
    BY DEF EvictLast, InLoop, SchedKept, sched, Moved, MarkedToo
  <1>2. Tables /\ Rows /\ Homes
    BY DEF Grown
  <1>3. j \in Born
    BY <1>1 DEF HasTable, Born
  <1>4. CASE pageTables[j][Last] # Last
    BY <1>1, <1>4, FramesStay DEF SchedKept
  <1>5. CASE pageTables[j][Last] = Last
    <2>1. l \in Locations /\ masterTable[l] = 0
      BY MainRoom, NewAddr
    <2> HIDE DEF l
    <2>2. swap_out(Last, l) /\ Moved(j, Last, l) /\ MarkedToo(l)
          /\ Last \in PagesOf(j)
      BY <1>1, <1>2, <1>3, <1>5 DEF Rows, EndPages
    <2>3. ASSUME state[Main] = "ACTIVE", j = Main PROVE FALSE
      <3>1. Last \in PagesOf(Main) /\ i \in 0..(Last - 1)
        BY <1>1, <1>2, <2>2, <2>3 DEF Homes
      <3>2. ~(Last < i)
        BY <3>1
      <3>3. pageTables[Main][Last] \notin PagesOf(Main)
        BY <1>1, <1>2, <2>3, <3>1, <3>2, MainComesIn
      <3> QED
        BY <1>5, <2>3, <3>1, <3>3
    <2> QED
      BY <1>1, <1>3, <2>1, <2>2, <2>3, EvictedFrames
  <1> QED
    BY <1>4, <1>5

\* Page k of the thread that starts comes in from location l.
LEMMA ArriveFrames ==
  ASSUME Tables, EndFrames, current \in Born, NEW k \in PagesOf(current),
         Moved(current, k, k),
         masterTable' = [masterTable EXCEPT ![pageTables[current][k]] = 0, ![k] = 1],
         \/ pageTables[current][k] = k /\ UNCHANGED <<store, prot>>
         \/ swap_in(pageTables[current][k], k)
  PROVE  /\ prot'[0] /\ prot'[Last]
         /\ \A u \in Born : \A n \in Pages :
              pageTables'[u][n] \in EndPages => pageTables'[u][n] = n
         /\ \A u \in Threads : \A m \in Pages :
              u # current \/ m # k => pageTables'[u][m] = pageTables[u][m]
         /\ \A u \in Threads : {m \in Pages : pageTables'[u][m] # NONE} = PagesOf(u)
         /\ masterTable'[k] = 1
         /\ \A m \in Locations : m # pageTables[current][k] /\ masterTable[m] = 1 =>
              masterTable'[m] = 1
         /\ \A m \in EndPages : masterTable[m] = 1 => masterTable'[m] = 1
         /\ \A f \in Pages : prot[f] => prot'[f]
         /\ pageTables[current][k] # k => prot'[k]
  <1> USE ThreadFacts, PageFacts
  <1> DEFINE l == pageTables[current][k]
  <1>1. current \in Threads /\ k \in Pages /\ k \in Locations /\ l \in Locations
    BY DEF PagesOf, Tables
  <1>2. /\ pageTables'[current][k] = k
        /\ \A u \in Threads : \A m \in Pages :
              u # current \/ m # k => pageTables'[u][m] = pageTables[u][m]
        /\ \A u \in Threads : {m \in Pages : pageTables'[u][m] # NONE} = PagesOf(u)
    <2>1. /\ pageTables'[current][k] = k
          /\ \A u \in Threads : \A m \in Pages :
                u # current \/ m # k => pageTables'[u][m] = pageTables[u][m]
      BY <1>1 DEF Tables, Moved
    <2>2. \A u \in Threads : \A m \in Pages :
                pageTables'[u][m] # NONE <=> pageTables[u][m] # NONE
      BY <1>1, <2>1
    <2> QED
      BY <2>1, <2>2 DEF PagesOf
  <1>3. l \in EndPages => l = k
    BY <1>1 DEF EndFrames
  <1>4. /\ \A f \in Pages : prot[f] => prot'[f]
        /\ l # k => prot'[k]
    BY <1>1 DEF swap_in
  <1>5. /\ masterTable'[k] = 1
        /\ \A m \in Locations : m # l /\ masterTable[m] = 1 => masterTable'[m] = 1
    BY <1>1 DEF Tables
  <1>6. \A m \in EndPages : masterTable[m] = 1 => masterTable'[m] = 1
    BY <1>3, <1>5
  <1>7. \A u \in Born : \A n \in Pages :
              pageTables'[u][n] \in EndPages => pageTables'[u][n] = n
    <2>1. \A u \in Born : \A n \in Pages :
              pageTables[u][n] \in EndPages => pageTables[u][n] = n
      BY DEF EndFrames
    <2> SUFFICES ASSUME NEW u \in Born, NEW n \in Pages, pageTables'[u][n] \in EndPages
                 PROVE  pageTables'[u][n] = n
      OBVIOUS
    <2>2. CASE u = current /\ n = k
      BY <1>2, <2>2
    <2>3. CASE u # current \/ n # k
      <3>1. pageTables'[u][n] = pageTables[u][n]
        BY <1>2, <2>3
      <3> QED
        BY <2>1, <3>1
    <2> QED
      BY <2>2, <2>3
  <1>8. prot'[0] /\ prot'[Last]
    BY <1>4 DEF EndFrames
  <1> QED
    BY <1>2, <1>4, <1>5, <1>6, <1>7, <1>8

LEMMA SwapInPageFrames ==
  ASSUME SchedInv, LoopInv, Grown, EndFrames, MainFrames, SwapInPage
  PROVE  EndFrames' /\ MainFrames'
  <1> USE ThreadFacts, PageFacts
  <1>1. /\ pc = "in" /\ proc = "up" /\ pageTables[current][i] # NONE
        /\ \/ pageTables[current][i] = i /\ UNCHANGED <<store, prot>>
           \/ swap_in(pageTables[current][i], i)
        /\ Moved(current, i, i) /\ i' = i + 1
        /\ masterTable' = [masterTable EXCEPT ![pageTables[current][i]] = 0, ![i] = 1]
        /\ SchedKept /\ UNCHANGED <<pc, temp, proc>>
    BY DEF SwapInPage, InLoop, Moved, SchedKept, sched, Arrived, NextPage
  <1>2. Tables /\ Rows /\ Homes
    BY DEF Grown
  <1>3. current \in Threads /\ current \in Born /\ i \in Nat /\ i \in Pages
        /\ i \in PagesOf(current)
    <2>1. i \in 0..(Last - 1) /\ current \in Threads /\ current \in Born
      BY <1>1, <1>2, MainIsBorn DEF Homes
    <2>2. i \in Pages
      BY <2>1 DEF Pages, Last
    <2> QED
      BY <1>1, <2>1, <2>2 DEF PagesOf
  <1>4. /\ prot'[0] /\ prot'[Last]
        /\ \A u \in Born : \A n \in Pages :
              pageTables'[u][n] \in EndPages => pageTables'[u][n] = n
        /\ \A u \in Threads : \A m \in Pages :
              u # current \/ m # i => pageTables'[u][m] = pageTables[u][m]
        /\ \A u \in Threads : {m \in Pages : pageTables'[u][m] # NONE} = PagesOf(u)
        /\ masterTable'[i] = 1
        /\ \A m \in Locations : m # pageTables[current][i] /\ masterTable[m] = 1 =>
              masterTable'[m] = 1
        /\ \A m \in EndPages : masterTable[m] = 1 => masterTable'[m] = 1
        /\ \A f \in Pages : prot[f] => prot'[f]
        /\ pageTables[current][i] # i => prot'[i]
    BY <1>1, <1>2, <1>3, ArriveFrames
  <1>5. Born' = Born /\ PagesOf(Main)' = PagesOf(Main)
    BY <1>1, <1>4 DEF SchedKept, Born, PagesOf
  <1>6. EndFrames'
    <2>1. temp = NULL => masterTable'[0] = 1 /\ masterTable'[Last] = 1
      BY <1>4 DEF EndFrames, EndPages
    <2>2. masterTable'[0] = 1
      <3>1. CASE i = 0
        BY <1>4, <3>1
      <3>2. CASE i > 0
        BY <1>1, <1>4, <3>2 DEF EndFrames, EndPages
      <3> QED
        BY <1>3, <3>1, <3>2
    <2> QED
      BY <1>1, <1>4, <1>5, <2>1, <2>2 DEF EndFrames
  <1>7. MainFrames'
    <2> SUFFICES ASSUME state[Main] = "ACTIVE", NEW m \in PagesOf(Main)
                 PROVE  /\ current = Main /\ m < i + 1 => masterTable'[m] = 1 /\ prot'[m]
                        /\ (current = Main /\ m < i + 1) \/ pageTables'[Main][m] \notin PagesOf(Main)
      BY <1>1, <1>5 DEF MainFrames, InFrame, Leaving, SchedKept
    <2>1. m \in Pages /\ m \in Locations /\ m \in Nat
      BY DEF PagesOf, Pages
    <2>2. \A n \in PagesOf(Main) :
            /\ current = Main /\ n < i => masterTable[n] = 1 /\ prot[n]
            /\ ~(current = Main /\ n < i) => pageTables[Main][n] \notin PagesOf(Main)
      BY <1>1, <1>2, MainComesIn
    <2>3. CASE current # Main
      <3>1. pageTables'[Main][m] = pageTables[Main][m]
        BY <1>4, <2>1, <2>3
      <3> QED
        BY <2>2, <2>3, <3>1
    <2>4. CASE current = Main /\ m < i
      <3>1. ~(i < i) /\ i \in PagesOf(Main)
        BY <1>3, <2>4
      <3>2. m # pageTables[current][i]
        BY <2>2, <2>4, <3>1
      <3> QED
        BY <1>3, <1>4, <2>1, <2>2, <2>4, <3>2
    <2>5. CASE current = Main /\ m = i
      <3>1. ~(i < i) /\ i \in PagesOf(Main)
        BY <1>3, <2>5
      <3>2. pageTables[current][i] # i
        BY <2>2, <2>5, <3>1
      <3> QED
        BY <1>3, <1>4, <2>5, <3>2
    <2>6. CASE current = Main /\ m > i
      <3>1. pageTables'[Main][m] = pageTables[Main][m] /\ ~(m < i) /\ ~(m < i + 1)
        BY <1>3, <1>4, <2>1, <2>6
      <3> QED
        BY <2>2, <2>6, <3>1
    <2> QED
      BY <1>3, <2>1, <2>3, <2>4, <2>5, <2>6
  <1> QED
    BY <1>6, <1>7

LEMMA SwapInLastFrames ==
  ASSUME SchedInv, LoopInv, Grown, EndFrames, MainFrames, SwapInLast
  PROVE  EndFrames' /\ MainFrames'
  <1> USE ThreadFacts, PageFacts
  <1>1. /\ pc = "in" /\ proc = "up" /\ pageTables[current][i] = NONE
        /\ IF pageTables[current][Last] = Last THEN UNCHANGED <<store, prot>>
             ELSE swap_in(pageTables[current][Last], Last)
        /\ Moved(current, Last, Last) /\ pc' = "run"
        /\ masterTable' = [masterTable EXCEPT ![pageTables[current][Last]] = 0,
                                              ![Last] = 1]
        /\ SchedKept /\ UNCHANGED proc
    BY DEF SwapInLast, InLoop, Moved, SchedKept, sched, Arrived
  <1>2. Tables /\ Rows /\ Homes /\ ~Busy
    BY <1>1 DEF Grown, Busy
  <1>3. current \in Threads /\ current \in Born /\ i \in 0..(Last - 1)
        /\ Last \in PagesOf(current) /\ 0 \in PagesOf(current)
    BY <1>1, <1>2, MainIsBorn DEF Homes, Rows, EndPages
  <1>4. /\ prot'[0] /\ prot'[Last]
        /\ \A u \in Born : \A n \in Pages :
              pageTables'[u][n] \in EndPages => pageTables'[u][n] = n
        /\ \A u \in Threads : \A m \in Pages :
              u # current \/ m # Last => pageTables'[u][m] = pageTables[u][m]
        /\ \A u \in Threads : {m \in Pages : pageTables'[u][m] # NONE} = PagesOf(u)
        /\ masterTable'[Last] = 1
        /\ \A m \in Locations : m # pageTables[current][Last] /\ masterTable[m] = 1 =>
              masterTable'[m] = 1
        /\ \A m \in EndPages : masterTable[m] = 1 => masterTable'[m] = 1
        /\ \A f \in Pages : prot[f] => prot'[f]
    BY <1>1, <1>2, <1>3, ArriveFrames
  <1>5. Born' = Born /\ PagesOf(Main)' = PagesOf(Main)
    BY <1>1, <1>4 DEF SchedKept, Born, PagesOf
  <1>6. EndFrames'
    <2>1. i > 0
      BY <1>1, <1>3 DEF PagesOf
    <2>2. masterTable'[0] = 1
      BY <1>1, <1>4, <2>1 DEF EndFrames, EndPages
    <2> QED
      BY <1>1, <1>4, <1>5, <2>2 DEF EndFrames
  <1>7. MainFrames'
    <2> SUFFICES ASSUME state[Main] = "ACTIVE", NEW m \in PagesOf(Main)
                 PROVE  /\ current = Main => masterTable'[m] = 1 /\ prot'[m]
                        /\ current = Main \/ pageTables'[Main][m] \notin PagesOf(Main)
      BY <1>1, <1>5 DEF MainFrames, InFrame, Leaving, SchedKept
    <2>1. m \in Pages /\ m \in Locations /\ m \in Nat
      BY DEF PagesOf, Pages
    <2>2. \A n \in PagesOf(Main) :
            /\ current = Main /\ n < i => masterTable[n] = 1 /\ prot[n]
            /\ ~(current = Main /\ n < i) => pageTables[Main][n] \notin PagesOf(Main)
      BY <1>1, <1>2, MainComesIn
    <2>3. CASE current # Main
      <3>1. pageTables'[Main][m] = pageTables[Main][m]
        BY <1>4, <2>1, <2>3
      <3> QED
        BY <2>2, <2>3, <3>1
    <2>4. CASE current = Main /\ m # Last
      <3>1. m < i
        BY <1>1, <1>2, <1>3, <2>4, BeforeHole
      <3>2. ~(Last < i)
        BY <1>3
      <3>3. m # pageTables[current][Last]
        BY <1>3, <2>2, <2>4, <3>2
      <3> QED
        BY <1>4, <2>1, <2>2, <2>4, <3>1, <3>3
    <2>5. CASE current = Main /\ m = Last
      BY <1>4, <2>5
    <2> QED
      BY <2>3, <2>4, <2>5
  <1> QED
    BY <1>6, <1>7

\* While a thread runs, the end frames are marked, and main's pages are in their
\* frames or in none of them.
LEMMA MainRuns ==
  ASSUME MainFrames, proc = "up", state[Main] = "ACTIVE", pc \in {"run", "tags", "fault"},
         NEW k \in PagesOf(Main)
  PROVE  /\ current = Main => masterTable[k] = 1 /\ prot[k]
         /\ current # Main => pageTables[Main][k] \notin PagesOf(Main)
  BY DEF MainFrames, InFrame, Leaving

\* A yield, an exit or a create: the switch begins.
LEMMA SwitchFrames ==
  ASSUME EndFrames, MainFrames, pc = "run", proc = "up", current \in Threads,
         Born' = Born, PagesOf(Main)' = PagesOf(Main), pageTables' = pageTables,
         masterTable' = masterTable, prot' = prot,
         NEW cur \in {current, NULL}, NoSwitch(cur) \/ SwitchStarts(cur),
         state'[Main] = "ACTIVE" => state[Main] = "ACTIVE",
         cur = NULL => current # Main \/ state'[Main] # "ACTIVE" \/ NoSwitch(cur)
  PROVE  EndFrames' /\ MainFrames'
  <1> USE ThreadFacts, PageFacts
  <1>1. masterTable[0] = 1 /\ masterTable[Last] = 1
    BY DEF EndFrames
  <1>2. EndFrames'
    <2>1. /\ prot'[0] /\ prot'[Last]
          /\ \A t \in Born : \A k \in Pages :
               pageTables'[t][k] \in EndPages => pageTables'[t][k] = k
          /\ masterTable'[0] = 1 /\ masterTable'[Last] = 1
      BY <1>1 DEF EndFrames
    <2> QED
      BY <2>1 DEF EndFrames
  <1>3. CASE NoSwitch(cur)
    <2>1. cur = NULL => proc' # "up"
      BY <1>3 DEF NoSwitch
    <2>2. cur = current => current' = current /\ proc' = proc /\ pc' = pc /\ cur # NULL
      BY <1>3 DEF NoSwitch
    <2>3. cur = current => MainFrames'
      BY <2>2 DEF MainFrames, InFrame, Leaving
    <2>4. cur = NULL => MainFrames'
      BY <2>1 DEF MainFrames
    <2> QED
      BY <1>2, <2>3, <2>4
  <1>4. CASE SwitchStarts(cur) /\ ~NoSwitch(cur)
    <2>0. temp' = cur /\ i' = 0
      BY <1>4 DEF SwitchStarts
    <2>1. /\ cur = NULL => pc' = "in"
          /\ cur # NULL => pc' = "out"
      BY <1>4 DEF SwitchStarts
    <2>2. MainFrames'
      <3> SUFFICES ASSUME state'[Main] = "ACTIVE", NEW k \in PagesOf(Main)
                   PROVE  /\ current' = Main /\ pc' \in {"run", "tags", "fault"} =>
                               masterTable'[k] = 1 /\ prot'[k]
                          /\ current' = Main /\ pc' = "in" => ~(k < 0)
                          /\ pc' = "out" /\ temp' = Main => masterTable'[k] = 1
                          /\ \/ pc' = "out" /\ temp' = Main /\ k >= 0
                             \/ pageTables'[Main][k] \notin PagesOf(Main)
        BY <2>0 DEF MainFrames, InFrame, Leaving
      <3>1. k \in Nat
        BY DEF PagesOf, Pages
      <3>2. /\ current = Main => masterTable[k] = 1
            /\ current # Main => pageTables[Main][k] \notin PagesOf(Main)
        BY MainRuns
      <3>3. CASE cur = NULL
        <4>1. current # Main /\ pc' = "in"
          BY <1>4, <2>1, <2>0, <3>3
        <4> QED
          BY <3>1, <3>2, <4>1
      <3>4. CASE cur = current
        <4>1. pc' = "out" /\ temp' = current
          BY <2>0, <2>1, <3>4
        <4> QED
          BY <3>1, <3>2, <4>1
      <3> QED
        BY <3>3, <3>4
    <2> QED
      BY <1>2, <2>2
  <1> QED
    BY <1>3, <1>4

LEMMA YieldFrames ==
  ASSUME SchedInv, LoopInv, EndFrames, MainFrames, VoluntaryYield \/ JoinSpin
  PROVE  EndFrames' /\ MainFrames'
  <1>1. proc = "up" /\ pc = "run" /\ current # NULL /\ current \in Threads /\ Yield
    BY RunningFacts, ThreadFacts DEF VoluntaryYield, JoinSpin, Running
  <1>2. (NoSwitch(current) \/ SwitchStarts(current)) /\ state' = state
    BY <1>1, YieldStep
  <1>3. UNCHANGED <<pageTables, masterTable, prot, threadIDS>>
    BY <1>1 DEF Yield, paging
  <1>4. Born' = Born /\ PagesOf(Main)' = PagesOf(Main)
    BY <1>3 DEF Born, PagesOf
  <1> QED
    BY <1>1, <1>2, <1>3, <1>4, SwitchFrames

LEMMA ExitFrames ==
  ASSUME SchedInv, LoopInv, EndFrames, MainFrames, my_pthread_exit
  PROVE  EndFrames' /\ MainFrames'
  <1> USE ThreadFacts
  <1>1. proc = "up" /\ pc = "run" /\ current \in Threads /\ state[current] = "ACTIVE"
    BY RunningFacts DEF my_pthread_exit
  <1>2. /\ NoSwitch(NULL) \/ (mainEnqueued /\ SwitchStarts(NULL))
        /\ mainEnqueued => state' = [state EXCEPT ![current] = "COMPLETED"]
        /\ ~mainEnqueued => state' = state
    BY ExitStep
  <1>3. UNCHANGED <<pageTables, masterTable, prot, threadIDS>>
    BY DEF my_pthread_exit, paging
  <1>4. Born' = Born /\ PagesOf(Main)' = PagesOf(Main)
    BY <1>3 DEF Born, PagesOf
  <1>5. state \in [Threads -> States]
    BY DEF SchedInv
  <1>6. /\ state'[Main] = "ACTIVE" => state[Main] = "ACTIVE"
        /\ current # Main \/ state'[Main] # "ACTIVE" \/ NoSwitch(NULL)
    BY <1>2, <1>5
  <1> QED
    BY <1>1, <1>2, <1>3, <1>4, <1>6, SwitchFrames

LEMMA CreateFrames ==
  ASSUME SchedInv, LoopInv, Grown, EndFrames, MainFrames, my_pthread_create
  PROVE  EndFrames' /\ MainFrames'
  <1> USE ThreadFacts, PageFacts
  <1>1. PICK p \in Locations, e \in Locations : NewThread(p, e)
    BY CreateFacts
  <1> DEFINE new == threadIDS
  <1>2. /\ masterTable[p] = 0 /\ masterTable[e] = 0
        /\ new \in Threads /\ new # Main /\ Born' = Born \union {new}
        /\ current \in Threads /\ pc = "run"
        /\ pc' = "out" /\ temp' = current /\ i' = 0
        /\ pageTables'[new][0] = p /\ pageTables'[new][Last] = e
        /\ {k \in Pages : pageTables'[new][k] # NONE} = EndPages
        /\ \A t \in Threads \ {new} : pageTables'[t] = pageTables[t]
        /\ masterTable' = [masterTable EXCEPT ![p] = 1, ![e] = 1]
        /\ prot' = [f \in Pages |-> f \notin {p, e} /\ prot[f]]
    BY <1>1 DEF NewThread
  <1>3. Tables
    BY DEF Grown
  <1>4. masterTable[0] = 1 /\ masterTable[Last] = 1 /\ prot[0] /\ prot[Last]
    BY <1>2 DEF EndFrames
  <1>5. p \notin EndPages /\ e \notin EndPages
    BY <1>2, <1>4 DEF EndPages
  <1>6. \A m \in Locations : masterTable[m] = 1 => masterTable'[m] = 1
    BY <1>2, <1>3 DEF Tables
  <1>7. prot'[0] /\ prot'[Last]
    BY <1>2, <1>4, <1>5 DEF EndPages
  <1>8. \A t \in Born' : \A k \in Pages :
          pageTables'[t][k] \in EndPages => pageTables'[t][k] = k
    <2> SUFFICES ASSUME NEW t \in Born', NEW k \in Pages, pageTables'[t][k] \in EndPages
                 PROVE  pageTables'[t][k] = k
      OBVIOUS
    <2>1. CASE t = new
      <3>1. k \in {m \in Pages : pageTables'[new][m] # NONE}
        BY <2>1
      <3>2. k \in EndPages
        BY <1>2, <3>1
      <3> QED
        BY <1>2, <1>5, <2>1, <3>2 DEF EndPages
    <2>2. CASE t # new
      <3>1. t \in Born /\ pageTables'[t][k] = pageTables[t][k]
        BY <1>2, <2>2
      <3> QED
        BY <3>1 DEF EndFrames
    <2> QED
      BY <2>1, <2>2
  <1>9. EndFrames'
    BY <1>2, <1>4, <1>6, <1>7, <1>8 DEF EndFrames
  <1>10. pageTables'[Main] = pageTables[Main] /\ PagesOf(Main)' = PagesOf(Main)
    BY <1>2 DEF PagesOf
  <1>11. proc = "up" /\ state[new] = "UNBORN" /\ state'[Main] = state[Main]
    <2>1. proc = "up"
      BY RunningFacts DEF my_pthread_create
    <2>2. state' = [state EXCEPT ![new] = "ACTIVE"] /\ state[new] = "UNBORN"
      BY CreateStep
    <2> QED
      BY <1>2, <2>1, <2>2 DEF SchedInv
  <1>12. MainFrames'
    <2>0. pc' = "out" /\ temp' = current /\ i' = 0
      BY <1>2
    <2> SUFFICES ASSUME state[Main] = "ACTIVE", NEW k \in PagesOf(Main)
                 PROVE  /\ current = Main => masterTable'[k] = 1
                        /\ \/ current = Main /\ k >= 0
                           \/ pageTables[Main][k] \notin PagesOf(Main)
      BY <1>10, <1>11, <2>0 DEF MainFrames, InFrame, Leaving
    <2>1. k \in Locations /\ k >= 0
      BY DEF PagesOf, Pages
    <2>2. /\ current = Main => masterTable[k] = 1
          /\ current # Main => pageTables[Main][k] \notin PagesOf(Main)
      BY <1>2, <1>11, MainRuns
    <2> QED
      BY <1>6, <2>1, <2>2
  <1> QED
    BY <1>9, <1>12

\* An allocation goes on without touching the tables.
LEMMA FramesRun ==
  ASSUME EndFrames, MainFrames, pc \in {"run", "tags", "fault"},
         pc' \in {"run", "tags", "fault"}, proc' = proc,
         UNCHANGED <<pageTables, masterTable, prot, current, threadIDS, state>>
  PROVE  EndFrames' /\ MainFrames'
  <1>1. Born' = Born /\ PagesOf(Main)' = PagesOf(Main)
    BY DEF Born, PagesOf
  <1>2. EndFrames'
    BY <1>1 DEF EndFrames
  <1>3. MainFrames'
    <2> SUFFICES ASSUME proc = "up", state[Main] = "ACTIVE", NEW k \in PagesOf(Main)
                 PROVE  /\ current = Main => masterTable[k] = 1 /\ prot[k]
                        /\ current = Main \/ pageTables[Main][k] \notin PagesOf(Main)
      BY <1>1 DEF MainFrames, InFrame, Leaving
    <2> QED
      BY MainRuns
  <1> QED
    BY <1>2, <1>3

\* The running thread is given frame p.
LEMMA TakenFrames ==
  ASSUME SchedInv, Tables, MarksHeld, EndFrames, MainFrames, current \in Born, NEW p \in Pages,
         \A k \in PagesOf(current) : pageTables[current][k] = k,
         TakeFrame(p, pageTables, masterTable), \A f \in Pages : prot[f] => prot'[f],
         p \in PagesOf(current) \/ prot'[p],
         pc \in {"tags", "fault"}, pc' \in {"tags", "fault"},
         UNCHANGED <<proc, current, threadIDS, state>>
  PROVE  EndFrames' /\ MainFrames'
  <1> USE ThreadFacts, PageFacts
  <1>1. /\ \A u \in Threads : \A m \in Pages :
              u # current \/ m # p => pageTables'[u][m] = pageTables[u][m]
        /\ {m \in Pages : pageTables'[current][m] # NONE} = PagesOf(current) \union {p}
        /\ \A u \in Threads \ {current} :
              {m \in Pages : pageTables'[u][m] # NONE} = PagesOf(u)
        /\ \A m \in Pages : pageTables'[current][m] # NONE => pageTables'[current][m] = m
    BY TakenTables
  <1>2. current \in Threads /\ Born' = Born
    BY DEF Born
  <1>3. /\ masterTable'[p] = 1
        /\ \A m \in Locations : masterTable[m] = 1 => masterTable'[m] = 1
    BY DEF TakeFrame, Tables
  <1>4. (p \in PagesOf(current) \/ prot'[p]) /\ \A f \in Pages : prot[f] => prot'[f]
    OBVIOUS
  <1>5. EndFrames'
    <2>1. prot'[0] /\ prot'[Last] /\ masterTable'[0] = 1 /\ masterTable'[Last] = 1
      BY <1>3, <1>4 DEF EndFrames
    <2>2. \A t \in Born : \A k \in Pages :
            pageTables'[t][k] \in EndPages => pageTables'[t][k] = k
      <3> SUFFICES ASSUME NEW t \in Born, NEW k \in Pages, pageTables'[t][k] \in EndPages
                   PROVE  pageTables'[t][k] = k
        OBVIOUS
      <3>1. CASE t = current
        <4>1. pageTables'[t][k] # NONE
          OBVIOUS
        <4> QED
          BY <1>1, <3>1, <4>1
      <3>2. CASE t # current
        <4>1. pageTables'[t][k] = pageTables[t][k]
          BY <1>1, <3>2
        <4> QED
          BY <4>1 DEF EndFrames
      <3> QED
        BY <3>1, <3>2
    <2> QED
      BY <1>2, <2>1, <2>2 DEF EndFrames
  <1>6. CASE current = Main
    <2>1. PagesOf(Main)' = PagesOf(Main) \union {p}
      BY <1>1, <1>6 DEF PagesOf
    <2> SUFFICES ASSUME proc = "up", state[Main] = "ACTIVE", NEW k \in PagesOf(Main) \union {p}
                 PROVE  masterTable'[k] = 1 /\ prot'[k]
      BY <1>5, <1>6, <2>1 DEF MainFrames, InFrame, Leaving
    <2>2. CASE k = p /\ p \notin PagesOf(Main)
      BY <1>3, <1>4, <1>6, <2>2
    <2>3. CASE k \in PagesOf(Main)
      <3>1. masterTable[k] = 1 /\ prot[k] /\ k \in Pages /\ k \in Locations
        BY <1>6, <2>3, MainRuns DEF PagesOf
      <3> QED
        BY <1>3, <1>4, <3>1
    <2> QED
      BY <2>2, <2>3
  <1>7. CASE current # Main
    <2>1. PagesOf(Main)' = PagesOf(Main)
      BY <1>1, <1>7 DEF PagesOf
    <2> SUFFICES ASSUME proc = "up", state[Main] = "ACTIVE", NEW k \in PagesOf(Main)
                 PROVE  pageTables'[Main][k] \notin PagesOf(Main)
      BY <1>5, <1>7, <2>1 DEF MainFrames, InFrame, Leaving
    <2>2. k \in Pages /\ pageTables[Main][k] \notin PagesOf(Main)
      BY <1>7, MainRuns DEF PagesOf
    <2>3. pageTables'[Main][k] = pageTables[Main][k]
      BY <1>1, <1>7, <2>2
    <2> QED
      BY <2>2, <2>3
  <1> QED
    BY <1>6, <1>7

LEMMA FaultOnFreeFrameFrames ==
  ASSUME SchedInv, LoopInv, Grown, EndFrames, MainFrames, FaultOnFreeFrame
  PROVE  EndFrames' /\ MainFrames'
  <1> DEFINE p == Head(want)
  <1>1. /\ pc = "fault" /\ TakeFrame(p, pageTables, masterTable)
        /\ prot' = [prot EXCEPT ![p] = TRUE] /\ pc' = "tags"
        /\ UNCHANGED <<proc, current, threadIDS, state>>
    BY DEF FaultOnFreeFrame, InLoop, sched
  <1>2. Tables /\ MarksHeld
    BY DEF Grown
  <1>3. /\ current = Main /\ Main \in Born /\ p \in Pages
        /\ \A k \in PagesOf(Main) : pageTables[Main][k] = k
    BY <1>1, FaultPageFacts
  <1> HIDE DEF p
  <1>4. prot'[p] /\ \A f \in Pages : prot[f] => prot'[f]
    BY <1>1, <1>2, <1>3 DEF Tables
  <1> QED
    BY <1>1, <1>2, <1>3, <1>4, TakenFrames

LEMMA ClaimPageFrames ==
  ASSUME SchedInv, LoopInv, Grown, EndFrames, MainFrames, ClaimPage
  PROVE  EndFrames' /\ MainFrames'
  <1> USE ThreadFacts
  <1>1. /\ pc = "tags" /\ i <= last /\ TakeFrame(i, pageTables, masterTable)
        /\ prot' = [prot EXCEPT ![i] = @ \/ pageTables[current][i] # i \/ masterTable[i] = 0]
        /\ pc' = "tags"
        /\ UNCHANGED <<proc, current, threadIDS, state>>
    BY DEF ClaimPage, InLoop, sched
  <1>2. Tables /\ MarksHeld /\ Homes
    BY DEF Grown
  <1>3. current \in Born /\ current \in Threads /\ i \in Pages
    <2>1. current \in Born /\ current \in Threads
      BY <1>1, MainIsBorn
    <2>2. i \in Pages
      BY <1>1 DEF LoopInv, Pages
    <2> QED
      BY <2>1, <2>2
  <1>4. \A k \in PagesOf(current) : pageTables[current][k] = k
    BY <1>1, <1>2, <1>3 DEF Homes
  <1>5. /\ \A f \in Pages : prot[f] => prot'[f]
        /\ i \in PagesOf(current) \/ prot'[i]
    <2>1. i \notin PagesOf(current) => pageTables[current][i] # i
      BY <1>3 DEF PagesOf, Pages
    <2> QED
      BY <1>1, <1>2, <1>3, <2>1 DEF Tables
  <1> QED
    BY <1>1, <1>2, <1>3, <1>4, <1>5, TakenFrames

LEMMA ClaimEvictsFrames ==
  ASSUME SchedInv, LoopInv, Grown, OnlyMain, EndFrames, MainFrames, ClaimEvicts
  PROVE  EndFrames' /\ MainFrames'
  <1> USE ThreadFacts, PageFacts
  <1>1. /\ pc = "tags" /\ proc = "up" /\ HasTable(j) /\ MoveFrom(i)
        /\ UNCHANGED <<proc, current, threadIDS, state, pc, i>>
    BY DEF ClaimEvicts, InLoop, sched
  <1>2. Tables
    BY DEF Grown
  <1>3. /\ current = Main /\ i \in Pages /\ j \in Born /\ masterTable[i] = 1
        /\ \A k \in PagesOf(j) : pageTables[j][k] = i => j # Main
    BY ClaimEvictsIsMain
  <1>4. CASE UNCHANGED <<pageTables, masterTable, prot, store>>
    BY <1>1, <1>4, FramesRun
  <1>5. CASE \E k \in PagesOf(j), l \in Locations :
               /\ pageTables[j][k] = i /\ masterTable[l] = 0
               /\ swap_out(i, l) /\ Moved(j, k, l) /\ MarkedToo(l)
    <2>1. PICK k \in PagesOf(j), l \in Locations :
               /\ pageTables[j][k] = i /\ masterTable[l] = 0
               /\ swap_out(i, l) /\ Moved(j, k, l) /\ MarkedToo(l)
      BY <1>5
    <2>2. \A u \in Threads : {m \in Pages : pageTables'[u][m] # NONE} = PagesOf(u)
      <3>1. j \in Threads /\ k \in PagesOf(j) /\ Tables /\ Moved(j, k, l)
        BY <1>2, <1>3, <2>1
      <3> QED
        BY <3>1, TableMoves
    <2>3. \A m \in Locations : masterTable[m] = 1 => masterTable'[m] = 1
      BY <1>2, <2>1 DEF MarkedToo, Tables
    <2>4. Born' = Born /\ PagesOf(Main)' = PagesOf(Main)
      BY <1>1, <2>2 DEF Born, PagesOf
    <2>5. /\ prot'[0] /\ prot'[Last]
          /\ \A u \in Born : \A n \in Pages :
                 pageTables'[u][n] \in EndPages => pageTables'[u][n] = n
          /\ \A f \in Pages : masterTable[f] = 1 /\ prot[f] => prot'[f]
      BY <1>1, <1>2, <1>3, <2>1, FramesMove
    <2>6. EndFrames'
      <3>1. masterTable'[0] = 1 /\ masterTable'[Last] = 1
        BY <1>1, <2>3 DEF EndFrames
      <3> QED
        BY <1>1, <2>4, <2>5, <3>1 DEF EndFrames
    <2>7. MainFrames'
      <3> SUFFICES ASSUME state[Main] = "ACTIVE", NEW m \in PagesOf(Main)
                   PROVE  masterTable'[m] = 1 /\ prot'[m]
        BY <1>1, <1>3, <2>4 DEF MainFrames, InFrame, Leaving
      <3>1. masterTable[m] = 1 /\ prot[m] /\ m \in Pages /\ m \in Locations
        BY <1>1, <1>3, MainRuns DEF PagesOf
      <3> QED
        BY <2>3, <2>5, <3>1
    <2> QED
      BY <2>6, <2>7
  <1> QED
    BY <1>1, <1>3, <1>4, <1>5, MoveFromFacts

LEMMA FaultScanFrames ==
  ASSUME SchedInv, LoopInv, Grown, EndFrames, MainFrames, FaultScan
  PROVE  EndFrames' /\ MainFrames'
  <1> USE ThreadFacts, PageFacts
  <1> DEFINE p == Head(want)
  <1>1. pc = "fault" /\ proc = "up" /\ UNCHANGED <<proc, current, threadIDS, state>>
    BY DEF FaultScan, InLoop, sched
  <1>2. Tables /\ MarksHeld
    BY DEF Grown
  <1>3. /\ current = Main /\ Main \in Born /\ p \in Pages
        /\ \A k \in PagesOf(Main) : pageTables[Main][k] = k
    BY <1>1, FaultPageFacts
  <1>4. /\ j \in Born
        /\ \/ UNCHANGED <<pageTables, masterTable, prot, pc>>
           \/ /\ j # Main /\ pc' \in {"tags", "fault"}
              /\ \E k \in PagesOf(j), l \in Locations : FaultMoves(p, k, l)
    BY FaultScanFacts
  <1> HIDE DEF p
  <1>5. CASE UNCHANGED <<pageTables, masterTable, prot, pc>>
    BY <1>1, <1>5, FramesRun
  <1>6. CASE /\ j # Main /\ pc' \in {"tags", "fault"}
             /\ \E k \in PagesOf(j), l \in Locations : FaultMoves(p, k, l)
    <2>1. PICK k \in PagesOf(j), l \in Locations : FaultMoves(p, k, l)
      BY <1>6
    <2>2. /\ prot'[p] /\ pageTables'[j][k] = l
          /\ \A u \in Threads : \A m \in Pages :
               \/ u = Main /\ m = p
               \/ u = j /\ m = k
               \/ pageTables'[u][m] = pageTables[u][m]
          /\ {m \in Pages : pageTables'[Main][m] # NONE} = PagesOf(Main) \union {p}
          /\ \A m \in Pages : pageTables'[Main][m] # NONE => pageTables'[Main][m] = m
          /\ \A m \in Locations : masterTable[m] = 1 => masterTable'[m] = 1
          /\ masterTable'[p] = 1
      BY <1>2, <1>3, <1>4, <1>6, <2>1, FaultMovesTables
    <2>3. masterTable[0] = 1 /\ masterTable[Last] = 1 /\ prot[0] /\ prot[Last]
      BY <1>1 DEF EndFrames
    <2>4. masterTable[l] = 0 /\ l \notin EndPages
      BY <2>1, <2>3 DEF FaultMoves, EndPages
    <2>5. \A f \in Pages : masterTable[f] = 1 /\ prot[f] => prot'[f]
      BY <2>1 DEF FaultMoves, swap_out
    <2>6. Born' = Born /\ PagesOf(Main)' = PagesOf(Main) \union {p}
      BY <1>1, <2>2 DEF Born, PagesOf
    <2>7. \A t \in Born : \A n \in Pages :
            pageTables'[t][n] \in EndPages => pageTables'[t][n] = n
      <3> SUFFICES ASSUME NEW t \in Born, NEW n \in Pages, pageTables'[t][n] \in EndPages
                   PROVE  pageTables'[t][n] = n
        OBVIOUS
      <3>1. CASE t = Main
        <4>1. pageTables'[t][n] # NONE
          OBVIOUS
        <4> QED
          BY <2>2, <3>1, <4>1
      <3>2. CASE t = j /\ n = k
        BY <2>2, <2>4, <3>2
      <3>3. CASE t # Main /\ ~(t = j /\ n = k)
        <4>1. pageTables'[t][n] = pageTables[t][n]
          BY <2>2, <3>3
        <4> QED
          BY <4>1 DEF EndFrames
      <3> QED
        BY <3>1, <3>2, <3>3
    <2>8. EndFrames'
      <3>1. prot'[0] /\ prot'[Last] /\ masterTable'[0] = 1 /\ masterTable'[Last] = 1
        BY <2>2, <2>3, <2>5
      <3> QED
        BY <1>6, <2>6, <2>7, <3>1 DEF EndFrames
    <2>9. MainFrames'
      <3> SUFFICES ASSUME state[Main] = "ACTIVE", NEW m \in PagesOf(Main) \union {p}
                   PROVE  masterTable'[m] = 1 /\ prot'[m]
        BY <1>1, <1>3, <1>6, <2>6 DEF MainFrames, InFrame, Leaving
      <3>1. CASE m = p
        BY <2>2, <3>1
      <3>2. CASE m \in PagesOf(Main)
        <4>1. masterTable[m] = 1 /\ prot[m] /\ m \in Pages /\ m \in Locations
          BY <1>1, <1>3, <3>2, MainRuns DEF PagesOf
        <4> QED
          BY <2>2, <2>5, <4>1
      <3> QED
        BY <3>1, <3>2
    <2> QED
      BY <2>8, <2>9
  <1> QED
    BY <1>4, <1>5, <1>6

LEMMA FramesStep ==
  ASSUME SchedInv, LoopInv, Grown, OnlyMain, EndFrames, MainFrames, Evicting, NoneFreed', LibStep
  PROVE  EndFrames' /\ MainFrames'
  <1>1. CASE Calls
    <2>1. ASSUME NEW u \in Threads, JoinCall(u) PROVE EndFrames' /\ MainFrames'
      BY <2>1, FramesStay DEF JoinCall, paging, locals
    <2> QED
      BY <1>1, <2>1, NoJoinReturns, CreateFrames, YieldFrames, ExitFrames DEF Calls
  <1>2. CASE Switch
    BY <1>2, SwapOutPageFrames, SwapOutLastFrames, EvictFrames, SwapInPageFrames,
       EvictLastFrames, SwapInLastFrames DEF Switch
  <1>3. CASE Allocation
    <2>1. ASSUME FaultGivesUp PROVE EndFrames' /\ MainFrames'
      BY <2>1, FramesStay DEF FaultGivesUp, sched, paging, locals
    <2>2. ASSUME WriteTag \/ Fault \/ myallocateReturns PROVE EndFrames' /\ MainFrames'
      <3>1. /\ pc \in {"tags", "fault"} /\ pc' \in {"run", "tags", "fault"} /\ proc' = proc
            /\ UNCHANGED <<pageTables, masterTable, prot, current, threadIDS, state>>
        BY <2>2 DEF WriteTag, Fault, myallocateReturns, InLoop, sched, paging
      <3> QED
        BY <3>1, FramesRun
    <2> QED
      BY <1>3, <2>1, <2>2, FaultOnFreeFrameFrames, FaultScanFrames, ClaimEvictsFrames,
         ClaimPageFrames DEF Allocation
  <1>4. CASE ProcessEnds
    BY <1>4, FramesStay DEF ProcessEnds, sched, paging, locals
  <1>5. CASE \E f, r \in 0..(MEMORYPAGES - 3) : myallocate(f, r)
    <2>1. /\ pc = "run" /\ pc' = "tags" /\ proc' = proc
          /\ UNCHANGED <<pageTables, masterTable, prot, current, threadIDS, state>>
      BY <1>5 DEF myallocate, Running, sched, paging
    <2> QED
      BY <2>1, FramesRun
  <1> QED
    BY <1>1, <1>2, <1>3, <1>4, <1>5 DEF LibStep

\* The thread whose pages come in one after another is main.
LEMMA NextPageIsMains ==
  ASSUME SchedInv, LoopInv, Grown, MainFrames, proc = "up", pc = "in",
         i \in PagesOf(current), i + 1 \in PagesOf(current)
  PROVE  /\ current = Main /\ state[Main] = "ACTIVE"
         /\ i \in Nat /\ i + 1 < Last
         /\ \A m \in 0..(i - 1) : masterTable[m] = 1
         /\ pageTables[Main][i] \notin PagesOf(Main)
  <1> USE ThreadFacts, PageFacts
  <1>1. Rows /\ Homes /\ Filled
    BY DEF Grown
  <1>2. /\ current \in Threads /\ current \in Born /\ state[current] = "ACTIVE"
        /\ i \in 0..(Last - 1) /\ i \in Nat
    BY <1>1, MainIsBorn DEF Homes, SchedInv
  <1>3. i + 1 < Last
    <2>1. i + 1 # Last
      BY <1>1, <1>2 DEF Rows
    <2> QED
      BY <1>2, <2>1
  <1>4. current = Main
    BY <1>1, <1>2, <1>3 DEF Rows, EndPages
  <1>5. 0..(i - 1) \subseteq PagesOf(Main)
    BY <1>1, <1>2, <1>3, <1>4 DEF Filled, Busy
  <1>6. \A m \in 0..(i - 1) : masterTable[m] = 1
    BY <1>1, <1>2, <1>4, <1>5, MainComesIn
  <1>7. pageTables[Main][i] \notin PagesOf(Main)
    <2>1. ~(i < i) /\ i \in PagesOf(Main)
      BY <1>2, <1>4
    <2> QED
      BY <1>1, <1>2, <1>4, <2>1, MainComesIn
  <1> QED
    BY <1>2, <1>3, <1>4, <1>6, <1>7

LEMMA EvictEvicting ==
  ASSUME SchedInv, LoopInv, Grown, MainFrames, Evicting, Evict
  PROVE  Evicting'
  <1> USE ThreadFacts, PageFacts
  <1> DEFINE l  == nextFreePage(masterTable)
             ks == {k \in Pages : pageTables[j][k] = i}
  <1>1. /\ pc = "in" /\ temp = NULL /\ proc = "up" /\ HasTable(j)
        /\ pageTables[current][i] # NONE
        /\ MoveFrom(i) /\ j' = j + 1 /\ SchedKept /\ UNCHANGED <<pc, i, temp>>
    BY DEF Evict, InLoop, SchedKept, sched
  <1>2. Tables /\ Homes
    BY DEF Grown
  <1>3. i \in Pages /\ i \in Nat /\ i \in PagesOf(current) /\ current \in Threads
    <2>1. i \in 0..(Last - 1) /\ current \in Threads
      BY <1>1, <1>2, MainIsBorn DEF Homes
    <2>2. i \in Pages
      BY <2>1 DEF Pages, Last
    <2> QED
      BY <1>1, <2>1, <2>2 DEF PagesOf
  <1>4. masterTable[i] = 1 /\ j \in Born /\ j \in Threads /\ j \in Nat
    BY <1>1, <1>3 DEF Evicting, HasTable, Born, Threads
  <1>5. /\ \A m \in Locations : masterTable[m] = 1 => masterTable'[m] = 1
        /\ masterTable' \in [Locations -> {0, 1}]
        /\ \A u \in Threads : {m \in Pages : pageTables'[u][m] # NONE} = PagesOf(u)
    <2>1. CASE UNCHANGED <<pageTables, masterTable, prot, store>>
      BY <1>2, <2>1 DEF Tables, PagesOf
    <2>2. CASE \E k \in PagesOf(j), n \in Locations : Moved(j, k, n) /\ MarkedToo(n)
      <3>1. PICK k \in PagesOf(j), n \in Locations : Moved(j, k, n) /\ MarkedToo(n)
        BY <2>2
      <3>2. \A u \in Threads : {m \in Pages : pageTables'[u][m] # NONE} = PagesOf(u)
        BY <1>2, <1>4, <3>1, TableMoves
      <3> QED
        BY <1>2, <3>1, <3>2 DEF Tables, MarkedToo
    <2> QED
      BY <1>1, <1>3, <1>4, <2>1, <2>2, MoveFromFacts
  <1>6. PagesOf(current)' = PagesOf(current) /\ Born' = Born
    BY <1>1, <1>3, <1>5 DEF PagesOf, SchedKept, Born
  <1>7. ASSUME i + 1 \in PagesOf(current), masterTable'[i + 1] # 1
        PROVE  \E t \in Born : t >= j + 1 /\ \E k \in Pages : pageTables'[t][k] = i
    <2>1. /\ i + 1 \in Locations /\ masterTable[i + 1] = 0
      BY <1>2, <1>5, <1>7 DEF PagesOf, Tables
    <2>2. \A m \in 0..i : masterTable[m] = 1
      <3>1. \A m \in 0..(i - 1) : masterTable[m] = 1
        BY <1>1, <1>3, <1>7, NextPageIsMains
      <3> QED
        BY <1>3, <1>4, <3>1
    <2>3. l \in Locations /\ masterTable[l] = 0 /\ l <= i + 1
      BY <2>1, FreePlace
    <2>4. l = i + 1
      <3>1. l \in Nat
        BY <2>3 DEF Locations
      <3> HIDE DEF l
      <3> QED
        BY <1>3, <2>2, <2>3, <3>1
    <2>5. ks = {}
      <3>1. ks # {} => masterTable' = [masterTable EXCEPT ![l] = 1]
        BY <1>1 DEF MoveFrom
      <3> HIDE DEF l, ks
      <3> QED
        BY <1>2, <1>7, <2>1, <2>4, <3>1 DEF Tables
    <2>6. pageTables' = pageTables
      BY <1>1, <2>5 DEF MoveFrom
    <2>7. PICK t \in Born : t >= j /\ \E k \in Pages : pageTables[t][k] = i
      BY <1>1, <1>3, <1>7, <2>1 DEF Evicting
    <2>8. t # j
      BY <2>5, <2>7
    <2>9. t >= j + 1
      <3>1. t \in Nat
        BY DEF Born, Threads
      <3> QED
        BY <1>4, <2>7, <2>8, <3>1
    <2> QED
      BY <2>6, <2>7, <2>9
  <1>8. masterTable'[i] = 1
    BY <1>3, <1>4, <1>5
  <1> QED
    BY <1>1, <1>6, <1>7, <1>8 DEF Evicting

LEMMA SwapInPageEvicting ==
  ASSUME SchedInv, LoopInv, Grown, MainFrames, Evicting, SwapInPage
  PROVE  Evicting'
  <1> USE ThreadFacts, PageFacts
  <1>1. /\ pc = "in" /\ proc = "up" /\ pageTables[current][i] # NONE
        /\ (pageTables[current][i] = i /\ j = 0) \/ temp # NULL \/ ~HasTable(j)
        /\ Moved(current, i, i) /\ i' = i + 1 /\ j' = 0
        /\ masterTable' = [masterTable EXCEPT ![pageTables[current][i]] = 0, ![i] = 1]
        /\ SchedKept /\ temp' = temp
    BY DEF SwapInPage, InLoop, Moved, SchedKept, sched, Arrived, NextPage
  <1>2. Tables /\ Homes /\ MarksHeld
    BY DEF Grown
  <1>3. i \in PagesOf(current) /\ current \in Threads /\ i \in Locations
    <2>1. i \in 0..(Last - 1) /\ current \in Threads
      BY <1>1, <1>2, MainIsBorn DEF Homes
    <2>2. i \in Pages
      BY <2>1 DEF Pages, Last
    <2> QED
      BY <1>1, <2>1, <2>2 DEF PagesOf
  <1>4. /\ i \in Pages
        /\ \A u \in Threads : \A m \in Pages :
              u # current \/ m # i => pageTables'[u][m] = pageTables[u][m]
        /\ \A u \in Threads : {m \in Pages : pageTables'[u][m] # NONE} = PagesOf(u)
    <2>1. /\ Tables /\ current \in Threads /\ i \in PagesOf(current) /\ i \in Locations
          /\ Moved(current, i, i)
      BY <1>1, <1>2, <1>3
    <2>2. /\ pageTables' \in [Threads -> [Pages -> Locations \union {NONE}]]
          /\ pageTables'[current][i] = i /\ i \in Pages
          /\ \A u \in Threads : \A m \in Pages :
               u # current \/ m # i => pageTables'[u][m] = pageTables[u][m]
          /\ \A u \in Threads : {m \in Pages : pageTables'[u][m] # NONE} = PagesOf(u)
      BY <2>1, TableMoves
    <2> QED
      BY <2>2
  <1>5. PagesOf(current)' = PagesOf(current) /\ Born' = Born
    BY <1>1, <1>3, <1>4 DEF PagesOf, SchedKept, Born
  <1>6. ASSUME temp = NULL, i + 1 \in PagesOf(current)
        PROVE  /\ masterTable'[i + 1] = 1
               /\ \E t \in Born : t >= 0 /\ \E k \in Pages : pageTables'[t][k] = i + 1
    <2>1. /\ current = Main /\ i \in Nat /\ i + 1 < Last
          /\ pageTables[current][i] \notin PagesOf(current)
      BY <1>1, <1>3, <1>6, NextPageIsMains
    <2>2. /\ pageTables[current][i] # i /\ pageTables[current][i] # i + 1
          /\ i + 1 \in Locations /\ i \in Locations /\ pageTables[current][i] \in Locations
      BY <1>2, <1>3, <1>6, <2>1 DEF PagesOf, Tables
    <2>3. ASSUME NEW t \in Born, t >= j PROVE FALSE
      <3>1. j \in Nat /\ t \in Nat /\ t < threadIDS /\ threadIDS \in Nat /\ t \in Threads
        BY <1>2 DEF Homes, Born, SchedInv
      <3>2. j < threadIDS /\ j \in Threads
        BY <2>3, <3>1 DEF Threads
      <3> QED
        BY <1>1, <1>6, <2>2, <3>2 DEF HasTable
    <2>4. masterTable[i + 1] = 1
      BY <1>1, <1>3, <1>6, <2>3 DEF Evicting
    <2>5. masterTable'[i + 1] = 1
      BY <1>1, <1>2, <2>1, <2>2, <2>4 DEF Tables
    <2>6. HeldBy(i + 1)
      <3>1. ~InTransit(i + 1)
        BY <1>1, <2>1 DEF InTransit
      <3> QED
        BY <1>2, <2>2, <2>4, <3>1 DEF MarksHeld
    <2>7. PICK t \in Born, k \in Pages : pageTables[t][k] = i + 1
      BY <2>6 DEF HeldBy
    <2>8. pageTables'[t][k] = i + 1
      BY <1>4, <2>2, <2>7
    <2>9. t >= 0
      BY DEF Born, Threads
    <2> QED
      BY <2>5, <2>7, <2>8, <2>9
  <1> QED
    BY <1>1, <1>5, <1>6 DEF Evicting

LEMMA EvictLastEvicting ==
  ASSUME SchedInv, LoopInv, Grown, EvictLast
  PROVE  Evicting'
  <1> USE ThreadFacts, PageFacts
  <1>1. /\ pc = "in" /\ pageTables[current][i] = NONE /\ HasTable(j)
        /\ SchedKept /\ i' = i
        /\ \/ pageTables' = pageTables
           \/ \E n : pageTables' = [pageTables EXCEPT ![j][Last] = n]
    BY DEF EvictLast, InLoop, SchedKept, sched
  <1>2. Tables /\ i \in 0..(Last - 1) /\ current \in Threads /\ j \in Threads
    BY <1>1, MainIsBorn DEF Grown, Homes, HasTable
  <1>3. i # Last /\ i \in Pages
    BY <1>2 DEF Pages, Last
  <1>4. pageTables'[current][i] = NONE
    BY <1>1, <1>2, <1>3 DEF Tables
  <1> QED
    BY <1>1, <1>4 DEF Evicting, PagesOf, SchedKept

LEMMA ExitEvicting ==
  ASSUME SchedInv, LoopInv, Grown, EndFrames, my_pthread_exit
  PROVE  Evicting'
  <1> USE ThreadFacts, PageFacts
  <1>1. pc = "run" /\ (NoSwitch(NULL) \/ SwitchStarts(NULL))
    BY RunningFacts, ExitStep DEF my_pthread_exit
  <1>2. UNCHANGED <<pageTables, masterTable, threadIDS>>
    BY DEF my_pthread_exit, paging
  <1>3. CASE NoSwitch(NULL)
    BY <1>1, <1>3 DEF NoSwitch, Evicting
  <1>4. CASE SwitchStarts(NULL)
    <2>1. i' = 0 /\ j' = 0
      BY <1>4 DEF SwitchStarts
    <2>2. masterTable[0] = 1 /\ 0 \in Locations
      BY <1>1 DEF EndFrames
    <2>3. HeldBy(0)
      BY <1>1, <2>2 DEF Grown, MarksHeld, InTransit
    <2>4. PICK t \in Born : \E k \in Pages : pageTables[t][k] = 0
      BY <2>3 DEF HeldBy
    <2>5. t >= 0 /\ Born' = Born
      BY <1>2 DEF Born, Threads
    <2>6. \E u \in Born' : u >= j' /\ \E k \in Pages : pageTables'[u][k] = i'
      BY <1>2, <2>1, <2>4, <2>5
    <2>7. masterTable'[i'] = 1
      BY <1>2, <2>1, <2>2
    <2> QED
      BY <2>6, <2>7 DEF Evicting
  <1> QED
    BY <1>1, <1>3, <1>4

LEMMA EvictingStep ==
  ASSUME SchedInv, LoopInv, Grown, EndFrames, MainFrames, Evicting, NoneFreed', LibStep
  PROVE  Evicting'
  <1> USE ThreadFacts
  <1>1. CASE pc' # "in"
    BY <1>1 DEF Evicting
  <1>2. CASE Calls
    <2>1. ASSUME my_pthread_create \/ VoluntaryYield \/ JoinSpin PROVE pc' # "in"
      <3>1. pc = "run" /\ current # NULL
        BY <2>1, RunningFacts DEF my_pthread_create, VoluntaryYield, JoinSpin, Running
      <3>2. NoSwitch(current) \/ SwitchStarts(current)
        BY <2>1, <3>1, YieldStep, CreateStep DEF VoluntaryYield, JoinSpin, Running
      <3> QED
        BY <3>1, <3>2 DEF NoSwitch, SwitchStarts
    <2>2. ASSUME NEW u \in Threads, JoinCall(u) PROVE pc' # "in"
      BY <2>2 DEF JoinCall, Running
    <2> QED
      BY <1>1, <1>2, <2>1, <2>2, ExitEvicting, NoJoinReturns DEF Calls
  <1>3. CASE Switch
    <2>1. ASSUME SwapOutPage PROVE pc' # "in"
      BY <2>1 DEF SwapOutPage, InLoop
    <2>2. ASSUME SwapOutLast PROVE Evicting'
      <3>1. pc = "out" /\ temp' = temp
        BY <2>2 DEF SwapOutLast, InLoop
      <3>2. temp' # NULL
        BY <3>1 DEF LoopInv
      <3> QED
        BY <3>2 DEF Evicting
    <2>3. ASSUME SwapInLast PROVE pc' # "in"
      BY <2>3 DEF SwapInLast
    <2> QED
      BY <1>1, <1>3, <2>1, <2>2, <2>3, EvictEvicting, SwapInPageEvicting,
         EvictLastEvicting DEF Switch
  <1>4. CASE Allocation
    BY <1>1, <1>4, AllocationStepFacts
  <1>5. CASE ProcessEnds
    BY <1>5 DEF ProcessEnds, Evicting, sched, paging, locals, Born, PagesOf
  <1>6. CASE \E f, r \in 0..(MEMORYPAGES - 3) : myallocate(f, r)
    BY <1>1, <1>6 DEF myallocate
  <1> QED
    BY <1>2, <1>3, <1>4, <1>5, <1>6 DEF LibStep

\* What is freed stays freed.
LEMMA FreedStays ==
  ASSUME SchedInv, LoopInv, NoneFreed', LibStep
  PROVE  NoneFreed
  <1> USE ThreadFacts
  <1>1. state \in [Threads -> States]
    BY DEF SchedInv
  <1>2. CASE state' = state
    BY <1>2 DEF NoneFreed
  <1>3. CASE my_pthread_create
    BY <1>3, CreateStep
  <1>4. CASE my_pthread_exit
    <2>1. current \in Threads /\ state[current] = "ACTIVE"
      BY <1>4, RunningFacts DEF my_pthread_exit
    <2>2. state' = state \/ state' = [state EXCEPT ![current] = "COMPLETED"]
      BY <1>4, ExitStep
    <2> QED
      BY <1>1, <2>1, <2>2 DEF NoneFreed
  <1>5. CASE JoinReturn
    <2>1. target[current] \in Threads
      BY <1>5, RunningFacts DEF SchedInv, JoinReturn
    <2>2. state'[target[current]] = "FREED"
      BY <1>1, <1>5, <2>1 DEF JoinReturn
    <2> QED
      BY <2>1, <2>2 DEF NoneFreed
  <1>6. CASE VoluntaryYield \/ JoinSpin
    <2>1. proc = "up" /\ pc = "run" /\ current # NULL /\ Yield
      BY <1>6 DEF VoluntaryYield, JoinSpin, Running
    <2> QED
      BY <1>2, <2>1, YieldStep
  <1>7. CASE \E u \in Threads : JoinCall(u)
    BY <1>2, <1>7 DEF JoinCall
  <1>8. CASE Switch \/ Allocation \/ ProcessEnds
               \/ \E f, r \in 0..(MEMORYPAGES - 3) : myallocate(f, r)
    BY <1>2, <1>8, LoopStepsKeepSched DEF SchedKept
  <1> QED
    BY <1>3, <1>4, <1>5, <1>6, <1>7, <1>8 DEF LibStep, Calls

LEMMA MainInit ==
  ASSUME Init
  PROVE  MainInv
  <1> USE ThreadFacts, PageFacts
  <1>1. /\ current = Main /\ threadIDS = 1 /\ proc = "up" /\ pc = "run"
        /\ i = 0 /\ j = 0 /\ temp = NULL /\ want = <<>> /\ last = 0 /\ ~Busy
    BY DEF Init, Busy
  <1>2. Born = {Main} /\ Main = 0
    BY <1>1 DEF Born, Main, Threads
  <1>3. written[Main] = EndPages
    BY DEF Init, EndPages
  <1>4. /\ pageTables \in [Threads -> [Pages -> Locations \union {NONE}]]
        /\ PagesOf(Main) = EndPages
        /\ \A k \in EndPages : pageTables[Main][k] = k
    BY DEF Init, PagesOf, NoPages, EndPages
  <1>5. /\ masterTable \in [Locations -> {0, 1}]
        /\ \A l \in Locations : masterTable[l] = 1 <=> l \in EndPages
    BY DEF Init, EndPages
  <1>6. prot \in [Pages -> BOOLEAN] /\ \A k \in EndPages : prot[k]
    <2>1. prot = [k \in Pages |-> k \in EndPages]
      BY DEF Init, EndPages
    <2>2. \A k \in Pages : (k \in EndPages) \in BOOLEAN
      OBVIOUS
    <2> QED
      BY <2>1, <2>2, Zenon
  <1>7. Tables
    BY <1>4, <1>5, <1>6 DEF Tables
  <1>8. Rows
    <2>1. Last - 1 \notin EndPages
      BY DEF EndPages
    <2> QED
      BY <1>2, <1>4, <2>1 DEF Rows
  <1>9. Filled
    <2>1. \A k \in written[Main] \ {Last} : 0..(k - 1) = {}
      BY <1>3 DEF EndPages
    <2> QED
      BY <1>3, <1>4, <2>1 DEF Filled
  <1>10. Growing /\ Quiet /\ Scanned
    BY <1>1 DEF Growing, Quiet, Scanned
  <1>11. Homes
    BY <1>1, <1>4 DEF Homes
  <1>12. MarksHeld
    BY <1>2, <1>4, <1>5 DEF MarksHeld, HeldBy
  <1>13. EndFrames
    <2>1. 0 \in EndPages /\ Last \in EndPages /\ 0 \in Locations /\ Last \in Locations
      BY DEF EndPages
    <2>2. \A k \in Pages : pageTables[Main][k] \in EndPages => pageTables[Main][k] = k
      BY <1>4 DEF PagesOf
    <2> QED
      BY <1>1, <1>2, <1>5, <1>6, <2>1, <2>2 DEF EndFrames
  <1>14. MainFrames
    <2>1. \A k \in PagesOf(Main) : masterTable[k] = 1 /\ prot[k]
      BY <1>4, <1>5, <1>6
    <2> QED
      BY <1>1, <2>1 DEF MainFrames, InFrame
  <1>15. Evicting
    BY <1>1 DEF Evicting
  <1> QED
    BY <1>7, <1>8, <1>9, <1>10, <1>11, <1>12, <1>13, <1>14, <1>15 DEF MainInv, Grown

LEMMA MainStep ==
  ASSUME SchedInv, LoopInv, MainInv, LibStep
  PROVE  MainInv'
  <1> SUFFICES ASSUME OnlyMain', NoneFreed'
               PROVE  Grown' /\ EndFrames' /\ MainFrames' /\ Evicting'
    BY DEF MainInv
  <1>1. OnlyMain
    <2> DEFINE S == Threads \ {Main}
    <2>1. OnFirstPages(S)' /\ S \subseteq Threads
      BY DEF OnlyMain
    <2> HIDE DEF S
    <2>2. OnFirstPages(S)
      BY <2>1, GrowthStays
    <2> QED
      BY <2>2 DEF OnlyMain, S
  <1>2. Grown /\ EndFrames /\ MainFrames /\ Evicting
    BY <1>1, FreedStays DEF MainInv
  <1>3. Grown'
    BY <1>1, <1>2, GrownStep
  <1>4. EndFrames' /\ MainFrames'
    BY <1>1, <1>2, FramesStep
  <1>5. Evicting'
    BY <1>2, EvictingStep
  <1> QED
    BY <1>3, <1>4, <1>5

LEMMA MainStutters ==
  ASSUME UNCHANGED vars, MainInv
  PROVE  MainInv'
  <1>1. /\ UNCHANGED <<current, threadIDS, state, proc, pc, locals, paging>>
        /\ UNCHANGED <<pageTables, masterTable, prot, written>>
        /\ UNCHANGED <<i, j, temp, want, last>>
    BY DEF vars, sched, paging, locals
  <1>2. Grown' = Grown
    BY <1>1, GrownStutters
  <1>3. OnlyMain' = OnlyMain /\ NoneFreed' = NoneFreed
    BY <1>1 DEF OnlyMain, OnFirstPages, NoneFreed
  <1>4. EndFrames /\ MainFrames => EndFrames' /\ MainFrames'
    BY <1>1, FramesStay
  <1>5. Evicting' = Evicting
    BY <1>1 DEF Evicting, Born, PagesOf
  <1> QED
    BY <1>2, <1>3, <1>4, <1>5 DEF MainInv

\* The properties that follow.
LEMMA OwnerComesUp ==
  ASSUME SchedInv, LoopInv, MainInv
  PROVE  OwnerIsFound
  <1> USE ThreadFacts, PageFacts
  <1> SUFFICES ASSUME OnlyMain, NoneFreed, pc = "fault", j > 0, ~HasTable(j)
               PROVE  pageTables[current][Head(want)] = Head(want)
    BY DEF OwnerIsFound, OnlyMain, NoneFreed, InLoop
  <1>1. Grown /\ Scanned /\ Homes
    BY DEF MainInv, Grown
  <1>2. /\ current = Main
        /\ \A k \in PagesOf(Main) : pageTables[Main][k] = k
    BY <1>1, FaultPageFacts
  <1>3. ASSUME NEW t \in Born, t >= j PROVE FALSE
    <2>1. j \in Nat /\ t \in Nat /\ t \in Threads /\ t < threadIDS /\ threadIDS \in Nat
      BY <1>1 DEF Homes, Born, SchedInv
    <2>2. j < threadIDS /\ j \in Threads
      BY <1>3, <2>1 DEF Threads
    <2> QED
      BY <2>2 DEF HasTable
  <1>4. Head(want) \in PagesOf(Main)
    BY <1>1, <1>3 DEF Scanned
  <1> QED
    BY <1>2, <1>4

LEMMA PagesAreHome ==
  ASSUME PagingInv, MainInv
  PROVE  RunsOnItsPages
  <1> USE ThreadFacts, PageFacts
  <1>1. SchedInv /\ LoopInv
    BY DEF PagingInv
  <1> SUFFICES ASSUME Running("user"), OnlyMain, FirstPagesOnly \/ NoneFreed,
                      NEW k \in PagesOf(current)
               PROVE  pageTables[current][k] = k /\ prot[k]
    BY DEF RunsOnItsPages, OnlyMain, NoneFreed, PagesOf
  <1>2. /\ proc = "up" /\ pc = "run" /\ current \in Threads /\ current \in Born
        /\ current \in Live /\ state[current] = "ACTIVE"
    BY <1>1, RunningFacts, LiveOrFreed
  <1>3. NoneFreed => Homes /\ Rows /\ EndFrames /\ MainFrames
    BY DEF MainInv, Grown
  <1>4. NoneFreed => pageTables[current][k] = k
    BY <1>2, <1>3 DEF Homes
  <1>5. CASE NoneFreed /\ current = Main
    BY <1>2, <1>3, <1>4, <1>5, MainRuns
  <1>6. CASE NoneFreed /\ current # Main
    <2>1. k \in EndPages
      BY <1>2, <1>3, <1>6 DEF Rows
    <2> QED
      BY <1>3, <1>4, <1>6, <2>1 DEF EndFrames, EndPages
  <1>7. CASE FirstPagesOnly
    <2>1. Place
      BY <1>7 DEF PagingInv, Clean
    <2> QED
      BY <1>2, <2>1 DEF Place
  <1> QED
    BY <1>5, <1>6, <1>7

\* The invariant holds of every program of CounterProgram.
THEOREM ProgramMainInv == ProgramSpec => []MainInv
  <1>1. ProgramInit => MainInv
    BY MainInit DEF ProgramInit
  <1>2. PagingInv /\ MainInv /\ [ProgramNext]_programVars => MainInv'
    <2> SUFFICES ASSUME PagingInv, MainInv, [ProgramNext]_programVars PROVE MainInv'
      OBVIOUS
    <2>1. CASE ProgramNext
      BY <2>1, ProgramIsLibStep, MainStep, MainStutters DEF PagingInv
    <2>2. CASE UNCHANGED programVars
      BY <2>2, MainStutters DEF programVars
    <2> QED
      BY <2>1, <2>2
  <1> QED
    BY <1>1, <1>2, ProgramPagingInv, PTL DEF ProgramSpec

\* For any number of threads, frames and slots: when only main allocates past its
\* first page, seg_handler does not give up on a frame whose owner it has not
\* found, whatever was created, switched, exited or moved before, until the first
\* join returns.
THEOREM OwnerIsFoundHolds == ProgramSpec => []OwnerIsFound
  <1>1. PagingInv /\ MainInv => OwnerIsFound
    BY OwnerComesUp DEF PagingInv
  <1> QED
    BY <1>1, ProgramPagingInv, ProgramMainInv, PTL

\* The thread that runs has its pages in their own frames, accessible: as long as
\* every thread keeps to its first page, and also when main does not, until the
\* first join returns.
THEOREM RunsOnItsPagesHolds == ProgramSpec => []RunsOnItsPages
  <1>1. PagingInv /\ MainInv => RunsOnItsPages
    BY PagesAreHome
  <1> QED
    BY <1>1, ProgramPagingInv, ProgramMainInv, PTL

=============================================================================
