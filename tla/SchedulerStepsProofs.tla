----------------------- MODULE SchedulerStepsProofs -----------------------
(***************************************************************************)
(* The split library implements the atomic one, for any number of threads  *)
(* and any set of values, as long as signals inside the library fall only  *)
(* at SafePoints.  The argument: while a call is under way, the shared     *)
(* state is a function of the state at its entry and of the point reached. *)
(***************************************************************************)
EXTENDS SchedulerSteps, SequenceTheorems, TLAPS

(***************************************************************************)
(* The atomic library's state, one name per variable, and the atomic       *)
(* library with its theorems.                                              *)
(***************************************************************************)
aq1 == View[1]
aq2 == View[2]
acurrent == View[3]
athreadIDS == View[4]
aisInitialized == View[5]
aarmed == View[6]
astate == View[7]
areturn_value == View[8]
actx == View[9]
acpu == View[10]
aat == View[11]
atarget == View[12]
aproc == View[13]
apassed == View[14]
adelivered == View[15]

Lib == INSTANCE SchedulerProofs WITH
  queue_priority_1 <- aq1, queue_priority_2 <- aq2, current <- acurrent,
  threadIDS <- athreadIDS, isInitialized <- aisInitialized, armed <- aarmed,
  state <- astate, return_value <- areturn_value, ctx <- actx, cpu <- acpu,
  at <- aat, target <- atarget, proc <- aproc, passed <- apassed,
  delivered <- adelivered

\* How the atomic library sees a thread that is at a point of the library.
Settled(place) == CASE place \in SafePoints -> "exited"
                    [] place = "exit_peeked" -> "user"
                    [] OTHER -> place

Places == {"unborn", "user", "join", "exited"}

-----------------------------------------------------------------------------
(***************************************************************************)
(* What my_pthread_exit and my_pthread_create do before they call          *)
(* my_pthread_yield, as functions of the state at their entry.             *)
(***************************************************************************)
ExitTakesFirst == peek(aq1) = acurrent

ExitQ1 == IF ExitTakesFirst THEN dequeue(aq1) ELSE aq1

ExitQ2 == IF ExitTakesFirst THEN aq2 ELSE dequeue(aq2)

ExitTakes == IF ExitTakesFirst THEN acurrent ELSE peek(aq2)

ExitStates == [astate EXCEPT ![ExitTakes] = "COMPLETED"]

ExitValues == IF my.value = NULL THEN areturn_value
              ELSE [areturn_value EXCEPT ![ExitTakes] = my.value]

NewStates == [astate EXCEPT ![athreadIDS] = "ACTIVE"]

NewContexts == [actx EXCEPT ![athreadIDS] = athreadIDS]

NewQ1 == enqueue(athreadIDS, aq1)

CreateQ1 == IF aisInitialized THEN NewQ1 ELSE enqueue(Main, NewQ1)

CreateCurrent == IF aisInitialized THEN acurrent ELSE Main

CreateStates == IF aisInitialized THEN NewStates
                ELSE [NewStates EXCEPT ![Main] = "ACTIVE"]

CreateContexts == IF aisInitialized THEN NewContexts
                  ELSE [NewContexts EXCEPT ![Main] = acpu]

\* Which call a my_pthread_yield belongs to.
Creating == threadIDS # athreadIDS

Exiting == ~Creating /\ my.back = "exited"

\* What my_pthread_yield is called with.
ArgQ1 == IF Creating THEN CreateQ1 ELSE IF Exiting THEN ExitQ1 ELSE aq1

ArgQ2 == IF Exiting THEN ExitQ2 ELSE aq2

ArgCurrent == IF Creating THEN CreateCurrent ELSE IF Exiting THEN NULL ELSE acurrent

ArgStates == IF Creating THEN CreateStates
             ELSE IF Exiting THEN ExitStates ELSE astate

ArgContexts == IF Creating THEN CreateContexts ELSE actx

Front == peekEither(ArgQ1, ArgQ2)

Rest2 == IF ArgQ1 # <<>> THEN ArgQ2 ELSE dequeue(ArgQ2)

Back2 == IF ArgStates[Front] = "ACTIVE" THEN enqueue(Front, Rest2) ELSE Rest2

NextFront == peekEither(dequeue(ArgQ1), Back2)

-----------------------------------------------------------------------------
(***************************************************************************)
(* The shared state at each point of a call.                               *)
(***************************************************************************)
\* my_pthread_exit before it calls my_pthread_yield.
ExitCall ==
  /\ threadIDS = athreadIDS
  /\ isInitialized = aisInitialized
  /\ armed = aarmed
  /\ ctx = actx
  /\ aat[cpu] = "user"
  /\ my.value \in Pointers

ExitPeeked ==
  /\ ExitCall
  /\ queue_priority_1 = aq1 /\ queue_priority_2 = aq2
  /\ current = acurrent /\ state = astate
  /\ return_value = areturn_value /\ passed = apassed
  /\ my.temp = acurrent /\ my.front = peek(aq1) /\ my.next = peek(aq2)

ExitDequeued ==
  /\ ExitCall
  /\ acurrent # NULL
  /\ queue_priority_1 = ExitQ1 /\ queue_priority_2 = ExitQ2
  /\ current = acurrent /\ state = astate
  /\ return_value = areturn_value /\ passed = apassed
  /\ my.node = ExitTakes

\* The caller's descriptor says COMPLETED; its return_value is still the old one.
ExitCompleted ==
  /\ ExitCall
  /\ acurrent # NULL
  /\ queue_priority_1 = ExitQ1 /\ queue_priority_2 = ExitQ2
  /\ current = acurrent /\ state = ExitStates
  /\ return_value = areturn_value
  /\ passed = [apassed EXCEPT ![cpu] = my.value]
  /\ my.node = ExitTakes

\* It says COMPLETED and holds the value.
ExitDone ==
  /\ acurrent # NULL
  /\ return_value = ExitValues
  /\ passed = [apassed EXCEPT ![cpu] = my.value]

ExitStored ==
  /\ ExitCall
  /\ ExitDone
  /\ queue_priority_1 = ExitQ1 /\ queue_priority_2 = ExitQ2
  /\ state = ExitStates

\* my_pthread_create with a descriptor that has an id and nothing else.
CreateNumbered ==
  /\ athreadIDS < MaxThreads
  /\ aat[cpu] = "user"
  /\ cpu # athreadIDS
  /\ \E garbage \in Pointers :
        return_value = [areturn_value EXCEPT ![athreadIDS] = garbage]
  /\ passed = apassed
  /\ isInitialized = aisInitialized /\ armed = aarmed
  /\ queue_priority_1 = aq1 /\ queue_priority_2 = aq2
  /\ current = acurrent /\ state = astate /\ ctx = actx
  /\ my.node = athreadIDS

\* my_pthread_create before it calls my_pthread_yield.
CreateCall ==
  /\ athreadIDS < MaxThreads
  /\ threadIDS = athreadIDS + 1
  /\ aat[cpu] = "user"
  /\ cpu # athreadIDS
  /\ at[athreadIDS] = "user"
  /\ \E garbage \in Pointers :
        return_value = [areturn_value EXCEPT ![athreadIDS] = garbage]
  /\ passed = apassed

CreateMade ==
  /\ CreateCall
  /\ isInitialized = aisInitialized /\ armed = aarmed
  /\ queue_priority_2 = aq2
  /\ current = acurrent /\ state = NewStates /\ ctx = NewContexts

CreateReady ==
  /\ CreateCall
  /\ isInitialized /\ armed = aarmed
  /\ queue_priority_1 = CreateQ1 /\ queue_priority_2 = aq2
  /\ current = CreateCurrent /\ state = CreateStates /\ ctx = CreateContexts

\* my_pthread_yield by itself.
PlainCall ==
  /\ threadIDS = athreadIDS
  /\ isInitialized = aisInitialized
  /\ return_value = areturn_value
  /\ passed = apassed
  /\ aat[cpu] = my.back
  /\ \/ my.back = "user"
     \/ my.back = "join" /\ astate[atarget[cpu]] # "COMPLETED"

\* The call that my_pthread_yield is part of, and what it left to yield.
YieldCall ==
  /\ \/ Creating /\ CreateCall /\ isInitialized /\ my.back = "user"
     \/ Exiting /\ ExitDone /\ threadIDS = athreadIDS
                /\ isInitialized = aisInitialized /\ aat[cpu] = "user"
                /\ my.value \in Pointers
     \/ ~Creating /\ ~Exiting /\ PlainCall
  /\ ctx = ArgContexts

YieldPeeked ==
  /\ YieldCall
  /\ armed = aarmed
  /\ queue_priority_1 = ArgQ1 /\ queue_priority_2 = ArgQ2
  /\ current = ArgCurrent /\ state = ArgStates
  /\ my.front = Front /\ my.from1 = (ArgQ1 # <<>>)

YieldDequeued ==
  /\ YieldCall
  /\ armed = aarmed
  /\ Front # NULL /\ ArgCurrent = Front
  /\ queue_priority_1 = dequeue(ArgQ1)
  /\ current = ArgCurrent /\ state = ArgStates
  /\ my.from1 = (ArgQ1 # <<>>)

\* The queues are as my_pthread_yield leaves them; the next thread is known.
YieldNext ==
  /\ YieldCall
  /\ armed = aarmed
  /\ Front # NULL /\ ArgCurrent = Front
  /\ queue_priority_1 = dequeue(ArgQ1) /\ queue_priority_2 = Back2
  /\ current = ArgCurrent
  /\ NextFront # NULL
  /\ my.next = NextFront
  /\ my.priority = IF dequeue(ArgQ1) # <<>> THEN 1 ELSE 2

\* current and the queues are as my_pthread_yield leaves them.
YieldChosen ==
  /\ YieldCall
  /\ Front # NULL
  /\ my.temp = ArgCurrent
  /\ \/ /\ ArgCurrent # Front
        /\ queue_priority_1 = ArgQ1 /\ queue_priority_2 = ArgQ2
        /\ current = Front /\ state = ArgStates
        /\ my.next = Front /\ my.priority = 0
     \/ /\ ArgCurrent = Front
        /\ queue_priority_1 = dequeue(ArgQ1) /\ queue_priority_2 = Back2
        /\ current = NextFront
        /\ NextFront # NULL
        /\ state = [ArgStates EXCEPT ![NextFront] = "ACTIVE"]
        /\ my.next = NextFront
        /\ my.priority = IF dequeue(ArgQ1) # <<>> THEN 1 ELSE 2

AtPoint ==
  \/ at[cpu] = "exit_peeked" /\ ExitPeeked
  \/ at[cpu] = "exit_dequeued" /\ ExitDequeued
  \/ at[cpu] = "exit_completed" /\ ExitCompleted
  \/ at[cpu] = "exit_stored" /\ ExitStored /\ current = acurrent
  \/ at[cpu] = "exit_noCurrent" /\ ExitStored /\ current = NULL
  \/ at[cpu] = "create_numbered" /\ CreateNumbered /\ threadIDS = athreadIDS
  \/ at[cpu] = "create_counted" /\ CreateNumbered /\ threadIDS = athreadIDS + 1
  \/ at[cpu] = "create_made" /\ CreateMade /\ queue_priority_1 = aq1
                             /\ my.node = athreadIDS
  \/ at[cpu] = "create_enqueued" /\ CreateMade /\ queue_priority_1 = NewQ1
  \/ at[cpu] = "create_ready" /\ CreateReady
  \/ at[cpu] = "yield_peeked" /\ YieldPeeked
  \/ at[cpu] = "yield_dequeued" /\ YieldDequeued /\ queue_priority_2 = Rest2
                                /\ my.node = Front
  \/ at[cpu] = "yield_requeued" /\ YieldDequeued /\ queue_priority_2 = Back2
  \/ at[cpu] = "yield_next" /\ YieldNext /\ state = ArgStates
  \/ at[cpu] = "yield_marked" /\ YieldNext
                              /\ state = [ArgStates EXCEPT ![NextFront] = "ACTIVE"]
  \/ at[cpu] = "yield_chosen" /\ YieldChosen /\ armed = aarmed
  \/ at[cpu] = "yield_timed" /\ YieldChosen
       /\ armed = CASE my.priority = 0 -> FALSE
                    [] my.priority = 1 -> TRUE
                    [] my.priority = 2 -> aarmed

\* Whatever call it is.
InCall ==
  /\ proc = "up"
  /\ at[cpu] \in LibraryPoints
  /\ cpu = acpu /\ target = atarget /\ proc = aproc /\ delivered = adelivered
  /\ \A t \in Threads \ {cpu} :
        ~(Creating /\ t = athreadIDS) => aat[t] = Settled(at[t])
  /\ AtPoint

(***************************************************************************)
(* A thread that lost the processor inside the library is exiting and done *)
(* with its descriptor; the atomic library is at the entry of the call     *)
(* under way, and the shared state is what the call has done so far.       *)
(***************************************************************************)
PointsOK ==
  /\ cpu \in Threads
  /\ at \in [Threads -> Places \union LibraryPoints]
  /\ \A t \in Threads \ {cpu} : at[t] \in Places \union SafePoints
  /\ DOMAIN local = Threads
  /\ \A t \in Threads : DOMAIN local[t] = DOMAIN NoLocals

CallInv ==
  IF entry = <<>> THEN proc = "up" => at[cpu] \notin LibraryPoints ELSE InCall

StepInv == Lib!SchedulerInvariant /\ PointsOK /\ CallInv

-----------------------------------------------------------------------------
(* The view.                                                               *)

\* Between calls the atomic library's state is the shared state.
ViewIsShared ==
  /\ aq1 = queue_priority_1 /\ aq2 = queue_priority_2
  /\ acurrent = current /\ athreadIDS = threadIDS
  /\ aisInitialized = isInitialized /\ aarmed = armed /\ astate = state
  /\ areturn_value = return_value /\ actx = ctx /\ acpu = cpu
  /\ aat = [t \in Threads |-> Settled(at[t])]
  /\ atarget = target /\ aproc = proc /\ apassed = passed
  /\ adelivered = delivered

\* During a call it does not move.
ViewIsKept ==
  /\ aq1' = aq1 /\ aq2' = aq2 /\ acurrent' = acurrent
  /\ athreadIDS' = athreadIDS /\ aisInitialized' = aisInitialized
  /\ aarmed' = aarmed /\ astate' = astate
  /\ areturn_value' = areturn_value /\ actx' = actx /\ acpu' = acpu
  /\ aat' = aat /\ atarget' = atarget /\ aproc' = aproc
  /\ apassed' = apassed /\ adelivered' = adelivered

LEMMA SharedView == entry = <<>> => ViewIsShared
  BY DEF ViewIsShared, View, Committed, Settled, aq1, aq2, acurrent, athreadIDS,
         aisInitialized, aarmed, astate, areturn_value, actx, acpu, aat,
         atarget, aproc, apassed, adelivered

LEMMA SharedViewAfter == entry' = <<>> => ViewIsShared'
  BY DEF ViewIsShared, View, Committed, Settled, aq1, aq2, acurrent, athreadIDS,
         aisInitialized, aarmed, astate, areturn_value, actx, acpu, aat,
         atarget, aproc, apassed, adelivered

LEMMA KeptView ==
  ASSUME \/ entry # <<>> /\ entry' = entry
         \/ entry = <<>> /\ Enter
  PROVE  ViewIsKept /\ UNCHANGED Lib!vars /\ entry' # <<>>
  <1>1. Committed # <<>>
    BY DEF Committed
  <1>2. View' = View /\ entry' # <<>>
    BY <1>1 DEF View, Enter
  <1>3. ViewIsKept
    BY <1>2 DEF ViewIsKept, aq1, aq2, acurrent, athreadIDS,
                aisInitialized, aarmed, astate, areturn_value, actx, acpu, aat,
                atarget, aproc, apassed, adelivered
  <1> QED
    BY <1>2, <1>3 DEF ViewIsKept, Lib!vars

\* What the theorems about Scheduler assume of the constants.
LEMMA LibAssumptions ==
  /\ MaxThreads \in Nat \ {0}
  /\ NULL \notin Values /\ NULL \notin 0..(MaxThreads - 1)
  BY MaxThreadsAssumption, NullAssumption

\* A step of the atomic library keeps its invariant.
LEMMA LibNextPreserves ==
  ASSUME Lib!SchedulerInvariant, [Lib!Next]_(Lib!vars)
  PROVE  Lib!SchedulerInvariant'
  BY LibAssumptions, Lib!NextPreserves DEF Lib!NextPreserves

\* The operators on queues are the same in both instances.
LEMMA LibQueues ==
  /\ \A t, q : Lib!enqueue(t, q) = enqueue(t, q)
  /\ \A q : Lib!dequeue(q) = dequeue(q)
  /\ \A q : Lib!peek(q) = peek(q)
  /\ \A q, r : Lib!peekEither(q, r) = peekEither(q, r)
  /\ Lib!Threads = Threads
  /\ Lib!Pointers = Pointers
  /\ Lib!Main = Main
  BY DEF Lib!enqueue, enqueue, Lib!dequeue, dequeue, Lib!peek, peek,
         Lib!peekEither, peekEither, Lib!Threads, Threads, Lib!Pointers, Pointers,
         Lib!Main, Main

\* What the atomic library's invariant says of the view.
LEMMA LibFacts ==
  ASSUME Lib!SchedulerInvariant
  PROVE  /\ aq1 \in Seq(Threads) /\ aq2 \in Seq(Threads)
         /\ acurrent \in Threads \union {NULL}
         /\ athreadIDS \in 1..MaxThreads
         /\ aisInitialized \in BOOLEAN
         /\ aarmed \in BOOLEAN
         /\ astate \in [Threads -> {"UNBORN", "ACTIVE", "COMPLETED", "FREED"}]
         /\ areturn_value \in [Threads -> Pointers]
         /\ acpu \in Threads
         /\ aat \in [Threads -> Places]
         /\ acurrent = peekEither(aq1, aq2)
         /\ acurrent # NULL => acpu = acurrent
         /\ actx \in [Threads -> Threads]
         /\ \A t \in Threads : actx[t] = t
         /\ \A t \in Threads : aat[t] = "exited" <=> astate[t] \in {"COMPLETED", "FREED"}
         /\ \A t \in Threads : t >= athreadIDS => astate[t] = "UNBORN"
         /\ acpu < athreadIDS
         /\ NULL \notin Threads
  <1>1. Lib!TypeOK
    BY DEF Lib!SchedulerInvariant
  <1>2. /\ aq1 \in Seq(Threads) /\ aq2 \in Seq(Threads)
        /\ acurrent \in Threads \union {NULL}
        /\ athreadIDS \in 1..MaxThreads
        /\ aisInitialized \in BOOLEAN
        /\ aarmed \in BOOLEAN
        /\ astate \in [Threads -> {"UNBORN", "ACTIVE", "COMPLETED", "FREED"}]
        /\ areturn_value \in [Threads -> Pointers]
        /\ acpu \in Threads
        /\ aat \in [Threads -> Places]
    BY <1>1, LibQueues DEF Lib!TypeOK, Places
  <1>3. acurrent = peekEither(aq1, aq2) /\ (acurrent # NULL => acpu = acurrent)
    BY LibQueues DEF Lib!SchedulerInvariant, Lib!RunningIsFront
  <1>4. actx \in [Threads -> Threads] /\ \A t \in Threads : actx[t] = t
    BY LibQueues DEF Lib!SchedulerInvariant, Lib!OwnContexts
  <1>5. \A t \in Threads : aat[t] = "exited" <=> astate[t] \in {"COMPLETED", "FREED"}
    BY LibQueues DEF Lib!SchedulerInvariant, Lib!ExitCompletesCaller
  <1>6. /\ \A t \in Threads : t >= athreadIDS => astate[t] = "UNBORN"
        /\ acpu < athreadIDS
    BY LibQueues DEF Lib!SchedulerInvariant, Lib!Lifecycle
  <1>7. NULL \notin Threads
    BY NullAssumption DEF Threads
  <1> QED
    BY <1>2, <1>3, <1>4, <1>5, <1>6, <1>7

-----------------------------------------------------------------------------
(* Steps inside a call.                                                    *)

\* The executing thread moves on to another point of the same call.
Moves(place) ==
  /\ cpu' = cpu
  /\ at' = [at EXCEPT ![cpu] = place]
  /\ UNCHANGED <<target, proc, delivered, entry>>

LEMMA MoveKeeps ==
  ASSUME StepInv, entry # <<>>, NEW place \in LibraryPoints, Moves(place),
         threadIDS' = threadIDS, AtPoint',
         DOMAIN local' = Threads,
         \A t \in Threads : DOMAIN local'[t] = DOMAIN NoLocals
  PROVE  StepInv'
  <1>1. ViewIsKept /\ UNCHANGED Lib!vars /\ entry' # <<>>
    BY KeptView DEF Moves
  <1>2. Lib!SchedulerInvariant'
    BY <1>1, LibNextPreserves DEF StepInv
  <1>3. cpu \in Threads /\ at \in [Threads -> Places \union LibraryPoints]
    BY DEF StepInv, PointsOK
  <1>4. /\ at'[cpu] = place
        /\ \A t \in Threads \ {cpu} : at'[t] = at[t]
        /\ at' \in [Threads -> Places \union LibraryPoints]
    BY <1>3 DEF Moves
  <1>5. PointsOK'
    BY <1>3, <1>4 DEF PointsOK, StepInv, Moves
  <1>6. InCall'
    <2>1. InCall
      BY DEF StepInv, CallInv
    <2>2. Creating' <=> Creating
      BY <1>1 DEF Creating, ViewIsKept
    <2>3. \A t \in Threads \ {cpu} :
             ~(Creating' /\ t = athreadIDS') => aat'[t] = Settled(at'[t])
      BY <1>1, <1>4, <2>1, <2>2 DEF InCall, ViewIsKept
    <2> QED
      BY <1>1, <1>4, <2>1, <2>3 DEF InCall, ViewIsKept, Moves
  <1> QED
    BY <1>1, <1>2, <1>5, <1>6 DEF StepInv, CallInv

\* What my_pthread_yield was called with is still known after the step.
ArgsAreKept ==
  /\ ArgQ1' = ArgQ1 /\ ArgQ2' = ArgQ2 /\ ArgCurrent' = ArgCurrent
  /\ ArgStates' = ArgStates /\ ArgContexts' = ArgContexts
  /\ Front' = Front /\ Rest2' = Rest2 /\ Back2' = Back2 /\ NextFront' = NextFront

LEMMA ArgsKept ==
  ASSUME ViewIsKept, threadIDS' = threadIDS, (my.back)' = my.back,
         (my.value)' = my.value
  PROVE  ArgsAreKept
  <1>1. /\ ExitQ1' = ExitQ1 /\ ExitQ2' = ExitQ2 /\ ExitStates' = ExitStates
    BY DEF ViewIsKept, ExitQ1, ExitQ2, ExitStates, ExitTakes, ExitTakesFirst
  <1>2. /\ CreateQ1' = CreateQ1 /\ CreateCurrent' = CreateCurrent
        /\ CreateStates' = CreateStates /\ CreateContexts' = CreateContexts
    BY DEF ViewIsKept, CreateQ1, CreateCurrent, CreateStates, CreateContexts,
           NewQ1, NewStates, NewContexts
  <1>3. (Creating' <=> Creating) /\ (Exiting' <=> Exiting)
    BY DEF ViewIsKept, Creating, Exiting
  <1>4. /\ ArgQ1' = ArgQ1 /\ ArgQ2' = ArgQ2 /\ ArgCurrent' = ArgCurrent
        /\ ArgStates' = ArgStates /\ ArgContexts' = ArgContexts
    BY <1>1, <1>2, <1>3 DEF ViewIsKept, ArgQ1, ArgQ2, ArgCurrent, ArgStates,
                            ArgContexts
  <1>5. Front' = Front
    BY <1>4 DEF Front
  <1>6. Rest2' = Rest2
    BY <1>4 DEF Rest2
  <1>7. Back2' = Back2
    BY <1>4, <1>5, <1>6 DEF Back2
  <1>8. NextFront' = NextFront
    BY <1>4, <1>7 DEF NextFront
  <1> QED
    BY <1>4, <1>5, <1>6, <1>7, <1>8 DEF ArgsAreKept

\* And so is the call it belongs to.
LEMMA YieldCallKept ==
  ASSUME StepInv, ViewIsKept, YieldCall, NEW place, Moves(place),
         UNCHANGED <<threadIDS, isInitialized, return_value, passed, ctx>>,
         (my.back)' = my.back, (my.value)' = my.value
  PROVE  YieldCall'
  <1>1. ArgContexts' = ArgContexts
    BY ArgsKept DEF ArgsAreKept
  <1>2. (Creating' <=> Creating) /\ (Exiting' <=> Exiting)
    BY DEF ViewIsKept, Creating, Exiting
  <1>3. CASE Creating /\ CreateCall /\ isInitialized /\ my.back = "user"
    <2>1. at'[athreadIDS] = at[athreadIDS]
      BY <1>3 DEF CreateCall, Moves
    <2>2. CreateCall'
      BY <1>3, <2>1 DEF CreateCall, ViewIsKept, Moves
    <2> QED
      BY <1>1, <1>2, <1>3, <2>2 DEF YieldCall
  <1>4. CASE Exiting /\ ExitDone /\ threadIDS = athreadIDS
                /\ isInitialized = aisInitialized /\ aat[cpu] = "user"
                /\ my.value \in Pointers
    <2>1. ExitDone'
      BY <1>4 DEF ExitDone, ExitValues, ExitTakes, ExitTakesFirst, ViewIsKept, Moves
    <2> QED
      BY <1>1, <1>2, <1>4, <2>1 DEF YieldCall, ViewIsKept, Moves
  <1>5. CASE ~Creating /\ ~Exiting /\ PlainCall
    <2>1. PlainCall'
      BY <1>5 DEF PlainCall, ViewIsKept, Moves
    <2> QED
      BY <1>1, <1>2, <1>5, <2>1 DEF YieldCall
  <1> QED
    BY <1>3, <1>4, <1>5 DEF YieldCall

\* A local variable assigned by the executing thread.
LEMMA LocalsKeepShape ==
  ASSUME StepInv, NEW r, DOMAIN r = DOMAIN NoLocals,
         local' = [local EXCEPT ![cpu] = r], cpu' = cpu
  PROVE  /\ DOMAIN local' = Threads
         /\ \A t \in Threads : DOMAIN local'[t] = DOMAIN NoLocals
         /\ my' = r
  BY DEF StepInv, PointsOK, my

LEMMA MyShape ==
  ASSUME StepInv
  PROVE  DOMAIN my = {"front", "from1", "node", "temp", "next", "priority",
                      "value", "back"}
  <1>1. DOMAIN NoLocals = {"front", "from1", "node", "temp", "next", "priority",
                           "value", "back"}
    BY DEF NoLocals
  <1> QED
    BY <1>1 DEF StepInv, PointsOK, my

LEMMA ChooseFrontKeeps ==
  ASSUME StepInv, ChooseFront
  PROVE  StepInv'
  <1> DEFINE r == [my EXCEPT !.temp = current, !.next = my.front, !.priority = 0]
  <1>1. /\ at[cpu] = "yield_peeked" /\ proc = "up" /\ my.front # NULL
        /\ current # my.front /\ current' = my.front
        /\ local' = [local EXCEPT ![cpu] = r]
        /\ Moves("yield_chosen")
        /\ UNCHANGED <<queues, threadIDS, isInitialized, armed, state, return_value,
                       ctx, passed>>
    BY DEF ChooseFront, Running, Assign, Goto, Moves
  <1>2. entry # <<>> /\ InCall
    BY <1>1 DEF StepInv, CallInv, LibraryPoints, YieldPoints
  <1>3. YieldPeeked
    BY <1>1, <1>2 DEF InCall, AtPoint
  <1>4. /\ DOMAIN r = DOMAIN NoLocals /\ r.temp = current /\ r.next = my.front
        /\ r.priority = 0 /\ r.back = my.back /\ r.value = my.value
    BY MyShape DEF NoLocals
  <1>5. /\ DOMAIN local' = Threads
        /\ \A t \in Threads : DOMAIN local'[t] = DOMAIN NoLocals
        /\ my' = r
    <2> HIDE DEF r
    <2> QED
      BY <1>1, <1>4, LocalsKeepShape DEF Moves
  <1>6. ViewIsKept
    BY <1>1, <1>2, KeptView DEF Moves
  <1>7. YieldCall' /\ ArgsAreKept
    <2> HIDE DEF r
    <2> QED
      BY <1>1, <1>3, <1>4, <1>5, <1>6, YieldCallKept, ArgsKept DEF YieldPeeked
  <1>8. YieldChosen' /\ armed' = aarmed'
    <2> HIDE DEF r
    <2> QED
      BY <1>1, <1>3, <1>4, <1>5, <1>6, <1>7
         DEF YieldPeeked, YieldChosen, ArgsAreKept, ViewIsKept, queues
  <1>9. AtPoint'
    <2>1. at'[cpu'] = "yield_chosen"
      BY <1>1 DEF Moves, StepInv, PointsOK
    <2> QED
      BY <1>8, <2>1 DEF AtPoint
  <1> QED
    BY <1>1, <1>2, <1>5, <1>9, MoveKeeps DEF LibraryPoints, YieldPoints

LEMMA DequeueFrontKeeps ==
  ASSUME StepInv, DequeueFront
  PROVE  StepInv'
  <1> DEFINE r == [my EXCEPT !.node = peek(FrontQueue)]
  <1>1. /\ at[cpu] = "yield_peeked" /\ proc = "up" /\ my.front # NULL
        /\ current = my.front
        /\ IF my.from1 THEN /\ queue_priority_1' = dequeue(queue_priority_1)
                            /\ UNCHANGED queue_priority_2
                       ELSE /\ queue_priority_2' = dequeue(queue_priority_2)
                            /\ UNCHANGED queue_priority_1
        /\ local' = [local EXCEPT ![cpu] = r]
        /\ Moves("yield_dequeued")
        /\ UNCHANGED <<current, threadIDS, isInitialized, armed, state,
                       return_value, ctx, passed>>
    BY DEF DequeueFront, Running, Assign, Goto, Moves
  <1>2. entry # <<>> /\ InCall
    BY <1>1 DEF StepInv, CallInv, LibraryPoints, YieldPoints
  <1>3. YieldPeeked
    BY <1>1, <1>2 DEF InCall, AtPoint
  <1>4. /\ DOMAIN r = DOMAIN NoLocals /\ r.node = peek(FrontQueue)
        /\ r.from1 = my.from1 /\ r.back = my.back /\ r.value = my.value
    BY MyShape DEF NoLocals
  <1>5. /\ DOMAIN local' = Threads
        /\ \A t \in Threads : DOMAIN local'[t] = DOMAIN NoLocals
        /\ my' = r
    <2> HIDE DEF r
    <2> QED
      BY <1>1, <1>4, LocalsKeepShape DEF Moves
  <1>6. ViewIsKept
    BY <1>1, <1>2, KeptView DEF Moves
  <1>7. YieldCall' /\ ArgsAreKept
    <2> HIDE DEF r
    <2> QED
      BY <1>1, <1>3, <1>4, <1>5, <1>6, YieldCallKept, ArgsKept DEF YieldPeeked
  <1>8. /\ peek(FrontQueue) = Front
        /\ queue_priority_1' = dequeue(ArgQ1)
        /\ queue_priority_2' = Rest2
    <2>1. CASE ArgQ1 # <<>>
      BY <1>1, <1>3, <2>1 DEF YieldPeeked, FrontQueue, Front, Rest2, peekEither, peek
    <2>2. CASE ArgQ1 = <<>>
      BY <1>1, <1>3, <2>2 DEF YieldPeeked, FrontQueue, Front, Rest2, peekEither, dequeue
    <2> QED
      BY <2>1, <2>2
  <1>9. YieldDequeued' /\ queue_priority_2' = Rest2' /\ (my.node)' = Front'
    <2> HIDE DEF r
    <2> QED
      BY <1>1, <1>3, <1>4, <1>5, <1>6, <1>7, <1>8
         DEF YieldPeeked, YieldDequeued, ArgsAreKept, ViewIsKept
  <1>10. AtPoint'
    <2>1. at'[cpu'] = "yield_dequeued"
      BY <1>1 DEF Moves, StepInv, PointsOK
    <2> QED
      BY <1>9, <2>1 DEF AtPoint
  <1> QED
    BY <1>1, <1>2, <1>5, <1>10, MoveKeeps DEF LibraryPoints, YieldPoints

LEMMA RequeueKeeps ==
  ASSUME StepInv, Requeue
  PROVE  StepInv'
  <1>1. /\ at[cpu] = "yield_dequeued" /\ proc = "up"
        /\ queue_priority_2' = IF state[my.node] = "ACTIVE"
                               THEN enqueue(my.node, queue_priority_2)
                               ELSE queue_priority_2
        /\ Moves("yield_requeued")
        /\ UNCHANGED <<queue_priority_1, current, threadIDS, isInitialized, armed,
                       state, return_value, ctx, passed, local>>
    BY DEF Requeue, Running, Goto, Moves
  <1>2. entry # <<>> /\ InCall
    BY <1>1 DEF StepInv, CallInv, LibraryPoints, YieldPoints
  <1>3. YieldDequeued /\ queue_priority_2 = Rest2 /\ my.node = Front
    BY <1>1, <1>2 DEF InCall, AtPoint
  <1>4. my' = my
    BY <1>1 DEF Moves, my
  <1>5. ViewIsKept
    BY <1>1, <1>2, KeptView DEF Moves
  <1>6. YieldCall' /\ ArgsAreKept
    BY <1>1, <1>3, <1>4, <1>5, YieldCallKept, ArgsKept DEF YieldDequeued
  <1>7. queue_priority_2' = Back2
    BY <1>1, <1>3 DEF YieldDequeued, Back2
  <1>8. YieldDequeued' /\ queue_priority_2' = Back2'
    BY <1>1, <1>3, <1>4, <1>5, <1>6, <1>7 DEF YieldDequeued, ArgsAreKept, ViewIsKept
  <1>9. AtPoint'
    <2>1. at'[cpu'] = "yield_requeued"
      BY <1>1 DEF Moves, StepInv, PointsOK
    <2> QED
      BY <1>8, <2>1 DEF AtPoint
  <1>10. /\ DOMAIN local' = Threads
         /\ \A t \in Threads : DOMAIN local'[t] = DOMAIN NoLocals
    BY <1>1 DEF StepInv, PointsOK
  <1> QED
    BY <1>1, <1>2, <1>9, <1>10, MoveKeeps DEF LibraryPoints, YieldPoints

LEMMA PeekNextKeeps ==
  ASSUME StepInv, PeekNext
  PROVE  StepInv'
  <1> DEFINE r == [my EXCEPT !.next = NextThread,
                             !.priority = IF NextFrom1 THEN 1 ELSE 2]
  <1>1. /\ at[cpu] = "yield_requeued" /\ proc = "up" /\ NextThread # NULL
        /\ local' = [local EXCEPT ![cpu] = r]
        /\ Moves("yield_next")
        /\ UNCHANGED <<queues, current, threadIDS, isInitialized, armed, state,
                       return_value, ctx, passed>>
    BY DEF PeekNext, Running, Assign, Goto, Moves
  <1>2. entry # <<>> /\ InCall
    BY <1>1 DEF StepInv, CallInv, LibraryPoints, YieldPoints
  <1>3. YieldDequeued /\ queue_priority_2 = Back2
    BY <1>1, <1>2 DEF InCall, AtPoint
  <1>4. /\ DOMAIN r = DOMAIN NoLocals /\ r.next = NextThread
        /\ r.priority = (IF NextFrom1 THEN 1 ELSE 2)
        /\ r.back = my.back /\ r.value = my.value
    BY MyShape DEF NoLocals
  <1>5. /\ DOMAIN local' = Threads
        /\ \A t \in Threads : DOMAIN local'[t] = DOMAIN NoLocals
        /\ my' = r
    <2> HIDE DEF r
    <2> QED
      BY <1>1, <1>4, LocalsKeepShape DEF Moves
  <1>6. ViewIsKept
    BY <1>1, <1>2, KeptView DEF Moves
  <1>7. YieldCall' /\ ArgsAreKept
    <2> HIDE DEF r
    <2> QED
      BY <1>1, <1>3, <1>4, <1>5, <1>6, YieldCallKept, ArgsKept DEF YieldDequeued
  <1>8. /\ NextThread = NextFront
        /\ NextFrom1 <=> dequeue(ArgQ1) # <<>>
    <2>1. ArgQ1 = <<>> => dequeue(ArgQ1) = <<>>
      BY DEF dequeue
    <2> QED
      BY <1>3, <2>1 DEF YieldDequeued, NextThread, NextFrom1, NextFront, peekEither, peek
  <1>9. YieldNext' /\ state' = ArgStates'
    <2> HIDE DEF r
    <2> QED
      BY <1>1, <1>3, <1>4, <1>5, <1>6, <1>7, <1>8
         DEF YieldDequeued, YieldNext, ArgsAreKept, ViewIsKept, queues
  <1>10. AtPoint'
    <2>1. at'[cpu'] = "yield_next"
      BY <1>1 DEF Moves, StepInv, PointsOK
    <2> QED
      BY <1>9, <2>1 DEF AtPoint
  <1> QED
    BY <1>1, <1>2, <1>5, <1>10, MoveKeeps DEF LibraryPoints, YieldPoints

LEMMA MarkNextKeeps ==
  ASSUME StepInv, MarkNext
  PROVE  StepInv'
  <1>1. /\ at[cpu] = "yield_next" /\ proc = "up"
        /\ state' = [state EXCEPT ![my.next] = "ACTIVE"]
        /\ Moves("yield_marked")
        /\ UNCHANGED <<queues, current, threadIDS, isInitialized, armed,
                       return_value, ctx, passed, local>>
    BY DEF MarkNext, Running, Goto, Moves
  <1>2. entry # <<>> /\ InCall
    BY <1>1 DEF StepInv, CallInv, LibraryPoints, YieldPoints
  <1>3. YieldNext /\ state = ArgStates
    BY <1>1, <1>2 DEF InCall, AtPoint
  <1>4. my' = my
    BY <1>1 DEF Moves, my
  <1>5. ViewIsKept
    BY <1>1, <1>2, KeptView DEF Moves
  <1>6. YieldCall' /\ ArgsAreKept
    BY <1>1, <1>3, <1>4, <1>5, YieldCallKept, ArgsKept DEF YieldNext
  <1>7. YieldNext'
    BY <1>1, <1>3, <1>4, <1>5, <1>6 DEF YieldNext, ArgsAreKept, ViewIsKept, queues
  <1>8. state' = [ArgStates EXCEPT ![NextFront] = "ACTIVE"]'
    BY <1>1, <1>3, <1>6 DEF YieldNext, ArgsAreKept
  <1>9. AtPoint'
    <2>1. at'[cpu'] = "yield_marked"
      BY <1>1 DEF Moves, StepInv, PointsOK
    <2> QED
      BY <1>7, <1>8, <2>1 DEF AtPoint
  <1>10. /\ DOMAIN local' = Threads
         /\ \A t \in Threads : DOMAIN local'[t] = DOMAIN NoLocals
    BY <1>1 DEF StepInv, PointsOK
  <1> QED
    BY <1>1, <1>2, <1>9, <1>10, MoveKeeps DEF LibraryPoints, YieldPoints

LEMMA ChooseNextKeeps ==
  ASSUME StepInv, ChooseNext
  PROVE  StepInv'
  <1> DEFINE r == [my EXCEPT !.temp = current]
  <1>1. /\ at[cpu] = "yield_marked" /\ proc = "up"
        /\ current' = my.next
        /\ local' = [local EXCEPT ![cpu] = r]
        /\ Moves("yield_chosen")
        /\ UNCHANGED <<queues, threadIDS, isInitialized, armed, state, return_value,
                       ctx, passed>>
    BY DEF ChooseNext, Running, Assign, Goto, Moves
  <1>2. entry # <<>> /\ InCall
    BY <1>1 DEF StepInv, CallInv, LibraryPoints, YieldPoints
  <1>3. YieldNext /\ state = [ArgStates EXCEPT ![NextFront] = "ACTIVE"]
    BY <1>1, <1>2 DEF InCall, AtPoint
  <1>4. /\ DOMAIN r = DOMAIN NoLocals /\ r.temp = current /\ r.next = my.next
        /\ r.priority = my.priority /\ r.back = my.back /\ r.value = my.value
    BY MyShape DEF NoLocals
  <1>5. /\ DOMAIN local' = Threads
        /\ \A t \in Threads : DOMAIN local'[t] = DOMAIN NoLocals
        /\ my' = r
    <2> HIDE DEF r
    <2> QED
      BY <1>1, <1>4, LocalsKeepShape DEF Moves
  <1>6. ViewIsKept
    BY <1>1, <1>2, KeptView DEF Moves
  <1>7. YieldCall' /\ ArgsAreKept
    <2> HIDE DEF r
    <2> QED
      BY <1>1, <1>3, <1>4, <1>5, <1>6, YieldCallKept, ArgsKept DEF YieldNext
  <1>8. YieldChosen' /\ armed' = aarmed'
    <2> HIDE DEF r
    <2> QED
      BY <1>1, <1>3, <1>4, <1>5, <1>6, <1>7
         DEF YieldNext, YieldChosen, ArgsAreKept, ViewIsKept, queues
  <1>9. AtPoint'
    <2>1. at'[cpu'] = "yield_chosen"
      BY <1>1 DEF Moves, StepInv, PointsOK
    <2> QED
      BY <1>8, <2>1 DEF AtPoint
  <1> QED
    BY <1>1, <1>2, <1>5, <1>9, MoveKeeps DEF LibraryPoints, YieldPoints

LEMMA SetTimerKeeps ==
  ASSUME StepInv, SetTimer
  PROVE  StepInv'
  <1>1. /\ at[cpu] = "yield_chosen" /\ proc = "up"
        /\ setitimer(my.priority)
        /\ Moves("yield_timed")
        /\ UNCHANGED <<queues, current, threadIDS, isInitialized,
                       state, return_value, ctx, passed, local>>
    BY DEF SetTimer, Running, Goto, Moves
  <1>2. entry # <<>> /\ InCall
    BY <1>1 DEF StepInv, CallInv, LibraryPoints, YieldPoints
  <1>3. YieldChosen /\ armed = aarmed
    BY <1>1, <1>2 DEF InCall, AtPoint
  <1>4. my' = my
    BY <1>1 DEF Moves, my
  <1>5. ViewIsKept
    BY <1>1, <1>2, KeptView DEF Moves
  <1>6. YieldCall' /\ ArgsAreKept
    BY <1>1, <1>3, <1>4, <1>5, YieldCallKept, ArgsKept DEF YieldChosen
  <1>7. YieldChosen'
    BY <1>1, <1>3, <1>4, <1>6 DEF YieldChosen, ArgsAreKept, queues
  <1>8. armed' = (CASE my.priority = 0 -> FALSE
                    [] my.priority = 1 -> TRUE
                    [] my.priority = 2 -> aarmed)'
    BY <1>1, <1>3, <1>4, <1>5 DEF setitimer, ViewIsKept
  <1>9. AtPoint'
    <2>1. at'[cpu'] = "yield_timed"
      BY <1>1 DEF Moves, StepInv, PointsOK
    <2> QED
      BY <1>7, <1>8, <2>1 DEF AtPoint
  <1>10. /\ DOMAIN local' = Threads
         /\ \A t \in Threads : DOMAIN local'[t] = DOMAIN NoLocals
    BY <1>1 DEF StepInv, PointsOK
  <1> QED
    BY <1>1, <1>2, <1>9, <1>10, MoveKeeps DEF LibraryPoints, YieldPoints

-----------------------------------------------------------------------------
(* my_pthread_create and my_pthread_exit up to their my_pthread_yield.     *)

\* my_pthread_create moves on while it makes the new thread.
LEMMA CreateMoveKeeps ==
  ASSUME StepInv, entry # <<>>, entry' = entry, cpu' = cpu,
         UNCHANGED <<target, proc, delivered, local>>,
         at' \in [Threads -> Places \union LibraryPoints],
         at'[cpu] \in LibraryPoints,
         Creating',
         \A t \in Threads \ {cpu} :
            at'[t] = at[t] \/ (t = athreadIDS /\ at'[t] = "user"),
         AtPoint'
  PROVE  StepInv'
  <1>1. ViewIsKept /\ UNCHANGED Lib!vars /\ entry' # <<>>
    BY KeptView
  <1>2. Lib!SchedulerInvariant'
    BY <1>1, LibNextPreserves DEF StepInv
  <1>3. PointsOK'
    BY DEF PointsOK, StepInv, Places
  <1>4. InCall'
    <2>1. InCall
      BY DEF StepInv, CallInv
    <2>2. \A t \in Threads \ {cpu} :
             ~(Creating' /\ t = athreadIDS') => aat'[t] = Settled(at'[t])
      BY <1>1, <2>1 DEF InCall, ViewIsKept
    <2> QED
      BY <1>1, <2>1, <2>2 DEF InCall, ViewIsKept
  <1> QED
    BY <1>1, <1>2, <1>3, <1>4 DEF StepInv, CallInv

LEMMA CountThreadKeeps ==
  ASSUME StepInv, CountThread
  PROVE  StepInv'
  <1>1. /\ at[cpu] = "create_numbered" /\ proc = "up"
        /\ threadIDS' = threadIDS + 1
        /\ Moves("create_counted")
        /\ UNCHANGED <<queues, current, isInitialized, armed, state, return_value,
                       ctx, passed, local>>
    BY DEF CountThread, Running, Goto, Moves
  <1>2. entry # <<>> /\ InCall
    BY <1>1 DEF StepInv, CallInv, LibraryPoints, CreatePoints
  <1>3. CreateNumbered /\ threadIDS = athreadIDS
    BY <1>1, <1>2 DEF InCall, AtPoint
  <1>4. ViewIsKept /\ my' = my
    BY <1>1, <1>2, KeptView DEF Moves, my
  <1>5. /\ at'[cpu] = "create_counted"
        /\ at' \in [Threads -> Places \union LibraryPoints]
        /\ at'[cpu] \in LibraryPoints
        /\ \A t \in Threads \ {cpu} : at'[t] = at[t]
    BY <1>1 DEF Moves, StepInv, PointsOK, LibraryPoints, CreatePoints
  <1>6. CreateNumbered' /\ threadIDS' = athreadIDS' + 1
    BY <1>1, <1>3, <1>4 DEF CreateNumbered, ViewIsKept, Moves, queues
  <1>7. Creating'
    <2>1. athreadIDS + 1 # athreadIDS
      BY LibFacts DEF StepInv
    <2> QED
      BY <1>4, <1>6, <2>1 DEF Creating, ViewIsKept
  <1>8. AtPoint'
    BY <1>1, <1>5, <1>6 DEF AtPoint, Moves
  <1> QED
    BY <1>1, <1>2, <1>5, <1>7, <1>8, CreateMoveKeeps DEF Moves

LEMMA MakeThreadKeeps ==
  ASSUME StepInv, MakeThread
  PROVE  StepInv'
  <1>1. /\ at[cpu] = "create_counted" /\ proc = "up"
        /\ state' = [state EXCEPT ![my.node] = "ACTIVE"]
        /\ ctx' = [ctx EXCEPT ![my.node] = my.node]
        /\ at' = [at EXCEPT ![my.node] = "user", ![cpu] = "create_made"]
        /\ entry' = entry /\ cpu' = cpu
        /\ UNCHANGED <<queues, current, threadIDS, isInitialized, armed,
                       return_value, target, proc, passed, delivered, local>>
    BY DEF MakeThread, Running
  <1>2. entry # <<>> /\ InCall
    BY <1>1 DEF StepInv, CallInv, LibraryPoints, CreatePoints
  <1>3. CreateNumbered /\ threadIDS = athreadIDS + 1
    BY <1>1, <1>2 DEF InCall, AtPoint
  <1>4. ViewIsKept /\ my' = my
    BY <1>1, <1>2, KeptView DEF my
  \* The caller is not the new thread.
  <1>5. /\ athreadIDS \in Threads /\ cpu # athreadIDS /\ my.node = athreadIDS
        /\ athreadIDS + 1 # athreadIDS
    <2>1. athreadIDS \in 1..MaxThreads
      BY LibFacts DEF StepInv
    <2>2. athreadIDS < MaxThreads
      BY <1>3 DEF CreateNumbered
    <2>3. athreadIDS \in Threads /\ athreadIDS + 1 # athreadIDS
      BY <2>1, <2>2, MaxThreadsAssumption DEF Threads
    <2> QED
      BY <1>3, <2>3 DEF CreateNumbered
  <1>6. /\ at'[cpu] = "create_made" /\ at'[athreadIDS] = "user"
        /\ at' \in [Threads -> Places \union LibraryPoints]
        /\ at'[cpu] \in LibraryPoints
        /\ \A t \in Threads \ {cpu} :
              at'[t] = at[t] \/ (t = athreadIDS /\ at'[t] = "user")
    BY <1>1, <1>5 DEF StepInv, PointsOK, LibraryPoints, CreatePoints, Places
  <1>7. CreateCall'
    BY <1>1, <1>3, <1>4, <1>6 DEF CreateCall, CreateNumbered, ViewIsKept
  <1>8. CreateMade' /\ queue_priority_1' = aq1' /\ (my.node)' = athreadIDS'
    BY <1>1, <1>3, <1>4, <1>5, <1>7
       DEF CreateMade, CreateNumbered, NewStates, NewContexts, ViewIsKept, queues
  <1>9. Creating'
    BY <1>1, <1>3, <1>4, <1>5 DEF Creating, ViewIsKept
  <1>10. AtPoint'
    BY <1>1, <1>6, <1>8 DEF AtPoint
  <1> QED
    BY <1>1, <1>2, <1>6, <1>9, <1>10, CreateMoveKeeps

LEMMA EnqueueNewKeeps ==
  ASSUME StepInv, EnqueueNew
  PROVE  StepInv'
  <1>1. /\ at[cpu] = "create_made" /\ proc = "up"
        /\ queue_priority_1' = enqueue(my.node, queue_priority_1)
        /\ Moves("create_enqueued")
        /\ UNCHANGED <<queue_priority_2, current, threadIDS, isInitialized, armed,
                       state, return_value, ctx, passed, local>>
    BY DEF EnqueueNew, Running, Goto, Moves
  <1>2. entry # <<>> /\ InCall
    BY <1>1 DEF StepInv, CallInv, LibraryPoints, CreatePoints
  <1>3. CreateMade /\ queue_priority_1 = aq1 /\ my.node = athreadIDS
    BY <1>1, <1>2 DEF InCall, AtPoint
  <1>4. ViewIsKept
    BY <1>1, <1>2, KeptView DEF Moves
  <1>5. at'[cpu'] = "create_enqueued" /\ at'[athreadIDS] = at[athreadIDS]
    BY <1>1, <1>3 DEF Moves, StepInv, PointsOK, CreateMade, CreateCall
  <1>6. CreateMade' /\ queue_priority_1' = NewQ1'
    BY <1>1, <1>3, <1>4, <1>5 DEF CreateMade, CreateCall, NewStates, NewContexts,
                                  NewQ1, ViewIsKept, Moves
  <1>7. AtPoint'
    BY <1>5, <1>6 DEF AtPoint
  <1>8. /\ DOMAIN local' = Threads
        /\ \A t \in Threads : DOMAIN local'[t] = DOMAIN NoLocals
    BY <1>1 DEF StepInv, PointsOK
  <1> QED
    BY <1>1, <1>2, <1>7, <1>8, MoveKeeps DEF LibraryPoints, CreatePoints

LEMMA EnqueueMainKeeps ==
  ASSUME StepInv, EnqueueMain
  PROVE  StepInv'
  <1>1. /\ at[cpu] = "create_enqueued" /\ proc = "up"
        /\ IF isInitialized
             THEN UNCHANGED <<queue_priority_1, current, isInitialized, state, ctx>>
             ELSE /\ isInitialized' = TRUE
                  /\ ctx' = [ctx EXCEPT ![Main] = cpu]
                  /\ state' = [state EXCEPT ![Main] = "ACTIVE"]
                  /\ current' = Main
                  /\ queue_priority_1' = enqueue(Main, queue_priority_1)
        /\ Moves("create_ready")
        /\ UNCHANGED <<queue_priority_2, threadIDS, armed, return_value, passed,
                       local>>
    BY DEF EnqueueMain, Running, Goto, Moves
  <1>2. entry # <<>> /\ InCall
    BY <1>1 DEF StepInv, CallInv, LibraryPoints, CreatePoints
  <1>3. CreateMade /\ queue_priority_1 = NewQ1
    BY <1>1, <1>2 DEF InCall, AtPoint
  <1>4. ViewIsKept /\ cpu = acpu
    BY <1>1, <1>2, KeptView DEF Moves, InCall
  <1>5. at'[cpu'] = "create_ready" /\ at'[athreadIDS] = at[athreadIDS]
    BY <1>1, <1>3 DEF Moves, StepInv, PointsOK, CreateMade, CreateCall
  <1>6. CreateCall'
    BY <1>1, <1>3, <1>4, <1>5 DEF CreateMade, CreateCall, ViewIsKept, Moves
  <1>7. /\ isInitialized' /\ armed' = aarmed'
        /\ queue_priority_1' = CreateQ1 /\ queue_priority_2' = aq2
        /\ current' = CreateCurrent /\ state' = CreateStates
        /\ ctx' = CreateContexts
    BY <1>1, <1>3, <1>4 DEF CreateMade, CreateQ1, CreateCurrent, CreateStates,
                            CreateContexts, ViewIsKept
  <1>8. /\ CreateQ1' = CreateQ1 /\ CreateCurrent' = CreateCurrent
        /\ CreateStates' = CreateStates /\ CreateContexts' = CreateContexts
    BY <1>4 DEF CreateQ1, CreateCurrent, CreateStates, CreateContexts,
                NewQ1, NewStates, NewContexts, ViewIsKept
  <1>9. CreateReady'
    BY <1>4, <1>6, <1>7, <1>8 DEF CreateReady, ViewIsKept
  <1>10. AtPoint'
    BY <1>5, <1>9 DEF AtPoint
  <1>11. /\ DOMAIN local' = Threads
         /\ \A t \in Threads : DOMAIN local'[t] = DOMAIN NoLocals
    BY <1>1 DEF StepInv, PointsOK
  <1> QED
    BY <1>1, <1>2, <1>10, <1>11, MoveKeeps DEF LibraryPoints, CreatePoints

LEMMA YieldFromCreateKeeps ==
  ASSUME StepInv, YieldFromCreate
  PROVE  StepInv'
  <1> DEFINE r == [my EXCEPT
                     !.front = peekEither(queue_priority_1, queue_priority_2),
                     !.from1 = queue_priority_1 # <<>>, !.back = "user"]
  <1>1. /\ at[cpu] = "create_ready" /\ proc = "up"
        /\ local' = [local EXCEPT ![cpu] = r]
        /\ Moves("yield_peeked")
        /\ UNCHANGED <<queues, current, threadIDS, isInitialized, armed, state,
                       return_value, ctx, passed>>
    BY DEF YieldFromCreate, PeekFront, Running, Assign, Goto, Moves
  <1>2. entry # <<>> /\ InCall
    BY <1>1 DEF StepInv, CallInv, LibraryPoints, CreatePoints
  <1>3. CreateReady
    BY <1>1, <1>2 DEF InCall, AtPoint
  <1>4. /\ DOMAIN r = DOMAIN NoLocals
        /\ r.front = peekEither(queue_priority_1, queue_priority_2)
        /\ r.from1 = (queue_priority_1 # <<>>) /\ r.back = "user"
    BY MyShape DEF NoLocals
  <1>5. /\ DOMAIN local' = Threads
        /\ \A t \in Threads : DOMAIN local'[t] = DOMAIN NoLocals
        /\ my' = r
    <2> HIDE DEF r
    <2> QED
      BY <1>1, <1>4, LocalsKeepShape DEF Moves
  <1>6. ViewIsKept
    BY <1>1, <1>2, KeptView DEF Moves
  <1>7. at'[cpu'] = "yield_peeked" /\ at'[athreadIDS] = at[athreadIDS]
    BY <1>1, <1>3 DEF Moves, StepInv, PointsOK, CreateReady, CreateCall
  <1>8. CreateCall'
    BY <1>1, <1>3, <1>6, <1>7 DEF CreateReady, CreateCall, ViewIsKept, Moves
  <1>9. Creating' /\ ~Exiting'
    <2>1. athreadIDS + 1 # athreadIDS
      BY LibFacts DEF StepInv
    <2>2. Creating'
      BY <1>1, <1>3, <1>6, <2>1 DEF CreateReady, CreateCall, Creating, ViewIsKept
    <2> QED
      BY <2>2 DEF Exiting
  <1>10. /\ CreateQ1' = CreateQ1 /\ CreateCurrent' = CreateCurrent
         /\ CreateStates' = CreateStates /\ CreateContexts' = CreateContexts
    BY <1>6 DEF CreateQ1, CreateCurrent, CreateStates, CreateContexts,
                NewQ1, NewStates, NewContexts, ViewIsKept
  <1>11. /\ ArgQ1' = queue_priority_1' /\ ArgQ2' = queue_priority_2'
         /\ ArgCurrent' = current' /\ ArgStates' = state' /\ ArgContexts' = ctx'
    BY <1>1, <1>3, <1>6, <1>9, <1>10
       DEF ArgQ1, ArgQ2, ArgCurrent, ArgStates, ArgContexts, CreateReady, ViewIsKept,
           queues
  <1>12. Front' = peekEither(queue_priority_1, queue_priority_2)
    BY <1>1, <1>11 DEF Front, queues
  <1>13. YieldPeeked'
    <2> HIDE DEF r
    <2>1. YieldCall'
      BY <1>1, <1>3, <1>4, <1>5, <1>8, <1>9, <1>11 DEF YieldCall, CreateReady
    <2> QED
      BY <1>1, <1>3, <1>4, <1>5, <1>6, <1>11, <1>12, <2>1
         DEF YieldPeeked, CreateReady, ViewIsKept, queues
  <1>14. AtPoint'
    BY <1>7, <1>13 DEF AtPoint
  <1> QED
    BY <1>1, <1>2, <1>5, <1>14, MoveKeeps DEF LibraryPoints, YieldPoints

LEMMA ExitDequeueKeeps ==
  ASSUME StepInv, ExitDequeue
  PROVE  StepInv'
  <1> DEFINE r == [my EXCEPT !.node = peek(ExitQueue)]
  <1>1. /\ at[cpu] = "exit_peeked" /\ proc = "up" /\ my.temp # NULL
        /\ ExitQueue # <<>>
        /\ IF ExitFrom1 THEN /\ queue_priority_1' = dequeue(queue_priority_1)
                             /\ UNCHANGED queue_priority_2
                        ELSE /\ queue_priority_2' = dequeue(queue_priority_2)
                             /\ UNCHANGED queue_priority_1
        /\ local' = [local EXCEPT ![cpu] = r]
        /\ Moves("exit_dequeued")
        /\ UNCHANGED <<current, threadIDS, isInitialized, armed, state,
                       return_value, ctx, passed>>
    BY DEF ExitDequeue, Running, Assign, Goto, Moves
  <1>2. entry # <<>> /\ InCall
    BY <1>1 DEF StepInv, CallInv, LibraryPoints, ExitPoints
  <1>3. ExitPeeked
    BY <1>1, <1>2 DEF InCall, AtPoint
  <1>4. /\ DOMAIN r = DOMAIN NoLocals /\ r.node = peek(ExitQueue)
        /\ r.value = my.value
    BY MyShape DEF NoLocals
  <1>5. /\ DOMAIN local' = Threads
        /\ \A t \in Threads : DOMAIN local'[t] = DOMAIN NoLocals
        /\ my' = r
    <2> HIDE DEF r
    <2> QED
      BY <1>1, <1>4, LocalsKeepShape DEF Moves
  <1>6. ViewIsKept
    BY <1>1, <1>2, KeptView DEF Moves
  <1>7. acurrent # NULL /\ (ExitFrom1 <=> ExitTakesFirst)
    BY <1>1, <1>3 DEF ExitPeeked, ExitFrom1, ExitTakesFirst
  <1>8. /\ queue_priority_1' = ExitQ1 /\ queue_priority_2' = ExitQ2
        /\ peek(ExitQueue) = ExitTakes
    <2>1. CASE ExitTakesFirst
      BY <1>1, <1>3, <1>7, <2>1 DEF ExitPeeked, ExitQ1, ExitQ2, ExitTakes, ExitQueue,
                                    ExitTakesFirst
    <2>2. CASE ~ExitTakesFirst
      BY <1>1, <1>3, <1>7, <2>2 DEF ExitPeeked, ExitQ1, ExitQ2, ExitTakes, ExitQueue
    <2> QED
      BY <2>1, <2>2
  <1>9. /\ ExitQ1' = ExitQ1 /\ ExitQ2' = ExitQ2 /\ ExitTakes' = ExitTakes
    BY <1>6 DEF ViewIsKept, ExitQ1, ExitQ2, ExitTakes, ExitTakesFirst
  <1>10. ExitDequeued'
    <2> HIDE DEF r
    <2> QED
      BY <1>1, <1>3, <1>4, <1>5, <1>6, <1>7, <1>8, <1>9
         DEF ExitPeeked, ExitDequeued, ExitCall, ViewIsKept, Moves
  <1>11. AtPoint'
    <2>1. at'[cpu'] = "exit_dequeued"
      BY <1>1 DEF Moves, StepInv, PointsOK
    <2> QED
      BY <1>10, <2>1 DEF AtPoint
  <1> QED
    BY <1>1, <1>2, <1>5, <1>11, MoveKeeps DEF LibraryPoints, ExitPoints

LEMMA ExitCompleteKeeps ==
  ASSUME StepInv, ExitComplete
  PROVE  StepInv'
  <1>1. /\ at[cpu] = "exit_dequeued" /\ proc = "up"
        /\ state' = [state EXCEPT ![my.node] = "COMPLETED"]
        /\ passed' = [passed EXCEPT ![cpu] = my.value]
        /\ Moves("exit_completed")
        /\ UNCHANGED <<queues, current, threadIDS, isInitialized, armed,
                       return_value, ctx, local>>
    BY DEF ExitComplete, Running, Goto, Moves, Complete
  <1>2. entry # <<>> /\ InCall
    BY <1>1 DEF StepInv, CallInv, LibraryPoints, ExitPoints
  <1>3. ExitDequeued
    BY <1>1, <1>2 DEF InCall, AtPoint
  <1>4. ViewIsKept /\ my' = my
    BY <1>1, <1>2, KeptView DEF Moves, my
  <1>5. /\ ExitQ1' = ExitQ1 /\ ExitQ2' = ExitQ2 /\ ExitTakes' = ExitTakes
        /\ ExitStates' = ExitStates
    BY <1>4 DEF ViewIsKept, ExitQ1, ExitQ2, ExitTakes, ExitTakesFirst, ExitStates
  <1>6. state' = ExitStates
    BY <1>1, <1>3 DEF ExitDequeued, ExitStates
  <1>7. ExitCompleted'
    BY <1>1, <1>3, <1>4, <1>5, <1>6
       DEF ExitDequeued, ExitCompleted, ExitCall, ViewIsKept, Moves, queues
  <1>8. AtPoint'
    <2>1. at'[cpu'] = "exit_completed"
      BY <1>1 DEF Moves, StepInv, PointsOK
    <2> QED
      BY <1>7, <2>1 DEF AtPoint
  <1>9. /\ DOMAIN local' = Threads
        /\ \A t \in Threads : DOMAIN local'[t] = DOMAIN NoLocals
    BY <1>1 DEF StepInv, PointsOK
  <1> QED
    BY <1>1, <1>2, <1>8, <1>9, MoveKeeps DEF LibraryPoints, ExitPoints

LEMMA ExitStoreKeeps ==
  ASSUME StepInv, ExitStore
  PROVE  StepInv'
  <1>1. /\ at[cpu] = "exit_completed" /\ proc = "up"
        /\ return_value' = StoreReturnValue(my.node, my.value)
        /\ Moves("exit_stored")
        /\ UNCHANGED <<queues, current, threadIDS, isInitialized, armed, state, ctx,
                       passed, local>>
    BY DEF ExitStore, Running, Goto, Moves
  <1>2. entry # <<>> /\ InCall
    BY <1>1 DEF StepInv, CallInv, LibraryPoints, ExitPoints
  <1>3. ExitCompleted
    BY <1>1, <1>2 DEF InCall, AtPoint
  <1>4. ViewIsKept /\ my' = my
    BY <1>1, <1>2, KeptView DEF Moves, my
  <1>5. /\ ExitQ1' = ExitQ1 /\ ExitQ2' = ExitQ2 /\ ExitTakes' = ExitTakes
        /\ ExitStates' = ExitStates /\ ExitValues' = ExitValues
    BY <1>4 DEF ViewIsKept, ExitQ1, ExitQ2, ExitTakes, ExitTakesFirst, ExitStates,
                ExitValues
  <1>6. return_value' = ExitValues
    BY <1>1, <1>3 DEF ExitCompleted, ExitValues, StoreReturnValue
  <1>7. ExitStored' /\ current' = acurrent'
    BY <1>1, <1>3, <1>4, <1>5, <1>6
       DEF ExitCompleted, ExitStored, ExitDone, ExitCall, ViewIsKept, Moves, queues
  <1>8. AtPoint'
    <2>1. at'[cpu'] = "exit_stored"
      BY <1>1 DEF Moves, StepInv, PointsOK
    <2> QED
      BY <1>7, <2>1 DEF AtPoint
  <1>9. /\ DOMAIN local' = Threads
        /\ \A t \in Threads : DOMAIN local'[t] = DOMAIN NoLocals
    BY <1>1 DEF StepInv, PointsOK
  <1> QED
    BY <1>1, <1>2, <1>8, <1>9, MoveKeeps DEF LibraryPoints, ExitPoints

LEMMA ExitClearKeeps ==
  ASSUME StepInv, ExitClearCurrent
  PROVE  StepInv'
  <1>1. /\ at[cpu] = "exit_stored" /\ proc = "up"
        /\ current' = NULL
        /\ Moves("exit_noCurrent")
        /\ UNCHANGED <<queues, threadIDS, isInitialized, armed, state, return_value,
                       ctx, passed, local>>
    BY DEF ExitClearCurrent, Running, Goto, Moves
  <1>2. entry # <<>> /\ InCall
    BY <1>1 DEF StepInv, CallInv, LibraryPoints, ExitPoints
  <1>3. ExitStored
    BY <1>1, <1>2 DEF InCall, AtPoint
  <1>4. ViewIsKept /\ my' = my
    BY <1>1, <1>2, KeptView DEF Moves, my
  <1>5. /\ ExitQ1' = ExitQ1 /\ ExitQ2' = ExitQ2
        /\ ExitStates' = ExitStates /\ ExitValues' = ExitValues
    BY <1>4 DEF ViewIsKept, ExitQ1, ExitQ2, ExitTakes, ExitTakesFirst, ExitStates,
                ExitValues
  <1>6. ExitStored'
    BY <1>1, <1>3, <1>4, <1>5
       DEF ExitStored, ExitDone, ExitCall, ViewIsKept, Moves, queues
  <1>7. AtPoint'
    <2>1. at'[cpu'] = "exit_noCurrent"
      BY <1>1 DEF Moves, StepInv, PointsOK
    <2> QED
      BY <1>1, <1>6, <2>1 DEF AtPoint
  <1>8. /\ DOMAIN local' = Threads
        /\ \A t \in Threads : DOMAIN local'[t] = DOMAIN NoLocals
    BY <1>1 DEF StepInv, PointsOK
  <1> QED
    BY <1>1, <1>2, <1>7, <1>8, MoveKeeps DEF LibraryPoints, ExitPoints

LEMMA YieldFromExitKeeps ==
  ASSUME StepInv, YieldFromExit
  PROVE  StepInv'
  <1> DEFINE r == [my EXCEPT
                     !.front = peekEither(queue_priority_1, queue_priority_2),
                     !.from1 = queue_priority_1 # <<>>, !.back = "exited"]
  <1>1. /\ at[cpu] = "exit_noCurrent" /\ proc = "up"
        /\ local' = [local EXCEPT ![cpu] = r]
        /\ Moves("yield_peeked")
        /\ UNCHANGED <<queues, current, threadIDS, isInitialized, armed, state,
                       return_value, ctx, passed>>
    BY DEF YieldFromExit, PeekFront, Running, Assign, Goto, Moves
  <1>2. entry # <<>> /\ InCall
    BY <1>1 DEF StepInv, CallInv, LibraryPoints, ExitPoints
  <1>3. ExitStored /\ current = NULL
    BY <1>1, <1>2 DEF InCall, AtPoint
  <1>4. /\ DOMAIN r = DOMAIN NoLocals
        /\ r.front = peekEither(queue_priority_1, queue_priority_2)
        /\ r.from1 = (queue_priority_1 # <<>>) /\ r.back = "exited"
        /\ r.value = my.value
    BY MyShape DEF NoLocals
  <1>5. /\ DOMAIN local' = Threads
        /\ \A t \in Threads : DOMAIN local'[t] = DOMAIN NoLocals
        /\ my' = r
    <2> HIDE DEF r
    <2> QED
      BY <1>1, <1>4, LocalsKeepShape DEF Moves
  <1>6. ViewIsKept
    BY <1>1, <1>2, KeptView DEF Moves
  <1>7. ~Creating' /\ Exiting'
    <2> HIDE DEF r
    <2> QED
      BY <1>1, <1>3, <1>4, <1>5, <1>6 DEF ExitStored, ExitCall, Creating, Exiting,
                                          ViewIsKept
  <1>8. /\ ExitQ1' = ExitQ1 /\ ExitQ2' = ExitQ2
        /\ ExitStates' = ExitStates /\ ExitValues' = ExitValues
    <2> HIDE DEF r
    <2> QED
      BY <1>4, <1>5, <1>6 DEF ViewIsKept, ExitQ1, ExitQ2, ExitTakes, ExitTakesFirst,
                              ExitStates, ExitValues
  <1>9. /\ ArgQ1' = queue_priority_1' /\ ArgQ2' = queue_priority_2'
        /\ ArgCurrent' = current' /\ ArgStates' = state' /\ ArgContexts' = ctx'
    BY <1>1, <1>3, <1>6, <1>7, <1>8
       DEF ArgQ1, ArgQ2, ArgCurrent, ArgStates, ArgContexts, ExitStored, ExitCall,
           ViewIsKept, queues
  <1>10. Front' = peekEither(queue_priority_1, queue_priority_2)
    BY <1>1, <1>9 DEF Front, queues
  <1>11. YieldPeeked'
    <2> HIDE DEF r
    <2>1. ExitDone'
      BY <1>1, <1>3, <1>4, <1>5, <1>6, <1>8 DEF ExitStored, ExitDone, ViewIsKept, Moves
    <2>2. YieldCall'
      BY <1>1, <1>3, <1>4, <1>5, <1>6, <1>7, <1>9, <2>1
         DEF YieldCall, ExitStored, ExitCall, ViewIsKept, Moves
    <2> QED
      BY <1>1, <1>3, <1>4, <1>5, <1>6, <1>9, <1>10, <2>2
         DEF YieldPeeked, ExitStored, ExitCall, ViewIsKept, queues
  <1>12. AtPoint'
    <2>1. at'[cpu'] = "yield_peeked"
      BY <1>1 DEF Moves, StepInv, PointsOK
    <2> QED
      BY <1>11, <2>1 DEF AtPoint
  <1> QED
    BY <1>1, <1>2, <1>5, <1>12, MoveKeeps DEF LibraryPoints, YieldPoints

-----------------------------------------------------------------------------
(* The beginning of a call.                                                *)

LEMMA EnterKeeps ==
  ASSUME StepInv, entry = <<>>, Enter, proc = "up", cpu' = cpu,
         UNCHANGED <<target, proc, delivered>>,
         at' \in [Threads -> Places \union LibraryPoints],
         at'[cpu] \in LibraryPoints,
         \A t \in Threads \ {cpu} : at'[t] = at[t],
         AtPoint',
         DOMAIN local' = Threads,
         \A t \in Threads : DOMAIN local'[t] = DOMAIN NoLocals
  PROVE  StepInv'
  <1>1. ViewIsKept /\ UNCHANGED Lib!vars /\ entry' # <<>>
    BY KeptView
  <1>2. Lib!SchedulerInvariant'
    BY <1>1, LibNextPreserves DEF StepInv
  <1>3. ViewIsShared
    BY SharedView
  <1>4. PointsOK'
    BY DEF PointsOK, StepInv, Places
  <1>5. \A t \in Threads \ {cpu} :
           ~(Creating' /\ t = athreadIDS') => aat'[t] = Settled(at'[t])
    <2> SUFFICES ASSUME NEW t \in Threads \ {cpu}, ~(Creating' /\ t = athreadIDS')
                 PROVE  aat'[t] = Settled(at'[t])
      OBVIOUS
    <2>1. at'[t] = at[t]
      OBVIOUS
    <2> QED
      BY <1>1, <1>3, <2>1 DEF ViewIsKept, ViewIsShared
  <1>6. InCall'
    BY <1>1, <1>3, <1>5 DEF InCall, ViewIsKept, ViewIsShared
  <1> QED
    BY <1>1, <1>2, <1>4, <1>6 DEF StepInv, CallInv

\* Outside the library the executing thread is where the atomic library sees
\* it.
LEMMA OutsideFacts ==
  ASSUME StepInv, proc = "up", at[cpu] \in {"user", "join"}
  PROVE  /\ entry = <<>>
         /\ ViewIsShared
         /\ aat[cpu] = at[cpu]
  <1>1. at[cpu] \notin LibraryPoints
    BY DEF LibraryPoints, ExitPoints, CreatePoints, YieldPoints
  <1>2. entry = <<>>
    BY <1>1 DEF StepInv, CallInv, InCall
  <1>3. Settled(at[cpu]) = at[cpu]
    BY DEF Settled, SafePoints
  <1> QED
    BY <1>2, <1>3, SharedView DEF ViewIsShared, StepInv, PointsOK

LEMMA CallYieldKeeps ==
  ASSUME StepInv, CallYield
  PROVE  StepInv'
  <1> DEFINE r == [my EXCEPT
                     !.front = peekEither(queue_priority_1, queue_priority_2),
                     !.from1 = queue_priority_1 # <<>>, !.back = at[cpu]]
  <1>1. /\ proc = "up"
        /\ at[cpu] = "user" \/ (at[cpu] = "join" /\ state[target[cpu]] # "COMPLETED")
        /\ local' = [local EXCEPT ![cpu] = r]
        /\ at' = [at EXCEPT ![cpu] = "yield_peeked"]
        /\ Enter
        /\ UNCHANGED <<queues, current, threadIDS, isInitialized, armed, state,
                       return_value, ctx, cpu, target, proc, passed, delivered>>
    BY DEF CallYield, PeekFront, Running, Assign, Goto
  <1>2. entry = <<>> /\ ViewIsShared /\ aat[cpu] = at[cpu]
    BY <1>1, OutsideFacts
  <1>3. ViewIsKept
    BY <1>1, <1>2, KeptView
  <1>4. /\ DOMAIN r = DOMAIN NoLocals
        /\ r.front = peekEither(queue_priority_1, queue_priority_2)
        /\ r.from1 = (queue_priority_1 # <<>>) /\ r.back = at[cpu]
    BY MyShape DEF NoLocals
  <1>5. /\ DOMAIN local' = Threads
        /\ \A t \in Threads : DOMAIN local'[t] = DOMAIN NoLocals
        /\ my' = r
    <2> HIDE DEF r
    <2> QED
      BY <1>1, <1>4, LocalsKeepShape
  <1>6. ~Creating' /\ ~Exiting'
    <2> HIDE DEF r
    <2> QED
      BY <1>1, <1>2, <1>3, <1>4, <1>5 DEF Creating, Exiting, ViewIsKept, ViewIsShared
  <1>7. /\ ArgQ1' = queue_priority_1' /\ ArgQ2' = queue_priority_2'
        /\ ArgCurrent' = current' /\ ArgStates' = state' /\ ArgContexts' = ctx'
    BY <1>1, <1>2, <1>3, <1>6
       DEF ArgQ1, ArgQ2, ArgCurrent, ArgStates, ArgContexts, ViewIsKept, ViewIsShared,
           queues
  <1>8. Front' = peekEither(queue_priority_1, queue_priority_2)
    BY <1>1, <1>7 DEF Front, queues
  <1>9. YieldPeeked'
    <2> HIDE DEF r
    <2>1. PlainCall'
      BY <1>1, <1>2, <1>3, <1>4, <1>5 DEF PlainCall, ViewIsKept, ViewIsShared
    <2>2. YieldCall'
      BY <1>6, <1>7, <2>1 DEF YieldCall
    <2> QED
      BY <1>1, <1>2, <1>3, <1>4, <1>5, <1>7, <1>8, <2>2
         DEF YieldPeeked, ViewIsKept, ViewIsShared, queues
  <1>10. /\ at'[cpu] = "yield_peeked"
         /\ at' \in [Threads -> Places \union LibraryPoints]
         /\ at'[cpu] \in LibraryPoints
         /\ \A t \in Threads \ {cpu} : at'[t] = at[t]
    BY <1>1 DEF StepInv, PointsOK, LibraryPoints, YieldPoints
  <1>11. AtPoint'
    BY <1>1, <1>9, <1>10 DEF AtPoint
  <1> QED
    BY <1>1, <1>2, <1>5, <1>10, <1>11, EnterKeeps

LEMMA CallExitKeeps ==
  ASSUME StepInv, NEW value_ptr \in Pointers, CallExit(value_ptr)
  PROVE  StepInv'
  <1> DEFINE r == [my EXCEPT !.temp = current, !.front = peek(queue_priority_1),
                             !.next = peek(queue_priority_2), !.value = value_ptr]
  <1>1. /\ proc = "up" /\ at[cpu] = "user"
        /\ local' = [local EXCEPT ![cpu] = r]
        /\ at' = [at EXCEPT ![cpu] = "exit_peeked"]
        /\ Enter
        /\ UNCHANGED <<queues, current, threadIDS, isInitialized, armed, state,
                       return_value, ctx, cpu, target, proc, passed, delivered>>
    BY DEF CallExit, Running, Assign, Goto
  <1>2. entry = <<>> /\ ViewIsShared /\ aat[cpu] = at[cpu]
    BY <1>1, OutsideFacts
  <1>3. ViewIsKept
    BY <1>1, <1>2, KeptView
  <1>4. /\ DOMAIN r = DOMAIN NoLocals
        /\ r.temp = current /\ r.front = peek(queue_priority_1)
        /\ r.next = peek(queue_priority_2) /\ r.value = value_ptr
    BY MyShape DEF NoLocals
  <1>5. /\ DOMAIN local' = Threads
        /\ \A t \in Threads : DOMAIN local'[t] = DOMAIN NoLocals
        /\ my' = r
    <2> HIDE DEF r
    <2> QED
      BY <1>1, <1>4, LocalsKeepShape
  <1>6. ExitPeeked'
    <2> HIDE DEF r
    <2> QED
      BY <1>1, <1>2, <1>3, <1>4, <1>5
         DEF ExitPeeked, ExitCall, ViewIsKept, ViewIsShared, queues
  <1>7. /\ at'[cpu] = "exit_peeked"
        /\ at' \in [Threads -> Places \union LibraryPoints]
        /\ at'[cpu] \in LibraryPoints
        /\ \A t \in Threads \ {cpu} : at'[t] = at[t]
    BY <1>1 DEF StepInv, PointsOK, LibraryPoints, ExitPoints
  <1>8. AtPoint'
    BY <1>1, <1>6, <1>7 DEF AtPoint
  <1> QED
    BY <1>1, <1>2, <1>5, <1>7, <1>8, EnterKeeps

LEMMA CallCreateKeeps ==
  ASSUME StepInv, NEW garbage \in Pointers, CallCreate(garbage)
  PROVE  StepInv'
  <1> DEFINE r == [my EXCEPT !.node = threadIDS]
  <1>1. /\ proc = "up" /\ at[cpu] = "user" /\ threadIDS < MaxThreads
        /\ return_value' = [return_value EXCEPT ![threadIDS] = garbage]
        /\ local' = [local EXCEPT ![cpu] = r]
        /\ at' = [at EXCEPT ![cpu] = "create_numbered"]
        /\ Enter
        /\ UNCHANGED <<queues, current, threadIDS, isInitialized, armed, state, ctx,
                       cpu, target, proc, passed, delivered>>
    BY DEF CallCreate, Running, Assign, Goto
  <1>2. entry = <<>> /\ ViewIsShared /\ aat[cpu] = at[cpu]
    BY <1>1, OutsideFacts
  <1>3. ViewIsKept
    BY <1>1, <1>2, KeptView
  <1>4. /\ DOMAIN r = DOMAIN NoLocals /\ r.node = threadIDS
    BY MyShape DEF NoLocals
  <1>5. /\ DOMAIN local' = Threads
        /\ \A t \in Threads : DOMAIN local'[t] = DOMAIN NoLocals
        /\ my' = r
    <2> HIDE DEF r
    <2> QED
      BY <1>1, <1>4, LocalsKeepShape
  \* The caller is not the new thread, which has no descriptor.
  <1>6. cpu # threadIDS
    <2>1. threadIDS \in 1..MaxThreads /\ cpu < threadIDS
      BY <1>2, LibFacts DEF StepInv, ViewIsShared
    <2> QED
      BY <2>1
  <1>7. /\ at'[cpu] = "create_numbered"
        /\ at' \in [Threads -> Places \union LibraryPoints]
        /\ at'[cpu] \in LibraryPoints
        /\ \A t \in Threads \ {cpu} : at'[t] = at[t]
    BY <1>1 DEF StepInv, PointsOK, LibraryPoints, CreatePoints
  <1>8. CreateNumbered' /\ threadIDS' = athreadIDS'
    <2> HIDE DEF r
    <2> QED
      BY <1>1, <1>2, <1>3, <1>4, <1>5, <1>6
         DEF CreateNumbered, ViewIsKept, ViewIsShared, queues
  <1>9. AtPoint'
    BY <1>1, <1>7, <1>8 DEF AtPoint
  <1> QED
    BY <1>1, <1>2, <1>5, <1>7, <1>9, EnterKeeps

-----------------------------------------------------------------------------
(* The end of a call.                                                      *)

\* A thread that gets the processor back while threads are queued is one of
\* them, so it is not one that lost it inside my_pthread_exit.
LEMMA ResumedOutside ==
  ASSUME Lib!SchedulerInvariant', entry' = <<>>, cpu' \in Threads,
         current' # NULL
  PROVE  at'[cpu'] \notin SafePoints
  <1> SUFFICES ASSUME at'[cpu'] \in SafePoints
               PROVE  FALSE
    OBVIOUS
  <1>1. ViewIsShared'
    BY SharedViewAfter
  <1>2. aat'[cpu'] = "exited"
    <2>1. \A p \in SafePoints : Settled(p) = "exited"
      BY DEF Settled, SafePoints
    <2>2. aat' = [t \in Threads |-> Settled(at'[t])]
      BY <1>1 DEF ViewIsShared
    <2> QED
      BY <2>1, <2>2
  <1>3. astate'[cpu'] \in {"COMPLETED", "FREED"}
    BY <1>2, LibQueues DEF Lib!SchedulerInvariant, Lib!ExitCompletesCaller
  <1>4. /\ acurrent' = Lib!peekEither(aq1', aq2') /\ acurrent' # NULL
        /\ acpu' = acurrent'
    BY <1>1 DEF Lib!SchedulerInvariant, Lib!RunningIsFront, Lib!peekEither, Lib!peek,
                ViewIsShared
  <1>5. Lib!Consistent(aq1', aq2', astate')
    BY DEF Lib!SchedulerInvariant, Lib!Consistent
  <1>6. astate'[acurrent'] = "ACTIVE"
    BY <1>4, <1>5, LibAssumptions, Lib!FrontFacts DEF Lib!FrontFacts
  <1> QED
    BY <1>1, <1>3, <1>4, <1>6 DEF ViewIsShared

\* The state after a step that ends the call.
LEMMA LeaveKeeps ==
  ASSUME StepInv, [Lib!Next]_(Lib!vars), entry' = <<>>,
         cpu' \in Threads,
         at' \in [Threads -> Places \union LibraryPoints],
         \A t \in Threads : at'[t] \in Places \union SafePoints,
         current' # NULL \/ at'[cpu'] \notin LibraryPoints,
         DOMAIN local' = Threads,
         \A t \in Threads : DOMAIN local'[t] = DOMAIN NoLocals
  PROVE  StepInv'
  <1>1. Lib!SchedulerInvariant'
    BY LibNextPreserves DEF StepInv
  <1>2. at'[cpu'] \notin LibraryPoints
    <2>1. Places \intersect LibraryPoints = {}
      BY DEF Places, LibraryPoints, ExitPoints, CreatePoints, YieldPoints
    <2> QED
      BY <1>1, <2>1, ResumedOutside
  <1>3. PointsOK'
    BY DEF PointsOK
  <1> QED
    BY <1>1, <1>2, <1>3 DEF StepInv, CallInv

\* What my_pthread_yield is called with is a pair of queues.
LEMMA ArgTypes ==
  ASSUME StepInv, YieldCall
  PROVE  ArgQ1 \in Seq(Threads) /\ ArgQ2 \in Seq(Threads)
  <1>1. aq1 \in Seq(Threads) /\ aq2 \in Seq(Threads) /\ athreadIDS \in 1..MaxThreads
    BY LibFacts DEF StepInv
  <1>2. ASSUME NEW q \in Seq(Threads)
        PROVE  dequeue(q) \in Seq(Threads)
    BY DEF dequeue
  <1>3. ExitQ1 \in Seq(Threads) /\ ExitQ2 \in Seq(Threads)
    BY <1>1, <1>2 DEF ExitQ1, ExitQ2
  <1>4. ASSUME Creating
        PROVE  CreateQ1 \in Seq(Threads)
    <2>1. athreadIDS < MaxThreads
      BY <1>4 DEF YieldCall, CreateCall, Exiting
    <2>2. athreadIDS \in Threads /\ Main \in Threads
      BY <1>1, <2>1, MaxThreadsAssumption DEF Threads, Main
    <2> QED
      BY <1>1, <2>2 DEF CreateQ1, NewQ1, enqueue
  <1> QED
    BY <1>1, <1>3, <1>4 DEF ArgQ1, ArgQ2

\* The last step of my_pthread_yield completes the atomic one.
LEMMA SwitchYields ==
  ASSUME StepInv, Switch
  PROVE  /\ Lib!my_pthread_yield(ArgQ1, ArgQ2, ArgCurrent, ArgStates, ArgContexts)
         /\ current' # NULL
         /\ YieldCall
  <1>1. /\ at[cpu] = "yield_timed" /\ proc = "up"
        /\ ctx' = IF my.temp = NULL THEN ctx ELSE [ctx EXCEPT ![my.temp] = cpu]
        /\ cpu' = ctx'[my.next]
        /\ entry' = <<>>
        /\ UNCHANGED <<queues, current, armed, state>>
    BY DEF Switch, Running, Leave, swapcontext
  <1>2. InCall
    BY <1>1 DEF StepInv, CallInv, LibraryPoints, YieldPoints
  <1>3. /\ YieldChosen /\ cpu = acpu
        /\ armed = CASE my.priority = 0 -> FALSE
                     [] my.priority = 1 -> TRUE
                     [] my.priority = 2 -> aarmed
    BY <1>1, <1>2 DEF InCall, AtPoint
  <1>4. ViewIsShared'
    BY <1>1, SharedViewAfter
  <1>5. ctx = ArgContexts
    BY <1>3 DEF YieldChosen, YieldCall
  <1>6. CASE /\ ArgCurrent # Front
             /\ queue_priority_1 = ArgQ1 /\ queue_priority_2 = ArgQ2
             /\ current = Front /\ state = ArgStates
             /\ my.next = Front /\ my.priority = 0
    <2>1. Lib!YieldToFront(ArgQ1, ArgQ2, ArgCurrent, ArgStates, ArgContexts)
      BY <1>1, <1>3, <1>4, <1>5, <1>6, LibQueues
         DEF Lib!YieldToFront, Lib!setitimer, Lib!swapcontext, YieldChosen,
             ViewIsShared, Front, queues
    <2> QED
      BY <1>1, <1>3, <1>6, <2>1 DEF Lib!my_pthread_yield, YieldChosen
  <1>7. CASE /\ ArgCurrent = Front
             /\ queue_priority_1 = dequeue(ArgQ1) /\ queue_priority_2 = Back2
             /\ current = NextFront
             /\ NextFront # NULL
             /\ state = [ArgStates EXCEPT ![NextFront] = "ACTIVE"]
             /\ my.next = NextFront
             /\ my.priority = IF dequeue(ArgQ1) # <<>> THEN 1 ELSE 2
    <2>1. Lib!YieldRotate(ArgQ1, ArgQ2, ArgCurrent, ArgStates, ArgContexts)
      BY <1>1, <1>3, <1>4, <1>5, <1>7, LibQueues
         DEF Lib!YieldRotate, Lib!setitimer, Lib!swapcontext, YieldChosen,
             ViewIsShared, Front, Rest2, Back2, NextFront, queues
    <2> QED
      BY <1>1, <1>3, <1>7, <2>1 DEF Lib!my_pthread_yield, YieldChosen
  <1> QED
    BY <1>3, <1>6, <1>7 DEF YieldChosen

LEMMA EmptyYields ==
  ASSUME StepInv, ReturnEmpty
  PROVE  /\ Lib!my_pthread_yield(ArgQ1, ArgQ2, ArgCurrent, ArgStates, ArgContexts)
         /\ YieldCall
  <1>1. /\ at[cpu] = "yield_peeked" /\ proc = "up" /\ my.front = NULL
        /\ entry' = <<>>
        /\ UNCHANGED <<queues, current, armed, state, ctx, cpu>>
    BY DEF ReturnEmpty, Running, Leave
  <1>2. InCall
    BY <1>1 DEF StepInv, CallInv, LibraryPoints, YieldPoints
  <1>3. YieldPeeked /\ cpu = acpu
    BY <1>1, <1>2 DEF InCall, AtPoint
  <1>4. ViewIsShared'
    BY <1>1, SharedViewAfter
  <1>5. ArgQ1 = <<>> /\ ArgQ2 = <<>>
    <2>1. ArgQ1 \in Seq(Threads) /\ ArgQ2 \in Seq(Threads)
      BY <1>3, ArgTypes DEF YieldPeeked
    <2>2. NULL \notin Threads
      BY NullAssumption DEF Threads
    <2>3. ASSUME NEW q \in Seq(Threads), q # <<>>
          PROVE  Head(q) # NULL
      BY <2>2, <2>3
    <2> QED
      BY <1>1, <1>3, <2>1, <2>3 DEF YieldPeeked, Front, peekEither, peek
  <1>6. Lib!YieldNoThreads(ArgQ1, ArgQ2, ArgCurrent, ArgStates, ArgContexts)
    BY <1>1, <1>3, <1>4, <1>5
       DEF Lib!YieldNoThreads, YieldPeeked, YieldCall, ViewIsShared, queues
  <1> QED
    BY <1>3, <1>6 DEF Lib!my_pthread_yield, YieldPeeked

\* my_pthread_yield's end is the end of the call it belongs to.
LEMMA LeaveIsNext ==
  ASSUME StepInv, InCall, YieldCall, entry' = <<>>,
         at' = [at EXCEPT ![cpu] = my.back],
         UNCHANGED <<threadIDS, isInitialized, return_value, target, proc, passed,
                     delivered>>,
         Lib!my_pthread_yield(ArgQ1, ArgQ2, ArgCurrent, ArgStates, ArgContexts)
  PROVE  Lib!Next
  <1>1. ViewIsShared'
    BY SharedViewAfter
  <1>2. /\ cpu = acpu /\ cpu \in Threads /\ target = atarget /\ proc = aproc
        /\ aproc = "up" /\ delivered = adelivered
        /\ aat \in [Threads -> Places]
        /\ at \in [Threads -> Places \union LibraryPoints]
    BY LibFacts DEF StepInv, PointsOK, InCall
  <1>3. \A t \in Threads \ {cpu} :
           ~(Creating /\ t = athreadIDS) => Settled(at'[t]) = aat[t]
    BY <1>2 DEF InCall
  <1>4. at'[cpu] = my.back
    BY <1>2
  <1>5. aat' = [t \in Threads |-> Settled(at'[t])]
    BY <1>1 DEF ViewIsShared
  <1>6. \A p \in Places : Settled(p) = p
    BY DEF Places, Settled, SafePoints
  <1>7. CASE Creating /\ CreateCall /\ isInitialized /\ my.back = "user"
    <2>1. at'[athreadIDS] = "user"
      BY <1>7 DEF CreateCall
    <2>2. ~Exiting
      BY <1>7 DEF Exiting
    <2>3. aat' = [aat EXCEPT ![athreadIDS] = "user"]
      <3>1. \A t \in Threads :
              Settled(at'[t]) = IF t = athreadIDS THEN "user" ELSE aat[t]
        BY <1>3, <1>4, <1>6, <1>7, <2>1 DEF CreateCall, Places
      <3> QED
        BY <1>2, <1>5, <3>1
    <2>4. PICK garbage \in Pointers :
            return_value = [areturn_value EXCEPT ![athreadIDS] = garbage]
      BY <1>7 DEF CreateCall
    <2>5. IF aisInitialized
            THEN Lib!my_pthread_yield(NewQ1, aq2, acurrent, NewStates, NewContexts)
            ELSE Lib!my_pthread_yield(enqueue(Main, NewQ1), aq2, Main,
                                      [NewStates EXCEPT ![Main] = "ACTIVE"],
                                      [NewContexts EXCEPT ![Main] = acpu])
      BY <1>7, <2>2 DEF ArgQ1, ArgQ2, ArgCurrent, ArgStates, ArgContexts, CreateQ1,
                        CreateCurrent, CreateStates, CreateContexts
    <2>6. Lib!my_pthread_create(athreadIDS, garbage)
      BY <1>1, <1>2, <1>7, <2>3, <2>4, <2>5, LibQueues
         DEF Lib!my_pthread_create, Lib!Running, Lib!NextThreadID, ViewIsShared,
             CreateCall, NewQ1, NewStates, NewContexts
    <2>7. athreadIDS \in Threads
      <3>1. athreadIDS \in 1..MaxThreads /\ athreadIDS < MaxThreads
        BY <1>7, LibFacts DEF CreateCall, StepInv
      <3> QED
        BY <3>1, MaxThreadsAssumption DEF Threads
    <2> QED
      BY <2>4, <2>6, <2>7, LibQueues DEF Lib!Next
  <1>8. CASE Exiting /\ ExitDone /\ threadIDS = athreadIDS
                /\ isInitialized = aisInitialized /\ aat[cpu] = "user"
                /\ my.value \in Pointers
    <2>1. ~Creating /\ my.back = "exited"
      BY <1>8 DEF Exiting
    <2>2. aat' = [aat EXCEPT ![acpu] = "exited"]
      <3>1. \A t \in Threads :
              Settled(at'[t]) = IF t = acpu THEN "exited" ELSE aat[t]
        BY <1>2, <1>3, <1>4, <1>6, <2>1 DEF Places
      <3> QED
        BY <1>2, <1>5, <3>1
    <2>3. Lib!my_pthread_yield(ExitQ1, ExitQ2, NULL, ExitStates, actx)
      BY <1>8, <2>1 DEF ArgQ1, ArgQ2, ArgCurrent, ArgStates, ArgContexts
    <2>4. Lib!my_pthread_exit(my.value)
      BY <1>1, <1>2, <1>8, <2>2, <2>3, LibQueues
         DEF Lib!my_pthread_exit, Lib!Running, Lib!ExitRemoves, Lib!Complete,
             Lib!StoreReturnValue, ViewIsShared, ExitDone, ExitQ1, ExitQ2, ExitTakes,
             ExitTakesFirst, ExitStates, ExitValues
    <2> QED
      BY <1>8, <2>4, LibQueues DEF Lib!Next
  <1>9. CASE ~Creating /\ ~Exiting /\ PlainCall
    <2>1. aat' = aat
      <3>1. \A t \in Threads : Settled(at'[t]) = aat[t]
        BY <1>2, <1>3, <1>4, <1>6, <1>9 DEF PlainCall, Places
      <3> QED
        BY <1>2, <1>5, <3>1
    <2>2. Lib!my_pthread_yield(aq1, aq2, acurrent, astate, actx)
      BY <1>9 DEF ArgQ1, ArgQ2, ArgCurrent, ArgStates, ArgContexts
    <2>3. Lib!Yield
      BY <1>1, <1>2, <1>9, <2>1, <2>2 DEF Lib!Yield, PlainCall, ViewIsShared
    <2> QED
      BY <1>2, <1>9, <2>3
         DEF PlainCall, Lib!Next, Lib!VoluntaryYield, Lib!JoinSpin, Lib!Running
  <1> QED
    BY <1>7, <1>8, <1>9 DEF YieldCall

-----------------------------------------------------------------------------
(* The steps that end a call.                                              *)

LEMMA EndsCall ==
  ASSUME StepInv, InCall, YieldCall, Leave, Goto(my.back),
         UNCHANGED <<threadIDS, isInitialized, return_value, target, proc, passed,
                     delivered>>,
         Lib!my_pthread_yield(ArgQ1, ArgQ2, ArgCurrent, ArgStates, ArgContexts),
         current' # NULL \/ cpu' = cpu
  PROVE  Lib!Next /\ StepInv'
  <1>1. Lib!Next
    BY LeaveIsNext DEF Leave, Goto
  <1>2. entry' = <<>> /\ ViewIsShared'
    BY SharedViewAfter DEF Leave
  <1>3. cpu' \in Threads
    <2>1. Lib!SchedulerInvariant'
      BY <1>1, LibNextPreserves DEF StepInv
    <2> QED
      BY <1>2, <2>1, LibQueues DEF Lib!SchedulerInvariant, Lib!TypeOK, ViewIsShared
  <1>4. my.back \in Places
    BY DEF YieldCall, Exiting, PlainCall, Places
  <1>5. Places \intersect LibraryPoints = {}
    BY DEF Places, LibraryPoints, ExitPoints, CreatePoints, YieldPoints
  <1>6. /\ at' \in [Threads -> Places \union LibraryPoints]
        /\ \A t \in Threads : at'[t] \in Places \union SafePoints
        /\ at'[cpu] = my.back
    BY <1>4 DEF Goto, StepInv, PointsOK
  <1>7. /\ DOMAIN local' = Threads
        /\ \A t \in Threads : DOMAIN local'[t] = DOMAIN NoLocals
    BY DEF Leave, StepInv, PointsOK
  <1>8. current' # NULL \/ at'[cpu'] \notin LibraryPoints
    BY <1>4, <1>5, <1>6
  <1> QED
    BY <1>1, <1>2, <1>3, <1>6, <1>7, <1>8, LeaveKeeps

LEMMA ReturnEmptyKeeps ==
  ASSUME StepInv, ReturnEmpty
  PROVE  Lib!Next /\ StepInv'
  <1>1. InCall
    BY DEF ReturnEmpty, Running, StepInv, CallInv, LibraryPoints, YieldPoints
  <1> QED
    BY <1>1, EmptyYields, EndsCall DEF ReturnEmpty

LEMMA SwitchKeeps ==
  ASSUME StepInv, Switch
  PROVE  Lib!Next /\ StepInv'
  <1>1. InCall
    BY DEF Switch, Running, StepInv, CallInv, LibraryPoints, YieldPoints
  <1> QED
    BY <1>1, SwitchYields, EndsCall DEF Switch

\* A yield that found current at the front was called with consistent queues.
LEMMA ArgsConsistent ==
  ASSUME StepInv, YieldCall, ~Exiting
  PROVE  Lib!Consistent(ArgQ1, ArgQ2, ArgStates)
  <1>1. CASE Creating
    <2>1. athreadIDS < MaxThreads
      BY <1>1 DEF YieldCall, CreateCall
    <2> DEFINE new == athreadIDS
    <2>2. Lib!Consistent(Lib!CreatedQueue(new), aq2, Lib!CreatedStates(new))
      <3>1. new \in Lib!Threads
        <4>1. new \in 1..MaxThreads
          BY LibFacts DEF StepInv
        <4> QED
          BY <2>1, <4>1, LibQueues, MaxThreadsAssumption DEF Threads
      <3> QED
        BY <3>1, LibAssumptions, Lib!CreatesConsistent DEF Lib!CreatesConsistent, StepInv
    <2>3. /\ Lib!CreatedQueue(new) = ArgQ1 /\ Lib!CreatedStates(new) = ArgStates
          /\ ArgQ2 = aq2
      BY <1>1, LibQueues
         DEF Lib!CreatedQueue, Lib!CreatedStates, ArgQ1, ArgQ2, ArgStates, CreateQ1,
             CreateStates, NewQ1, NewStates
    <2> QED
      BY <2>2, <2>3
  <1>2. CASE ~Creating
    <2>1. ArgQ1 = aq1 /\ ArgQ2 = aq2 /\ ArgStates = astate
      BY <1>2 DEF ArgQ1, ArgQ2, ArgStates
    <2> QED
      BY <2>1 DEF StepInv, Lib!SchedulerInvariant
  <1> QED
    BY <1>1, <1>2

\* The only NULL pointer that is followed is current, in a my_pthread_exit
\* called when there is no current thread.
LEMMA NullIsCurrent ==
  ASSUME StepInv, proc = "up", DereferencesNull
  PROVE  at[cpu] = "exit_peeked" /\ ExitPeeked /\ acurrent = NULL /\ InCall
  <1>1. InCall
    BY DEF DereferencesNull, StepInv, CallInv, LibraryPoints, ExitPoints, YieldPoints
  <1>2. /\ aq1 \in Seq(Threads) /\ aq2 \in Seq(Threads)
        /\ acurrent = peekEither(aq1, aq2)
        /\ NULL \notin Threads
    BY LibFacts DEF StepInv
  <1>3. ASSUME at[cpu] = "exit_peeked", my.temp = NULL \/ ExitQueue = <<>>
        PROVE  ExitPeeked /\ acurrent = NULL
    <2>1. ExitPeeked
      BY <1>1, <1>3 DEF InCall, AtPoint
    <2>2. CASE my.temp = NULL
      BY <2>1, <2>2 DEF ExitPeeked
    <2>3. CASE ExitQueue = <<>> /\ acurrent # NULL
      <3>1. CASE aq1 # <<>>
        <4>1. ExitFrom1
          BY <1>2, <2>1, <2>3, <3>1 DEF ExitFrom1, ExitPeeked, peekEither, peek
        <4> QED
          BY <2>1, <2>3, <3>1, <4>1 DEF ExitQueue, ExitPeeked
      <3>2. CASE aq1 = <<>>
        <4>1. ~ExitFrom1 /\ my.next # NULL /\ aq2 # <<>>
          BY <1>2, <2>1, <2>3, <3>2 DEF ExitFrom1, ExitPeeked, peekEither, peek
        <4> QED
          BY <2>1, <2>3, <4>1 DEF ExitQueue, ExitPeeked
      <3> QED
        BY <3>1, <3>2
    <2> QED
      BY <1>3, <2>1, <2>2, <2>3
  <1>4. ASSUME at[cpu] = "exit_stored", current = NULL
        PROVE  FALSE
    BY <1>1, <1>4 DEF InCall, AtPoint, ExitStored, ExitDone
  <1>5. ASSUME at[cpu] = "yield_peeked", my.front # NULL, FrontQueue = <<>>
        PROVE  FALSE
    <2>1. YieldPeeked
      BY <1>1, <1>5 DEF InCall, AtPoint
    <2> QED
      BY <1>5, <2>1 DEF YieldPeeked, FrontQueue, Front, peekEither, peek
  <1>6. ASSUME at[cpu] = "yield_requeued", NextThread = NULL
        PROVE  FALSE
    <2>1. YieldDequeued /\ queue_priority_2 = Back2
      BY <1>1, <1>6 DEF InCall, AtPoint
    <2>2. ~Exiting
      BY <2>1 DEF YieldDequeued, ArgCurrent, Exiting
    <2>3. ArgStates[Front] = "ACTIVE" /\ Front \in Threads
      <3>1. Lib!Consistent(ArgQ1, ArgQ2, ArgStates)
        BY <2>1, <2>2, ArgsConsistent DEF YieldDequeued
      <3>2. Lib!peekEither(ArgQ1, ArgQ2) # NULL
        BY <2>1, LibQueues DEF YieldDequeued, Front
      <3>3. /\ ArgStates[Lib!peekEither(ArgQ1, ArgQ2)] = "ACTIVE"
            /\ Lib!peekEither(ArgQ1, ArgQ2) \in Lib!Threads
        BY <3>1, <3>2, LibAssumptions, Lib!FrontFacts DEF Lib!FrontFacts
      <3> QED
        BY <3>3, LibQueues DEF Front
    <2>4. ArgQ1 \in Seq(Threads) /\ ArgQ2 \in Seq(Threads)
      BY <2>1, ArgTypes DEF YieldDequeued
    <2>5. dequeue(ArgQ1) \in Seq(Threads) /\ Rest2 \in Seq(Threads)
      BY <2>4 DEF dequeue, Rest2
    <2>6. Back2 = Append(Rest2, Front)
      BY <2>3 DEF Back2, enqueue
    <2>7. Back2 \in Seq(Threads) /\ Back2 # <<>>
      BY <2>3, <2>5, <2>6
    <2>8. ASSUME NEW q \in Seq(Threads), q # <<>>
          PROVE  peek(q) # NULL
      BY <1>2, <2>8 DEF peek
    <2> QED
      BY <1>6, <2>1, <2>5, <2>7, <2>8 DEF NextThread, NextFrom1, YieldDequeued
  <1> QED
    BY <1>1, <1>3, <1>4, <1>5, <1>6 DEF DereferencesNull

LEMMA NullDereferenceKeeps ==
  ASSUME StepInv, NullDereference
  PROVE  Lib!Next /\ StepInv'
  <1>1. /\ proc = "up" /\ DereferencesNull /\ proc' = "crashed" /\ entry' = <<>>
        /\ UNCHANGED <<queues, current, threadIDS, isInitialized, armed, state,
                       return_value, ctx, cpu, at, target, passed, delivered, local>>
    BY DEF NullDereference
  <1>2. at[cpu] = "exit_peeked" /\ ExitPeeked /\ acurrent = NULL /\ InCall
    BY <1>1, NullIsCurrent
  <1>3. ViewIsShared'
    BY <1>1, SharedViewAfter
  <1>4. aat' = aat
    <2>1. aat \in [Threads -> Places]
      BY LibFacts DEF StepInv
    <2>2. \A t \in Threads : Settled(at'[t]) = aat[t]
      <3>1. ~Creating
        BY <1>2 DEF ExitPeeked, ExitCall, Creating
      <3>2. \A t \in Threads \ {cpu} : Settled(at[t]) = aat[t]
        BY <1>2, <3>1 DEF InCall
      <3>3. Settled(at[cpu]) = aat[cpu]
        BY <1>2 DEF ExitPeeked, ExitCall, Settled, SafePoints
      <3> QED
        BY <1>1, <3>2, <3>3
    <2>3. aat' = [t \in Threads |-> Settled(at'[t])]
      BY <1>3 DEF ViewIsShared
    <2> QED
      BY <2>1, <2>2, <2>3
  <1>5. Lib!ExitWithoutCurrent
    BY <1>1, <1>2, <1>3, <1>4
       DEF Lib!ExitWithoutCurrent, Lib!Running, Lib!queues, queues, ViewIsShared,
           ExitPeeked, ExitCall, InCall
  <1>6. Lib!Next
    BY <1>5 DEF Lib!Next
  <1>7. Lib!SchedulerInvariant'
    BY <1>6, LibNextPreserves DEF StepInv
  <1>8. PointsOK'
    BY <1>1 DEF PointsOK, StepInv
  <1> QED
    BY <1>1, <1>6, <1>7, <1>8 DEF StepInv, CallInv

-----------------------------------------------------------------------------
(* The steps outside the library, and the timer signal.                    *)

\* A step taken outside the library that is one of the atomic library.
LEMMA OutsideKeeps ==
  ASSUME StepInv, proc = "up", entry = <<>>, entry' = <<>>, local' = local,
         Lib!Next, NEW place \in Places,
         at' = at \/ at' = [at EXCEPT ![cpu] = place],
         current' # NULL \/ cpu' = cpu
  PROVE  StepInv'
  <1>1. ViewIsShared'
    BY SharedViewAfter
  <1>2. cpu' \in Threads
    <2>1. Lib!SchedulerInvariant'
      BY LibNextPreserves DEF StepInv
    <2> QED
      BY <1>1, <2>1, LibQueues DEF Lib!SchedulerInvariant, Lib!TypeOK, ViewIsShared
  <1>3. at[cpu] \notin LibraryPoints
    BY DEF StepInv, CallInv
  <1>4. Places \intersect LibraryPoints = {} /\ SafePoints \subseteq LibraryPoints
    BY DEF Places, SafePoints, LibraryPoints, ExitPoints, CreatePoints, YieldPoints
  <1>5. /\ at' \in [Threads -> Places \union LibraryPoints]
        /\ \A t \in Threads : at'[t] \in Places \union SafePoints
        /\ at'[cpu] \notin LibraryPoints
    BY <1>3, <1>4 DEF StepInv, PointsOK
  <1>6. current' # NULL \/ at'[cpu'] \notin LibraryPoints
    BY <1>5
  <1>7. /\ DOMAIN local' = Threads
        /\ \A t \in Threads : DOMAIN local'[t] = DOMAIN NoLocals
    BY DEF StepInv, PointsOK
  <1> QED
    BY <1>2, <1>5, <1>6, <1>7, LeaveKeeps

\* The executing thread's place as the atomic library sees it.
LEMMA SettledMoves ==
  ASSUME StepInv, ViewIsShared, ViewIsShared', NEW place \in Places,
         at' = [at EXCEPT ![cpu] = place]
  PROVE  aat' = [aat EXCEPT ![acpu] = place]
  <1>1. \A p \in Places : Settled(p) = p
    BY DEF Places, Settled, SafePoints
  <1>2. /\ cpu \in Threads /\ acpu = cpu
        /\ aat = [t \in Threads |-> Settled(at[t])]
        /\ aat' = [t \in Threads |-> Settled(at'[t])]
        /\ at \in [Threads -> Places \union LibraryPoints]
    BY DEF ViewIsShared, StepInv, PointsOK
  <1> QED
    BY <1>1, <1>2

LEMMA JoinStepKeeps ==
  ASSUME StepInv, JoinStep
  PROVE  Lib!Next /\ StepInv'
  <1>1. /\ proc = "up" /\ at[cpu] \in {"user", "join"}
        /\ local' = local /\ entry' = entry /\ cpu' = cpu
    BY DEF JoinStep, JoinCall, JoinReturn, Running
  <1>2. entry = <<>> /\ ViewIsShared /\ aat[cpu] = at[cpu] /\ ViewIsShared'
    BY <1>1, OutsideFacts, SharedViewAfter
  <1>3. ASSUME NEW u \in Threads, JoinCall(u)
        PROVE  Lib!Next /\ StepInv'
    <2>1. at' = [at EXCEPT ![cpu] = "join"] /\ "join" \in Places
      BY <1>3 DEF JoinCall, Places
    <2>2. aat' = [aat EXCEPT ![acpu] = "join"]
      BY <1>2, <2>1, SettledMoves
    <2>3. Lib!JoinCall(u)
      BY <1>2, <1>3, <2>2, LibQueues
         DEF JoinCall, Lib!JoinCall, Running, Lib!Running, ViewIsShared, queues,
             Lib!queues
    <2>4. Lib!Next
      BY <2>3, LibQueues DEF Lib!Next
    <2> QED
      BY <1>1, <1>2, <2>1, <2>4, OutsideKeeps
  <1>4. ASSUME JoinReturn
        PROVE  Lib!Next /\ StepInv'
    <2>1. at' = [at EXCEPT ![cpu] = "user"] /\ "user" \in Places
      BY <1>4 DEF JoinReturn, Places
    <2>2. aat' = [aat EXCEPT ![acpu] = "user"]
      BY <1>2, <2>1, SettledMoves
    <2>3. Lib!JoinReturn
      BY <1>2, <1>4, <2>2
         DEF JoinReturn, Lib!JoinReturn, Running, Lib!Running, ViewIsShared, queues,
             Lib!queues
    <2>4. Lib!Next
      BY <2>3 DEF Lib!Next
    <2> QED
      BY <1>1, <1>2, <2>1, <2>4, OutsideKeeps
  <1> QED
    BY <1>3, <1>4 DEF JoinStep

\* When the process ends no call is under way.
LEMMA ProcessEndKeeps ==
  ASSUME StepInv, ProcessEnd
  PROVE  [Lib!Next]_(Lib!vars) /\ StepInv'
  <1>1. CASE ReturnFromFunction
    <2>1. /\ proc = "up" /\ at[cpu] \in {"user", "exited"}
          /\ proc' = "ended" /\ entry' = entry /\ local' = local
          /\ UNCHANGED <<queues, current, threadIDS, isInitialized, armed, state,
                         return_value, ctx, cpu, at, target, passed, delivered>>
      BY <1>1 DEF ReturnFromFunction, ProcessEnd, Running
    <2>2. at[cpu] \notin LibraryPoints /\ Settled(at[cpu]) = at[cpu]
      BY <2>1 DEF LibraryPoints, ExitPoints, CreatePoints, YieldPoints, Settled,
                  SafePoints
    <2>3. entry = <<>> /\ ViewIsShared /\ ViewIsShared'
      BY <2>1, <2>2, SharedView, SharedViewAfter DEF StepInv, CallInv, InCall
    <2>4. aat' = aat /\ aat[acpu] \in {"user", "exited"}
      BY <2>1, <2>2, <2>3 DEF ViewIsShared, StepInv, PointsOK
    <2>5. Lib!ReturnFromFunction
      BY <2>1, <2>3, <2>4
         DEF Lib!ReturnFromFunction, Lib!Running, ViewIsShared, queues, Lib!queues
    <2>6. Lib!Next
      BY <2>5 DEF Lib!Next
    <2>7. Lib!SchedulerInvariant'
      BY <2>6, LibNextPreserves DEF StepInv
    <2>8. PointsOK'
      BY <2>1 DEF PointsOK, StepInv
    <2> QED
      BY <2>1, <2>3, <2>6, <2>7, <2>8 DEF StepInv, CallInv
  <1>2. CASE Terminated
    <2>1. /\ proc # "up" /\ entry' = entry /\ local' = local
          /\ UNCHANGED <<queue_priority_1, queue_priority_2, current, threadIDS,
                         isInitialized, armed, state, return_value, ctx, cpu, at,
                         target, proc, passed, delivered>>
      BY <1>2 DEF Terminated, ProcessEnd, vars
    <2>2. entry = <<>> /\ ViewIsShared /\ ViewIsShared'
      BY <2>1, SharedView, SharedViewAfter DEF StepInv, CallInv, InCall
    <2>3. UNCHANGED Lib!vars
      BY <2>1, <2>2 DEF Lib!vars, ViewIsShared
    <2>4. Lib!SchedulerInvariant'
      BY <2>3, LibNextPreserves DEF StepInv
    <2>5. PointsOK'
      BY <2>1 DEF PointsOK, StepInv
    <2> QED
      BY <2>1, <2>2, <2>3, <2>4, <2>5 DEF StepInv, CallInv
  <1> QED
    BY <1>1, <1>2 DEF ProcessEnd

\* The handler's my_pthread_yield outside the library.
LEMMA TickOutside ==
  ASSUME StepInv, Tick, at[cpu] \in {"user", "join"}
  PROVE  Lib!Next /\ StepInv'
  <1>1. /\ proc = "up" /\ armed /\ Yield /\ local' = local
        /\ entry' = IF cpu' = cpu THEN entry ELSE <<>>
    BY DEF Tick
  <1>2. entry = <<>> /\ entry' = <<>> /\ ViewIsShared /\ ViewIsShared'
    BY <1>1, OutsideFacts, SharedViewAfter
  <1>3. aat[acpu] = at[cpu] /\ aproc = "up"
    BY <1>1, <1>2, OutsideFacts DEF ViewIsShared
  <1>4. aat' = aat /\ at' = at
    BY <1>1, <1>2 DEF Yield, ViewIsShared
  <1>5. Lib!my_pthread_yield(aq1, aq2, acurrent, astate, actx)
    BY <1>1, <1>2, LibQueues
       DEF Yield, ViewIsShared, my_pthread_yield, YieldNoThreads, YieldToFront,
           YieldRotate, setitimer, swapcontext, Lib!my_pthread_yield,
           Lib!YieldNoThreads, Lib!YieldToFront, Lib!YieldRotate, Lib!setitimer,
           Lib!swapcontext
  <1>6. Lib!Yield
    BY <1>1, <1>2, <1>4, <1>5 DEF Yield, Lib!Yield, ViewIsShared
  <1>7. Lib!Next
    BY <1>1, <1>2, <1>3, <1>6 DEF Lib!Next, Lib!timer_handler, Lib!Running, ViewIsShared
  <1>8. current' # NULL \/ cpu' = cpu
    <2>1. /\ Lib!TypeOK /\ Lib!Consistent(aq1, aq2, astate) /\ Lib!OwnContexts(actx)
          /\ Lib!RunningIsFront
      BY DEF StepInv, Lib!SchedulerInvariant
    <2>2. /\ acurrent \in Lib!Threads \union {NULL}
          /\ astate \in [Lib!Threads -> Lib!States]
          /\ acurrent # NULL => acpu = acurrent
          /\ aq1 = <<>> /\ aq2 = <<>> => acurrent = NULL
      BY <2>1 DEF Lib!TypeOK, Lib!States, Lib!RunningIsFront, Lib!peekEither, Lib!peek
    <2>3. Lib!Dispatched(astate')
      BY <1>5, <2>1, <2>2, LibAssumptions, Lib!YieldFacts DEF Lib!YieldFacts, Lib!Dispatched
    <2> QED
      BY <1>2, <2>3 DEF Lib!Dispatched, ViewIsShared
  <1> QED
    BY <1>1, <1>2, <1>4, <1>7, <1>8, OutsideKeeps DEF Places

\* A thread that is done with its descriptor is no longer in the queues.
LEMMA ExitedIsNotFront ==
  ASSUME StepInv, cpu = acpu, acurrent # NULL
  PROVE  /\ ExitTakes = cpu
         /\ ExitQ1 \in Seq(Threads) /\ ExitQ2 \in Seq(Threads)
         /\ peekEither(ExitQ1, ExitQ2) # cpu
         /\ peekEither(ExitQ1, ExitQ2) \in Threads \union {NULL}
  <1>1. /\ aq1 \in Seq(Threads) /\ aq2 \in Seq(Threads)
        /\ acurrent = peekEither(aq1, aq2) /\ acpu = acurrent
        /\ cpu \in Threads /\ NULL \notin Threads
    BY LibFacts DEF StepInv
  <1>2. aq1 # <<>> => ExitTakesFirst
    BY <1>1 DEF ExitTakesFirst, peekEither, peek
  <1>3. aq1 = <<>> => ~ExitTakesFirst /\ aq1 = dequeue(aq1) /\ peek(aq2) = acurrent
    BY <1>1 DEF ExitTakesFirst, peekEither, peek, dequeue
  <1>4. /\ ExitTakes = cpu /\ ExitQ1 = dequeue(aq1)
        /\ ExitQ2 = IF aq1 # <<>> THEN aq2 ELSE dequeue(aq2)
    BY <1>1, <1>2, <1>3 DEF ExitTakes, ExitQ1, ExitQ2
  <1>5. /\ ExitQ1 \in Seq(Threads) /\ ExitQ2 \in Seq(Threads)
        /\ cpu \notin Range(ExitQ1) \union Range(ExitQ2)
    <2>1. Lib!Consistent(aq1, aq2, astate) /\ Lib!peekEither(aq1, aq2) # NULL
      BY <1>1, LibQueues DEF StepInv, Lib!SchedulerInvariant
    <2>2. /\ Lib!dequeue(aq1) \in Seq(Lib!Threads)
          /\ (IF aq1 # <<>> THEN aq2 ELSE Lib!dequeue(aq2)) \in Seq(Lib!Threads)
          /\ Lib!Range(Lib!dequeue(aq1))
               \union Lib!Range(IF aq1 # <<>> THEN aq2 ELSE Lib!dequeue(aq2))
               = (Lib!Range(aq1) \union Lib!Range(aq2)) \ {Lib!peekEither(aq1, aq2)}
      BY <2>1, LibAssumptions, Lib!TakeFrontFacts DEF Lib!TakeFrontFacts
    <2> QED
      BY <1>1, <1>4, <2>2, LibQueues DEF Lib!Range, Range
  <1>6. ASSUME NEW q \in Seq(Threads), q # <<>>
        PROVE  Head(q) \in Range(q) /\ Head(q) \in Threads
    BY <1>6 DEF Range
  <1> QED
    BY <1>1, <1>4, <1>5, <1>6 DEF peekEither, peek

\* A step that changes nothing.
LEMMA StutterKeeps ==
  ASSUME StepInv, UNCHANGED stepVars
  PROVE  UNCHANGED Lib!vars /\ StepInv'
  <1>1. UNCHANGED <<queue_priority_1, queue_priority_2, current, threadIDS,
                    isInitialized, armed, state, return_value, ctx, cpu, at,
                    target, proc, passed, delivered, local, entry>>
    BY DEF stepVars, vars
  <1>2. View' = View
    BY <1>1 DEF View, Committed
  <1>3. ViewIsKept
    BY <1>2 DEF ViewIsKept, aq1, aq2, acurrent, athreadIDS,
                aisInitialized, aarmed, astate, areturn_value, actx, acpu, aat,
                atarget, aproc, apassed, adelivered
  <1>4. UNCHANGED Lib!vars
    BY <1>3 DEF ViewIsKept, Lib!vars
  <1>5. CASE entry = <<>>
    <2>1. Lib!SchedulerInvariant'
      BY <1>4, LibNextPreserves DEF StepInv
    <2>2. PointsOK'
      BY <1>1 DEF PointsOK, StepInv
    <2> QED
      BY <1>1, <1>4, <1>5, <2>1, <2>2 DEF StepInv, CallInv
  <1>6. CASE entry # <<>>
    <2>1. InCall /\ my' = my
      BY <1>1, <1>6 DEF StepInv, CallInv, my
    <2>2. Moves(at[cpu]) /\ at[cpu] \in LibraryPoints /\ at'[cpu'] = at[cpu]
      BY <1>1, <2>1 DEF Moves, InCall, StepInv, PointsOK
    <2>3. ArgsAreKept /\ (YieldCall => YieldCall')
      BY <1>1, <1>3, <2>1, <2>2, ArgsKept, YieldCallKept
    <2>4. /\ ExitQ1' = ExitQ1 /\ ExitQ2' = ExitQ2 /\ ExitStates' = ExitStates
          /\ ExitTakes' = ExitTakes /\ ExitValues' = ExitValues
      BY <1>3, <2>1 DEF ViewIsKept, ExitQ1, ExitQ2, ExitStates, ExitTakes,
                        ExitTakesFirst, ExitValues
    <2>5. /\ NewQ1' = NewQ1 /\ NewStates' = NewStates /\ NewContexts' = NewContexts
          /\ CreateQ1' = CreateQ1 /\ CreateCurrent' = CreateCurrent
          /\ CreateStates' = CreateStates /\ CreateContexts' = CreateContexts
      BY <1>3 DEF ViewIsKept, NewQ1, NewStates, NewContexts, CreateQ1, CreateCurrent,
                  CreateStates, CreateContexts
    <2>6. /\ ExitPeeked => ExitPeeked'
          /\ ExitDequeued => ExitDequeued'
          /\ ExitCompleted => ExitCompleted'
          /\ ExitStored => ExitStored'
      BY <1>1, <1>3, <2>1, <2>4
         DEF ExitPeeked, ExitDequeued, ExitCompleted, ExitStored, ExitCall, ExitDone, ViewIsKept
    <2>7. /\ CreateNumbered => CreateNumbered'
          /\ CreateMade => CreateMade'
          /\ CreateReady => CreateReady'
      BY <1>1, <1>3, <2>1, <2>5 DEF CreateNumbered, CreateMade, CreateReady, CreateCall, ViewIsKept
    <2>8. /\ YieldPeeked => YieldPeeked'
          /\ YieldDequeued => YieldDequeued'
          /\ YieldNext => YieldNext'
          /\ YieldChosen => YieldChosen'
      BY <1>1, <1>3, <2>1, <2>3
         DEF YieldPeeked, YieldDequeued, YieldNext, YieldChosen, ArgsAreKept, ViewIsKept
    <2>9. AtPoint'
      <3>1. CASE at[cpu] \in ExitPoints
        BY <1>1, <1>3, <2>1, <2>2, <2>6, <3>1 DEF InCall, AtPoint, ExitPoints, ViewIsKept
      <3>2. CASE at[cpu] \in CreatePoints
        BY <1>1, <1>3, <2>1, <2>2, <2>5, <2>7, <3>2
           DEF InCall, AtPoint, CreatePoints, ViewIsKept
      <3>3. CASE at[cpu] \in YieldPoints \ {"yield_timed"}
        BY <1>1, <1>3, <2>1, <2>2, <2>3, <2>8, <3>3
           DEF InCall, AtPoint, YieldPoints, ArgsAreKept, ViewIsKept
      <3>4. CASE at[cpu] = "yield_timed"
        <4>1. YieldChosen /\ armed = CASE my.priority = 0 -> FALSE
                                       [] my.priority = 1 -> TRUE
                                       [] my.priority = 2 -> aarmed
          BY <2>1, <3>4 DEF InCall, AtPoint
        <4> QED
          BY <1>1, <1>3, <2>1, <2>2, <2>8, <3>4, <4>1 DEF AtPoint, ViewIsKept
      <3> QED
        BY <2>2, <3>1, <3>2, <3>3, <3>4 DEF LibraryPoints
    <2>10. /\ DOMAIN local' = Threads
           /\ \A t \in Threads : DOMAIN local'[t] = DOMAIN NoLocals
      BY <1>1 DEF StepInv, PointsOK
    <2> QED
      BY <1>1, <1>4, <1>6, <2>2, <2>9, <2>10, MoveKeeps
  <1> QED
    BY <1>5, <1>6

\* A signal at one of the SafePoints: the handler performs the dispatch that
\* my_pthread_exit is about to perform, and the call never continues.
LEMMA TickInside ==
  ASSUME StepInv, Tick, at[cpu] \in SafePoints
  PROVE  [Lib!Next]_(Lib!vars) /\ StepInv'
  <1>1. /\ proc = "up" /\ armed /\ Yield /\ local' = local
        /\ entry' = IF cpu' = cpu THEN entry ELSE <<>>
    BY DEF Tick
  <1>2. InCall /\ entry # <<>>
    BY <1>1 DEF StepInv, CallInv, SafePoints, LibraryPoints, ExitPoints
  <1>3. ExitStored /\ current \in {acurrent, NULL}
    BY <1>2 DEF InCall, AtPoint, SafePoints
  <1>4. /\ cpu = acpu /\ acurrent # NULL /\ acurrent = acpu
        /\ target = atarget /\ proc = aproc /\ delivered = adelivered
        /\ threadIDS = athreadIDS /\ isInitialized = aisInitialized
        /\ armed = aarmed /\ ctx = actx /\ aat[cpu] = "user"
        /\ my.value \in Pointers /\ return_value = ExitValues
        /\ passed = [apassed EXCEPT ![cpu] = my.value]
        /\ queue_priority_1 = ExitQ1 /\ queue_priority_2 = ExitQ2
        /\ state = ExitStates
        /\ ctx \in [Threads -> Threads]
        /\ \A t \in Threads : ctx[t] = t
        /\ cpu \in Threads /\ NULL \notin Threads
    BY <1>2, <1>3, LibFacts DEF ExitStored, ExitCall, ExitDone, InCall, StepInv
  <1> DEFINE front == peekEither(ExitQ1, ExitQ2)
  <1>5. /\ ExitTakes = cpu /\ ExitQ1 \in Seq(Threads) /\ ExitQ2 \in Seq(Threads)
        /\ front # cpu /\ front \in Threads \union {NULL}
    BY <1>4, ExitedIsNotFront
  <1>6. my_pthread_yield(ExitQ1, ExitQ2, current, ExitStates, actx)
    BY <1>1, <1>4 DEF Yield
  <1>7. /\ UNCHANGED <<threadIDS, isInitialized, return_value, at, target, proc,
                       passed, delivered>>
    BY <1>1 DEF Yield
  <1>8. CASE YieldNoThreads(ExitQ1, ExitQ2, current, ExitStates, actx)
    <2>1. /\ entry' = entry
          /\ UNCHANGED <<queue_priority_1, queue_priority_2, current, threadIDS,
                         isInitialized, armed, state, return_value, ctx, cpu, at,
                         target, proc, passed, delivered>>
      BY <1>1, <1>4, <1>7, <1>8 DEF YieldNoThreads
    <2> QED
      BY <1>1, <2>1, StutterKeeps DEF stepVars, vars
  <1>9. CASE YieldToFront(ExitQ1, ExitQ2, current, ExitStates, actx)
    <2>1. /\ front # NULL /\ current' = front
          /\ queue_priority_1' = ExitQ1 /\ queue_priority_2' = ExitQ2
          /\ state' = ExitStates /\ setitimer(0)
          /\ ctx' = IF current = NULL THEN actx ELSE [actx EXCEPT ![current] = cpu]
          /\ cpu' = ctx'[front]
      BY <1>9 DEF YieldToFront, swapcontext
    <2>2. ctx' = actx /\ cpu' = front
      <3>1. ctx' = actx
        BY <1>3, <1>4, <2>1
      <3> QED
        BY <1>4, <1>5, <2>1, <3>1
    <2>3. entry' = <<>> /\ ViewIsShared'
      BY <1>1, <1>5, <2>2, SharedViewAfter
    <2>4. aat' = [aat EXCEPT ![acpu] = "exited"]
      <3>1. ~Creating
        BY <1>4 DEF Creating
      <3>2. Settled(at'[cpu]) = "exited"
        BY <1>7 DEF Settled, SafePoints
      <3>3. \A t \in Threads : Settled(at'[t]) = IF t = acpu THEN "exited" ELSE aat[t]
        BY <1>2, <1>4, <1>7, <3>1, <3>2 DEF InCall
      <3>4. aat' = [t \in Threads |-> Settled(at'[t])] /\ aat \in [Threads -> Places]
        BY <2>3, LibFacts DEF ViewIsShared, StepInv
      <3> QED
        BY <3>3, <3>4
    <2>5. Lib!my_pthread_yield(ExitQ1, ExitQ2, NULL, ExitStates, actx)
      <3>1. Lib!YieldToFront(ExitQ1, ExitQ2, NULL, ExitStates, actx)
        <4>1. Lib!peekEither(ExitQ1, ExitQ2) = front
          BY LibQueues
        <4>2. /\ aq1' = ExitQ1 /\ aq2' = ExitQ2 /\ acurrent' = front
              /\ astate' = ExitStates /\ aarmed' = armed'
              /\ actx' = actx /\ acpu' = front /\ actx[front] = front
          BY <1>4, <1>5, <2>1, <2>2, <2>3 DEF ViewIsShared
        <4> HIDE DEF front
        <4>3. Lib!setitimer(0)
          BY <1>4, <2>1, <4>2 DEF Lib!setitimer, setitimer
        <4>4. Lib!swapcontext(NULL, front, actx)
          BY <4>2 DEF Lib!swapcontext
        <4> QED
          BY <2>1, <4>1, <4>2, <4>3, <4>4 DEF Lib!YieldToFront
      <3> QED
        BY <3>1 DEF Lib!my_pthread_yield
    <2>6. Lib!my_pthread_exit(my.value)
      BY <1>1, <1>4, <1>7, <2>3, <2>4, <2>5, LibQueues
         DEF Lib!my_pthread_exit, Lib!Running, Lib!ExitRemoves, Lib!Complete,
             Lib!StoreReturnValue, ViewIsShared, ExitQ1, ExitQ2, ExitTakes,
             ExitTakesFirst, ExitStates, ExitValues
    <2>7. Lib!Next
      BY <1>4, <2>6, LibQueues DEF Lib!Next
    <2>8. /\ cpu' \in Threads /\ current' # NULL
          /\ at' \in [Threads -> Places \union LibraryPoints]
          /\ \A t \in Threads : at'[t] \in Places \union SafePoints
          /\ DOMAIN local' = Threads
          /\ \A t \in Threads : DOMAIN local'[t] = DOMAIN NoLocals
      BY <1>1, <1>5, <1>7, <2>1, <2>2 DEF StepInv, PointsOK
    <2> QED
      BY <2>3, <2>7, <2>8, LeaveKeeps
  <1>10. CASE YieldRotate(ExitQ1, ExitQ2, current, ExitStates, actx)
    <2>1. front # NULL /\ current = front
      BY <1>10 DEF YieldRotate
    <2> QED
      BY <1>3, <1>4, <1>5, <2>1
  <1> QED
    BY <1>6, <1>8, <1>9, <1>10 DEF my_pthread_yield

-----------------------------------------------------------------------------
(* The theorems.                                                           *)

LEMMA InitStep == StepInit => StepInv /\ Lib!Init
  <1> SUFFICES ASSUME StepInit
               PROVE  StepInv /\ Lib!Init
    OBVIOUS
  <1>1. entry = <<>> /\ ViewIsShared /\ Init /\ local = [t \in Threads |-> NoLocals]
    BY SharedView DEF StepInit
  <1>2. \A p \in Places : Settled(p) = p
    BY DEF Places, Settled, SafePoints
  <1>3. /\ at \in [Threads -> {"user", "unborn"}]
        /\ cpu = Main /\ Main \in Threads /\ at[Main] = "user"
    BY <1>1, MaxThreadsAssumption DEF Init, Main, Threads
  <1>4. aat = at
    BY <1>1, <1>2, <1>3 DEF ViewIsShared, Places
  <1>5. Lib!Init
    BY <1>1, <1>4, LibQueues DEF Init, Lib!Init, ViewIsShared
  <1>6. Lib!SchedulerInvariant
    BY <1>5, LibAssumptions, Lib!InitEstablishes DEF Lib!InitEstablishes
  <1>7. PointsOK
    BY <1>1, <1>3 DEF PointsOK, Places
  <1>8. CallInv
    BY <1>1, <1>3 DEF CallInv, LibraryPoints, ExitPoints, CreatePoints, YieldPoints
  <1> QED
    BY <1>5, <1>6, <1>7, <1>8 DEF StepInv

\* A step inside a call leaves the atomic library alone.
LEMMA InsideStutters ==
  ASSUME StepInv,
         \/ ChooseFront \/ DequeueFront \/ Requeue \/ PeekNext \/ MarkNext
         \/ ChooseNext \/ SetTimer \/ CountThread \/ MakeThread \/ EnqueueNew \/ EnqueueMain \/ YieldFromCreate
         \/ ExitDequeue \/ ExitComplete \/ ExitStore \/ ExitClearCurrent \/ YieldFromExit
  PROVE  UNCHANGED Lib!vars
  <1>1. proc = "up" /\ at[cpu] \in LibraryPoints /\ entry' = entry
    BY DEF ChooseFront, DequeueFront, Requeue, PeekNext, MarkNext, ChooseNext,
           SetTimer, CountThread, MakeThread, EnqueueNew, EnqueueMain,
           YieldFromCreate, ExitDequeue, ExitComplete, ExitStore, ExitClearCurrent,
           YieldFromExit, Running, LibraryPoints, ExitPoints, CreatePoints, YieldPoints
  <1> QED
    BY <1>1, KeptView DEF StepInv, CallInv

\* Every step of the split library is a step of the atomic one or a stutter.
LEMMA StepIsLibs ==
  ASSUME TickPoints \subseteq SafePoints, StepInv, [StepNext]_stepVars
  PROVE  [Lib!Next]_(Lib!vars) /\ StepInv'
  <1>1. CASE \/ ChooseFront \/ DequeueFront \/ Requeue \/ PeekNext \/ MarkNext
             \/ ChooseNext \/ SetTimer \/ CountThread \/ MakeThread \/ EnqueueNew \/ EnqueueMain \/ YieldFromCreate
             \/ ExitDequeue \/ ExitComplete \/ ExitStore \/ ExitClearCurrent \/ YieldFromExit
    BY <1>1, InsideStutters, ChooseFrontKeeps, DequeueFrontKeeps, RequeueKeeps,
       PeekNextKeeps, MarkNextKeeps, ChooseNextKeeps, SetTimerKeeps,
       CountThreadKeeps, MakeThreadKeeps, EnqueueNewKeeps, EnqueueMainKeeps,
       YieldFromCreateKeeps, ExitDequeueKeeps, ExitCompleteKeeps, ExitStoreKeeps,
       ExitClearKeeps, YieldFromExitKeeps
  <1>2. CASE CallYield
    <2>1. entry = <<>> /\ Enter
      BY <1>2, OutsideFacts DEF CallYield, Running
    <2> QED
      BY <1>2, <2>1, KeptView, CallYieldKeeps
  <1>3. ASSUME NEW garbage \in Pointers, CallCreate(garbage)
        PROVE  [Lib!Next]_(Lib!vars) /\ StepInv'
    <2>1. entry = <<>> /\ Enter
      BY <1>3, OutsideFacts DEF CallCreate, Running
    <2> QED
      BY <1>3, <2>1, KeptView, CallCreateKeeps
  <1>4. ASSUME NEW value_ptr \in Pointers, CallExit(value_ptr)
        PROVE  [Lib!Next]_(Lib!vars) /\ StepInv'
    <2>1. entry = <<>> /\ Enter
      BY <1>4, OutsideFacts DEF CallExit, Running
    <2> QED
      BY <1>4, <2>1, KeptView, CallExitKeeps
  <1>5. CASE ReturnEmpty \/ Switch \/ NullDereference \/ JoinStep \/ ProcessEnd
    BY <1>5, ReturnEmptyKeeps, SwitchKeeps, NullDereferenceKeeps, JoinStepKeeps,
       ProcessEndKeeps
  <1>6. CASE Tick
    <2>1. at[cpu] \in {"user", "join"} \/ at[cpu] \in SafePoints
      BY <1>6 DEF Tick
    <2> QED
      BY <1>6, <2>1, TickOutside, TickInside
  <1>7. CASE UNCHANGED stepVars
    BY <1>7, StutterKeeps
  <1> QED
    BY <1>1, <1>2, <1>3, <1>4, <1>5, <1>6, <1>7 DEF StepNext

\* At every point of a my_pthread_create, my_pthread_yield or my_pthread_exit
\* the shared state is what the call has made of the state at its entry.
THEOREM StepInvariant ==
  ASSUME TickPoints \subseteq SafePoints
  PROVE  StepSpec => []StepInv
  <1>1. StepInit => StepInv
    BY InitStep
  <1>2. StepInv /\ [StepNext]_stepVars => StepInv'
    BY StepIsLibs
  <1> QED
    BY <1>1, <1>2, PTL DEF StepSpec

(***************************************************************************)
(* Atomic, of SchedulerSteps, is Lib without the theorems.                 *)
(***************************************************************************)
LEMMA SameConstants ==
  Atomic!Threads = Lib!Threads /\ Atomic!Pointers = Lib!Pointers
  BY DEF Atomic!Threads, Lib!Threads, Atomic!Pointers, Lib!Pointers

LEMMA SameInit == Lib!Init => Atomic!Init
  BY DEF Lib!Init, Atomic!Init, Lib!Threads, Atomic!Threads, Lib!Main, Atomic!Main,
         aq1, aq2, acurrent, athreadIDS, aisInitialized, aarmed, astate,
         areturn_value, actx, acpu, aat, atarget, aproc, apassed, adelivered

LEMMA SameVars == UNCHANGED Lib!vars <=> UNCHANGED Atomic!vars
  BY DEF Lib!vars, Atomic!vars, aq1, aq2, acurrent, athreadIDS, aisInitialized,
         aarmed, astate, areturn_value, actx, acpu, aat, atarget, aproc, apassed,
         adelivered

LEMMA SameYield ==
  ASSUME NEW q1, NEW q2, NEW cur, NEW st, NEW cx,
         Lib!my_pthread_yield(q1, q2, cur, st, cx)
  PROVE  Atomic!my_pthread_yield(q1, q2, cur, st, cx)
  BY DEF Lib!my_pthread_yield, Atomic!my_pthread_yield, Lib!YieldNoThreads,
         Atomic!YieldNoThreads, Lib!YieldToFront, Atomic!YieldToFront,
         Lib!YieldRotate, Atomic!YieldRotate, Lib!enqueue, Atomic!enqueue,
         Lib!dequeue, Atomic!dequeue, Lib!peek, Atomic!peek, Lib!peekEither,
         Atomic!peekEither, Lib!setitimer, Atomic!setitimer, Lib!swapcontext,
         Atomic!swapcontext, aq1, aq2, acurrent, aarmed, astate, actx, acpu

LEMMA SameNext == [Lib!Next]_(Lib!vars) => [Atomic!Next]_(Atomic!vars)
  <1> SUFFICES ASSUME [Lib!Next]_(Lib!vars)
               PROVE  [Atomic!Next]_(Atomic!vars)
    OBVIOUS
  <1>1. ASSUME NEW new \in Lib!Threads, NEW garbage \in Lib!Pointers,
               Lib!my_pthread_create(new, garbage)
        PROVE  Atomic!my_pthread_create(new, garbage)
    BY <1>1, SameYield
       DEF Lib!my_pthread_create, Atomic!my_pthread_create, Lib!Running,
           Atomic!Running, Lib!NextThreadID, Atomic!NextThreadID, Lib!Main,
           Atomic!Main, Lib!enqueue, Atomic!enqueue,
           aq1, aq2, acurrent, athreadIDS, aisInitialized, aarmed, astate,
           areturn_value, actx, acpu, aat, atarget, aproc, apassed, adelivered
  <1>2. ASSUME NEW value_ptr \in Lib!Pointers, Lib!my_pthread_exit(value_ptr)
        PROVE  Atomic!my_pthread_exit(value_ptr)
    BY <1>2, SameYield
       DEF Lib!my_pthread_exit, Atomic!my_pthread_exit, Lib!Running, Atomic!Running,
           Lib!ExitRemoves, Atomic!ExitRemoves, Lib!Complete, Atomic!Complete,
           Lib!StoreReturnValue, Atomic!StoreReturnValue, Lib!peek, Atomic!peek,
           Lib!dequeue, Atomic!dequeue,
           aq1, aq2, acurrent, athreadIDS, aisInitialized, aarmed, astate,
           areturn_value, actx, acpu, aat, atarget, aproc, apassed, adelivered
  <1>3. Lib!Yield => Atomic!Yield
    BY SameYield
       DEF Lib!Yield, Atomic!Yield,
           aq1, aq2, acurrent, athreadIDS, aisInitialized, aarmed, astate,
           areturn_value, actx, acpu, aat, atarget, aproc, apassed, adelivered
  <1>4. CASE Lib!VoluntaryYield \/ Lib!timer_handler \/ Lib!JoinSpin
    BY <1>3, <1>4
       DEF Atomic!Next, Lib!VoluntaryYield, Atomic!VoluntaryYield,
           Lib!timer_handler, Atomic!timer_handler, Lib!JoinSpin, Atomic!JoinSpin,
           Lib!Running, Atomic!Running, aarmed, astate, acpu, aat, atarget, aproc
  <1>5. CASE \/ Lib!ExitWithoutCurrent \/ \E u \in Lib!Threads : Lib!JoinCall(u)
             \/ Lib!JoinReturn \/ Lib!ReturnFromFunction
    BY <1>5, SameConstants
       DEF Atomic!Next, Lib!ExitWithoutCurrent, Atomic!ExitWithoutCurrent,
           Lib!JoinCall, Atomic!JoinCall, Lib!JoinReturn, Atomic!JoinReturn,
           Lib!ReturnFromFunction, Atomic!ReturnFromFunction, Lib!Running,
           Atomic!Running, Lib!queues, Atomic!queues,
           aq1, aq2, acurrent, athreadIDS, aisInitialized, aarmed, astate,
           areturn_value, actx, acpu, aat, atarget, aproc, apassed, adelivered
  <1>6. CASE Lib!Terminated \/ UNCHANGED Lib!vars
    BY <1>6, SameVars DEF Lib!Terminated
  <1> QED
    BY <1>1, <1>2, <1>4, <1>5, <1>6, SameConstants DEF Lib!Next, Atomic!Next

\* As long as signals inside the library fall only where the exiting thread has
\* been marked COMPLETED and its value has been stored, splitting the calls adds
\* no behaviour: every theorem about Scheduler holds of the interruptible library
\* between calls.
THEOREM StepsImplementAtomic ==
  ASSUME TickPoints \subseteq SafePoints
  PROVE  StepSpec => ImplementsAtomic
  <1>1. StepInit => Atomic!Init
    BY InitStep, SameInit
  <1>2. StepInv /\ [StepNext]_stepVars => [Atomic!Next]_(Atomic!vars)
    BY StepIsLibs, SameNext
  <1> QED
    BY <1>1, <1>2, StepInvariant, PTL DEF StepSpec, ImplementsAtomic, Atomic!Spec

\* A signal in the middle of a my_pthread_exit does not make a joiner wait for
\* a thread that can no longer complete: the one it waits for is COMPLETED or
\* has a queue node.
THEOREM JoinersCanFinish ==
  ASSUME TickPoints \subseteq SafePoints
  PROVE  StepSpec => []JoinTargetCanComplete
  <1>1. StepInv => JoinTargetCanComplete
    <2> SUFFICES ASSUME StepInv, proc = "up", at[cpu] = "join"
                 PROVE  state[target[cpu]] = "COMPLETED" \/ target[cpu] \in Queued
      BY DEF JoinTargetCanComplete
    <2>1. ViewIsShared /\ aat[acpu] = "join" /\ acpu \in Threads
      BY OutsideFacts DEF ViewIsShared, StepInv, PointsOK
    <2>2. atarget[acpu] # NULL /\ astate[atarget[acpu]] \in {"ACTIVE", "COMPLETED"}
      BY <2>1, LibQueues
         DEF StepInv, Lib!SchedulerInvariant, Lib!JoinTargetIsLive
    <2>3. atarget[acpu] \in Threads
      BY <2>1, <2>2, LibQueues DEF StepInv, Lib!SchedulerInvariant, Lib!TypeOK
    <2>4. astate[atarget[acpu]] = "ACTIVE"
            => atarget[acpu] \in Range(aq1) \union Range(aq2)
      BY <2>3, LibQueues
         DEF StepInv, Lib!SchedulerInvariant, Lib!Consistent, Lib!Range, Range
    <2> QED
      BY <2>1, <2>2, <2>4 DEF ViewIsShared, Queued
  <1> QED
    BY <1>1, StepInvariant, PTL

=============================================================================
