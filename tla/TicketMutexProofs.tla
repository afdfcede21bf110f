------------------------- MODULE TicketMutexProofs -------------------------
(***************************************************************************)
(* MutualExclusion of the ticket lock and that it implements a first-come, *)
(* first-served lock, for every finite set of threads and every int width  *)
(* that leaves more ints than threads; and that threads of the scheduler   *)
(* that use it implement both the lock and the scheduler.                  *)
(***************************************************************************)
EXTENDS LockedThreads, Functions, FiniteSetTheorems, SequenceTheorems, TLAPS

\* x + 1 stays an int and is one to one.
LEMMA IncrementType ==
  ASSUME NEW x \in CInt
  PROVE  Increment(x) \in CInt
  BY IntRangeAssumption DEF Increment, CInt

\* If handing out one more ticket brought ticket round to turn, every int but
\* ticket itself would be outstanding.
LEMMA FullCircle ==
  ASSUME TypeOK, Increment(ticket) = turn
  PROVE  Outstanding = CInt \ {ticket}
  <1>1. /\ ticket \in CInt
        /\ turn \in CInt
    BY DEF TypeOK
  <1>2. CASE ticket = IntRange - 1
    BY <1>1, <1>2, IntRangeAssumption DEF Increment, Outstanding, CInt
  <1>3. CASE ticket # IntRange - 1
    BY <1>1, <1>3, IntRangeAssumption DEF Increment, Outstanding, CInt
  <1> QED
    BY <1>2, <1>3

\* The outstanding tickets belong to different threads, and the thread that
\* asks for one has none: there are too few threads to go round.
LEMMA TicketsDoNotRunOut ==
  ASSUME TicketInvariant, NEW c \in Clients, pc[c] = "outside"
  PROVE  Increment(ticket) # turn
  <1> SUFFICES ASSUME Increment(ticket) = turn
               PROVE  FALSE
    OBVIOUS
  <1> DEFINE Others == Clients \ {c}
             holder == [n \in Outstanding |->
                          CHOOSE d \in Clients : pc[d] # "outside" /\ myturn[d] = n]
  <1>1. Outstanding = CInt \ {ticket} /\ ticket \in CInt
    BY FullCircle DEF TicketInvariant, TypeOK
  <1>2. \A n \in Outstanding : /\ holder[n] \in Others
                              /\ myturn[holder[n]] = n
    BY DEF TicketInvariant, TicketsAreOutstanding
  <1>3. holder \in Injection(Outstanding, Others)
    BY <1>2 DEF Injection, IsInjective
  <1>4. IsFiniteSet(Others) /\ Cardinality(Others) = Cardinality(Clients) - 1
    BY FS_RemoveElement, ClientsAssumption
  <1>5. Cardinality(Outstanding) <= Cardinality(Others)
    BY <1>3, <1>4, FS_Injection
  <1>6. IsFiniteSet(CInt) /\ Cardinality(CInt) = IntRange
    BY FS_Interval, IntRangeAssumption DEF CInt
  <1>7. Cardinality(Outstanding) = IntRange - 1
    BY <1>1, <1>6, FS_RemoveElement
  <1>8. Cardinality(Clients) \in Nat
    BY FS_CardinalityType, ClientsAssumption
  <1> QED
    BY <1>4, <1>5, <1>7, <1>8, IntRangeAssumption

\* A new ticket joins the outstanding ones at the far end.
LEMMA OutstandingGrows ==
  ASSUME TypeOK, Increment(ticket) # turn,
         ticket' = Increment(ticket), turn' = turn
  PROVE  /\ Outstanding' = Outstanding \union {ticket}
         /\ ticket \notin Outstanding
  BY IntRangeAssumption DEF TypeOK, Outstanding, Increment, CInt

\* The first outstanding ticket leaves when turn moves on.
LEMMA OutstandingShrinks ==
  ASSUME TypeOK, turn \in Outstanding,
         turn' = Increment(turn), ticket' = ticket
  PROVE  Outstanding' = Outstanding \ {turn}
  BY IntRangeAssumption DEF TypeOK, Outstanding, Increment, CInt

LEMMA InitEstablishes == Init => TicketInvariant
  BY IntRangeAssumption
     DEF Init, TicketInvariant, TypeOK, TicketsAreUnique,
         TicketsAreOutstanding, HolderHasTurn, Holding, Outstanding, CInt

LEMMA InitMutexPreserves ==
  TicketInvariant /\ my_pthread_mutex_init => TicketInvariant'
  BY IntRangeAssumption
     DEF my_pthread_mutex_init, TicketInvariant, TypeOK, TicketsAreUnique,
         TicketsAreOutstanding, HolderHasTurn, Holding, Outstanding, CInt

LEMMA TakeTicketPreserves ==
  ASSUME TicketInvariant, NEW c \in Clients, TakeTicket(c)
  PROVE  TicketInvariant'
  <1> USE DEF TicketInvariant
  <1>1. /\ pc[c] = "outside"
        /\ myturn' = [myturn EXCEPT ![c] = ticket]
        /\ ticket' = Increment(ticket)
        /\ pc' = [pc EXCEPT ![c] = "waiting"]
        /\ turn' = turn
        /\ loaded' = loaded
    BY DEF TakeTicket
  <1>2. Outstanding' = Outstanding \union {ticket} /\ ticket \notin Outstanding
    BY <1>1, TicketsDoNotRunOut, OutstandingGrows
  <1>3. TypeOK'
    BY <1>1, IncrementType DEF TypeOK
  <1>4. /\ pc'[c] = "waiting" /\ myturn'[c] = ticket
        /\ \A d \in Clients \ {c} : pc'[d] = pc[d] /\ myturn'[d] = myturn[d]
    BY <1>1 DEF TypeOK
  <1>5. TicketsAreUnique'
    BY <1>2, <1>4 DEF TicketsAreUnique, TicketsAreOutstanding
  <1>6. TicketsAreOutstanding'
    BY <1>1, <1>2, <1>4 DEF TicketsAreOutstanding
  <1>7. HolderHasTurn'
    BY <1>1, <1>4 DEF HolderHasTurn, Holding
  <1> QED
    BY <1>3, <1>5, <1>6, <1>7

LEMMA EnterPreserves ==
  ASSUME TicketInvariant, NEW c \in Clients, EnterWhenTurn(c)
  PROVE  TicketInvariant'
  BY DEF EnterWhenTurn, TicketInvariant, TypeOK, TicketsAreUnique,
         TicketsAreOutstanding, HolderHasTurn, Holding, Outstanding

LEMMA LoadPreserves ==
  ASSUME TicketInvariant, NEW c \in Clients, LoadTurn(c)
  PROVE  TicketInvariant'
  BY DEF LoadTurn, TicketInvariant, TypeOK, TicketsAreUnique,
         TicketsAreOutstanding, HolderHasTurn, Holding, Outstanding

LEMMA StorePreserves ==
  ASSUME TicketInvariant, NEW c \in Clients, StoreTurn(c)
  PROVE  TicketInvariant'
  <1> USE DEF TicketInvariant
  <1>1. /\ pc[c] = "unlocking"
        /\ turn' = Increment(turn)
        /\ pc' = [pc EXCEPT ![c] = "outside"]
        /\ ticket' = ticket
        /\ myturn' = [myturn EXCEPT ![c] = 0]
        /\ loaded' = [loaded EXCEPT ![c] = 0]
    BY DEF StoreTurn, EndLocals, HolderHasTurn
  <1>2. myturn[c] = turn /\ turn \in Outstanding
    BY <1>1 DEF HolderHasTurn, Holding, TicketsAreOutstanding
  <1>3. Outstanding' = Outstanding \ {turn}
    BY <1>1, <1>2, OutstandingShrinks
  <1>4. TypeOK'
    <2>1. 0 \in CInt
      BY IntRangeAssumption DEF CInt
    <2> QED
      BY <1>1, <2>1, IncrementType DEF TypeOK
  <1>5. /\ pc'[c] = "outside"
        /\ \A d \in Clients \ {c} : /\ pc'[d] = pc[d]
                                   /\ myturn'[d] = myturn[d]
                                   /\ loaded'[d] = loaded[d]
    BY <1>1 DEF TypeOK
  <1>6. TicketsAreUnique'
    BY <1>1, <1>5 DEF TicketsAreUnique
  <1>7. TicketsAreOutstanding'
    BY <1>1, <1>2, <1>3, <1>5 DEF TicketsAreUnique, TicketsAreOutstanding
  \* Nobody else holds the mutex: it would have the same ticket.
  <1>8. HolderHasTurn'
    BY <1>1, <1>2, <1>5 DEF HolderHasTurn, Holding, TicketsAreUnique
  <1> QED
    BY <1>4, <1>6, <1>7, <1>8

\* The invariant is inductive: a ticket belongs to one thread, and to one
\* between turn and ticket, however the counters wrap around.
THEOREM TicketInvariantHolds == Spec => []TicketInvariant
  <1>1. TicketInvariant /\ [Next]_mutexVars => TicketInvariant'
    <2> SUFFICES ASSUME TicketInvariant, [Next]_mutexVars
                 PROVE  TicketInvariant'
      OBVIOUS
    <2>1. CASE my_pthread_mutex_init
      BY <2>1, InitMutexPreserves
    <2>2. ASSUME NEW c \in Clients, TakeTicket(c)
          PROVE  TicketInvariant'
      BY <2>2, TakeTicketPreserves
    <2>3. ASSUME NEW c \in Clients, EnterWhenTurn(c)
          PROVE  TicketInvariant'
      BY <2>3, EnterPreserves
    <2>4. ASSUME NEW c \in Clients, LoadTurn(c)
          PROVE  TicketInvariant'
      BY <2>4, LoadPreserves
    <2>5. ASSUME NEW c \in Clients, StoreTurn(c)
          PROVE  TicketInvariant'
      BY <2>5, StorePreserves
    <2>6. CASE UNCHANGED mutexVars
      BY <2>6 DEF mutexVars, TicketInvariant, TypeOK, TicketsAreUnique,
                  TicketsAreOutstanding, HolderHasTurn, Holding, Outstanding
    <2> QED
      BY <2>1, <2>2, <2>3, <2>4, <2>5, <2>6 DEF Next
  <1> QED
    BY <1>1, InitEstablishes, PTL DEF Spec

\* At most one thread is between a my_pthread_mutex_lock and the end of its
\* my_pthread_mutex_unlock: all holders have the ticket turn.
THEOREM MutualExclusionHolds == Spec => []MutualExclusion
  <1>1. TicketInvariant => MutualExclusion
    BY DEF TicketInvariant, HolderHasTurn, TicketsAreUnique, MutualExclusion,
           Holding
  <1> QED
    BY <1>1, TicketInvariantHolds, PTL

-----------------------------------------------------------------------------
(* First come, first served.                                               *)

\* The threads that wait for the mutex or hold it.
Lined == {c \in Clients : pc[c] # "outside"}

\* How many tickets are outstanding, going round from turn to ticket.
Distance == IF turn <= ticket THEN ticket - turn ELSE (IntRange - turn) + ticket

\* The ticket of the i-th thread in line when it is t's turn.
Place(t, i) == (t + i - 1) % IntRange

LEMMA PlaceIs ==
  ASSUME NEW t \in CInt, NEW i \in 1..IntRange
  PROVE  Place(t, i) = IF t + (i - 1) < IntRange THEN t + (i - 1)
                       ELSE (t + (i - 1)) - IntRange
  <1>1. ASSUME NEW R \in Nat \ {0}, NEW x \in 0..(R - 1)
        PROVE  x % R = x
    OBVIOUS
  <1>2. ASSUME NEW R \in Nat \ {0}, NEW x \in R..(R + (R - 1))
        PROVE  x % R = x - R
    OBVIOUS
  <1>3. /\ IntRange \in Nat \ {0}
        /\ t \in 0..(IntRange - 1)
    BY IntRangeAssumption DEF CInt
  <1> DEFINE x == t + (i - 1)
  <1>4. x \in 0..(IntRange - 1) \/ x \in IntRange..(IntRange + (IntRange - 1))
    BY <1>3
  <1>5. Place(t, i) = x % IntRange
    <2>1. (t + i) - 1 = t + (i - 1)
      BY <1>3
    <2> QED
      BY <2>1 DEF Place
  <1>6. CASE x \in 0..(IntRange - 1)
    <2>1. x < IntRange
      BY <1>3, <1>6
    <2> HIDE DEF x
    <2>2. x % IntRange = x
      BY <1>1, <1>3, <1>6
    <2> QED
      BY <1>5, <2>1, <2>2 DEF x
  <1>7. CASE x \in IntRange..(IntRange + (IntRange - 1))
    <2>1. ~(x < IntRange)
      BY <1>3, <1>7
    <2> HIDE DEF x
    <2>2. x % IntRange = x - IntRange
      BY <1>2, <1>3, <1>7
    <2> QED
      BY <1>5, <2>1, <2>2 DEF x
  <1> QED
    BY <1>4, <1>6, <1>7

\* The line is as long as the way from turn to ticket.
LEMMA LineLength ==
  ASSUME TicketInvariant
  PROVE  /\ IsFiniteSet(Lined)
         /\ Cardinality(Lined) = Distance
         /\ Distance \in 0..(IntRange - 1)
  <1>1. /\ IntRange \in Nat \ {0} /\ ticket \in CInt /\ turn \in CInt
        /\ myturn \in [Clients -> CInt]
    BY IntRangeAssumption DEF TicketInvariant, TypeOK
  <1>2. IsFiniteSet(Lined)
    BY ClientsAssumption, FS_Subset DEF Lined
  <1>3. Cardinality(Lined) = Cardinality(Outstanding)
    <2> DEFINE f == [c \in Lined |-> myturn[c]]
    <2>1. f \in Bijection(Lined, Outstanding)
      <3>1. f \in [Lined -> Outstanding]
        BY DEF TicketInvariant, TicketsAreOutstanding, Lined
      <3>2. IsInjective(f)
        BY DEF TicketInvariant, TicketsAreUnique, Lined, IsInjective
      <3>3. \A n \in Outstanding : \E c \in Lined : f[c] = n
        BY DEF TicketInvariant, TicketsAreOutstanding, Lined
      <3> QED
        BY <3>1, <3>2, <3>3 DEF Bijection, Injection, Surjection
    <2> QED
      BY <1>2, <2>1, FS_Bijection DEF ExistsBijection
  <1>4. Cardinality(Outstanding) = Distance
    <2>1. CASE turn <= ticket
      BY <1>1, <2>1, FS_Interval DEF Outstanding, Distance, CInt
    <2>2. CASE ~(turn <= ticket)
      <3> DEFINE A == turn..(IntRange - 1)
                 B == 0..(ticket - 1)
      <3>1. IsFiniteSet(A) /\ Cardinality(A) = IntRange - turn
        BY <1>1, <2>2, FS_Interval DEF CInt
      <3>2. IsFiniteSet(B) /\ Cardinality(B) = ticket
        BY <1>1, <2>2, FS_Interval DEF CInt
      <3>3. A \intersect B = {}
        BY <1>1, <2>2 DEF CInt
      <3>4. Cardinality(A \union B) = Cardinality(A) + Cardinality(B)
        <4> HIDE DEF A, B
        <4>1. Cardinality(A \union B) =
                Cardinality(A) + Cardinality(B) - Cardinality(A \intersect B)
          BY <3>1, <3>2, FS_Union
        <4>2. Cardinality(A \intersect B) = 0
          BY <3>3, FS_EmptySet
        <4>3. Cardinality(A) \in Nat /\ Cardinality(B) \in Nat
          BY <3>1, <3>2, FS_CardinalityType
        <4> QED
          BY <4>1, <4>2, <4>3
      <3> QED
        BY <2>2, <3>1, <3>2, <3>4 DEF Outstanding, Distance
    <2> QED
      BY <2>1, <2>2
  <1>5. Distance \in 0..(IntRange - 1)
    BY <1>1 DEF Distance, CInt
  <1> QED
    BY <1>2, <1>3, <1>4, <1>5

\* The i-th place in line is an outstanding ticket, and the place behind the
\* last is ticket.
LEMMA PlacesAreOutstanding ==
  ASSUME TicketInvariant
  PROVE  /\ \A i \in 1..Distance : Place(turn, i) \in Outstanding
         /\ Place(turn, Distance + 1) = ticket
         /\ Place(turn, 1) = turn
         /\ \A i \in 2..Distance : Place(turn, i) # turn
  <1>1. /\ IntRange \in Nat \ {0} /\ ticket \in CInt /\ turn \in CInt
    BY IntRangeAssumption DEF TicketInvariant, TypeOK
  <1>2. Distance \in 0..(IntRange - 1)
    BY LineLength
  <1>3. \A i \in 1..IntRange :
          Place(turn, i) = IF turn + (i - 1) < IntRange THEN turn + (i - 1)
                           ELSE (turn + (i - 1)) - IntRange
    BY <1>1, PlaceIs
  <1> QED
    BY <1>1, <1>2, <1>3 DEF Distance, Outstanding, CInt

\* WaitingLine as a function of the variables it depends on.
OwnersIn(p, m, n) == {c \in Clients : p[c] # "outside" /\ m[c] = n}

LinedIn(p) == {c \in Clients : p[c] # "outside"}

Line(t, p, m) ==
  [i \in 1..Cardinality(LinedIn(p)) |-> OwnersIn(p, m, Place(t, i))]

LEMMA WaitingLineIs ==
  /\ WaitingLine = Line(turn, pc, myturn)
  /\ WaitingLine' = Line(turn', pc', myturn')
  BY DEF WaitingLine, Line, Owners, OwnersIn, LinedIn, Place

LEMMA LineFacts ==
  ASSUME TicketInvariant
  PROVE  /\ Line(turn, pc, myturn) \in Seq(SUBSET Clients)
         /\ Len(Line(turn, pc, myturn)) = Distance
         /\ Cardinality(LinedIn(pc)) = Distance
         /\ IsFiniteSet(LinedIn(pc))
         /\ Distance \in 0..(IntRange - 1)
         /\ \A i \in 1..Distance :
              Line(turn, pc, myturn)[i] = OwnersIn(pc, myturn, Place(turn, i))
  <1>1. LinedIn(pc) = Lined
    BY DEF LinedIn, Lined
  <1>2. /\ Cardinality(LinedIn(pc)) = Distance
        /\ IsFiniteSet(LinedIn(pc))
        /\ Distance \in 0..(IntRange - 1)
    BY <1>1, LineLength
  <1>3. \A i \in 1..Distance : OwnersIn(pc, myturn, Place(turn, i)) \in SUBSET Clients
    BY DEF OwnersIn
  <1>4. Line(turn, pc, myturn) =
          [i \in 1..Distance |-> OwnersIn(pc, myturn, Place(turn, i))]
    BY <1>2 DEF Line
  <1>5. Distance \in Nat
    BY <1>2
  <1> QED
    BY <1>2, <1>3, <1>4, <1>5

\* my_pthread_mutex_lock's fetch and add puts its caller at the end of the
\* line.
LEMMA TakeTicketRequests ==
  ASSUME TicketInvariant, NEW c \in Clients, TakeTicket(c)
  PROVE  /\ WaitingLine' = Append(WaitingLine, {c})
         /\ {c} \notin Range(WaitingLine)
  <1> DEFINE W == Line(turn, pc, myturn)
             V == Line(turn', pc', myturn')
  <1>1. /\ pc[c] = "outside"
        /\ myturn' = [myturn EXCEPT ![c] = ticket]
        /\ pc' = [pc EXCEPT ![c] = "waiting"]
        /\ turn' = turn
    BY DEF TakeTicket
  <1>2. /\ pc'[c] = "waiting" /\ myturn'[c] = ticket
        /\ \A d \in Clients \ {c} : pc'[d] = pc[d] /\ myturn'[d] = myturn[d]
    BY <1>1 DEF TicketInvariant, TypeOK
  <1>3. ticket \notin Outstanding
    BY <1>1, TicketsDoNotRunOut, OutstandingGrows DEF TakeTicket, TicketInvariant
  <1>4. LinedIn(pc') = LinedIn(pc) \union {c} /\ c \notin LinedIn(pc)
    BY <1>1, <1>2 DEF LinedIn
  <1>5. Cardinality(LinedIn(pc')) = Distance + 1
    BY <1>4, LineFacts, FS_AddElement
  <1>6. \A i \in 1..Distance : OwnersIn(pc', myturn', Place(turn, i)) = W[i]
    <2> SUFFICES ASSUME NEW i \in 1..Distance
                 PROVE  OwnersIn(pc', myturn', Place(turn, i)) =
                        OwnersIn(pc, myturn, Place(turn, i))
      BY LineFacts
    <2>1. Place(turn, i) # ticket
      BY <1>3, PlacesAreOutstanding
    <2> QED
      BY <1>1, <1>2, <2>1 DEF OwnersIn
  <1>7. OwnersIn(pc', myturn', Place(turn, Distance + 1)) = {c}
    <2>1. \A d \in Clients : pc[d] # "outside" => myturn[d] # ticket
      BY <1>3 DEF TicketInvariant, TicketsAreOutstanding
    <2>2. OwnersIn(pc', myturn', ticket) = {c}
      BY <1>2, <2>1 DEF OwnersIn
    <2> QED
      BY <2>2, PlacesAreOutstanding
  <1>8. V = [i \in 1..(Distance + 1) |-> IF i = Distance + 1 THEN {c} ELSE W[i]]
    <2>1. V = [i \in 1..(Distance + 1) |-> OwnersIn(pc', myturn', Place(turn, i))]
      BY <1>1, <1>5 DEF Line
    <2>2. ASSUME NEW i \in 1..(Distance + 1)
          PROVE  OwnersIn(pc', myturn', Place(turn, i)) =
                 IF i = Distance + 1 THEN {c} ELSE W[i]
      <3>1. CASE i = Distance + 1
        BY <1>7, <3>1
      <3>2. CASE i # Distance + 1
        <4>1. i \in 1..Distance
          BY <2>2, <3>2, LineFacts
        <4> QED
          BY <1>6, <3>2, <4>1
      <3> QED
        BY <3>1, <3>2
    <2> HIDE DEF W, V
    <2> QED
      BY <2>1, <2>2
  <1>9. /\ W \in Seq(SUBSET Clients) /\ Len(W) = Distance /\ Distance \in Nat
    BY LineFacts
  <1>10. V = Append(W, {c})
    <2> HIDE DEF V, W
    <2> QED
      BY <1>8, <1>9
  <1>11. {c} \notin Range(W)
    <2>1. \A i \in 1..Distance : c \notin W[i]
      BY <1>1, LineFacts DEF OwnersIn
    <2>2. DOMAIN W = 1..Distance
      BY <1>9
    <2> HIDE DEF W
    <2> QED
      BY <2>1, <2>2 DEF Range
  <1> QED
    BY <1>10, <1>11, WaitingLineIs

\* The store of turn takes its caller, the first, out of the line.
LEMMA StoreTurnReleases ==
  ASSUME TicketInvariant, NEW c \in Clients, StoreTurn(c)
  PROVE  WaitingLine' = Tail(WaitingLine)
  <1> DEFINE W == Line(turn, pc, myturn)
             V == Line(turn', pc', myturn')
  <1>1. /\ pc[c] = "unlocking"
        /\ turn' = Increment(turn)
        /\ pc' = [pc EXCEPT ![c] = "outside"]
        /\ myturn' = [myturn EXCEPT ![c] = 0]
        /\ myturn[c] = turn
    BY DEF StoreTurn, EndLocals, TicketInvariant, HolderHasTurn, Holding
  <1>2. /\ pc'[c] = "outside"
        /\ \A d \in Clients \ {c} : pc'[d] = pc[d] /\ myturn'[d] = myturn[d]
    BY <1>1 DEF TicketInvariant, TypeOK
  <1>3. LinedIn(pc') = LinedIn(pc) \ {c} /\ c \in LinedIn(pc)
    BY <1>1, <1>2 DEF LinedIn
  <1>4. Cardinality(LinedIn(pc')) = Distance - 1
    BY <1>3, LineFacts, FS_RemoveElement
  <1>5. Distance \in 1..(IntRange - 1)
    <2>1. LinedIn(pc) # {}
      BY <1>3
    <2>2. Distance # 0
      BY <2>1, LineFacts, FS_EmptySet
    <2> QED
      BY <2>2, LineFacts
  <1>6. ASSUME NEW i \in 1..(Distance - 1)
        PROVE  OwnersIn(pc', myturn', Place(turn', i)) = W[i + 1]
    <2>1. i + 1 \in 2..Distance /\ i + 1 \in 1..Distance /\ i + 1 \in 1..IntRange
          /\ i \in 1..IntRange
      BY <1>5, <1>6, IntRangeAssumption
    <2>2. turn \in CInt /\ turn' \in CInt
      BY <1>1, IncrementType DEF TicketInvariant, TypeOK
    <2>3. /\ Place(turn', i) = IF turn' + (i - 1) < IntRange THEN turn' + (i - 1)
                               ELSE (turn' + (i - 1)) - IntRange
          /\ Place(turn, i + 1) =
               IF turn + ((i + 1) - 1) < IntRange THEN turn + ((i + 1) - 1)
               ELSE (turn + ((i + 1) - 1)) - IntRange
      BY <2>1, <2>2, PlaceIs
    <2>4. Place(turn', i) = Place(turn, i + 1)
      BY <1>1, <1>5, <2>1, <2>2, <2>3, IntRangeAssumption DEF Increment, CInt
    <2>5. Place(turn, i + 1) # turn
      BY <2>1, PlacesAreOutstanding
    <2>6. W[i + 1] = OwnersIn(pc, myturn, Place(turn, i + 1))
      BY <2>1, LineFacts
    <2>7. OwnersIn(pc', myturn', Place(turn, i + 1)) =
          OwnersIn(pc, myturn, Place(turn, i + 1))
      <3> DEFINE n == Place(turn, i + 1)
      <3>1. n # turn
        BY <2>5
      <3> HIDE DEF n
      <3>2. OwnersIn(pc', myturn', n) = OwnersIn(pc, myturn, n)
        BY <1>1, <1>2, <3>1 DEF OwnersIn
      <3> QED
        BY <3>2 DEF n
    <2> QED
      BY <2>4, <2>6, <2>7
  <1>7. V = [i \in 1..(Distance - 1) |-> W[i + 1]]
    <2>1. V = [i \in 1..(Distance - 1) |-> OwnersIn(pc', myturn', Place(turn', i))]
      BY <1>4 DEF Line
    <2> HIDE DEF W, V
    <2> QED
      BY <1>6, <2>1
  <1>8. /\ W \in Seq(SUBSET Clients) /\ Len(W) = Distance
    BY LineFacts
  <1>9. V = Tail(W)
    <2> HIDE DEF V, W
    <2>1. W # <<>> /\ Distance \in Nat \ {0}
      BY <1>5, <1>8, IntRangeAssumption
    <2>2. /\ Tail(W) \in Seq(SUBSET Clients) /\ Len(Tail(W)) = Distance - 1
          /\ \A i \in 1..(Distance - 1) : Tail(W)[i] = W[i + 1]
      BY <1>8, <2>1
    <2>3. V \in Seq(SUBSET Clients) /\ Len(V) = Distance - 1
      <3>1. \A i \in 1..(Distance - 1) : W[i + 1] \in SUBSET Clients
        BY <1>8, <2>1
      <3> QED
        BY <1>7, <2>1, <3>1
    <2>4. \A i \in 1..Len(V) : V[i] = Tail(W)[i]
      BY <1>7, <2>2, <2>3
    <2> QED
      BY <2>2, <2>3, <2>4, SeqEqual
  <1> QED
    BY <1>9, WaitingLineIs

\* Every step of the ticket lock is a step of the first-come, first-served
\* lock or leaves it alone.
LEMMA StepIsFifo ==
  ASSUME TicketInvariant, [Next]_mutexVars
  PROVE  [Fifo!LockNext]_(Fifo!lockVars)
  <1> DEFINE granted == \E c \in Clients : Holding(c)
  <1>1. CASE my_pthread_mutex_init
    <2>1. /\ LinedIn(pc) = {} /\ pc' = pc /\ myturn' = myturn
      BY <1>1 DEF my_pthread_mutex_init, LinedIn
    <2>2. Line(turn, pc, myturn) = Line(turn', pc', myturn')
      <3>1. 1..Cardinality(LinedIn(pc)) = {}
        BY <2>1, FS_EmptySet
      <3> QED
        BY <2>1, <3>1 DEF Line
    <2>3. granted' <=> granted
      BY <2>1 DEF Holding
    <2> QED
      BY <2>2, <2>3, WaitingLineIs DEF Fifo!lockVars
  <1>2. ASSUME NEW c \in Clients, TakeTicket(c)
        PROVE  Fifo!LockNext
    <2>1. granted' <=> granted
      BY <1>2 DEF TakeTicket, Holding, TicketInvariant, TypeOK
    <2> QED
      BY <1>2, <2>1, TakeTicketRequests DEF Fifo!LockNext, Fifo!Request, Fifo!Range, Range
  <1>3. ASSUME NEW c \in Clients, EnterWhenTurn(c)
        PROVE  Fifo!LockNext
    <2>1. /\ pc[c] = "waiting" /\ myturn[c] = turn /\ turn' = turn
          /\ myturn' = myturn /\ pc' = [pc EXCEPT ![c] = "inside"]
      BY <1>3 DEF EnterWhenTurn
    <2>2. ~granted
      BY <2>1 DEF TicketInvariant, HolderHasTurn, TicketsAreUnique, Holding
    <2>3. granted'
      BY <2>1 DEF TicketInvariant, TypeOK, Holding
    <2>4. LinedIn(pc') = LinedIn(pc) /\ \A n : OwnersIn(pc', myturn', n) = OwnersIn(pc, myturn, n)
      BY <2>1 DEF TicketInvariant, TypeOK, LinedIn, OwnersIn
    <2>5. WaitingLine' = WaitingLine
      BY <2>1, <2>4, WaitingLineIs DEF Line
    <2>6. WaitingLine # <<>>
      <3>1. LinedIn(pc) # {}
        BY <2>1 DEF LinedIn
      <3>2. Distance # 0
        BY <3>1, LineFacts, FS_EmptySet
      <3> QED
        BY <3>2, LineFacts, WaitingLineIs
    <2> QED
      BY <2>2, <2>3, <2>5, <2>6 DEF Fifo!LockNext, Fifo!Grant
  <1>4. ASSUME NEW c \in Clients, LoadTurn(c)
        PROVE  UNCHANGED Fifo!lockVars
    <2>1. /\ pc[c] = "inside" /\ turn' = turn
          /\ myturn' = myturn /\ pc' = [pc EXCEPT ![c] = "unlocking"]
      BY <1>4 DEF LoadTurn
    <2>2. granted /\ granted'
      BY <2>1 DEF TicketInvariant, TypeOK, Holding
    <2>3. LinedIn(pc') = LinedIn(pc) /\ \A n : OwnersIn(pc', myturn', n) = OwnersIn(pc, myturn, n)
      BY <2>1 DEF TicketInvariant, TypeOK, LinedIn, OwnersIn
    <2>4. WaitingLine' = WaitingLine
      BY <2>1, <2>3, WaitingLineIs DEF Line
    <2> QED
      BY <2>2, <2>4 DEF Fifo!lockVars
  <1>5. ASSUME NEW c \in Clients, StoreTurn(c)
        PROVE  Fifo!LockNext
    <2>1. pc[c] = "unlocking" /\ pc' = [pc EXCEPT ![c] = "outside"]
      BY <1>5 DEF StoreTurn
    <2>2. granted
      BY <2>1 DEF Holding
    <2>3. ~granted'
      BY <2>1 DEF TicketInvariant, TypeOK, HolderHasTurn, TicketsAreUnique, Holding
    <2> QED
      BY <1>5, <2>2, <2>3, StoreTurnReleases DEF Fifo!LockNext, Fifo!Release
  <1>6. CASE UNCHANGED mutexVars
    <2>1. turn' = turn /\ pc' = pc /\ myturn' = myturn
      BY <1>6 DEF mutexVars
    <2>2. granted' <=> granted
      BY <2>1 DEF Holding
    <2> QED
      BY <2>1, <2>2, WaitingLineIs DEF Fifo!lockVars
  <1> QED
    BY <1>1, <1>2, <1>3, <1>4, <1>5, <1>6 DEF Next

\* The mutex gives itself to one thread at a time in the order of their
\* fetch and adds: the safety part of ImplementsFifoLock.
THEOREM TicketLockIsFifo ==
  Spec => Fifo!LockInit /\ [][Fifo!LockNext]_(Fifo!lockVars)
  <1>1. Init => Fifo!LockInit
    <2> SUFFICES ASSUME Init PROVE Fifo!LockInit
      OBVIOUS
    <2>1. LinedIn(pc) = {}
      BY DEF Init, LinedIn
    <2>2. WaitingLine = <<>>
      BY <2>1, FS_EmptySet, WaitingLineIs DEF Line
    <2>3. ~\E c \in Clients : Holding(c)
      BY DEF Init, Holding
    <2> QED
      BY <2>2, <2>3 DEF Fifo!LockInit
  <1>2. TicketInvariant /\ [Next]_mutexVars => [Fifo!LockNext]_(Fifo!lockVars)
    BY StepIsFifo
  <1> QED
    BY <1>1, <1>2, TicketInvariantHolds, PTL DEF Spec

-----------------------------------------------------------------------------
(***************************************************************************)
(* Threads of the scheduler that use the mutex.  Sched is the scheduler    *)
(* again, with its theorems; it and Library are the same instance.         *)
(***************************************************************************)
Sched == INSTANCE SchedulerProofs

LEMMA SameConstants ==
  /\ Library!Threads = Sched!Threads
  /\ Library!Pointers = Sched!Pointers
  BY DEF Library!Threads, Sched!Threads, Library!Pointers, Sched!Pointers

LEMMA SameInit == Library!Init => Sched!Init
  BY DEF Library!Init, Sched!Init, Library!Threads, Sched!Threads,
         Library!Main, Sched!Main

LEMMA SameYield == Library!Yield => Sched!Yield
  BY DEF Library!Yield, Sched!Yield, Library!my_pthread_yield,
         Sched!my_pthread_yield, Library!YieldNoThreads,
         Sched!YieldNoThreads, Library!YieldToFront, Sched!YieldToFront,
         Library!YieldRotate, Sched!YieldRotate, Library!enqueue,
         Sched!enqueue, Library!dequeue, Sched!dequeue, Library!peek,
         Sched!peek, Library!peekEither, Sched!peekEither,
         Library!setitimer, Sched!setitimer, Library!swapcontext,
         Sched!swapcontext

LEMMA SameCreate ==
  ASSUME NEW new, NEW garbage, Library!my_pthread_create(new, garbage)
  PROVE  Sched!my_pthread_create(new, garbage)
  BY DEF Library!my_pthread_create, Sched!my_pthread_create,
         Library!Running, Sched!Running, Library!NextThreadID,
         Sched!NextThreadID, Library!Main, Sched!Main,
         Library!my_pthread_yield, Sched!my_pthread_yield,
         Library!YieldNoThreads, Sched!YieldNoThreads,
         Library!YieldToFront, Sched!YieldToFront, Library!YieldRotate,
         Sched!YieldRotate, Library!enqueue, Sched!enqueue,
         Library!dequeue, Sched!dequeue, Library!peek, Sched!peek,
         Library!peekEither, Sched!peekEither, Library!setitimer,
         Sched!setitimer, Library!swapcontext, Sched!swapcontext

LEMMA SameExit ==
  ASSUME NEW value_ptr, Library!my_pthread_exit(value_ptr)
  PROVE  Sched!my_pthread_exit(value_ptr)
  BY DEF Library!my_pthread_exit, Sched!my_pthread_exit, Library!Running,
         Sched!Running, Library!ExitRemoves, Sched!ExitRemoves,
         Library!Complete, Sched!Complete, Library!StoreReturnValue,
         Sched!StoreReturnValue, Library!my_pthread_yield,
         Sched!my_pthread_yield, Library!YieldNoThreads,
         Sched!YieldNoThreads, Library!YieldToFront, Sched!YieldToFront,
         Library!YieldRotate, Sched!YieldRotate, Library!enqueue,
         Sched!enqueue, Library!dequeue, Sched!dequeue, Library!peek,
         Sched!peek, Library!peekEither, Sched!peekEither,
         Library!setitimer, Sched!setitimer, Library!swapcontext,
         Sched!swapcontext

LEMMA SameVars == UNCHANGED Library!vars <=> UNCHANGED Sched!vars
  BY DEF Library!vars, Sched!vars

LEMMA SameNext == [Library!Next]_(Library!vars) => [Sched!Next]_(Sched!vars)
  <1> SUFFICES ASSUME [Library!Next]_(Library!vars)
               PROVE  [Sched!Next]_(Sched!vars)
    OBVIOUS
  <1>1. CASE \E new \in Library!Threads, garbage \in Library!Pointers :
                Library!my_pthread_create(new, garbage)
    BY <1>1, SameCreate, SameConstants DEF Sched!Next
  <1>2. CASE \E value_ptr \in Library!Pointers : Library!my_pthread_exit(value_ptr)
    BY <1>2, SameExit, SameConstants DEF Sched!Next
  <1>3. CASE Library!VoluntaryYield \/ Library!timer_handler \/ Library!JoinSpin
    BY <1>3, SameYield
       DEF Sched!Next,
         Library!VoluntaryYield, Sched!VoluntaryYield,
         Library!timer_handler, Sched!timer_handler, Library!JoinSpin,
         Sched!JoinSpin, Library!Running, Sched!Running
  <1>4. CASE \/ Library!ExitWithoutCurrent
             \/ \E u \in Library!Threads : Library!JoinCall(u)
             \/ Library!JoinReturn \/ Library!ReturnFromFunction
    BY <1>4, SameConstants
       DEF Sched!Next,
         Library!ExitWithoutCurrent, Sched!ExitWithoutCurrent,
         Library!JoinCall, Sched!JoinCall, Library!JoinReturn,
         Sched!JoinReturn, Library!ReturnFromFunction,
         Sched!ReturnFromFunction, Library!Running, Sched!Running,
         Library!queues, Sched!queues
  <1>5. CASE Library!Terminated \/ UNCHANGED Library!vars
    BY <1>5, SameVars DEF Library!Terminated
  <1> QED
    BY <1>1, <1>2, <1>3, <1>4, <1>5 DEF Library!Next

\* The mutex adds nothing to the scheduler: its waiting is my_pthread_yield,
\* and its other steps leave the scheduler alone.
LEMMA StepIsLibrarys ==
  ASSUME [ProgramNext]_programVars
  PROVE  [Library!Next]_(Library!vars)
  <1>1. UNCHANGED libraryVars => UNCHANGED Library!vars
    BY DEF libraryVars, Library!vars
  <1>2. CASE LockTakesTicket \/ LockReturns \/ Unlock \/ MutexInit
    BY <1>1, <1>2 DEF LockTakesTicket, LockReturns, Unlock, MutexInit
  <1>3. CASE LockSpins \/ ClientYields \/ Preempted
    BY <1>3 DEF LockSpins, ClientYields, Preempted, UserCode, Library!Next,
                Library!VoluntaryYield
  <1>4. CASE ThreadCall \/ JoinStep \/ Ended
    BY <1>4 DEF ThreadCall, JoinStep, Ended, Library!Next
  <1>5. CASE UNCHANGED programVars
    BY <1>1, <1>5 DEF programVars
  <1> QED
    BY <1>2, <1>3, <1>4, <1>5 DEF ProgramNext

\* A program of threads that use the mutex is a program of the thread library:
\* no step of the mutex takes the library where it could not go without one.
THEOREM ProgramIsLibrarys == ProgramSpec => Library!Spec
  <1>1. ProgramInit => Library!Init
    BY DEF ProgramInit
  <1>2. [ProgramNext]_programVars => [Library!Next]_(Library!vars)
    BY StepIsLibrarys
  <1> QED
    BY <1>1, <1>2, PTL DEF ProgramSpec, Library!Spec

LEMMA ProgramIsScheds == ProgramSpec => Sched!Spec
  BY ProgramIsLibrarys, SameInit, SameNext, PTL DEF Library!Spec, Sched!Spec

\* Threads that wait for the mutex, hold it or are preempted inside it are
\* neither lost nor duplicated, and each resumes its own execution.
THEOREM ProgramKeepsThreads ==
  ProgramSpec => [](Library!NoLostThreads /\ Library!RunningIsFront
                                         /\ Library!ContextsIntact)
  <1>1. /\ Sched!Spec => []Sched!NoLostThreads
        /\ Sched!Spec => []Sched!RunningIsFront
        /\ Sched!Spec => []Sched!ContextsIntact
    BY LibraryAssumption, Sched!ThreadsAreNotLost, Sched!ExecutingIsFront,
       Sched!ContextsAreKept
       DEF Sched!ThreadsAreNotLost, Sched!ExecutingIsFront, Sched!ContextsAreKept
  <1>2. /\ Sched!NoLostThreads => Library!NoLostThreads
        /\ Sched!RunningIsFront => Library!RunningIsFront
        /\ Sched!ContextsIntact => Library!ContextsIntact
    BY DEF Library!NoLostThreads, Sched!NoLostThreads,
         Library!RunningIsFront, Sched!RunningIsFront,
         Library!ContextsIntact, Sched!ContextsIntact, Library!Queued,
         Sched!Queued, Library!Threads, Sched!Threads, Library!Range,
         Sched!Range, Library!IsInjective, Sched!IsInjective,
         Library!peek, Sched!peek, Library!peekEither, Sched!peekEither
  <1> QED
    BY <1>1, <1>2, ProgramIsScheds, PTL

LEMMA ProcessorHasAThread == ProgramSpec => [](cpu \in Clients)
  <1>1. Sched!Spec => []Sched!TypeOK
    BY LibraryAssumption, Sched!TypeCorrect DEF Sched!TypeCorrect
  <1>2. Sched!TypeOK => cpu \in Clients
    BY ClientsAreThreads, SameConstants DEF Sched!TypeOK
  <1> QED
    BY <1>1, <1>2, ProgramIsScheds, PTL

\* Threads of the scheduler use the mutex as any clients may.
THEOREM ProgramIsMutexs == ProgramSpec => Spec
  <1>1. ProgramInit => Init
    BY DEF ProgramInit
  <1>2. cpu \in Clients /\ [ProgramNext]_programVars => [Next]_mutexVars
    <2> SUFFICES ASSUME cpu \in Clients, [ProgramNext]_programVars
                 PROVE  [Next]_mutexVars
      OBVIOUS
    <2>1. CASE LockTakesTicket \/ LockReturns \/ Unlock \/ MutexInit
      BY <2>1 DEF LockTakesTicket, LockReturns, Unlock, MutexInit, Next
    <2>2. CASE LockSpins \/ ThreadCall \/ ClientYields \/ JoinStep \/ Preempted \/ Ended
               \/ UNCHANGED programVars
      BY <2>2 DEF LockSpins, ThreadCall, ClientYields, JoinStep, Preempted, Ended,
                  programVars
    <2> QED
      BY <2>1, <2>2 DEF ProgramNext
  <1> QED
    BY <1>1, <1>2, ProcessorHasAThread, PTL DEF ProgramSpec, Spec

\* On the scheduler, with preemption between any two steps, at most one thread
\* holds the mutex.
THEOREM ProgramExcludes == ProgramSpec => []MutualExclusion
  BY ProgramIsMutexs, MutualExclusionHolds, PTL

\* And the threads get it in the order of their fetch and adds.
THEOREM ProgramIsFifo ==
  ProgramSpec => Fifo!LockInit /\ [][Fifo!LockNext]_(Fifo!lockVars)
  BY ProgramIsMutexs, TicketLockIsFifo, PTL
=============================================================================
