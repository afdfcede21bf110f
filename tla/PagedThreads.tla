---------------------------- MODULE PagedThreads ----------------------------
(***************************************************************************)
(* Assignment2: the thread library on paged memory (my_pthread.c and the   *)
(* paging of mymalloc.c).  Each thread sees its own pages 0..MEMORYPAGES-1 *)
(* in the frames of the same numbers.  A switch copies the pages of the    *)
(* thread that stops out of the frames, to any free frame or slot of the   *)
(* swap file, and those of the next thread in.                             *)
(*                                                                         *)
(* A location is a frame (below MEMORYPAGES) or a slot of the swap file.   *)
(* What a page holds is abstracted to whose data it is.  The loops over    *)
(* pages take one step per page, those over page tables one per table.     *)
(* Allocation inside a thread's region is left out but for the pages that  *)
(* it touches.                                                             *)
(***************************************************************************)
EXTENDS Integers, Sequences, FiniteSetsExt

CONSTANTS
  MaxThreads,      \* bound on thread ids, main (id 0) included
  MEMORYPAGES,     \* frames
  TOTALPAGES,      \* frames and slots of the swap file
  MaxPage,         \* bound: the last page that a malloc of each thread may reach
  NULL, NONE       \* no thread; the page table entry 6969

Threads == 0..(MaxThreads - 1)
Main == 0
Pages == 0..(MEMORYPAGES - 1)
Last == MEMORYPAGES - 1
Locations == 0..(TOTALPAGES - 1)
Empty == <<>>

ASSUME SizeAssumption ==
  /\ MaxThreads \in Nat \ {0}
  /\ MEMORYPAGES \in Nat /\ MEMORYPAGES > 2
  /\ MaxPage \in [Threads -> 0..(MEMORYPAGES - 3)]

\* The first and last pages of all threads fit into the frames (1536 for 128
\* threads), with room for the two pages that a switch copies, and the swap file
\* (to 5632 locations) holds as much again as the frames.  What more larger blocks
\* of several threads take is for TOTALPAGES to hold: nextFreePage has no answer
\* when all is used.
ASSUME RoomAssumption ==
  /\ MEMORYPAGES > 2 * MaxThreads + 2
  /\ TOTALPAGES \in Nat /\ TOTALPAGES >= 2 * (MEMORYPAGES + MaxThreads)

ASSUME NoneAssumption == NONE \notin Locations /\ NULL \notin Threads

VARIABLES
  queue_priority_1, queue_priority_2, current, threadIDS, mainEnqueued, state,
  armed,         \* ITIMER_VIRTUAL has a value
  at,            \* where each thread's code is
  target,        \* the thread that each join waits for
  proc,          \* "up", "over", "killed" by SIGVTALRM, "exited" by exit(1)
  pageTables,    \* the location of each page of each thread
  masterTable,   \* the locations in use
  prot,          \* the frames that can be read and written
  store,         \* whose data each location holds: <<thread, page>> or Empty
  written,       \* history: the pages on which each thread has data
  pc,            \* "run", or the loop that the library is in
  i, j, temp,    \* its local variables
  want,          \* pages that myallocate has still to write tags on
  last           \* the last page of the block that myallocate is placing

sched == <<queue_priority_1, queue_priority_2, current, threadIDS,
           mainEnqueued, state, armed, at, target>>
paging == <<pageTables, masterTable, prot, store, written>>
locals == <<i, j, temp, want, last>>
vars == <<sched, proc, paging, pc, locals>>

-----------------------------------------------------------------------------
NoPages == [k \in Pages |-> NONE]

\* initializeScheduler, and the header and footer of initializeMemory.
Init ==
  /\ queue_priority_1 = <<>> /\ queue_priority_2 = <<>>
  /\ current = Main
  /\ threadIDS = 1
  /\ mainEnqueued = FALSE
  /\ state = [t \in Threads |-> IF t = Main THEN "ACTIVE" ELSE "UNBORN"]
  /\ armed = FALSE
  /\ at = [t \in Threads |-> IF t = Main THEN "user" ELSE "unborn"]
  /\ target = [t \in Threads |-> NULL]
  /\ proc = "up"
  /\ pageTables = [t \in Threads |->
       IF t = Main THEN [k \in Pages |-> IF k \in {0, Last} THEN k ELSE NONE]
       ELSE NoPages]
  /\ masterTable = [l \in Locations |-> IF l \in {0, Last} THEN 1 ELSE 0]
  /\ prot = [k \in Pages |-> k \in {0, Last}]
  /\ store = [l \in Locations |-> IF l \in {0, Last} THEN <<Main, l>> ELSE Empty]
  /\ written = [t \in Threads |-> IF t = Main THEN {0, Last} ELSE {}]
  /\ pc = "run"
  /\ i = 0 /\ j = 0 /\ temp = NULL /\ want = <<>> /\ last = 0

nextFreePage(master) == Min({l \in Locations : master[l] = 0})

\* Frames can always be copied from and to; main's exit closes the swap file, and
\* nobody looks at what lseek, read and write return.
Reachable(l) == l \in Pages \/ at[Main] # "exited"

\* (mutants: the copy is not protected; the data is not copied)
swap_out_Open(page, l) ==
  /\ store' = [store EXCEPT ![l] = IF Reachable(l) THEN store[page] ELSE @,
                            ![page] = Empty]
  /\ prot' = [prot EXCEPT ![page] = TRUE]

swap_out_NoCopy(page, l) ==
  /\ store' = [store EXCEPT ![page] = Empty]
  /\ prot' = [f \in Pages |-> IF f = page THEN TRUE
                              ELSE IF f = l THEN FALSE ELSE prot[f]]

\* The effect of swap_out(page) on store and prot, to location l.  The page is
\* cleared and stays accessible.
swap_out(page, l) ==
  /\ store' = [store EXCEPT ![l] = IF Reachable(l) THEN store[page] ELSE @,
                            ![page] = Empty]
  /\ prot' = [f \in Pages |-> IF f = page THEN TRUE
                              ELSE IF f = l THEN FALSE ELSE prot[f]]

\* The effect of swap_in(l, des): a frame is emptied, the swap file is not.
swap_in(l, des) ==
  /\ store' = [store EXCEPT ![des] = IF Reachable(l) THEN store[l] ELSE @,
                            ![l] = IF l \in Pages THEN Empty ELSE @]
  /\ prot' = [f \in Pages |-> f \in {l, des} \/ prot[f]]

-----------------------------------------------------------------------------
(***************************************************************************)
(* my_pthread_yield: the choice of the next thread, as in Assignment1.     *)
(***************************************************************************)
enqueue(t, q) == Append(q, t)

dequeue(q) == IF q = <<>> THEN q ELSE Tail(q)

peek(q) == IF q = <<>> THEN NULL ELSE Head(q)

peekEither(q1, q2) == IF q1 # <<>> THEN Head(q1) ELSE peek(q2)

YieldNoThreads(q1, q2, cur, st) ==
  /\ peekEither(q1, q2) = NULL
  /\ queue_priority_1' = q1 /\ queue_priority_2' = q2
  /\ current' = cur
  /\ state' = st
  /\ proc' = IF cur = NULL THEN "over" ELSE proc
  /\ UNCHANGED <<armed, pc, i, j, temp>>

YieldToFront(q1, q2, cur, st) ==
  LET front == peekEither(q1, q2) IN
  /\ front # NULL /\ front # cur
  /\ queue_priority_1' = q1 /\ queue_priority_2' = q2
  /\ current' = front
  /\ state' = st
  /\ armed' = FALSE
  /\ temp' = cur
  /\ pc' = IF cur = NULL THEN "in" ELSE "out"
  /\ i' = 0 /\ j' = 0
  /\ UNCHANGED proc

YieldRotate(q1, q2, cur, st) ==
  LET front == peekEither(q1, q2)
      rest1 == dequeue(q1)
      rest2 == IF q1 # <<>> THEN q2 ELSE dequeue(q2)
      back  == IF st[front] = "ACTIVE" THEN enqueue(front, rest2) ELSE rest2
      next  == peekEither(rest1, back)
  IN
  /\ front # NULL /\ front = cur
  /\ queue_priority_1' = rest1 /\ queue_priority_2' = back
  /\ current' = next
  /\ state' = [st EXCEPT ![next] = "ACTIVE"]
  /\ armed' = (rest1 # <<>> \/ armed)     \* a tv_usec of 1000000 is refused
  /\ temp' = cur
  /\ pc' = "out"
  /\ i' = 0 /\ j' = 0
  /\ UNCHANGED proc

my_pthread_yield(q1, q2, cur, st) ==
  \/ YieldNoThreads(q1, q2, cur, st)
  \/ YieldToFront(q1, q2, cur, st)
  \/ YieldRotate(q1, q2, cur, st)

Running(where) ==
  proc = "up" /\ pc = "run" /\ current # NULL /\ at[current] = where

Yield ==
  /\ my_pthread_yield(queue_priority_1, queue_priority_2, current, state)
  /\ UNCHANGED <<threadIDS, mainEnqueued, at, target, paging, want, last>>

VoluntaryYield == Running("user") /\ Yield

\* The handler is installed for SIGALRM, but ITIMER_VIRTUAL sends SIGVTALRM,
\* whose default action ends the process.
SIGVTALRM ==
  /\ armed
  /\ proc = "up"
  /\ proc' = "killed"
  /\ UNCHANGED <<sched, paging, pc, locals>>

-----------------------------------------------------------------------------
(***************************************************************************)
(* my_pthread_yield: the pages.                                            *)
(***************************************************************************)
InLoop(loop) == proc = "up" /\ pc = loop

SwapOutPage ==
  LET newAddr == nextFreePage(masterTable) IN
  /\ InLoop("out")
  /\ pageTables[temp][i] # NONE
  /\ swap_out(i, newAddr)
  /\ pageTables' = [pageTables EXCEPT ![temp][i] = newAddr]
  /\ masterTable' = [masterTable EXCEPT ![newAddr] = 1]
  /\ i' = i + 1
  /\ UNCHANGED <<sched, proc, written, pc, j, temp, want, last>>

\* masterTable when pages 0..storedi-1 and the last one have moved.
Vacated(storedi, newAddr) ==
  [l \in Locations |-> IF l < storedi THEN 0 ELSE IF l = newAddr THEN 1
                       ELSE IF l = Last THEN 0 ELSE masterTable[l]]

SwapOutLast ==
  LET newAddr == nextFreePage(masterTable) IN
  /\ InLoop("out")
  /\ pageTables[temp][i] = NONE
  /\ swap_out(Last, newAddr)
  /\ pageTables' = [pageTables EXCEPT ![temp][Last] = newAddr]
  /\ masterTable' = Vacated(i, newAddr)
  /\ pc' = "in"
  /\ i' = 0
  /\ UNCHANGED <<sched, proc, written, j, temp, want, last>>

\* swap_out(page) of the page that table j has in frame "page", if it has one.  A
\* stale table may name a frame that is marked free.  If swap_out finds this very
\* frame, it protects what it then clears: seg_handler gives the frame to the
\* current thread, and the data is lost.
MoveFrom(page) ==
  LET ks      == {k \in Pages : pageTables[j][k] = page}
      newAddr == nextFreePage(masterTable)
      moved   == [pageTables EXCEPT ![j][Min(ks)] = newAddr]
  IN  IF ks = {} THEN UNCHANGED <<pageTables, masterTable, prot, store>>
      ELSE /\ swap_out(page, newAddr)
           /\ pageTables' = IF newAddr = page
                              THEN [moved EXCEPT ![current][page] = page]
                              ELSE moved
           /\ masterTable' = [masterTable EXCEPT ![newAddr] = 1]

HasTable(t) == t \in Threads /\ t < threadIDS

\* After an exit nobody's pages were copied out: whoever has a page in frame i
\* gives way.
Evict ==
  /\ InLoop("in")
  /\ temp = NULL
  /\ pageTables[current][i] # NONE
  /\ pageTables[current][i] # i \/ j > 0
  /\ HasTable(j)
  /\ MoveFrom(i)
  /\ j' = j + 1
  /\ UNCHANGED <<sched, proc, written, pc, i, temp, want, last>>

\* (mutant: the loop does not advance)
NextPage_Same == i

NextPage == i + 1

\* (mutant: the table still names the old location)
Arrived_Forgotten(page) == pageTables

\* The current thread's page is in its own frame.
Arrived(page) == [pageTables EXCEPT ![current][page] = page]

SwapInPage ==
  LET l == pageTables[current][i] IN
  /\ InLoop("in")
  /\ l # NONE
  /\ (l = i /\ j = 0) \/ temp # NULL \/ ~HasTable(j)
  /\ IF l = i /\ j = 0 THEN UNCHANGED <<store, prot>> ELSE swap_in(l, i)
  /\ pageTables' = Arrived(i)
  /\ masterTable' = [masterTable EXCEPT ![l] = 0, ![i] = 1]
  /\ i' = NextPage
  /\ j' = 0
  /\ UNCHANGED <<sched, proc, written, pc, temp, want, last>>

EvictLast ==
  LET newAddr == nextFreePage(masterTable) IN
  /\ InLoop("in")
  /\ temp = NULL
  /\ pageTables[current][i] = NONE
  /\ pageTables[current][Last] # Last
  /\ HasTable(j)
  /\ IF pageTables[j][Last] = Last
       THEN /\ swap_out(Last, newAddr)
            /\ pageTables' = [pageTables EXCEPT ![j][Last] = newAddr]
            /\ masterTable' = [masterTable EXCEPT ![newAddr] = 1]
            /\ j' = threadIDS
       ELSE /\ j' = j + 1
            /\ UNCHANGED <<pageTables, masterTable, prot, store>>
  /\ UNCHANGED <<sched, proc, written, pc, i, temp, want, last>>

\* The last page comes in and the thread runs.
SwapInLast ==
  LET l == pageTables[current][Last] IN
  /\ InLoop("in")
  /\ pageTables[current][i] = NONE
  /\ l = Last \/ temp # NULL \/ ~HasTable(j)
  /\ IF l = Last THEN UNCHANGED <<store, prot>> ELSE swap_in(l, Last)
  /\ pageTables' = Arrived(Last)
  /\ masterTable' = [masterTable EXCEPT ![l] = 0, ![Last] = 1]
  /\ pc' = "run"
  /\ i' = 0 /\ j' = 0 /\ temp' = NULL
  /\ UNCHANGED <<sched, proc, written, want, last>>

-----------------------------------------------------------------------------
(***************************************************************************)
(* The library's other calls.                                              *)
(***************************************************************************)
\* Where createPageHeader and createPageFooter write: they forget that the
\* swap file starts with location MEMORYPAGES.
HeaderLocation(l) == IF l \in Pages THEN l ELSE l + MEMORYPAGES

EndIndex(pageIndex) == nextFreePage([masterTable EXCEPT ![pageIndex] = 1])

\* my_pthread_create.  The client creates all its threads before it joins one.
my_pthread_create ==
  LET new       == threadIDS
      pageIndex == nextFreePage(masterTable)
      endIndex  == EndIndex(pageIndex)
      q1        == enqueue(new, queue_priority_1)
  IN
  /\ Running("user")
  /\ new \in Threads
  /\ \A t \in Threads : state[t] # "FREED"
  /\ threadIDS' = threadIDS + 1
  /\ mainEnqueued' = TRUE
  /\ at' = [at EXCEPT ![new] = "user"]
  /\ pageTables' = [pageTables EXCEPT ![new] =
       [k \in Pages |-> CASE k = 0 -> pageIndex [] k = Last -> endIndex
                          [] OTHER -> NONE]]
  /\ masterTable' = [masterTable EXCEPT ![pageIndex] = 1, ![endIndex] = 1]
  /\ prot' = [f \in Pages |-> f \notin {pageIndex, endIndex} /\ prot[f]]
  /\ store' = [l \in Locations |->
                 CASE l = HeaderLocation(pageIndex) /\ Reachable(l) -> <<new, 0>>
                   [] l = HeaderLocation(endIndex) /\ Reachable(l) -> <<new, Last>>
                   [] OTHER -> store[l]]
  /\ written' = [written EXCEPT ![new] = {0, Last}]
  /\ my_pthread_yield(IF mainEnqueued THEN q1 ELSE enqueue(current, q1),
                      queue_priority_2, current,
                      [state EXCEPT ![new] = "ACTIVE"])
  /\ UNCHANGED <<target, want, last>>

\* my_pthread_exit.  Its pages stay where they are.  Main closes the swap file.
my_pthread_exit ==
  LET from1   == peek(queue_priority_1) = current
      removed == IF from1 THEN current ELSE peek(queue_priority_2)
  IN
  /\ Running("user")
  /\ at' = [at EXCEPT ![current] = "exited"]
  /\ my_pthread_yield(
       IF from1 THEN dequeue(queue_priority_1) ELSE queue_priority_1,
       IF from1 THEN queue_priority_2 ELSE dequeue(queue_priority_2),
       NULL,
       IF removed = NULL THEN state ELSE [state EXCEPT ![removed] = "COMPLETED"])
  /\ UNCHANGED <<threadIDS, mainEnqueued, target, paging, want, last>>

JoinCall(u) ==
  /\ Running("user")
  /\ u \in 1..(threadIDS - 1)
  /\ state[u] # "FREED"
  /\ \A t \in Threads : target[t] # u
  /\ at' = [at EXCEPT ![current] = "join"]
  /\ target' = [target EXCEPT ![current] = u]
  /\ UNCHANGED <<queue_priority_1, queue_priority_2, current, threadIDS,
                 mainEnqueued, state, armed, proc, paging, pc, locals>>

JoinSpin ==
  /\ Running("join")
  /\ state[target[current]] # "COMPLETED"
  /\ Yield

\* (mutant: the last page is not given back)
JoinFrees_NotLast(u) ==
  LET n == Min({k \in Pages : pageTables[u][k] = NONE}) IN
  {pageTables[u][k] : k \in 0..(n - 1)}

\* The locations that a join on u gives back: page 0 up to the first hole, and
\* the last page.
JoinFrees(u) ==
  LET n == Min({k \in Pages : pageTables[u][k] = NONE}) IN
  {pageTables[u][k] : k \in 0..(n - 1) \union {Last}}

\* The page table is freed, but pageTables still points to it.
JoinReturn ==
  LET u == target[current] IN
  /\ Running("join")
  /\ state[u] = "COMPLETED"
  /\ masterTable' = [l \in Locations |->
                       IF l \in JoinFrees(u) THEN 0 ELSE masterTable[l]]
  /\ prot' = [f \in Pages |-> f \in JoinFrees(u) \/ prot[f]]
  /\ state' = [state EXCEPT ![u] = "FREED"]
  /\ at' = [at EXCEPT ![current] = "user"]
  /\ target' = [target EXCEPT ![current] = NULL]
  /\ UNCHANGED <<queue_priority_1, queue_priority_2, current, threadIDS,
                 mainEnqueued, armed, proc, pageTables, store, written, pc,
                 locals>>

-----------------------------------------------------------------------------
(***************************************************************************)
(* myallocate for a thread: the block that is split starts on the thread's *)
(* highest page.  Tags are written on the block's last page f and on page  *)
(* r, where the rest starts; then pages up to f are claimed.  findFit has  *)
(* read the thread's pages: that it faults on one is left out.             *)
(***************************************************************************)
HighestPage == Max(written[current] \ {Last})

myallocate(f, r) ==
  /\ Running("user")
  /\ \A k \in written[current] : prot[k]
  /\ f >= HighestPage
  /\ r \in f..(f + 1)
  /\ want' = <<f, r>>
  /\ last' = f
  /\ i' = HighestPage
  /\ pc' = "tags"
  /\ UNCHANGED <<sched, proc, paging, j, temp>>

\* A tag is written on an accessible page ...
WriteTag ==
  LET p == Head(want) IN
  /\ InLoop("tags")
  /\ want # <<>>
  /\ prot[p]
  /\ store' = [store EXCEPT ![p] = <<current, p>>]
  /\ written' = [written EXCEPT ![current] = @ \union {p}]
  /\ want' = Tail(want)
  /\ UNCHANGED <<sched, proc, pageTables, masterTable, prot, pc, i, j, temp,
                 last>>

\* ... or SIGSEGV calls seg_handler.
Fault ==
  /\ InLoop("tags")
  /\ want # <<>>
  /\ ~prot[Head(want)]
  /\ pc' = "fault"
  /\ j' = 0
  /\ UNCHANGED <<sched, proc, paging, i, temp, want, last>>

\* The page's frame is now the current thread's (after moves in table).
TakeFrame(offset, table, master) ==
  /\ pageTables' = [table EXCEPT ![current][offset] = offset]
  /\ masterTable' = [master EXCEPT ![offset] = 1]

FaultOnFreeFrame ==
  LET offset == Head(want) IN
  /\ InLoop("fault")
  /\ j = 0
  /\ masterTable[offset] = 0
  /\ TakeFrame(offset, pageTables, masterTable)
  /\ prot' = [prot EXCEPT ![offset] = TRUE]
  /\ pc' = "tags"
  /\ UNCHANGED <<sched, proc, store, written, locals>>

\* The pages of table t before its first hole, where t has page "offset".
HitsBeforeHole(t, offset) ==
  {k \in Pages : /\ pageTables[t][k] = offset
                 /\ \A l \in 0..k : pageTables[t][l] # NONE}

\* (mutant: the last page is not looked at)
PageToMove_NotLast(hits) == IF hits # {} THEN Min(hits) ELSE 0

\* The page that may be in the frame: the last page is tried after the others.
PageToMove(hits) == IF hits # {} THEN Min(hits) ELSE Last

\* seg_handler looks for the owner in table j.  Only a page before the table's
\* first hole ends the search; an owner's last page moves, but the search goes
\* on.
FaultScan ==
  LET offset  == Head(want)
      hits    == HitsBeforeHole(j, offset)
      k       == PageToMove(hits)
      newAddr == nextFreePage(masterTable)
  IN
  /\ InLoop("fault")
  /\ j > 0 \/ masterTable[offset] = 1
  /\ HasTable(j)
  /\ IF pageTables[j][k] = offset
       THEN /\ swap_out(offset, newAddr)
            /\ TakeFrame(offset, [pageTables EXCEPT ![j][k] = newAddr],
                         [masterTable EXCEPT ![newAddr] = 1])
       ELSE UNCHANGED <<pageTables, masterTable, prot, store>>
  /\ IF hits # {} THEN pc' = "tags" /\ j' = 0
                  ELSE j' = j + 1 /\ UNCHANGED pc
  /\ UNCHANGED <<sched, proc, written, i, temp, want, last>>

\* No table ended the search: exit(EXIT_FAILURE).
FaultGivesUp ==
  /\ InLoop("fault")
  /\ j > 0
  /\ ~HasTable(j)
  /\ proc' = "exited"
  /\ UNCHANGED <<sched, paging, pc, locals>>

\* (mutant: a frame in use is taken without moving its page)
Claimable_Always == TRUE

Claimable == masterTable[i] = 0 \/ pageTables[current][i] = i

ClaimEvicts ==
  /\ InLoop("tags") /\ want = <<>> /\ i <= last
  /\ ~Claimable
  /\ HasTable(j)
  /\ MoveFrom(i)
  /\ j' = j + 1
  /\ UNCHANGED <<sched, proc, written, pc, i, temp, want, last>>

\* A page that the thread has is left as it is; any other is made accessible.  The
\* client fills the page (that it may fault on one of its own is left out).
ClaimPage ==
  /\ InLoop("tags") /\ want = <<>> /\ i <= last
  /\ Claimable \/ ~HasTable(j)
  /\ TakeFrame(i, pageTables, masterTable)
  /\ prot' = [prot EXCEPT ![i] = @ \/ pageTables[current][i] # i \/ masterTable[i] = 0]
  /\ store' = [store EXCEPT ![i] = <<current, i>>]
  /\ written' = [written EXCEPT ![current] = @ \union {i}]
  /\ i' = NextPage
  /\ j' = 0
  /\ UNCHANGED <<sched, proc, pc, temp, want, last>>

myallocateReturns ==
  /\ InLoop("tags") /\ want = <<>> /\ i > last
  /\ pc' = "run"
  /\ i' = 0 /\ last' = 0
  /\ UNCHANGED <<sched, proc, paging, j, temp, want>>

-----------------------------------------------------------------------------
Switch == SwapOutPage \/ SwapOutLast \/ Evict \/ SwapInPage \/ EvictLast
            \/ SwapInLast

Allocation == WriteTag \/ Fault \/ FaultOnFreeFrame \/ FaultScan
                \/ FaultGivesUp \/ ClaimEvicts \/ ClaimPage
                \/ myallocateReturns

Calls ==
  \/ my_pthread_create
  \/ VoluntaryYield
  \/ my_pthread_exit
  \/ \E u \in Threads : JoinCall(u)
  \/ JoinSpin
  \/ JoinReturn

\* A client's blocks reach up to page MaxPage (a bound).
Malloc == /\ Running("user")
          /\ \E f, r \in 0..MaxPage[current] : myallocate(f, r)

Next == Calls \/ Malloc \/ Switch \/ Allocation \/ SIGVTALRM

Spec == Init /\ [][Next]_vars

\* The library's loops go on by themselves.
FairSpec == Spec /\ WF_vars(Switch \/ Allocation)

-----------------------------------------------------------------------------
(***************************************************************************)
(* Properties.                                                             *)
(***************************************************************************)
Live == {t \in Threads : state[t] \in {"ACTIVE", "COMPLETED"}}

\* The locations that thread t's page table names.
Held(t) == {pageTables[t][k] : k \in Pages} \ {NONE}

\* No thread of S has allocated past its first page so far.
OnFirstPages(S) ==
  /\ current \in S => last = 0 /\ \A k \in DOMAIN want : want[k] = 0
  /\ \A t \in S : written[t] \subseteq {0, Last}

FirstPagesOnly == OnFirstPages(Threads)

\* As long as threads keep to their first page, what a thread stored on its
\* pages is found where its page table says, also while pages are being copied:
\* no switch, exit, join or create overwrites another thread's pages.  main.c
\* relies on it: it keeps its thread handles in malloc'ed memory across its
\* creates and joins.
PagesIntact ==
  FirstPagesOnly /\ pc \in {"run", "out", "in"} =>
    \A t \in Live : \A k \in written[t] :
       pageTables[t][k] # NONE /\ store[pageTables[t][k]] = <<t, k>>

\* No two threads share a location: what my_pthread_yield swaps out for one
\* thread is not overwritten for another.
OneOwner ==
  \A t, u \in Live : t # u => Held(t) \cap Held(u) = {}

\* Between switches a location is marked used exactly if a thread has a page
\* there: none leaks, and none that is in use can be handed out.  It too holds
\* as long as threads keep to their first page.
MasterTableExact ==
  FirstPagesOnly /\ pc = "run" =>
    {l \in Locations : masterTable[l] = 1} = UNION {Held(t) : t \in Live}

\* The thread that runs has its pages in their own frames, accessible, as long as
\* no thread but main allocates past its first page and, if main does, no join
\* has returned: a join marks the joined thread's frames as free, those too that
\* main's pages have overwritten, and the next page that is moved out of the way
\* of a block goes there.
RunsOnItsPages ==
  /\ Running("user")
  /\ OnFirstPages(Threads \ {Main})
  /\ FirstPagesOnly \/ \A t \in Threads : state[t] # "FREED"
  =>
    \A k \in Pages : pageTables[current][k] # NONE =>
                       pageTables[current][k] = k /\ prot[k]

\* Nobody can touch another thread's page by accident: the frames that hold it
\* are protected, as long as threads keep to their first page.
OthersProtected ==
  FirstPagesOnly /\ Running("user") =>
    \A t \in Live \ {current} : \A f \in Held(t) \cap Pages : ~prot[f]

\* As long as no thread but main allocates past its first page and no join has
\* returned, seg_handler never ends the process over a frame whose owner it did not
\* find: when it gives up, it has already moved the owner's page away and given the
\* frame to main.  A frame marked as used is in somebody's page table.  After a
\* join this is lost: swap_out faults on a frame that only a joined thread's table
\* names (see MoveFrom), and the location that main's page was in stays marked for
\* nobody.  So it is with a larger thread: the search that goes on after a last
\* page was moved comes to the thread's own table, finds the frame that it has just
\* given to it, and marks one more location for nobody.
OwnerIsFound ==
  /\ OnFirstPages(Threads \ {Main})
  /\ \A t \in Threads : state[t] # "FREED"
  /\ InLoop("fault") /\ j > 0 /\ ~HasTable(j)
  => pageTables[current][Head(want)] = Head(want)

\* Every switch and every allocation comes to an end.
LoopsTerminate == pc # "run" ~> (pc = "run" \/ proc # "up")
=============================================================================
