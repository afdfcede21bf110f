# TLA+ models of RutgersOS

The repository holds four course assignments on operating systems: a
user-level thread library (`Assignment1`), the same library on top of paged
memory with its own allocator (`Assignment2`), a boundary-tag heap allocator
(`VSmymalloc`), and a simple file system (`test`, with the FUSE skeleton in
`assignment3`). Here is what is modelled of them, what TLC checks and what
TLAPS proves.

## Inventory

| Part | State it keeps | Operations | Interaction |
|---|---|---|---|
| Threads, `Assignment1/my_pthread.c` | two priority queues, `current`, `threadIDS`, `isInitialized`, the interval timer, one descriptor per thread (state, context, return value) | `my_pthread_create`, `yield`, `exit`, `join`, `timer_handler` | contexts are switched inside `yield`; SIGALRM calls `yield` asynchronously; `join` and `mutex_lock` spin on `yield` |
| Mutex, same file | `ticket`, `turn` | `mutex_init`, `lock`, `unlock`, `destroy` | waits through `yield` |
| Threads with paging, `Assignment2/my_pthread.c` | the above, page tables, the frame table | the above, plus swapping a thread's pages in and out around each switch | calls `swap_in`, `swap_out`, `mprotect` |
| Allocator, `Assignment2/mymalloc.c` | 8 MB of memory: frames of the threads, the library's own region; a swap file; `masterTable` | `myallocate`, `mydeallocate`, the SIGSEGV handler | reads `current` and the page tables |
| Heap, `VSmymalloc/mymalloc.c` | a 5000-byte block of boundary-tagged chunks | `mymalloc`, `myfree` | none |
| File system, `test/test.c`, `test/block.c` | superblock numbers, inode and data bitmaps, inodes, directory blocks in a disk file | `sfs_init`, `create`, path lookup | block reads and writes |
| Programs, `VSmymalloc/memgrind.c` and `Assignment2/main.c` | arrays of pointers and counts; a shared counter and an array of handles | `grindA` to `grindF`; `counter` and `main` | clients of the heap, and of paged threads and their mutex |
| FUSE skeleton, `assignment3` | none (stubs) | callbacks that log | none |
| `Assignment0/undead_code.c` | none | rewrites its return address in a SIGSEGV handler | none |

What is hard in it:

- the timer signal can fall between any two instructions of the thread library,
  which masks nothing;
- `current` is overwritten before `swapcontext` saves the thread it named, and
  `my_pthread_exit` and `my_pthread_yield` trust that the executing thread is
  the front of a queue;
- thread descriptors are freed by `join` while the scheduler may refer to them;
- the second queue runs only when the first is empty, some dispatches disarm
  the timer, and creating and joining threads rotates nothing;
- ticket counters wrap, and a thread that waits for the mutex relies on its
  yields reaching the holder;
- the allocators keep redundant headers and footers over long sequences of
  calls, and client data can look like a tag;
- with paging, a switch is a loop of copies between frames and the swap file
  while two tables say where every page is;
- the file system has no checks where a directory or the disk is full, and a
  lookup does not say whether it succeeded.

What makes each part correct: every thread that is not finished is in exactly
one queue and runs again; a thread resumes its own execution; exit and join
pair up; one holder of the mutex, in order of arrival; blocks of the heap tile
the memory and nobody's data is overwritten; a thread finds its pages wherever
they went; directories form a tree and what was found stays found. The
properties below say these things of the code; `PROJECT.json` lists under
"hazards" the lines where they are at risk.

## Modules and the code

| Module | What it models |
|---|---|
| `Scheduler` | the thread library of Assignment1 with atomic calls; timer signals between calls |
| `SchedulerSteps` | `create`, `yield` and `exit` split into steps of at most one shared write each; timer signals inside them; implements `Scheduler` |
| `TicketMutex` | the mutex with wrapping counters; implements `FifoLock` |
| `FifoLock` | what a fair lock promises |
| `LockedThreads` | the mutex used by threads of the scheduler: `TicketMutex` and `Scheduler` together |
| `Heap` | `VSmymalloc/mymalloc.c` on a row of words; implements `FirstFit` |
| `FirstFit` | first-fit allocation of intervals |
| `Memgrind` | the workloads of `VSmymalloc/memgrind.c`, one after the other on a `Heap` |
| `OsHeap` | Assignment2's copy of the allocator, as far as it differs from `Heap` |
| `PagedThreads` | Assignment2's thread library with its pages, the SIGSEGV handler and the paging of `myallocate` |
| `CounterProgram` | `Assignment2/main.c` on `PagedThreads`, with `TicketMutex` as its mutex |
| `SimpleFS` | the file system of `test/test.c` |
| `SfsLayout` | the layout of its disk and the addressing of bits and inodes |
| `SchedulerProofs`, `SchedulerStepsProofs`, `TicketMutexProofs`, `HeapProofs`, `PagedThreadsProofs`, `CounterProgramProofs`, `SimpleFSProofs`, `SfsLayoutProofs` | theorems |
| `MC*` | TLC instances |

**Scheduler.** Variables have the names of the library's globals
(`queue_priority_1`, `queue_priority_2`, `current`, `threadIDS`,
`isInitialized`); `state`, `return_value` and `ctx` are fields of the
descriptors, as functions on thread ids. `ctx[t]` is whose execution the saved
context of `t` resumes, `cpu` whose code executes: `swapcontext` assigns both.
`armed` is the interval timer; `setitimer` with priority 0 disarms it and with
priority 2 is refused by the kernel (a `tv_usec` of 1000000), so it changes
nothing. `passed` and `delivered` are history. An uninitialised `return_value`
is chosen freely by `create`. The thread that `create` makes has the next id or,
in the model, that of a thread that was joined and freed: the code only compares
ids, and no freed id is left anywhere to compare with. So a program that
creates and joins threads for ever is a behaviour of the model.
Clients do not join a thread twice, which would read a freed descriptor; anything
else is free, joining oneself included. One action per call; `my_pthread_yield`
is an
operator on the state that its caller (user, `create`, `exit`, `join`, the
signal handler) hands it.

**SchedulerSteps.** The same calls in steps that make at most one write
another thread can see: to a queue, `current`, `threadIDS`, one field of a
descriptor, the timer. So `yield`'s peek at the next thread, its ACTIVE and
`current` are three steps, `exit`'s COMPLETED and its return value two, and
`create`'s read of `threadIDS`, its increment and the rest of the descriptor three.
`local` holds each thread's local variables, and `at` names the point reached.
`TickPoints` says at which points inside the library the signal may fall.
`SafePoints` are those of `exit` after the value is stored. Before that, a signal
loses the thread (`exit_dequeued`) or its value (`exit_completed`).
The handler itself is one step: SIGALRM is masked while it runs. The refinement
mapping shows the atomic library the state at the beginning of the call that is
under way (`entry`) until the call ends.

**TicketMutex.** `ticket++` is one step (`__sync_fetch_and_add`); the increment
of `turn` in `unlock` is a load and a store. Both wrap at `IntRange`, which
stands for 2^32. The locals of a call are reset when it ends. The module
leaves open who executes; the theorems hold for any interleaving.

**LockedThreads.** The threads of `Scheduler` use one mutex of `TicketMutex`.
Only `cpu`, the thread that executes, takes a step; a thread that waits calls
`my_pthread_yield`, with all that this does to the queues and the timer, and
`timer_handler` may interrupt it anywhere, between the load and the store of
`unlock` too. Clients may yield inside the critical section; they create, join
and exit outside it. That a waiting thread is scheduled again is not assumed:
it follows from the queues.

**Heap.** `myBlock` is the array as words of a size and an allocation bit.
`mymalloc` is one step per block that `findFit` looks at and one for placing;
`myfree` with `coalesce` is one step. A client may write any of its words with
junk that looks like a tag. `live`, `data`, `length` and `blocks` are history:
what clients hold and wrote, and where blocks start.

**Memgrind.** A workload is a rule that says which malloc or free comes next
from `mallocCount` and `freeCount`; `rand()` is a choice. The workloads come in
any order (`callGrindA` to `callGrindF`; the calls in `main` are commented
out), and clients with workload "any" make any sequence of calls. `grindE`
frees elements that it never assigned: what points outside the block is refused
by `myfree`; what points into it is undefined behaviour, after which nothing is
claimed ("undefined").

**PagedThreads.** A location is a frame or a slot of the swap file. `store`
says whose page each location holds. A switch is one step per page copied, the
fault handler one per page table searched. What happens inside a thread's own
region is reduced to the pages on which `myallocate` writes tags and which it
then claims. `written` is history: the pages on which a thread has data.
`myallocate` goes on only if these are accessible, since `findFit` has just read
them; that `findFit` itself faults is left out.
`swap_out` clears the frame that it moves. When the free page it found is that
very frame, the `memset` faults on it, and `seg_handler` gives the frame to
the current thread: `MoveFrom` has this case. After `my_pthread_exit` of main,
which closes the swap file, `read` and `write` of a slot fail and copy nothing
(`Reachable`). `ClaimPage` makes the pages accessible that it claims, not those
the thread has already.
The client creates all its threads before the first join: after a join the
library's own allocator refuses the freed block (see *Disagreements*), and a
further create works on a NULL.

**CounterProgram.** `main` and `counter` of Assignment2, statement by
statement: `temp` is `tmp`, the loop counters are `iter` and `threadIDS`. The
program is never preempted: the only signal of a time slice, SIGVTALRM, is not
handled and ends the process. `main.c` initialises its lock with the C
library's `pthread_mutex_init`, which writes zeros, as `my_pthread_mutex_init`
does, but over a `pthread_mutex_t`: the 8 bytes of the lock and 32 more. Nothing
but zeros is assumed to be there. The stacks, `c` and the lock are not paged;
the handles are. Each thread
mallocs half of the memory, to the middle of page `HalfOfPages`. `Fits` says
that every thread is created in frames, not in the swap file. A process
with client "any" makes the calls of `PagedThreads` in any order instead.

**SimpleFS.** Paths are sequences of characters with `SLASH` among them and
`parsePath` cuts them as the code does: what stands before the first slash is
dropped, a final slash gives an empty name. Names are shorter than `filepath`
(`FilepathSize`, in `PathAssumption`): `create` copies them with `strcpy`.
`block` holds directory entries by
address; `direct_ptrs` those of each inode, 0 for none. `create` in a full
directory uses an unassigned `ptr`: any slot of the inode, or a place outside
it. On a full disk the block number is -1: no bit changes, and the entry goes to
the block before the data region. `overrun` is history: one of the two
happened. `Restart` ends the process; the next one formats the disk with
`sfs_init`, whatever is on it, and leaves the data region as it is. A process
that dies between the writes of `create` or `sfs_init` leaves in addition
blocks that the next `sfs_init` writes again.

**SfsLayout.** All constants are the code's. One step formats the next larger
disk.

## Runs

| Run | Instance | Shows |
|---|---|---|
| `scheduler` | 3 threads at a time, 1 exit value | `TypeOK`; `NoLostThreads` (ACTIVE threads are exactly the queued ones, once each); `RunningIsFront`; `ContextsIntact`; `ExitCompletesCaller`; `JoinTargetIsLive`; `JoinPassesBack`; `CompletionIsFinal`; `DemotionIsPermanent`; `NoStarvation` and `JoinReturns` under `FairSpec` |
| `scheduler_timer` | 3 threads | violation: with `CallingSpec`, `NoStarvation` fails |
| `steps_refine` | 3 threads, signals in user code, in the join loop and in `exit` after its writes | `ImplementsAtomic`: the split library implements `Scheduler!Spec`; `JoinTargetCanComplete` |
| `steps_exit_signal` | 3 threads, signals anywhere in `exit` | violation of `JoinTargetCanComplete` |
| `locked_threads` | 3 threads, counters modulo 4 | `MutualExclusion`, `TicketInvariant`, `LockIsGranted` and `ImplementsFifoLock` of threads on the scheduler, with preemption |
| `memgrind` | 12 words, arrays of 4 pointers, requests of 0 to 20 and of 49 bytes | `BoundaryTags`, `Coalesced`, `UsedIsLive`, `LiveDataIntact`, `NullMeansNoFit`, `SearchTerminates`, `ImplementsFirstFit`, and `GrindRestoresHeap`: a workload leaves the memory as `initialize` made it |
| `os_heap_exact` | 12 words | violation of `NullMeansNoFit` |
| `paged_threads` | 3 threads, 11 frames; `main.c` with 1 and 2 threads of 2 rounds, or any client with main allocating over 3 pages | `LoopsTerminate`; of `main.c` `BlocksIntact` and `CountIsPrinted`; until a block leaves its first page `PagesIntact`, `MasterTableExact`, `OthersProtected`; when only main's do, until a join returns, `OwnerIsFound` and `RunsOnItsPages` |
| `paged_overwrite` | any client, 9 frames | violation of `OneOwner` |
| `simple_fs` | 9 paths, 6 data blocks, 3 pointers per inode, restarts | `DirectoriesFormTree`, `BlocksMatchPointers`, `CreatedIsFound`, `LookupsAreStable`, until an overrun |
| `simple_fs_exists` | 4 paths | violation of `RefusedExists` |
| `sfs_layout` | 8 MB to 1536 MB in steps of 8 MB | `RegionsFillDisk`, `BitmapsCover`, `InodesOutlastBlocks` |

Each property of a passing run has a mutant, a definition with a plausible bug
next to the one it replaces (`..._Suffix`), under which TLC reports it violated.

### Bounds, and why they are enough

- `MaxThreads` bounds the threads that are not freed yet, in `Scheduler`
  and `LockedThreads` not their number over time. With three, one can join while
  another is
  in either queue, one can starve behind one that creates and joins a third, and
  every branch of `yield` and `exit` is taken. For safety the theorems lift the
  bound.
  For liveness it leaves out programs that create ever more threads and
  join none: they run out of memory.
- `IntRange = 4` with three threads wraps the counters every four requests and
  is the smallest range that the proof's assumption (fewer threads than ints)
  allows, so it is the tightest case.
- Twelve words hold three blocks with a payload: a block with two free
  neighbours, both ends of memory, remainders of zero, one, two and three
  words, and a request that never fits. Workloads with `MAX = 4` pointers run out
  of memory before they have made their mallocs, as those with 3000 do on 5000
  bytes; `grindF`'s sizes then include ones that fit only after a merge.
- In `paged_overwrite` nine frames are three more than the pages of three
  threads at rest, the fewest that `RoomAssumption` allows. `MaxPage`
  lets main's blocks reach over pages 0 to 2: faults on free and on owned
  frames, and evictions. Only main grows, which keeps the run small.
- In `paged_threads` there are eleven frames, the fewest in which two threads of
  `main.c` fit (`Fits`). The block that each of them mallocs ends on page
  `HalfOfPages`, above the frames that main's pages were moved to by the first
  create, and leaves a page free (`HalfAssumption`): that is so in the code,
  where it ends on page 768 of 1536. It runs over all frames that the others'
  pages can be in. Two rounds per thread let each wait for the other's. In the
  code too, two threads fit (the default of `main.c`) and three do not: the
  third one's first page is created in the swap file, its header is written
  to another slot, and the model does not follow what `findFit` makes of that.
- `OwnerIsFound` and `RunsOnItsPages` are claimed as long as only main allocates
  past its first page. With two threads, nine frames and the other thread
  growing to page 5, TLC finds a violation of `OwnerIsFound` without its
  condition after 33 steps: the search that moved a last page out of the way goes
  on into the thread's own table, and moves the frame that was just given. Both
  need in addition that no join has returned (`RunsOnItsPages`: or that main keeps
  to its first page). A join marks as free the locations of the joined
  thread's pages, also frames that main's pages were copied over since, and a
  later page is moved there. And it leaves tables whose frames are free: with
  nine frames and main growing to page 6, `swap_out` then takes the frame that it
  moves for the free one and faults, the page of main stays marked for nobody
  where it came from, and a later search does not find its owner. In complete
  runs with nine frames and main growing to page 5 (5.4 million states) and to page
  6 (11 million) the conditional forms hold; they are also proved.
- `RoomAssumption`: the first and last pages of all threads and the two pages that
  a switch copies fit into the frames, and the swap file holds as much again
  (1536 frames, 128 threads and 5632
  locations in the code). With no location left `nextFreePage` falls off its
  end.
- A process may end while at most `RestartBlocks = 5` data blocks are in use,
  two beyond those of `sfs_init` and `main`: entries of each directory level
  are left behind.
- Six data blocks fill up after `main` and three creates, three pointers per
  inode overflow with four entries in the root. Creates stop before the inodes
  in the last block of the table are reached (a bound in `createEntry`); on a real
  disk, as `InodesOutlastBlocks` shows, that is thousands of creates after the
  disk is full.

### Fairness

- `Scheduler!CallingSpec`: every thread that executes keeps calling the library,
  or is interrupted (weak fairness of `Next`); an armed timer fires; and strong
  fairness of `JoinReturn`: the signal does not fall for ever exactly
  between the end of the wait and the return. The run `scheduler_timer` shows that
  this is not enough: a thread of the second queue that creates a thread, waits
  for it and creates the next is never moved to the back. `create` dispatches
  the new
  thread from the first queue, its `exit` dispatches the creator again, `join` finds
  it completed and does not yield, and both dispatches disarm the timer. The same
  happens when a dispatched thread computes for ever.
- `Scheduler!FairSpec`: the clients cooperate: a thread that executes again
  and again yields, or is preempted, again and again (`Rotation`). Nothing in
  the code makes them; it is what a program has to do for `NoStarvation` and
  `JoinReturns` to hold of it. That each thread's turn comes then is the queues'
  merit: with a queue that hands out its newest node (`enqueue_Lifo`) it does not.
- `LockedThreads!FairProgram`: the same weak fairness of the whole program, and
  strong fairness of each thread's steps that end its wait and its critical
  section: a thread that gets the processor there again and again is not
  interrupted, and does not yield, there every time. The clients cooperate as
  in `FairSpec` (`Rotates`). Nothing says that a waiting thread gets the
  processor; with a loop that does not yield
  (`LockSpins_Busy`) `LockIsGranted` fails.
- `MemgrindSpec`: a search goes on by itself. `PagedThreads!FairSpec`: loops of
  the library go on by themselves. `CounterProgram!ProgramSpec`: so does the
  program, which waits for nothing outside the process; the signal may come at
  any time when the timer is armed, or never.
- `Scheduler`'s, `LockedThreads`' and `Memgrind`'s runs check for deadlock;
  `PagedThreads`, `CounterProgram`, `SimpleFS` and `SfsLayout` really stop
  (process end, bounds).

## Theorems

TLAPS checks these for all values of the constants.

`SchedulerProofs`, from `MaxThreads` being a positive number and NULL no thread
and no value. The invariant is `SchedulerInvariant`: type correctness, the
queues being consistent with the descriptors' states (`Consistent`), `current`
being the front and executing, every context slot holding its own thread
(`OwnContexts`), and the facts about exit and join. The properties do not hold
by themselves: that yield demotes its caller needs `RunningIsFront`, which needs
that exit removed the caller and nobody else, which needs that the queues have
no duplicates. The proof follows the code: lemmas on `enqueue` and `dequeue`,
then `YieldFacts` (whatever consistent state `yield` is called in, it leaves
a dispatched one), then one lemma per call. From the invariant follow
`TypeCorrect`, `ThreadsAreNotLost`, `ExecutingIsFront`, `ContextsAreKept`,
`ExitCompletesItsCaller`, `JoinWaitsForLive`, `JoinMeetsExit`, and the action
properties `CompletionIsForever` and `DemotionIsForGood`; the last one compares
the second queue before and after each call (`OrderKept`).

`SchedulerStepsProofs`, for every set `TickPoints` within `SafePoints`.
`StepInv` says, for each point inside a call, what the shared state is as a
function of the state at the call's entry: `ExitPeeked` to `ExitStored`,
`CreateNumbered` to `CreateReady`, and `YieldPeeked` to `YieldChosen`, where the
arguments of `yield` (`ArgQ1` and so on) depend on whether `create`, `exit` or the
client called it. A thread that lost the processor inside the library is at one
of the `SafePoints`, and the atomic library's invariant holds of the view. The
theorems of `SchedulerProofs` are used through `Lib`, an instance of that module
with the
view for its variables. Every step inside a call leaves the view alone; the
one that ends the call is the whole call of the atomic library (`LeaveIsNext`),
and a signal at a safe point is the rest of the `exit` it interrupts
(`TickInside`): it saves the caller's context into the caller's own slot, and the
caller, no longer queued, is not the one dispatched (`ExitedIsNotFront`).
`NullIsCurrent` shows that no NULL is followed but the `current` of a program
that exits before it created a thread. `StepsImplementAtomic` and
`JoinersCanFinish` follow. The hypothesis on `TickPoints` is needed: the run
`steps_exit_signal` breaks the second one without it.

`TicketMutexProofs`, from a finite set of threads with fewer members than there
are ints. `TicketInvariant` says that the threads that wait or hold the mutex
have exactly the tickets between `turn` and `ticket`, one each; the counting
argument (`TicketsDoNotRunOut`) shows that a wrapping `ticket` never meets
`turn`. `MutualExclusionHolds` follows, and so does `TicketLockIsFifo`: with the
waiting line read off the tickets from `turn` on, the mutex takes the steps of
`FifoLock`. Then the composition, from `ClientsAreThreads` and
`LibraryAssumption` (what `Scheduler` assumes): every step of `LockedThreads` is a
step of the scheduler (`ProgramIsLibrarys`) and of the mutex
(`ProgramIsMutexs`, which needs that `cpu` is a thread, a fact about the
scheduler). So the scheduler's theorems hold of the program
(`ProgramKeepsThreads`) and so do the mutex's (`ProgramExcludes`,
`ProgramIsFifo`).

`HeapProofs`, for every memory of more than five words, every set of request
sizes and every junk a client may write. `HeapInv` adds to the properties:
the blocks tile the memory and each one's header and footer agree (`Tiled`, with
the history `blocks` as the witness), free and used are such that no two free
blocks meet (`Alternating`), a client's words lie between its tags
(`RoomForData`), only live blocks were written (`OnlyLiveIsWritten`), and a
search passed no block that fits (`SearchInv`). The hard part is a second free
of the same pointer before the next malloc, which the code does not refuse: it
does no harm because the pointer is a free block or lies inside one, behind words
that `coalesce` set to zero (`StaleFree`), however the blocks around it were
merged since. One lemma per case of `coalesce` and of
the split in `mymalloc`. The results are `BoundaryTagsHold`, `CoalescedHolds`,
`UsedIsLiveHolds`, `LiveDataIsIntact`, `NullOnlyIfNoFit`, and
`HeapImplementsFirstFit`, the refinement of `FirstFit`.

The same module, for `Memgrind` with arrays of any even length: `GrindInv` adds
what the
pointers of a workload hold (`HeldIsLive`) and how far it is (`Progress`);
`GrindRestores` says that between workloads no block is live, and with
`HeapInv` that leaves a single free block in a memory of zeros.

`PagedThreadsProofs`, for any number of threads, frames and locations with
`SizeAssumption`, `RoomAssumption`, `NoneAssumption` and `HalfAssumption`.
`PagingInv` has three
parts: the scheduler's queues (`SchedInv`), the local variables of the loops
(`LoopInv`), and, while blocks stay on their first pages, a clean paging
(`Clean`). `Clean` says which pages a table names (`Shape`), that no two pages
share a location (`Apart`), that a page in the first or last frame is in its own
and the tables of joined threads name neither (`Foreign`), which locations are
marked (`Marked`), where the data is (`Data`),
which frames are accessible (`Protection`), and where the page that is being moved
is between two copies (`Place`, `Allocating`). None of these holds alone: a copy
overwrites nothing because the frame it goes to is unmarked or its page was moved
before, which needs exact marks, which need that every page that was moved
arrived. That the next free page exists, and is a frame when a thread is
created, is a counting argument on the marks. One lemma per step of a
loop and one per call give `PagesIntactHolds`, `MasterTableExactHolds` and
`OthersProtectedHolds` of the composed program, and `LibraryPaging` says the
same of the library with any client.

`CounterProgramProofs`: first `main.c`, for any `ITER`, width of the tickets and
number of threads.
`ProgInv`: main creates a thread, which runs to its end before the next one is
created, since a create dispatches the new thread and SIGVTALRM, the only
signal, kills the process; so the mutex is free whenever a ticket is taken, and
the counter is `ITER` times the finished threads plus the rounds of the running one.
Hence `CountIsRight`: when main returns, no increment was lost. (That it
returns is `CountIsPrinted`, with TLC; and of threads that do not fit the model says
only what the code does if their malloc succeeds.) For programs that
fit, `BlocksInv` extends `Clean` to the large blocks: main keeps to its first
page, every other thread has one block (`ProgData`), no page is in the frame
where the first block will end (`EarlyFrames`), and later blocks find there
nothing but the end of an earlier one (`BlockEnd`). So the tag at the end of a
block is written over nobody's page, and each frame before it is cleared before it
is claimed. `BlocksIntactHolds` follows.

Last, any program in which only main allocates past its first page. The data is
not intact there, the run `paged_overwrite` shows why; `MainInv` says what is
left. `Grown`: the other threads' tables have exactly a first and a last page
(`Rows`), main's pages are contiguous (`Filled`, `Growing`), every mark is held by a
table or by the page in transit (`MarksHeld`), and a search for the owner of a
frame has it still ahead, or the frame is main's already (`Scanned`). Frame 0 and
the last frame stay marked and hold first and last pages only (`EndFrames`), and
main's pages are in marked, accessible frames while it runs and in none of those
while they are elsewhere (`MainFrames`). After an exit the frames that the next
thread's pages come to are marked (`Evicting`), so that `swap_out` never takes the
frame that it moves for the free one. All this holds until the first join returns,
and gives `OwnerIsFoundHolds` and `RunsOnItsPagesHolds`.

`SimpleFSProofs`, from `PathAssumption` (paths are sequences with a slash in
them and names that fit) and `RoomAssumption` (the numbers that
`SfsLayoutProofs` establishes of a
disk). `FSInv`: as long as nothing overran, the root is there, inodes and slots
are taken in order, an entry's inode is younger than its directory's
(`EntriesAreUsed`), no two entries share a block or an inode, and what is used is
reached. A tree follows because ages decrease towards the root
(`DirectoriesAreATree`), the exact bitmap because entries are distinct
(`BlocksAreMatched`). For lookups, a new entry comes after the older ones of its
directory, so that it hides none of them: a walk goes where it went, and one that
stopped at the new entry's parent now goes on (`LookupsStayStable`,
`CreatedStaysFound`). `Walk` is a recursive function on path lengths; what is
shown of it by induction is shown by least counterexample.

`SfsLayoutProofs`, for `MaxDisk` up to 192 units of 8 MB: `RegionsFill`,
`BitmapsAreLargeEnough`, `InodesOutlast`, and of the addressing on these disks
`BitsAreDistinct` (every data block and every inode has a bit of its own, inside
its own bitmap) and `InodesAreDistinct` (every inode is in a block of the inode
table, at one of its eight places and at nobody else's). They rest on
`AlwaysRoundedUp`: below 1544 MB the quotient
by 513 is never a multiple of 513.

Every invariant and action property of the runs, and each refinement, is stated
by a theorem. Only model-checked is liveness under fairness, which is out of
the prover's reach: `NoStarvation`, `JoinReturns`, `LockIsGranted`,
`SearchTerminates`, `LoopsTerminate`, `CountIsPrinted`, and the fairness conjunct
of `ImplementsFifoLock`, whose safety part is `ProgramIsFifo`.

## Disagreements between the code and its words

Shown by runs:

- `scheduler_timer`: dispatches with priority 0 disarm the timer that the
  comment says is started; a thread that creates and joins short-lived threads,
  calling the library all the time, starves the others of its queue. (So does one
  that computes for ever.)
- `steps_exit_signal`: "ATOMIC OPERATION" `my_pthread_exit` can be interrupted
  between the dequeue and COMPLETED; the thread is then lost and its joiner
  spins for ever. (Between COMPLETED and the return value, the value is lost.)
- `os_heap_exact`: `myallocate` refuses a free block that fits exactly.
- `paged_overwrite`: a switch to a thread with more pages copies them over the
  frames to which the other thread's pages were just moved.
- `simple_fs_exists`: `create("/a/a")` reports "already exists" when only `/a`
  exists.

Met while modelling; the models contain the behaviour, no run is spent on it:

- `my_pthread_exit` of the last thread returns to its caller
  (`Assignment1/my_pthread.c:379`), and called before any `create` it
  dereferences a NULL `current` (line 375).
- `my_pthread_exit(NULL)` leaves `return_value` uninitialised, and a join hands
  it on (line 405).
- Assignment2 installs its handler for SIGALRM, under a comment "Install
  timer_handler as the signal handler for SIGVTALRM"
  (`Assignment2/my_pthread.c:275`), but arms ITIMER_VIRTUAL, whose SIGVTALRM
  ends the process. `main.c` with two threads therefore prints its count only if
  it ends before an armed time slice runs out; with one thread the timer is not
  armed
  (`CountIsPrinted`).
- `pageTables` still names the tables of joined threads, and `seg_handler`, the
  evictions of `yield` and of `myallocate` search them
  (`Assignment2/my_pthread.c:798`).
- `VSmymalloc/testcases.txt:7` says of `grindE` "we were able to free all the
  pointers successfully"; one in five was never assigned
  (`memgrind.c:205`).
- `seg_handler`, after it moved another thread's last page out of the way, goes
  on searching and ends the process, unless it comes to the faulting thread's
  own table: there it finds the frame it just gave, moves it again and leaves a
  location marked for nobody (`Assignment2/mymalloc.c:80`).
- `my_pthread_join` frees the locations that the joined thread's table names,
  also frames over which a switch has copied another thread's pages; these pages
  are then in frames marked as free.
- The header of the remainder of a split block may be written on a page that is
  never claimed (`mymalloc.c:260`), and headers of pages created in the swap
  file go to the wrong slot (`mymalloc.c:178`).
- `create` for a path whose parent is missing puts the file into the deepest
  directory that exists, where an entry of that name may be already; it checks
  neither for a full directory nor for a full disk (`test/test.c:764`, `774`).
- The comment "MULTIPLES OF 4 MB" (`test/test.c:23`): at odd multiples the data
  bitmap is too small (12 MB: 4.5 blocks of bits are needed, 4 reserved), and at
  1544 MB the inode bitmap is.

## Not modelled

- `block.c` (one `pread` or `pwrite` each; errors are only printed), the FUSE
  skeleton of `assignment3` (stubs that log), and `Assignment0` (a handler that
  patches a saved instruction pointer).
- `Assignment2/memgrind.c`: a copy of VSmymalloc's that is not built there and
  calls functions that Assignment2 does not define.
- Assignment2's tag helpers have no definitions of their own: `OsHeap` uses
  those of `Heap`, whose text they repeat.
- Code that is never called or commented out: `maintenanceCycle`, `search_pq`,
  `search_wq`, `createExtremities`, `findInode`, `sfs_getattr`, `sfs_readdir`,
  the body of `testmain`.
- Signals inside `my_pthread_yield` and `my_pthread_create`: the steps are in
  `SchedulerSteps`, but no run claims a property of them. One between the read of
  `threadIDS` and its increment is left out: two threads would have one id, and
  descriptors go by their ids in the model.
- The faults of a client of Assignment2 on its own pages outside `myallocate`, what
  `pthread_mutex_init` writes behind the lock if it is not zero there already, and
  names of 508 bytes or more.
- Exhaustion of all pages, thread ids beyond `MAXTHREADS`, failing `malloc` and
  failing system calls.

## Plan

Done, in this order: the scheduler and its theorems, its split version, the
mutex, the heap, paging, the file system and its layout; then the compositions:
the mutex on the scheduler, memgrind on the heap, the counter program on paged
threads and the mutex, and restarts of the file system; then the proofs about
the heap, memgrind, the file system, the split library, the mutex on the
scheduler, and the paged threads with their program.

What is left: signals inside `my_pthread_yield` and `my_pthread_create` of
`SchedulerSteps`, and which of the safety properties survive them; `main.c` with
more threads than fit, for which `findFit` would have to be modelled on
regions without a header.
