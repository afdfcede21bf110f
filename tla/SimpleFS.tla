------------------------------ MODULE SimpleFS ------------------------------
(***************************************************************************)
(* The file system of test/test.c: inodes and data blocks with a bitmap    *)
(* each, and directories whose entries are data blocks (a name and an      *)
(* inode number) that the directory's inode points to.  Where the regions  *)
(* of the disk lie is in SfsLayout; here a bitmap is a function and only   *)
(* the addresses of the data region are kept.                              *)
(*                                                                         *)
(* A path is a sequence of characters, one of them SLASH.  What an inode   *)
(* holds besides its direct pointers is never read and is left out.        *)
(***************************************************************************)
EXTENDS Integers, Sequences, SequencesExt, FiniteSets

CONSTANTS
  SLASH,                     \* the character that separates names
  Paths,                     \* the paths that clients use
  HomeName, UserName,        \* "home" and "vshenoy"
  dataregion_blocks_start,   \* the address of the first data block
  dataregion_blocks,         \* how many there are
  total_inodes,
  DirectPtrs,                \* 12 in the code
  INODES_PER_BLOCK,
  RestartBlocks              \* bound: the data blocks that a process leaves

Inodes == 0..(total_inodes - 1)
DataBlocks == 0..(dataregion_blocks - 1)
Slots == 0..(DirectPtrs - 1)

\* The bytes of a filepath_block's name, its terminating zero included.
FilepathSize == 508

\* Every path has a SLASH: for one without, create reads before its array.  A name
\* is shorter than filepath: with a longer one, the strcpy of create runs into the
\* entry's inode, whose number then overwrites the end of the name, or past it.
ASSUME PathAssumption ==
  \A p \in Paths :
    /\ p \in Seq(UNION {Range(q) : q \in Paths}) /\ SLASH \in Range(p)
    /\ \A n \in DOMAIN p : n + FilepathSize - 1 <= Len(p) =>
         \E k \in n..(n + FilepathSize - 1) : p[k] = SLASH

\* As SfsLayout shows of a disk: data blocks run out long before the inodes of
\* the last block of the inode table are used.
ASSUME RoomAssumption ==
  /\ dataregion_blocks_start \in Nat \ {0}
  /\ dataregion_blocks \in Nat /\ dataregion_blocks > 2
  /\ INODES_PER_BLOCK \in Nat \ {0}
  /\ total_inodes \in Nat
  /\ total_inodes > dataregion_blocks + INODES_PER_BLOCK
  /\ DirectPtrs \in Nat \ {0}

VARIABLES
  inode_status, dataregion_status,   \* the bitmaps
  direct_ptrs,                       \* of every inode; 0 is no pointer
  block,                             \* what is at each address of the region
  phase,                             \* "closed", "formatted", "in use"
  reply,                             \* history: the last create and its result
  overrun                            \* history: a directory or the disk was full

vars == <<inode_status, dataregion_status, direct_ptrs, block, phase, reply,
          overrun>>

-----------------------------------------------------------------------------
(***************************************************************************)
(* Paths.                                                                  *)
(***************************************************************************)
\* get_num_dirs: the number of slashes.
get_num_dirs(path) == Cardinality({i \in DOMAIN path : path[i] = SLASH})

\* parsePath: what follows each slash, up to the next.  What stands before the
\* first slash is dropped, and "/" at the end gives an empty name.
parsePath(path) ==
  LET IsSlash(i) == path[i] = SLASH
      slashes == SelectSeq([i \in DOMAIN path |-> i], IsSlash)
      indices == Append(slashes, Len(path) + 1)
  IN  [i \in 1..get_num_dirs(path) |->
         SubSeq(path, indices[i] + 1, indices[i + 1] - 1)]

-----------------------------------------------------------------------------
(***************************************************************************)
(* Blocks.                                                                 *)
(***************************************************************************)
RootName == <<>>
RootEntry == [filepath |-> RootName, inode |-> 0]

\* The data region, and the block before it, which a full disk makes create
\* write to (the last block of the inode table).
Addresses == (dataregion_blocks_start - 1)
               ..(dataregion_blocks_start + dataregion_blocks - 1)

NoReply == [path |-> RootName, value |-> 0, parent |-> FALSE]

Init ==
  /\ inode_status = [n \in Inodes |-> 0]
  /\ dataregion_status = [b \in DataBlocks |-> 0]
  /\ direct_ptrs = [n \in Inodes |-> [j \in Slots |-> 0]]
  /\ block = [a \in Addresses |-> RootEntry]     \* a file of zeros
  /\ phase = "closed"
  /\ reply = NoReply
  /\ overrun = FALSE

\* (mutant: the inodes are not cleared)
sfs_init_KeepsInodes ==
  /\ phase = "closed"
  /\ phase' = "formatted"
  /\ inode_status' = [n \in Inodes |-> IF n = 0 THEN 1 ELSE 0]
  /\ dataregion_status' = [b \in DataBlocks |-> IF b = 0 THEN 1 ELSE 0]
  /\ block' = [block EXCEPT ![dataregion_blocks_start] = RootEntry]
  /\ UNCHANGED <<direct_ptrs, reply, overrun>>

\* sfs_init formats the disk, whatever was on it: cleared bitmaps and inodes,
\* and the root.  The data region stays as it was.
sfs_init ==
  /\ phase = "closed"
  /\ phase' = "formatted"
  /\ inode_status' = [n \in Inodes |-> IF n = 0 THEN 1 ELSE 0]
  /\ dataregion_status' = [b \in DataBlocks |-> IF b = 0 THEN 1 ELSE 0]
  /\ direct_ptrs' = [n \in Inodes |-> [j \in Slots |-> 0]]
  /\ block' = [block EXCEPT ![dataregion_blocks_start] = RootEntry]
  /\ UNCHANGED <<reply, overrun>>

\* main then stores /home and /home/vshenoy by hand.
main ==
  /\ phase = "formatted"
  /\ phase' = "in use"
  /\ inode_status' = [inode_status EXCEPT ![1] = 1, ![2] = 1]
  /\ dataregion_status' = [dataregion_status EXCEPT ![1] = 1, ![2] = 1]
  /\ direct_ptrs' = [direct_ptrs EXCEPT ![0][0] = dataregion_blocks_start + 1,
                                        ![1][0] = dataregion_blocks_start + 2]
  /\ block' = [block EXCEPT
       ![dataregion_blocks_start + 1] = [filepath |-> HomeName, inode |-> 1],
       ![dataregion_blocks_start + 2] = [filepath |-> UserName, inode |-> 2]]
  /\ UNCHANGED <<reply, overrun>>

-----------------------------------------------------------------------------
(***************************************************************************)
(* find_path_block and create.                                             *)
(***************************************************************************)
\* (mutant: the slot 0 is skipped, not the pointer 0)
Matches_SkipsFirst(n, name) ==
  {j \in Slots \ {0} :
     direct_ptrs[n][j] # 0 /\ block[direct_ptrs[n][j]].filepath = name}

\* The direct pointers of inode n whose block has the name.
Matches(n, name) ==
  {j \in Slots : direct_ptrs[n][j] # 0 /\ block[direct_ptrs[n][j]].filepath = name}

\* (mutant: the last match is taken)
Lookup_Last(n, name) ==
  block[direct_ptrs[n][CHOOSE j \in Matches(n, name) :
                         \A k \in Matches(n, name) : j >= k]]

\* The entry that the loop over the direct pointers stops at.
Lookup(n, name) ==
  block[direct_ptrs[n][CHOOSE j \in Matches(n, name) :
                         \A k \in Matches(n, name) : j <= k]]

\* How far the names lead from the root: the entry that was reached, and
\* whether every name was found.
Walk(fldrs) ==
  LET step[i \in 0..Len(fldrs)] ==
        IF i = 0 THEN [entry |-> block[dataregion_blocks_start], found |-> TRUE]
        ELSE LET at == step[i - 1] IN
             IF at.found /\ Matches(at.entry.inode, fldrs[i]) # {}
               THEN [entry |-> Lookup(at.entry.inode, fldrs[i]), found |-> TRUE]
               ELSE [at EXCEPT !.found = FALSE]
  IN  step[Len(fldrs)]

\* find_path_block returns the deepest entry reached and not whether it is
\* the one that was asked for.
find_path_block(path) == Walk(parsePath(path)).entry

Free(status) == {n \in DOMAIN status : status[n] = 0}

\* find_free_inode and find_free_datablock.
find_free(status) ==
  IF Free(status) = {} THEN -1
  ELSE CHOOSE n \in Free(status) : \A k \in Free(status) : n <= k

\* (mutant: the bit of the next block is set)
set_status_Next(status, n) ==
  IF n + 1 \in DOMAIN status THEN [status EXCEPT ![n + 1] = 1] ELSE status

\* set_inode_status(n, 1) and set_dataregion_status(n, 1).  For -1 the bit
\* lies outside the byte and nothing changes.
set_status(status, n) == IF n = -1 THEN status ELSE [status EXCEPT ![n] = 1]

FreeSlots(n) == {j \in Slots : direct_ptrs[n][j] = 0}

\* The slot that create fills: the first free one.  If there is none, ptr was
\* never assigned and stands for any slot, or for a place outside the inode.
SlotFor(n) ==
  IF FreeSlots(n) = {} THEN 0..DirectPtrs
  ELSE {CHOOSE j \in FreeSlots(n) : \A k \in FreeSlots(n) : j <= k}

InUse == phase \in {"formatted", "in use"}

\* create gives up if the entry that was found has the name of the last one.
Refuses(path) ==
  Last(parsePath(path)) = find_path_block(path).filepath

\* The names before the last one are all found.
ParentFound(path) == Walk(Front(parsePath(path))).found

createRefused(path) ==
  /\ InUse
  /\ Refuses(path)
  /\ phase' = "in use"
  /\ reply' = [path |-> path, value |-> -1, parent |-> ParentFound(path)]
  /\ UNCHANGED <<inode_status, dataregion_status, direct_ptrs, block, overrun>>

createEntry(path) ==
  LET dir          == find_path_block(path).inode
      newInodeNum  == find_free(inode_status)
      newDataBlock == find_free(dataregion_status)
      address      == dataregion_blocks_start + newDataBlock
  IN
  /\ InUse
  /\ ~Refuses(path)
  /\ newInodeNum < total_inodes - INODES_PER_BLOCK     \* bound
  /\ phase' = "in use"
  /\ inode_status' = set_status(inode_status, newInodeNum)
  /\ dataregion_status' = set_status(dataregion_status, newDataBlock)
  /\ \E ptr \in SlotFor(dir) :
       direct_ptrs' = [direct_ptrs EXCEPT ![dir] =
                         [j \in Slots |-> IF j = ptr THEN address ELSE @[j]]]
  /\ block' = [block EXCEPT ![address] = [filepath |-> Last(parsePath(path)),
                                          inode |-> newInodeNum]]
  /\ reply' = [path |-> path, value |-> 0, parent |-> ParentFound(path)]
  /\ overrun' = (overrun \/ newDataBlock = -1 \/ FreeSlots(dir) = {})

\* The process ends, and the next one begins with sfs_init.  One that dies
\* inside sfs_init or create has also written some of its blocks; all of them
\* but an entry in the data region are written again by the next sfs_init.
Restart ==
  /\ InUse
  /\ Cardinality(DataBlocks \ Free(dataregion_status)) <= RestartBlocks
  /\ phase' = "closed"
  /\ reply' = NoReply
  /\ overrun' = FALSE
  /\ UNCHANGED <<inode_status, dataregion_status, direct_ptrs, block>>

Next ==
  \/ sfs_init
  \/ main
  \/ Restart
  \/ \E path \in Paths : createRefused(path) \/ createEntry(path)

Spec == Init /\ [][Next]_vars

-----------------------------------------------------------------------------
(***************************************************************************)
(* Properties.  Those about the disk hold until a directory or the disk    *)
(* overflows; create checks neither.                                       *)
(***************************************************************************)
Entries == {e \in Inodes \X Slots : direct_ptrs[e[1]][e[2]] # 0}

EntryAt(e) == block[direct_ptrs[e[1]][e[2]]]

\* The directories form a tree on exactly the inodes marked used: every one
\* but the root's is named by one entry, of a directory that is older.
DirectoriesFormTree ==
  InUse /\ ~overrun =>
    /\ \A n \in Inodes \ {0} :
         Cardinality({e \in Entries : EntryAt(e).inode = n}) = inode_status[n]
    /\ \A e \in Entries : e[1] < EntryAt(e).inode /\ inode_status[e[1]] = 1

\* A data block is marked used exactly if it is the root's or one pointer
\* leads to it: create neither leaks blocks nor shares them.
BlocksMatchPointers ==
  InUse /\ ~overrun =>
    \A b \in DataBlocks \ {0} :
      Cardinality({e \in Entries :
          direct_ptrs[e[1]][e[2]] = dataregion_blocks_start + b})
        = dataregion_status[b]

\* What a path leads to never changes: a later create cannot hide or replace
\* it, also when it puts a second entry with the same name into a directory.
LookupsAreStable ==
  [][\A path \in Paths :
       LET walk == Walk(parsePath(path)) IN
       (InUse /\ ~overrun' /\ walk.found) => walk' = walk]_vars

\* A path that create made in a directory that was there is found afterwards.
CreatedIsFound ==
  (reply.value = 0 /\ reply.parent /\ ~overrun)
    => Walk(parsePath(reply.path)).found

\* create's comment "the file exists", where it returns -1: the path is there.
RefusedExists ==
  reply.value = -1 => Walk(parsePath(reply.path)).found
=============================================================================
