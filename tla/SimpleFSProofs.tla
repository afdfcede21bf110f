--------------------------- MODULE SimpleFSProofs ---------------------------
(***************************************************************************)
(* Proofs about SimpleFS, for every disk, every set of paths and every     *)
(* number of direct pointers.                                              *)
(***************************************************************************)
EXTENDS SimpleFS, WellFoundedInduction, FiniteSetTheorems, TLAPS

-----------------------------------------------------------------------------
(***************************************************************************)
(* The inductive invariant.                                                *)
(***************************************************************************)
FSType ==
  /\ inode_status \in [Inodes -> {0, 1}]
  /\ dataregion_status \in [DataBlocks -> {0, 1}]
  /\ direct_ptrs \in [Inodes -> [Slots -> Addresses \union {0}]]
  /\ block = [a \in Addresses |-> block[a]]
  /\ phase \in {"closed", "formatted", "in use"}
  /\ overrun \in BOOLEAN
  /\ \A n \in Inodes : inode_status[n] = 1 => n < total_inodes - INODES_PER_BLOCK

Pointer(e) == direct_ptrs[e[1]][e[2]]

\* The root and its block are there, and block 0 is nobody else's.
RootKept ==
  /\ block[dataregion_blocks_start] = RootEntry
  /\ inode_status[0] = 1
  /\ dataregion_status[0] = 1

\* Inodes are taken from the first one on, and so are slots.
InodesInOrder ==
  \A n, m \in Inodes : inode_status[n] = 1 /\ m <= n => inode_status[m] = 1

SlotsInOrder ==
  \A n \in Inodes : \A j, k \in Slots :
    direct_ptrs[n][k] # 0 /\ j <= k => direct_ptrs[n][j] # 0

\* A pointer of a used inode leads to a used block, which names a used inode
\* that is younger.
EntriesAreUsed ==
  \A e \in Entries :
    /\ Pointer(e) - dataregion_blocks_start \in DataBlocks \ {0}
    /\ dataregion_status[Pointer(e) - dataregion_blocks_start] = 1
    /\ EntryAt(e).inode \in Inodes
    /\ inode_status[EntryAt(e).inode] = 1
    /\ inode_status[e[1]] = 1
    /\ e[1] < EntryAt(e).inode

EntriesAreDistinct ==
  \A e, f \in Entries :
    Pointer(e) = Pointer(f) \/ EntryAt(e).inode = EntryAt(f).inode => e = f

UsedAreReached ==
  /\ \A b \in DataBlocks \ {0} : dataregion_status[b] = 1 =>
       \E e \in Entries : Pointer(e) = dataregion_blocks_start + b
  /\ \A n \in Inodes \ {0} : inode_status[n] = 1 =>
       \E e \in Entries : EntryAt(e).inode = n

DiskInv ==
  /\ RootKept
  /\ InodesInOrder
  /\ SlotsInOrder
  /\ EntriesAreUsed
  /\ EntriesAreDistinct
  /\ UsedAreReached

\* Just after sfs_init.
Formatted ==
  /\ inode_status = [n \in Inodes |-> IF n = 0 THEN 1 ELSE 0]
  /\ dataregion_status = [b \in DataBlocks |-> IF b = 0 THEN 1 ELSE 0]
  /\ direct_ptrs = [n \in Inodes |-> [j \in Slots |-> 0]]

\* CreatedIsFound, of each path that the last create may have been for.
CreatedPathIsFound ==
  \A path \in Paths :
    reply.path = path /\ reply.value = 0 /\ reply.parent /\ ~overrun
      => Walk(parsePath(path)).found

FSInv ==
  /\ FSType
  /\ InUse /\ ~overrun => DiskInv
  /\ phase = "formatted" => Formatted
  /\ phase # "in use" => reply = NoReply /\ ~overrun
  /\ reply # NoReply => reply.path \in Paths
  /\ CreatedPathIsFound

-----------------------------------------------------------------------------
(***************************************************************************)
(* Free inodes, blocks and slots.                                          *)
(***************************************************************************)
\* A set of numbers has a least one.
LEMMA LeastExists ==
  ASSUME NEW T, T \subseteq Nat, T # {}
  PROVE  \E x \in T : \A y \in T : x <= y
  <1>1. PICK x \in T : \A y \in T : ~(<<y, x>> \in OpToRel(<, Nat))
    BY WFMin, NatLessThanWellFounded
  <1>2. \A y \in T : ~(y < x)
    BY <1>1 DEF OpToRel
  <1> QED
    BY <1>2

\* find_free_inode and find_free_datablock return the first clear bit, or -1
\* if every bit is set.
LEMMA FindFree ==
  ASSUME NEW N \in Nat, NEW status \in [0..(N - 1) -> {0, 1}]
  PROVE  \/ /\ find_free(status) = -1
            /\ \A k \in 0..(N - 1) : status[k] = 1
         \/ /\ find_free(status) \in 0..(N - 1)
            /\ status[find_free(status)] = 0
            /\ \A k \in 0..(N - 1) : k < find_free(status) => status[k] = 1
  <1>1. CASE Free(status) = {}
    BY <1>1 DEF find_free, Free
  <1>2. CASE Free(status) # {}
    <2>1. Free(status) \subseteq Nat
      BY DEF Free
    <2>2. \E n \in Free(status) : \A k \in Free(status) : n <= k
      BY <1>2, <2>1, LeastExists
    <2>3. /\ find_free(status) \in Free(status)
          /\ \A k \in Free(status) : find_free(status) <= k
      BY <1>2, <2>2 DEF find_free
    <2> QED
      BY <2>1, <2>3 DEF Free
  <1> QED
    BY <1>1, <1>2

\* The slot that create fills is the first free one.
LEMMA FirstSlot ==
  ASSUME FSType, NEW n \in Inodes, FreeSlots(n) # {}, NEW ptr \in SlotFor(n)
  PROVE  /\ ptr \in Slots
         /\ direct_ptrs[n][ptr] = 0
         /\ \A k \in Slots : k < ptr => direct_ptrs[n][k] # 0
  <1>1. FreeSlots(n) \subseteq Nat
    BY DEF FreeSlots, Slots
  <1>2. \E j \in FreeSlots(n) : \A k \in FreeSlots(n) : j <= k
    BY <1>1, LeastExists
  <1>3. ptr \in FreeSlots(n) /\ \A k \in FreeSlots(n) : ptr <= k
    BY <1>2 DEF SlotFor
  <1>4. ptr \in Slots /\ direct_ptrs[n][ptr] = 0
    BY <1>3 DEF FreeSlots
  <1>5. ASSUME NEW k \in Slots, k < ptr
        PROVE  direct_ptrs[n][k] # 0
    <2>1. k \in Int /\ ptr \in Int
      BY <1>4 DEF Slots
    <2>2. k \notin FreeSlots(n)
      BY <1>3, <1>5, <2>1
    <2> QED
      BY <2>2 DEF FreeSlots
  <1> QED
    BY <1>4, <1>5

-----------------------------------------------------------------------------
(***************************************************************************)
(* Paths.                                                                  *)
(***************************************************************************)
\* parsePath gives a sequence of names, at least one.
LEMMA NamesOfPath ==
  ASSUME NEW path \in Paths
  PROVE  \E S : /\ parsePath(path) \in Seq(S)
                /\ Len(parsePath(path)) \in Nat \ {0}
  <1> DEFINE n == get_num_dirs(path)
             slashes == {i \in DOMAIN path : path[i] = SLASH}
             S == {parsePath(path)[i] : i \in 1..n}
  <1>1. path \in Seq(UNION {Range(q) : q \in Paths}) /\ SLASH \in Range(path)
    BY PathAssumption
  <1>2. IsFiniteSet(slashes) /\ slashes # {}
    <2>1. DOMAIN path = 1..Len(path) /\ Len(path) \in Nat
      BY <1>1
    <2>2. IsFiniteSet(1..Len(path))
      BY <2>1, FS_Interval
    <2>3. slashes \subseteq 1..Len(path)
      BY <2>1
    <2>4. slashes # {}
      BY <1>1 DEF Range
    <2> QED
      BY <2>2, <2>3, <2>4, FS_Subset
  <1>3. n \in Nat \ {0}
    BY <1>2, FS_CardinalityType, FS_EmptySet DEF get_num_dirs
  <1>4. parsePath(path) \in [1..n -> S]
    <2> DEFINE IsSlash(i) == path[i] = SLASH
               starts == SelectSeq([i \in DOMAIN path |-> i], IsSlash)
               indices == Append(starts, Len(path) + 1)
    <2>1. parsePath(path)
            = [i \in 1..n |-> SubSeq(path, indices[i] + 1, indices[i + 1] - 1)]
      BY Zenon DEF parsePath
    <2> HIDE DEF n, indices
    <2> QED
      BY <2>1
  <1>5. parsePath(path) \in Seq(S) /\ Len(parsePath(path)) = n
    <2> HIDE DEF n, S
    <2> QED
      BY <1>3, <1>4
  <1> QED
    BY <1>3, <1>5

-----------------------------------------------------------------------------
(***************************************************************************)
(* The walk along a path.  WalkTo is one step of find_path_block's loop,   *)
(* IsWalk says that w is what the loop computes.                           *)
(***************************************************************************)
WalkTo(at, name) ==
  IF at.found /\ Matches(at.entry.inode, name) # {}
    THEN [entry |-> Lookup(at.entry.inode, name), found |-> TRUE]
    ELSE [at EXCEPT !.found = FALSE]

WalkStart == [entry |-> block[dataregion_blocks_start], found |-> TRUE]

IsWalk(fldrs, w) ==
  w = [i \in 0..Len(fldrs) |-> IF i = 0 THEN WalkStart ELSE WalkTo(w[i - 1], fldrs[i])]

\* The loop has a result for every sequence of names: were there none for the
\* first k names, and k the least such number, the result for k - 1 names
\* could be extended.
LEMMA WalkExists ==
  ASSUME NEW S, NEW fldrs \in Seq(S)
  PROVE  \E w : IsWalk(fldrs, w)
  <1> DEFINE Upto(k, w) == w = [i \in 0..k |-> IF i = 0 THEN WalkStart
                                               ELSE WalkTo(w[i - 1], fldrs[i])]
             Bad == {k \in 0..Len(fldrs) : ~\E w : Upto(k, w)}
  <1>1. Len(fldrs) \in Nat
    OBVIOUS
  <1>2. CASE Bad # {}
    <2>1. Bad \subseteq Nat
      OBVIOUS
    <2> HIDE DEF Upto
    <2>2. PICK k \in Bad : \A j \in Bad : k <= j
      BY <1>2, <2>1, LeastExists
    <2>3. k \in 0..Len(fldrs) /\ ~\E w : Upto(k, w)
      BY <2>2
    <2>4. CASE k = 0
      <3>1. Upto(0, [i \in 0..0 |-> WalkStart])
        BY DEF Upto
      <3> QED
        BY <2>3, <2>4, <3>1
    <2>5. CASE k # 0
      <3>1. k - 1 \in 0..Len(fldrs) /\ k - 1 \notin Bad
        BY <1>1, <2>2, <2>3, <2>5
      <3>2. PICK w : Upto(k - 1, w)
        BY <3>1
      <3> DEFINE v == [i \in 0..k |-> IF i = 0 THEN WalkStart
                                       ELSE WalkTo(w[i - 1], fldrs[i])]
      <3>3. \A i \in 0..(k - 1) : w[i] = IF i = 0 THEN WalkStart
                                         ELSE WalkTo(w[i - 1], fldrs[i])
        BY <3>2 DEF Upto
      <3>4. \A i \in 0..(k - 1) : v[i] = w[i]
        BY <3>3, <2>3
      <3>5. \A i \in 0..k : i # 0 => v[i - 1] = w[i - 1]
        BY <3>4, <2>3
      <3> HIDE DEF v
      <3>6. v = [i \in 0..k |-> IF i = 0 THEN WalkStart
                                ELSE WalkTo(v[i - 1], fldrs[i])]
        BY <3>5 DEF v
      <3>7. Upto(k, v)
        BY <3>6 DEF Upto
      <3> QED
        BY <2>3, <3>7
    <2> QED
      BY <2>4, <2>5
  <1>3. CASE Bad = {}
    <2>1. Len(fldrs) \in 0..Len(fldrs)
      BY <1>1
    <2>2. \E w : Upto(Len(fldrs), w)
      BY <1>3, <2>1
    <2> QED
      BY <2>2 DEF IsWalk
  <1> QED
    BY <1>2, <1>3

\* Walk is the last step of that loop.
LEMMA WalkUnfolds ==
  ASSUME NEW S, NEW fldrs \in Seq(S)
  PROVE  \E w : IsWalk(fldrs, w) /\ Walk(fldrs) = w[Len(fldrs)]
  <1>1. \E w : IsWalk(fldrs, w)
    BY WalkExists
  <1> DEFINE w == CHOOSE w : IsWalk(fldrs, w)
  <1>2. IsWalk(fldrs, w)
    BY <1>1
  <1>3. Walk(fldrs) = w[Len(fldrs)]
    BY DEF Walk, IsWalk, WalkTo, WalkStart
  <1> QED
    BY <1>2, <1>3

\* What holds of the start of the loop and is passed on by each round holds of
\* every round.
LEMMA Rounds ==
  ASSUME NEW N \in Nat, NEW G, 0 \in G, \A i \in 1..N : i - 1 \in G => i \in G
  PROVE  0..N \subseteq G
  <1> DEFINE Bad == (0..N) \ G
  <1>1. CASE Bad # {}
    <2>0. Bad \subseteq Nat
      OBVIOUS
    <2> HIDE DEF Bad
    <2>1. PICK k \in Bad : \A j \in Bad : k <= j
      BY <1>1, <2>0, LeastExists
    <2> USE DEF Bad
    <2>2. k \in 1..N
      BY <2>1
    <2>3. k - 1 \in 0..N /\ ~(k <= k - 1)
      BY <2>2
    <2>4. k - 1 \in G
      BY <2>1, <2>3
    <2> QED
      BY <2>1, <2>2, <2>4
  <1> QED
    BY <1>1

\* The entry that the loop over the direct pointers stops at is one of the
\* directory's, has the name, and is the first that has it.
LEMMA LookupFinds ==
  ASSUME FSType, NEW n \in Inodes, NEW name, Matches(n, name) # {}
  PROVE  \E j \in Matches(n, name) :
            /\ Lookup(n, name) = block[direct_ptrs[n][j]]
            /\ \A k \in Matches(n, name) : j <= k
  <1>1. Matches(n, name) \subseteq Nat
    BY DEF Matches, Slots
  <1>2. \E j \in Matches(n, name) : \A k \in Matches(n, name) : j <= k
    BY <1>1, LeastExists
  <1> DEFINE j == CHOOSE j \in Matches(n, name) :
                     \A k \in Matches(n, name) : j <= k
  <1>3. j \in Matches(n, name) /\ \A k \in Matches(n, name) : j <= k
    BY <1>2
  <1>4. Lookup(n, name) = block[direct_ptrs[n][j]]
    BY DEF Lookup
  <1> HIDE DEF j
  <1> QED
    BY <1>3, <1>4

\* The entries that a walk can come to.
Reached(x) == x = RootEntry \/ \E e \in Entries : x = EntryAt(e)

LEMMA ReachedIsUsed ==
  ASSUME FSType, DiskInv, NEW x, Reached(x)
  PROVE  x.inode \in Inodes /\ inode_status[x.inode] = 1
  <1>1. CASE x = RootEntry
    BY <1>1, RoomAssumption DEF DiskInv, RootKept, RootEntry, Inodes
  <1>2. CASE \E e \in Entries : x = EntryAt(e)
    BY <1>2 DEF DiskInv, EntriesAreUsed
  <1> QED
    BY <1>1, <1>2 DEF Reached

LEMMA LookupIsReached ==
  ASSUME FSType, DiskInv, NEW n \in Inodes, NEW name, Matches(n, name) # {}
  PROVE  Reached(Lookup(n, name)) /\ Lookup(n, name).filepath = name
  <1>1. PICK j \in Matches(n, name) : Lookup(n, name) = block[direct_ptrs[n][j]]
    BY LookupFinds
  <1>2. /\ j \in Slots /\ direct_ptrs[n][j] # 0
        /\ block[direct_ptrs[n][j]].filepath = name
    BY <1>1 DEF Matches
  <1>3. <<n, j>> \in Entries /\ EntryAt(<<n, j>>) = block[direct_ptrs[n][j]]
    BY <1>2 DEF Entries, EntryAt
  <1> QED
    BY <1>1, <1>2, <1>3 DEF Reached

\* What a round of the loop has reached, as a record.
RoundIs(at, x, found) ==
  at = [entry |-> x, found |-> found] /\ found \in BOOLEAN /\ Reached(x)

\* One round: it finds the name only if the rounds before found theirs, and
\* then stands at an entry with that name.
LEMMA OneRound ==
  ASSUME FSType, DiskInv, NEW at, NEW name, \E x, found : RoundIs(at, x, found)
  PROVE  /\ \E x, found : RoundIs(WalkTo(at, name), x, found)
         /\ WalkTo(at, name).found =>
              /\ at.found
              /\ WalkTo(at, name).entry.filepath = name
         /\ ~WalkTo(at, name).found => WalkTo(at, name).entry = at.entry
         /\ WalkTo(at, name).found
              <=> at.found /\ Matches(at.entry.inode, name) # {}
  <1>1. PICK x, found : RoundIs(at, x, found)
    OBVIOUS
  <1>2. /\ at = [entry |-> x, found |-> found] /\ found \in BOOLEAN
        /\ at.entry = x /\ at.found = found /\ Reached(x)
    BY <1>1 DEF RoundIs
  <1>3. x.inode \in Inodes
    BY <1>2, ReachedIsUsed
  <1>4. CASE found /\ Matches(x.inode, name) # {}
    <2>1. WalkTo(at, name) = [entry |-> Lookup(x.inode, name), found |-> TRUE]
      BY <1>2, <1>4 DEF WalkTo
    <2>2. Reached(Lookup(x.inode, name)) /\ Lookup(x.inode, name).filepath = name
      BY <1>3, <1>4, LookupIsReached
    <2>3. RoundIs(WalkTo(at, name), Lookup(x.inode, name), TRUE)
      BY <2>1, <2>2 DEF RoundIs
    <2>4. \E y, f : RoundIs(WalkTo(at, name), y, f)
      BY <2>3, Zenon
    <2> QED
      BY <1>2, <1>4, <2>1, <2>2, <2>4
  <1>5. CASE ~(found /\ Matches(x.inode, name) # {})
    <2>1. WalkTo(at, name) = [at EXCEPT !.found = FALSE]
      BY <1>2, <1>5 DEF WalkTo
    <2>2. WalkTo(at, name) = [entry |-> x, found |-> FALSE]
      BY <1>2, <2>1
    <2>3. RoundIs(WalkTo(at, name), x, FALSE)
      BY <1>2, <2>2 DEF RoundIs
    <2>4. \E y, f : RoundIs(WalkTo(at, name), y, f)
      BY <2>3, Zenon
    <2> QED
      BY <1>2, <1>5, <2>2, <2>4
  <1> QED
    BY <1>4, <1>5

\* Every round is such a record.
LEMMA WalkRounds ==
  ASSUME FSType, DiskInv, NEW S, NEW fldrs \in Seq(S), NEW w, IsWalk(fldrs, w)
  PROVE  /\ \A i \in 0..Len(fldrs) : \E x, found : RoundIs(w[i], x, found)
         /\ w[0] = [entry |-> RootEntry, found |-> TRUE]
         /\ \A i \in 1..Len(fldrs) : w[i] = WalkTo(w[i - 1], fldrs[i])
  <1> DEFINE N == Len(fldrs)
             G == {i \in 0..N : \E x, found : RoundIs(w[i], x, found)}
  <1>1. N \in Nat
    OBVIOUS
  <1> HIDE DEF N
  <1>2. /\ w[0] = WalkStart
        /\ \A i \in 1..N : w[i] = WalkTo(w[i - 1], fldrs[i])
    BY <1>1 DEF IsWalk, N
  <1>3. w[0] = [entry |-> RootEntry, found |-> TRUE]
    BY <1>2 DEF WalkStart, DiskInv, RootKept
  <1>4. 0 \in G
    <2>1. RoundIs(w[0], RootEntry, TRUE)
      BY <1>3 DEF RoundIs, Reached
    <2>2. \E x, found : RoundIs(w[0], x, found)
      BY <2>1, Zenon
    <2> QED
      BY <1>1, <2>2
  <1>5. ASSUME NEW i \in 1..N, i - 1 \in G
        PROVE  i \in G
    <2>1. \E x, found : RoundIs(w[i - 1], x, found)
      BY <1>5
    <2>2. \E x, found : RoundIs(WalkTo(w[i - 1], fldrs[i]), x, found)
      BY <2>1, OneRound
    <2>3. \E x, found : RoundIs(w[i], x, found)
      BY <1>2, <2>2
    <2> QED
      BY <1>1, <2>3
  <1>6. 0..N \subseteq G
    <2> HIDE DEF G
    <2> QED
      BY <1>1, <1>4, <1>5, Rounds
  <1> QED
    BY <1>2, <1>3, <1>6 DEF N

\* find_path_block returns an entry of a used inode.
LEMMA PathBlockIsUsed ==
  ASSUME FSType, DiskInv, NEW path \in Paths
  PROVE  /\ find_path_block(path).inode \in Inodes
         /\ inode_status[find_path_block(path).inode] = 1
  <1> DEFINE fldrs == parsePath(path)
  <1>1. PICK S : fldrs \in Seq(S)
    BY NamesOfPath
  <1>2. PICK w : IsWalk(fldrs, w) /\ Walk(fldrs) = w[Len(fldrs)]
    BY <1>1, WalkUnfolds
  <1>3. \A i \in 0..Len(fldrs) : \E x, found : RoundIs(w[i], x, found)
    BY <1>1, <1>2, WalkRounds
  <1>4. Len(fldrs) \in 0..Len(fldrs)
    BY <1>1
  <1>5. PICK x, found : RoundIs(Walk(fldrs), x, found)
    BY <1>2, <1>3, <1>4
  <1>6. Walk(fldrs).entry = x /\ Reached(x)
    BY <1>5 DEF RoundIs
  <1> QED
    BY <1>6, ReachedIsUsed DEF find_path_block

-----------------------------------------------------------------------------
(***************************************************************************)
(* create.                                                                 *)
(***************************************************************************)
\* create puts an entry into slot p of directory d: data block b, which names
\* inode n.
Created(d, p, b, n, name) ==
  /\ d \in Inodes /\ inode_status[d] = 1
  /\ p \in Slots /\ direct_ptrs[d][p] = 0
  /\ \A k \in Slots : k < p => direct_ptrs[d][k] # 0
  /\ b \in DataBlocks \ {0} /\ dataregion_status[b] = 0
  /\ n \in Inodes /\ d < n /\ inode_status[n] = 0
  /\ \A k \in Inodes : k < n => inode_status[k] = 1
  /\ inode_status' = [inode_status EXCEPT ![n] = 1]
  /\ dataregion_status' = [dataregion_status EXCEPT ![b] = 1]
  /\ direct_ptrs' = [direct_ptrs EXCEPT ![d] =
       [j \in Slots |-> IF j = p THEN dataregion_blocks_start + b ELSE @[j]]]
  /\ block' = [block EXCEPT ![dataregion_blocks_start + b] =
                              [filepath |-> name, inode |-> n]]

\* As long as neither the directory nor the disk overflows.
LEMMA CreateStores ==
  ASSUME FSType, DiskInv, NEW path \in Paths, createEntry(path), ~overrun'
  PROVE  \E p, b, n : Created(find_path_block(path).inode, p, b, n,
                             Last(parsePath(path)))
  <1> DEFINE d == find_path_block(path).inode
             n == find_free(inode_status)
             b == find_free(dataregion_status)
  <1>1. d \in Inodes /\ inode_status[d] = 1
    BY PathBlockIsUsed
  <1>2. b # -1 /\ FreeSlots(d) # {}
    BY DEF createEntry
  <1>3. /\ b \in DataBlocks /\ dataregion_status[b] = 0
    BY <1>2, FindFree, RoomAssumption DEF FSType, DataBlocks
  <1>4. b # 0
    BY <1>3 DEF DiskInv, RootKept
  <1>5. n # -1
    <2>1. /\ total_inodes - 1 \in Inodes
          /\ ~(total_inodes - 1 < total_inodes - INODES_PER_BLOCK)
      BY RoomAssumption DEF Inodes
    <2>2. inode_status[total_inodes - 1] # 1
      BY <2>1 DEF FSType
    <2>3. /\ total_inodes \in Nat
          /\ inode_status \in [0..(total_inodes - 1) -> {0, 1}]
          /\ total_inodes - 1 \in 0..(total_inodes - 1)
      BY <2>1, RoomAssumption DEF FSType, Inodes
    <2>4. \/ \A k \in 0..(total_inodes - 1) : inode_status[k] = 1
          \/ n \in 0..(total_inodes - 1)
      BY <2>3, FindFree
    <2> HIDE DEF n
    <2> QED
      BY <2>2, <2>3, <2>4
  <1>6. /\ n \in Inodes /\ inode_status[n] = 0
        /\ \A k \in Inodes : k < n => inode_status[k] = 1
    BY <1>5, FindFree, RoomAssumption DEF FSType, Inodes
  <1>7. d < n
    <2>1. ~(n <= d)
      BY <1>1, <1>6 DEF DiskInv, InodesInOrder
    <2> QED
      BY <1>1, <1>6, <2>1 DEF Inodes
  <1>8. PICK p \in SlotFor(d) :
          direct_ptrs' = [direct_ptrs EXCEPT ![d] =
            [j \in Slots |-> IF j = p THEN dataregion_blocks_start + b ELSE @[j]]]
    BY DEF createEntry
  <1>9. /\ p \in Slots /\ direct_ptrs[d][p] = 0
        /\ \A k \in Slots : k < p => direct_ptrs[d][k] # 0
    BY <1>1, <1>2, FirstSlot
  <1>10. /\ inode_status' = [inode_status EXCEPT ![n] = 1]
         /\ dataregion_status' = [dataregion_status EXCEPT ![b] = 1]
         /\ block' = [block EXCEPT ![dataregion_blocks_start + b] =
                         [filepath |-> Last(parsePath(path)), inode |-> n]]
    BY <1>2, <1>5 DEF createEntry, set_status
  <1> HIDE DEF d, n, b
  <1>11. Created(d, p, b, n, Last(parsePath(path)))
    BY <1>1, <1>3, <1>4, <1>6, <1>7, <1>8, <1>9, <1>10 DEF Created
  <1> QED
    BY <1>11 DEF d

\* The entries afterwards: the ones before, unchanged, and the new one.
LEMMA CreatedEntries ==
  ASSUME FSType, DiskInv, NEW d, NEW p, NEW b, NEW n, NEW name,
         Created(d, p, b, n, name)
  PROVE  /\ Entries' = Entries \union {<<d, p>>}
         /\ <<d, p>> \notin Entries
         /\ Pointer(<<d, p>>)' = dataregion_blocks_start + b
         /\ EntryAt(<<d, p>>)' = [filepath |-> name, inode |-> n]
         /\ \A e \in Entries : /\ Pointer(e)' = Pointer(e)
                               /\ Pointer(e) # dataregion_blocks_start + b
                               /\ EntryAt(e)' = EntryAt(e)
                               /\ EntryAt(e).inode # n
  <1>1. /\ b \in DataBlocks \ {0} /\ dataregion_blocks_start \in Nat \ {0}
        /\ dataregion_blocks \in Nat
        /\ dataregion_blocks_start + b \in Addresses
        /\ dataregion_blocks_start + b # 0
        /\ d \in Inodes /\ p \in Slots
    BY RoomAssumption DEF Created, DataBlocks, Addresses
  <1>2. /\ direct_ptrs'[d][p] = dataregion_blocks_start + b
        /\ \A m \in Inodes, j \in Slots : m # d \/ j # p =>
             direct_ptrs'[m][j] = direct_ptrs[m][j]
    BY <1>1 DEF Created, FSType
  <1>3. /\ block'[dataregion_blocks_start + b] = [filepath |-> name, inode |-> n]
        /\ \A a \in Addresses : a # dataregion_blocks_start + b =>
             block'[a] = block[a]
    BY <1>1 DEF Created, FSType
  <1>4. <<d, p>> \notin Entries
    BY DEF Created, Entries
  <1>5. Entries' = Entries \union {<<d, p>>}
    <2>1. ASSUME NEW m \in Inodes, NEW j \in Slots
          PROVE  direct_ptrs'[m][j] # 0
                   <=> direct_ptrs[m][j] # 0 \/ <<m, j>> = <<d, p>>
      BY <1>1, <1>2
    <2> QED
      BY <1>1, <2>1 DEF Entries
  <1>6. /\ Pointer(<<d, p>>)' = dataregion_blocks_start + b
        /\ EntryAt(<<d, p>>)' = [filepath |-> name, inode |-> n]
    BY <1>2, <1>3 DEF Pointer, EntryAt
  <1>7. ASSUME NEW e \in Entries
        PROVE  /\ Pointer(e)' = Pointer(e)
               /\ Pointer(e) # dataregion_blocks_start + b
               /\ EntryAt(e)' = EntryAt(e)
               /\ EntryAt(e).inode # n
    <2>1. e[1] \in Inodes /\ e[2] \in Slots /\ (e[1] # d \/ e[2] # p)
      BY <1>4 DEF Entries
    <2>2. Pointer(e)' = Pointer(e)
      BY <1>2, <2>1 DEF Pointer
    <2>3. Pointer(e) \in Addresses
      <3>1. direct_ptrs[e[1]][e[2]] \in Addresses \union {0}
        <4>1. direct_ptrs \in [Inodes -> [Slots -> Addresses \union {0}]]
          BY DEF FSType
        <4> QED
          BY <2>1, <4>1
      <3> QED
        BY <3>1 DEF Pointer, Entries
    <2>4. Pointer(e) # dataregion_blocks_start + b
      <3>1. /\ dataregion_status[Pointer(e) - dataregion_blocks_start] = 1
            /\ dataregion_status[b] = 0
        BY DEF DiskInv, EntriesAreUsed, Created
      <3>2. (dataregion_blocks_start + b) - dataregion_blocks_start = b
        BY <1>1 DEF DataBlocks
      <3>3. CASE Pointer(e) = dataregion_blocks_start + b
        BY <3>1, <3>2, <3>3
      <3> QED
        BY <3>3
    <2>5. EntryAt(e)' = EntryAt(e)
      BY <1>3, <2>2, <2>3, <2>4 DEF EntryAt, Pointer
    <2>6. EntryAt(e).inode # n
      BY DEF DiskInv, EntriesAreUsed, Created
    <2> QED
      BY <2>2, <2>4, <2>5, <2>6
  <1> QED
    BY <1>4, <1>5, <1>6, <1>7

\* The disk stays consistent.
LEMMA CreateKeepsDisk ==
  ASSUME FSType, DiskInv, NEW d, NEW p, NEW b, NEW n, NEW name,
         Created(d, p, b, n, name)
  PROVE  DiskInv'
  <1> DEFINE new == <<d, p>>
             start == dataregion_blocks_start
  <1>1. /\ Entries' = Entries \union {new}
        /\ new \notin Entries
        /\ Pointer(new)' = start + b
        /\ EntryAt(new)' = [filepath |-> name, inode |-> n]
        /\ \A e \in Entries : /\ Pointer(e)' = Pointer(e)
                              /\ Pointer(e) # start + b
                              /\ EntryAt(e)' = EntryAt(e)
                              /\ EntryAt(e).inode # n
    BY CreatedEntries
  <1>2. /\ b \in DataBlocks \ {0} /\ n \in Inodes /\ d \in Inodes /\ p \in Slots
        /\ start + b \in Addresses /\ start \in Addresses
        /\ (start + b) - start = b
        /\ start + b # start
        /\ start \in Nat
        /\ n # 0 /\ new[1] = d
    BY RoomAssumption DEF Created, DataBlocks, Addresses, Inodes
  <1>3. /\ \A m \in Inodes : inode_status'[m] = IF m = n THEN 1 ELSE inode_status[m]
        /\ \A c \in DataBlocks :
             dataregion_status'[c] = IF c = b THEN 1 ELSE dataregion_status[c]
    BY DEF Created, FSType
  <1>4. Inodes' = Inodes /\ DataBlocks' = DataBlocks /\ Slots' = Slots
    BY DEF Inodes, DataBlocks, Slots
  <1> HIDE DEF new, start
  <1>5. RootKept'
    <2>1. block'[start] = block[start]
      BY <1>2 DEF Created, FSType, start
    <2>2. 0 \in Inodes /\ 0 \in DataBlocks
      BY RoomAssumption DEF Inodes, DataBlocks
    <2> QED
      BY <1>3, <2>1, <2>2 DEF DiskInv, RootKept, start
  <1>6. InodesInOrder'
    <2> SUFFICES ASSUME NEW k \in Inodes, NEW m \in Inodes, inode_status'[k] = 1,
                        m <= k
                 PROVE  inode_status'[m] = 1
      BY <1>4 DEF InodesInOrder
    <2>1. CASE k = n
      <3>1. m = n \/ m < n
        BY <2>1, <1>2 DEF Inodes
      <3> QED
        BY <1>3, <3>1 DEF Created
    <2>2. CASE k # n
      BY <1>3, <2>2 DEF DiskInv, InodesInOrder
    <2> QED
      BY <2>1, <2>2
  <1>7. SlotsInOrder'
    <2> SUFFICES ASSUME NEW m \in Inodes, NEW j \in Slots, NEW k \in Slots,
                        direct_ptrs'[m][k] # 0, j <= k
                 PROVE  direct_ptrs'[m][j] # 0
      BY <1>4 DEF SlotsInOrder
    <2>1. \A i \in Slots : direct_ptrs'[m][i] # 0
            <=> direct_ptrs[m][i] # 0 \/ (m = d /\ i = p)
      <3>1. \A i \in Slots : <<m, i>> \in Entries' <=> direct_ptrs'[m][i] # 0
        BY DEF Entries, Inodes, Slots
      <3>2. \A i \in Slots : <<m, i>> \in Entries <=> direct_ptrs[m][i] # 0
        BY DEF Entries
      <3> QED
        BY <1>1, <3>1, <3>2 DEF new
    <2>2. CASE m = d /\ k = p
      <3>1. j = p \/ j < p
        BY <2>2, <1>2 DEF Slots
      <3> QED
        BY <2>1, <2>2, <3>1 DEF Created
    <2>3. CASE ~(m = d /\ k = p)
      BY <2>1, <2>3 DEF DiskInv, SlotsInOrder
    <2> QED
      BY <2>2, <2>3
  <1>8. EntriesAreUsed'
    <2> SUFFICES ASSUME NEW e \in Entries'
                 PROVE  /\ Pointer(e)' - start \in DataBlocks \ {0}
                        /\ dataregion_status'[Pointer(e)' - start] = 1
                        /\ EntryAt(e)'.inode \in Inodes
                        /\ inode_status'[EntryAt(e)'.inode] = 1
                        /\ inode_status'[e[1]] = 1
                        /\ e[1] < EntryAt(e)'.inode
      BY <1>4 DEF EntriesAreUsed, start
    <2>1. CASE e = new
      <3>1. Pointer(e)' - start = b
        BY <1>1, <1>2, <2>1
      <3>2. EntryAt(e)'.inode = n
        BY <1>1, <2>1
      <3>3. d < n /\ inode_status[d] = 1
        BY DEF Created
      <3> QED
        BY <1>2, <1>3, <2>1, <3>1, <3>2, <3>3
    <2>2. CASE e \in Entries
      <3>1. Pointer(e)' = Pointer(e) /\ EntryAt(e)' = EntryAt(e)
        BY <1>1, <2>2
      <3>2. /\ Pointer(e) - start \in DataBlocks \ {0}
            /\ dataregion_status[Pointer(e) - start] = 1
            /\ EntryAt(e).inode \in Inodes
            /\ inode_status[EntryAt(e).inode] = 1
            /\ inode_status[e[1]] = 1
            /\ e[1] < EntryAt(e).inode
            /\ e[1] \in Inodes
        BY <2>2 DEF DiskInv, EntriesAreUsed, start, Entries
      <3> QED
        BY <1>3, <3>1, <3>2
    <2> QED
      BY <1>1, <2>1, <2>2
  <1>9. EntriesAreDistinct'
    <2> SUFFICES ASSUME NEW e \in Entries', NEW f \in Entries',
                        \/ Pointer(e)' = Pointer(f)'
                        \/ EntryAt(e)'.inode = EntryAt(f)'.inode
                 PROVE  e = f
      BY DEF EntriesAreDistinct
    <2>1. EntryAt(new)'.inode = n
      BY <1>1
    <2>2. CASE e = new \/ f = new
      BY <1>1, <2>1, <2>2
    <2>3. CASE e \in Entries /\ f \in Entries
      BY <1>1, <2>3 DEF DiskInv, EntriesAreDistinct
    <2> QED
      BY <1>1, <2>2, <2>3
  <1>10. UsedAreReached'
    <2>1. ASSUME NEW c \in DataBlocks \ {0}, dataregion_status'[c] = 1
          PROVE  \E e \in Entries' : Pointer(e)' = start + c
      <3>1. CASE c = b
        BY <1>1, <3>1
      <3>2. CASE c # b
        <4>1. PICK e \in Entries : Pointer(e) = start + c
          BY <1>3, <2>1, <3>2 DEF DiskInv, UsedAreReached, start
        <4> QED
          BY <1>1, <4>1
      <3> QED
        BY <3>1, <3>2
    <2>2. ASSUME NEW m \in Inodes \ {0}, inode_status'[m] = 1
          PROVE  \E e \in Entries' : EntryAt(e)'.inode = m
      <3>1. CASE m = n
        BY <1>1, <3>1
      <3>2. CASE m # n
        <4>1. PICK e \in Entries : EntryAt(e).inode = m
          BY <1>3, <2>2, <3>2 DEF DiskInv, UsedAreReached
        <4> QED
          BY <1>1, <4>1
      <3> QED
        BY <3>1, <3>2
    <2> QED
      BY <1>4, <2>1, <2>2 DEF UsedAreReached, start
  <1> QED
    BY <1>5, <1>6, <1>7, <1>8, <1>9, <1>10 DEF DiskInv

-----------------------------------------------------------------------------
(***************************************************************************)
(* Walks before and after create.                                          *)
(***************************************************************************)
\* A walk that found its last name found all of them.
LEMMA AllFound ==
  ASSUME FSType, DiskInv, NEW S, NEW fldrs \in Seq(S), NEW w, IsWalk(fldrs, w),
         w[Len(fldrs)].found
  PROVE  \A i \in 0..Len(fldrs) : w[i].found
  <1> DEFINE N == Len(fldrs)
             G == {k \in 0..N : w[N - k].found}
  <1>1. N \in Nat
    OBVIOUS
  <1>2. /\ \A i \in 0..N : \E x, found : RoundIs(w[i], x, found)
        /\ \A i \in 1..N : w[i] = WalkTo(w[i - 1], fldrs[i])
    BY WalkRounds
  <1>3. 0 \in G
    BY <1>1
  <1>4. ASSUME NEW k \in 1..N, k - 1 \in G
        PROVE  k \in G
    <2> DEFINE i == N - (k - 1)
    <2>1. i \in 1..N /\ i - 1 \in 0..N /\ i - 1 = N - k
      BY <1>1
    <2>2. w[i].found
      BY <1>4
    <2> HIDE DEF i
    <2>3. w[i - 1].found
      BY <1>2, <2>1, <2>2, OneRound
    <2> QED
      BY <1>1, <2>1, <2>3
  <1>5. 0..N \subseteq G
    <2> HIDE DEF G, N
    <2> QED
      BY <1>1, <1>3, <1>4, Rounds
  <1>6. ASSUME NEW i \in 0..N
        PROVE  w[i].found
    <2>1. N - i \in 0..N /\ N - (N - i) = i
      BY <1>1
    <2>2. N - i \in G
      BY <1>5, <2>1
    <2> QED
      BY <2>1, <2>2
  <1> QED
    BY <1>6

\* The walk on a disk with blocks blk and pointers ptrs, which stand for those
\* after a step.
MatchesOn(blk, ptrs, n, name) ==
  {j \in Slots : ptrs[n][j] # 0 /\ blk[ptrs[n][j]].filepath = name}

LookupOn(blk, ptrs, n, name) ==
  blk[ptrs[n][CHOOSE j \in MatchesOn(blk, ptrs, n, name) :
                \A k \in MatchesOn(blk, ptrs, n, name) : j <= k]]

WalkToOn(blk, ptrs, at, name) ==
  IF at.found /\ MatchesOn(blk, ptrs, at.entry.inode, name) # {}
    THEN [entry |-> LookupOn(blk, ptrs, at.entry.inode, name), found |-> TRUE]
    ELSE [at EXCEPT !.found = FALSE]

IsWalkOn(blk, ptrs, fldrs, w) ==
  w = [i \in 0..Len(fldrs) |->
         IF i = 0 THEN [entry |-> blk[dataregion_blocks_start], found |-> TRUE]
         ELSE WalkToOn(blk, ptrs, w[i - 1], fldrs[i])]

\* What the loop computes is determined by its rounds.
LEMMA WalkIsUnique ==
  ASSUME NEW blk, NEW ptrs, NEW S, NEW fldrs \in Seq(S),
         NEW v, IsWalkOn(blk, ptrs, fldrs, v), NEW w, IsWalkOn(blk, ptrs, fldrs, w)
  PROVE  v[Len(fldrs)] = w[Len(fldrs)]
  <1> DEFINE N == Len(fldrs)
             G == {i \in 0..N : v[i] = w[i]}
  <1>1. N \in Nat
    OBVIOUS
  <1> HIDE DEF N
  <1>2. /\ v[0] = w[0]
        /\ \A i \in 1..N : /\ v[i] = WalkToOn(blk, ptrs, v[i - 1], fldrs[i])
                            /\ w[i] = WalkToOn(blk, ptrs, w[i - 1], fldrs[i])
    <2>1. ASSUME NEW u, IsWalkOn(blk, ptrs, fldrs, u)
          PROVE  /\ u[0] = [entry |-> blk[dataregion_blocks_start], found |-> TRUE]
                 /\ \A i \in 1..N : u[i] = WalkToOn(blk, ptrs, u[i - 1], fldrs[i])
      <3> DEFINE init == [entry |-> blk[dataregion_blocks_start], found |-> TRUE]
      <3>1. u = [i \in 0..N |-> IF i = 0 THEN init
                                ELSE WalkToOn(blk, ptrs, u[i - 1], fldrs[i])]
        BY <2>1 DEF IsWalkOn, N
      <3> HIDE DEF init
      <3>2. u[0] = init
        BY ONLY <1>1, <3>1
      <3>3. ASSUME NEW i \in 1..N
            PROVE  u[i] = WalkToOn(blk, ptrs, u[i - 1], fldrs[i])
        BY ONLY <1>1, <3>1, i \in 1..N
      <3> QED
        BY <3>2, <3>3 DEF init
    <2> QED
      BY <2>1
  <1>3. 0 \in G
    BY <1>1, <1>2
  <1>4. ASSUME NEW i \in 1..N, i - 1 \in G
        PROVE  i \in G
    BY <1>1, <1>2, <1>4
  <1>5. 0..N \subseteq G
    <2> HIDE DEF G
    <2> QED
      BY <1>1, <1>3, <1>4, Rounds
  <1>6. N \in G
    BY <1>1, <1>5
  <1> QED
    BY <1>6 DEF N

LEMMA WalkAfter ==
  ASSUME NEW S, NEW fldrs \in Seq(S), NEW w,
         IsWalkOn(block', direct_ptrs', fldrs, w)
  PROVE  Walk(fldrs)' = w[Len(fldrs)]
  <1> DEFINE v == CHOOSE v : IsWalkOn(block', direct_ptrs', fldrs, v)
  <1>1. IsWalkOn(block', direct_ptrs', fldrs, v)
    OBVIOUS
  <1>2. Walk(fldrs)' = v[Len(fldrs)]
    BY DEF Walk, IsWalkOn, WalkToOn, LookupOn, MatchesOn, Lookup, Matches
  <1> HIDE DEF v
  <1> QED
    BY <1>1, <1>2, WalkIsUnique

\* In every directory a name leads to the entry it led to before: the new one
\* comes after it, also if it has the same name.
LEMMA LookupStable ==
  ASSUME FSType, DiskInv, NEW d, NEW p, NEW b, NEW n, NEW name,
         Created(d, p, b, n, name),
         NEW m \in Inodes, NEW nm, Matches(m, nm) # {}
  PROVE  /\ MatchesOn(block', direct_ptrs', m, nm) # {}
         /\ LookupOn(block', direct_ptrs', m, nm) = Lookup(m, nm)
  <1> DEFINE after == MatchesOn(block', direct_ptrs', m, nm)
  <1>1. PICK j \in Matches(m, nm) : /\ Lookup(m, nm) = block[direct_ptrs[m][j]]
                                    /\ \A k \in Matches(m, nm) : j <= k
    BY LookupFinds
  <1>2. \A i \in Slots : /\ <<m, i>> \in Entries <=> direct_ptrs[m][i] # 0
                         /\ <<m, i>> \in Entries' <=> direct_ptrs'[m][i] # 0
    BY DEF Entries, Inodes, Slots
  <1>3. /\ Entries' = Entries \union {<<d, p>>}
        /\ \A e \in Entries : EntryAt(e)' = EntryAt(e)
    BY CreatedEntries
  <1>4. \A i : /\ EntryAt(<<m, i>>) = block[direct_ptrs[m][i]]
               /\ EntryAt(<<m, i>>)' = block'[direct_ptrs'[m][i]]
    BY DEF EntryAt
  <1>5. /\ j \in Slots /\ <<m, j>> \in Entries /\ direct_ptrs[m][j] # 0
        /\ EntryAt(<<m, j>>).filepath = nm
    BY <1>2, <1>4 DEF Matches
  <1>6. j \in after
    <2>1. direct_ptrs'[m][j] # 0 /\ block'[direct_ptrs'[m][j]].filepath = nm
      BY <1>2, <1>3, <1>4, <1>5
    <2> QED
      BY <1>5, <2>1 DEF MatchesOn
  <1>7. ASSUME NEW k \in after
        PROVE  j <= k
    <2>1. /\ k \in Slots /\ <<m, k>> \in Entries'
          /\ EntryAt(<<m, k>>)'.filepath = nm
      BY <1>2, <1>4 DEF MatchesOn
    <2>2. CASE <<m, k>> \in Entries
      <3>1. k \in Matches(m, nm)
        BY <1>2, <1>3, <1>4, <2>1, <2>2 DEF Matches
      <3> QED
        BY <1>1, <3>1
    <2>3. CASE m = d /\ k = p
      <3>1. ~(p <= j)
        BY <1>5, <2>1, <2>3 DEF DiskInv, SlotsInOrder, Created
      <3> QED
        BY <1>5, <2>1, <2>3, <3>1 DEF Slots
    <2> QED
      BY <1>3, <2>1, <2>2, <2>3
  <1>8. (CHOOSE i \in after : \A k \in after : i <= k) = j
    <2> DEFINE c == CHOOSE i \in after : \A k \in after : i <= k
    <2>1. c \in after /\ \A k \in after : c <= k
      BY <1>6, <1>7
    <2> HIDE DEF c
    <2>2. c <= j /\ j <= c
      BY <1>6, <1>7, <2>1
    <2>3. c \in Slots
      BY <2>1 DEF MatchesOn
    <2>4. c = j
      BY <1>5, <2>2, <2>3 DEF Slots
    <2> QED
      BY <2>4 DEF c
  <1>9. LookupOn(block', direct_ptrs', m, nm) = block'[direct_ptrs'[m][j]]
    BY <1>8 DEF LookupOn
  <1>10. LookupOn(block', direct_ptrs', m, nm) = Lookup(m, nm)
    BY <1>1, <1>3, <1>4, <1>5, <1>9
  <1> QED
    BY <1>6, <1>10

\* A round that found its name finds the same entry afterwards.
LEMMA RoundStable ==
  ASSUME FSType, DiskInv, NEW d, NEW p, NEW b, NEW n, NEW name,
         Created(d, p, b, n, name),
         NEW at, \E x, found : RoundIs(at, x, found), NEW nm,
         WalkTo(at, nm).found
  PROVE  WalkToOn(block', direct_ptrs', at, nm) = WalkTo(at, nm)
  <1>1. at.found /\ Matches(at.entry.inode, nm) # {}
    BY OneRound
  <1>2. at.entry.inode \in Inodes
    <2>1. PICK x, found : RoundIs(at, x, found)
      OBVIOUS
    <2>2. at.entry = x /\ Reached(x)
      BY <2>1 DEF RoundIs
    <2> QED
      BY <2>2, ReachedIsUsed
  <1>3. /\ MatchesOn(block', direct_ptrs', at.entry.inode, nm) # {}
        /\ LookupOn(block', direct_ptrs', at.entry.inode, nm)
             = Lookup(at.entry.inode, nm)
    BY <1>1, <1>2, LookupStable
  <1> QED
    BY <1>1, <1>3 DEF WalkToOn, WalkTo

LEMMA StartStable ==
  ASSUME FSType, DiskInv, NEW d, NEW p, NEW b, NEW n, NEW name,
         Created(d, p, b, n, name)
  PROVE  block'[dataregion_blocks_start] = RootEntry
  BY CreateKeepsDisk DEF DiskInv, RootKept

\* A path that was found leads to the same entry afterwards.
LEMMA WalkStable ==
  ASSUME FSType, DiskInv, NEW d, NEW p, NEW b, NEW n, NEW name,
         Created(d, p, b, n, name),
         NEW S, NEW fldrs \in Seq(S), Walk(fldrs).found
  PROVE  Walk(fldrs)' = Walk(fldrs)
  <1> DEFINE N == Len(fldrs)
  <1>1. PICK w : IsWalk(fldrs, w) /\ Walk(fldrs) = w[Len(fldrs)]
    BY WalkUnfolds
  <1>2. /\ \A i \in 0..N : \E x, found : RoundIs(w[i], x, found)
        /\ w[0] = [entry |-> RootEntry, found |-> TRUE]
        /\ \A i \in 1..N : w[i] = WalkTo(w[i - 1], fldrs[i])
    BY <1>1, WalkRounds
  <1>3. \A i \in 0..N : w[i].found
    BY <1>1, AllFound
  <1>4. N \in Nat
    OBVIOUS
  <1> HIDE DEF N
  <1>5. \A i \in 1..N : w[i] = WalkToOn(block', direct_ptrs', w[i - 1], fldrs[i])
    <2> SUFFICES ASSUME NEW i \in 1..N
                 PROVE  w[i] = WalkToOn(block', direct_ptrs', w[i - 1], fldrs[i])
      OBVIOUS
    <2>1. i \in 0..N /\ i - 1 \in 0..N
      BY <1>4
    <2>2. /\ \E x, found : RoundIs(w[i - 1], x, found)
          /\ WalkTo(w[i - 1], fldrs[i]).found
      BY <1>2, <1>3, <2>1
    <2> QED
      BY <1>2, <2>2, RoundStable
  <1>6. w[0] = [entry |-> block'[dataregion_blocks_start], found |-> TRUE]
    BY <1>2, StartStable
  <1>7. w = [i \in 0..N |-> w[i]]
    BY <1>1 DEF IsWalk, N
  <1>8. ASSUME NEW i \in 0..N
        PROVE  w[i] = IF i = 0
                 THEN [entry |-> block'[dataregion_blocks_start], found |-> TRUE]
                 ELSE WalkToOn(block', direct_ptrs', w[i - 1], fldrs[i])
    <2>1. i = 0 \/ i \in 1..N
      BY <1>4
    <2> QED
      BY <1>5, <1>6, <2>1
  <1>9. IsWalkOn(block', direct_ptrs', fldrs, w)
    BY <1>7, <1>8 DEF IsWalkOn, N
  <1> QED
    BY <1>1, <1>9, WalkAfter

\* All names but the last.
LEMMA FrontOfNames ==
  ASSUME NEW S, NEW fldrs \in Seq(S), Len(fldrs) \in Nat \ {0}
  PROVE  /\ Front(fldrs) \in Seq(S)
         /\ Len(Front(fldrs)) = Len(fldrs) - 1
         /\ \A i \in 1..(Len(fldrs) - 1) : Front(fldrs)[i] = fldrs[i]
  <1>1. Front(fldrs) = SubSeq(fldrs, 1, Len(fldrs) - 1)
    BY DEF Front
  <1>2. \A i \in 1..(Len(fldrs) - 1) : fldrs[i] \in S
    OBVIOUS
  <1>3. Front(fldrs) = [i \in 1..(Len(fldrs) - 1) |-> fldrs[i]]
    BY <1>1
  <1> QED
    BY <1>2, <1>3

\* The path that create made is found afterwards, if the directory was there.
LEMMA CreateIsFound ==
  ASSUME FSType, DiskInv, NEW path \in Paths, createEntry(path), ~overrun',
         ParentFound(path)
  PROVE  Walk(parsePath(path))'.found
  <1> DEFINE fldrs == parsePath(path)
             front == Front(fldrs)
             N == Len(fldrs)
  <1>1. PICK S : fldrs \in Seq(S) /\ Len(fldrs) \in Nat \ {0}
    BY NamesOfPath
  <1>2. PICK p, b, n : Created(find_path_block(path).inode, p, b, n, Last(fldrs))
    BY CreateStores
  <1>3. /\ front \in Seq(S) /\ Len(front) = N - 1
        /\ \A i \in 1..(N - 1) : front[i] = fldrs[i]
        /\ Last(fldrs) = fldrs[N]
    BY <1>1, FrontOfNames DEF Last
  <1>4. find_path_block(path) = Walk(fldrs).entry /\ Walk(front).found
        /\ fldrs[N] # find_path_block(path).filepath
    BY <1>3 DEF find_path_block, ParentFound, createEntry, Refuses
  <1>5. N \in Nat \ {0}
    BY <1>1
  <1> HIDE DEF fldrs, front, N
  <1>6. PICK w : IsWalk(fldrs, w) /\ Walk(fldrs) = w[Len(fldrs)]
    BY <1>1, WalkUnfolds
  <1>7. PICK v : IsWalk(front, v) /\ Walk(front) = v[Len(front)]
    BY <1>3, WalkUnfolds
  <1>8. /\ \A i \in 0..N : \E x, found : RoundIs(w[i], x, found)
        /\ w[0] = [entry |-> RootEntry, found |-> TRUE]
        /\ \A i \in 1..N : w[i] = WalkTo(w[i - 1], fldrs[i])
    BY <1>1, <1>6, WalkRounds DEF N
  <1>9. /\ v[0] = [entry |-> RootEntry, found |-> TRUE]
        /\ \A i \in 1..(N - 1) : v[i] = WalkTo(v[i - 1], front[i])
        /\ \A i \in 0..(N - 1) : v[i].found
    <2>1. /\ v[0] = [entry |-> RootEntry, found |-> TRUE]
          /\ \A i \in 1..Len(front) : v[i] = WalkTo(v[i - 1], front[i])
      BY <1>3, <1>7, WalkRounds
    <2>2. \A i \in 0..Len(front) : v[i].found
      BY <1>3, <1>4, <1>7, AllFound
    <2> QED
      BY <1>3, <2>1, <2>2
  <1>10. \A i \in 0..(N - 1) : v[i] = w[i]
    <2> DEFINE G == {i \in 0..(N - 1) : v[i] = w[i]}
    <2>1. 0 \in G
      BY <1>5, <1>8, <1>9
    <2>2. ASSUME NEW i \in 1..(N - 1), i - 1 \in G
          PROVE  i \in G
      BY <1>3, <1>5, <1>8, <1>9, <2>2
    <2>3. N - 1 \in Nat
      BY <1>5
    <2> HIDE DEF G
    <2>4. 0..(N - 1) \subseteq G
      BY <2>1, <2>2, <2>3, Rounds
    <2> QED
      BY <2>4 DEF G
  <1>11. N - 1 \in 0..(N - 1) /\ N - 1 \in 0..N /\ N \in 0..N /\ N \in 1..N
    BY <1>5
  <1>12. w[N] = WalkTo(w[N - 1], fldrs[N]) /\ w[N - 1].found
    BY <1>8, <1>9, <1>10, <1>11
  <1>13. ~w[N].found
    BY <1>4, <1>6, <1>8, <1>11, <1>12, OneRound DEF N
  <1>14. w[N].entry = w[N - 1].entry
    BY <1>8, <1>11, <1>12, <1>13, OneRound
  <1> DEFINE d == w[N - 1].entry.inode
             found == [entry |-> LookupOn(block', direct_ptrs', d, fldrs[N]),
                       found |-> TRUE]
             u == [i \in 0..N |-> IF i = N THEN found ELSE w[i]]
  <1>15. Created(d, p, b, n, fldrs[N])
    BY <1>2, <1>3, <1>4, <1>6, <1>14 DEF N
  <1>16. MatchesOn(block', direct_ptrs', d, fldrs[N]) # {}
    <2> HIDE DEF d
    <2>1. /\ <<d, p>> \in Entries'
          /\ EntryAt(<<d, p>>)' = [filepath |-> fldrs[N], inode |-> n]
      BY <1>15, CreatedEntries
    <2>2. /\ p \in Slots /\ direct_ptrs'[d][p] # 0
          /\ block'[direct_ptrs'[d][p]].filepath = fldrs[N]
      BY <1>15, <2>1 DEF Entries, EntryAt, Created
    <2> QED
      BY <2>2 DEF MatchesOn
  <1>17. WalkToOn(block', direct_ptrs', w[N - 1], fldrs[N]) = found
    BY <1>12, <1>16 DEF WalkToOn
  <1>18. \A i \in 1..(N - 1) :
           w[i] = WalkToOn(block', direct_ptrs', w[i - 1], fldrs[i])
    <2> SUFFICES ASSUME NEW i \in 1..(N - 1)
                 PROVE  w[i] = WalkToOn(block', direct_ptrs', w[i - 1], fldrs[i])
      OBVIOUS
    <2>1. /\ i \in 0..(N - 1) /\ i - 1 \in 0..(N - 1)
          /\ i \in 1..N /\ i - 1 \in 0..N
      BY <1>5
    <2>2. /\ \E x, f : RoundIs(w[i - 1], x, f)
          /\ w[i] = WalkTo(w[i - 1], fldrs[i])
          /\ WalkTo(w[i - 1], fldrs[i]).found
      BY <1>8, <1>9, <1>10, <2>1
    <2> HIDE DEF d
    <2> QED
      BY <1>15, <2>2, RoundStable
  <1>19. w[0] = [entry |-> block'[dataregion_blocks_start], found |-> TRUE]
    <2> HIDE DEF d
    <2> QED
      BY <1>8, <1>15, StartStable
  <1> HIDE DEF found, d
  <1>20. /\ \A i \in 0..(N - 1) : u[i] = w[i]
         /\ u[N] = found
    BY <1>5
  <1>21. \A i \in 0..N :
           u[i] = IF i = 0
                    THEN [entry |-> block'[dataregion_blocks_start], found |-> TRUE]
                    ELSE WalkToOn(block', direct_ptrs', u[i - 1], fldrs[i])
    <2> HIDE DEF u
    <2> SUFFICES ASSUME NEW i \in 0..N
                 PROVE  u[i] = IF i = 0
                    THEN [entry |-> block'[dataregion_blocks_start], found |-> TRUE]
                    ELSE WalkToOn(block', direct_ptrs', u[i - 1], fldrs[i])
      OBVIOUS
    <2>1. CASE i = 0
      BY <1>5, <1>19, <1>20, <2>1
    <2>2. CASE i = N
      <3>1. i # 0 /\ u[N - 1] = w[N - 1]
        BY <1>5, <1>11, <1>20, <2>2
      <3> QED
        BY <1>17, <1>20, <2>2, <3>1
    <2>3. CASE i # 0 /\ i # N
      <3>1. i \in 1..(N - 1) /\ i \in 0..(N - 1) /\ i - 1 \in 0..(N - 1)
        BY <1>5, <2>3
      <3> QED
        BY <1>18, <1>20, <2>3, <3>1
    <2> QED
      BY <2>1, <2>2, <2>3
  <1>22. u = [i \in 0..N |-> u[i]]
    OBVIOUS
  <1> HIDE DEF u
  <1>23. IsWalkOn(block', direct_ptrs', fldrs, u)
    BY <1>21, <1>22 DEF IsWalkOn, N
  <1>24. Walk(fldrs)' = u[N]
    BY <1>1, <1>23, WalkAfter DEF N
  <1> QED
    BY <1>20, <1>24 DEF found, fldrs

\* The walk depends on the blocks and the pointers only.
WalkOn(blk, ptrs, fldrs) ==
  (CHOOSE w : IsWalkOn(blk, ptrs, fldrs, w))[Len(fldrs)]

LEMMA WalkUnchanged ==
  ASSUME UNCHANGED <<block, direct_ptrs>>, NEW fldrs
  PROVE  Walk(fldrs)' = Walk(fldrs)
  <1>1. Walk(fldrs) = WalkOn(block, direct_ptrs, fldrs)
    BY DEF Walk, WalkOn, IsWalkOn, WalkToOn, LookupOn, MatchesOn, Lookup, Matches
  <1>2. Walk(fldrs)' = WalkOn(block', direct_ptrs', fldrs)
    BY DEF Walk, WalkOn, IsWalkOn, WalkToOn, LookupOn, MatchesOn, Lookup, Matches
  <1>3. block' = block /\ direct_ptrs' = direct_ptrs
    OBVIOUS
  <1> QED
    BY ONLY <1>1, <1>2, <1>3

-----------------------------------------------------------------------------
(***************************************************************************)
(* Every step preserves the invariant.                                     *)
(***************************************************************************)
LEMMA InitEstablishes == Init => FSInv
  <1> SUFFICES ASSUME Init PROVE FSInv
    OBVIOUS
  <1>1. FSType
    <2>1. /\ inode_status \in [Inodes -> {0, 1}]
          /\ dataregion_status \in [DataBlocks -> {0, 1}]
          /\ direct_ptrs \in [Inodes -> [Slots -> Addresses \union {0}]]
      BY DEF Init
    <2>2. \A n \in Inodes : inode_status[n] # 1
      BY DEF Init
    <2>3. block = [a \in Addresses |-> block[a]]
      BY DEF Init
    <2> QED
      BY <2>1, <2>2, <2>3 DEF Init, FSType
  <1>2. phase = "closed" /\ reply = NoReply /\ ~overrun
    BY DEF Init
  <1>3. CreatedPathIsFound
    BY <1>2 DEF CreatedPathIsFound, NoReply
  <1> QED
    BY <1>1, <1>2, <1>3 DEF FSInv, InUse

LEMMA sfs_initPreserves ==
  ASSUME FSInv, sfs_init
  PROVE  FSInv'
  <1>1. /\ 0 \in Inodes /\ 0 \in DataBlocks /\ 0 \in Addresses \union {0}
        /\ dataregion_blocks_start \in Addresses
        /\ 0 < total_inodes - INODES_PER_BLOCK
    BY RoomAssumption DEF Inodes, DataBlocks, Addresses
  <1>2. FSType'
    <2>1. direct_ptrs' \in [Inodes -> [Slots -> Addresses \union {0}]]
      BY <1>1 DEF sfs_init
    <2>2. /\ inode_status' \in [Inodes -> {0, 1}]
          /\ dataregion_status' \in [DataBlocks -> {0, 1}]
          /\ \A n \in Inodes :
               inode_status'[n] = 1 => n < total_inodes - INODES_PER_BLOCK
      BY <1>1 DEF sfs_init
    <2>3. block' = [a \in Addresses |-> block'[a]]
      BY DEF sfs_init, FSInv, FSType
    <2>4. phase' = "formatted" /\ overrun' \in BOOLEAN
      BY DEF sfs_init, FSInv, FSType
    <2> QED
      BY <2>1, <2>2, <2>3, <2>4
         DEF FSType, Inodes, DataBlocks, Slots, Addresses
  <1>3. Formatted'
    BY DEF sfs_init, Formatted, Inodes, DataBlocks, Slots
  <1>4. DiskInv'
    <2>1. Entries' = {}
      BY DEF sfs_init, Entries, Inodes, Slots
    <2>2. RootKept'
      BY <1>1 DEF sfs_init, RootKept, FSInv, FSType, RootEntry, RootName
    <2>3. InodesInOrder'
      BY <1>1 DEF sfs_init, InodesInOrder, Inodes
    <2>4. SlotsInOrder'
      BY DEF sfs_init, SlotsInOrder, Inodes, Slots
    <2>5. EntriesAreUsed' /\ EntriesAreDistinct'
      BY <2>1 DEF EntriesAreUsed, EntriesAreDistinct
    <2>6. UsedAreReached'
      BY DEF sfs_init, UsedAreReached, Inodes, DataBlocks
    <2> QED
      BY <2>2, <2>3, <2>4, <2>5, <2>6 DEF DiskInv
  <1>5. reply' = NoReply /\ ~overrun'
    BY DEF sfs_init, FSInv
  <1>6. CreatedPathIsFound'
    BY <1>5 DEF CreatedPathIsFound, NoReply
  <1>7. phase' = "formatted" /\ NoReply' = NoReply
    BY DEF sfs_init, NoReply, RootName
  <1> QED
    BY <1>2, <1>3, <1>4, <1>5, <1>6, <1>7 DEF FSInv

LEMMA RestartPreserves ==
  ASSUME FSInv, Restart
  PROVE  FSInv'
  <1>1. FSType'
    BY DEF FSInv, FSType, Restart, Inodes, DataBlocks, Slots, Addresses
  <1>2. phase' = "closed" /\ reply' = NoReply /\ ~overrun' /\ NoReply' = NoReply
    BY DEF Restart, NoReply, RootName
  <1>3. CreatedPathIsFound'
    BY <1>2 DEF CreatedPathIsFound, NoReply
  <1> QED
    BY <1>1, <1>2, <1>3 DEF FSInv, InUse

LEMMA DiskUnchanged ==
  ASSUME DiskInv,
         UNCHANGED <<inode_status, dataregion_status, direct_ptrs, block>>
  PROVE  DiskInv'
  <1>1. RootKept' /\ InodesInOrder' /\ SlotsInOrder'
    BY DEF DiskInv, RootKept, InodesInOrder, SlotsInOrder
  <1>2. Entries' = Entries
    BY DEF Entries
  <1>3. \A e : Pointer(e)' = Pointer(e) /\ EntryAt(e)' = EntryAt(e)
    BY DEF Pointer, EntryAt
  <1>4. EntriesAreUsed'
    BY <1>2, <1>3 DEF DiskInv, EntriesAreUsed
  <1>5. EntriesAreDistinct'
    BY <1>2, <1>3 DEF DiskInv, EntriesAreDistinct
  <1>6. UsedAreReached'
    BY <1>2, <1>3 DEF DiskInv, UsedAreReached
  <1> QED
    BY <1>1, <1>4, <1>5, <1>6 DEF DiskInv

\* create refused leaves the disk and what every path leads to as it is.
LEMMA createRefusedPreserves ==
  ASSUME FSInv, NEW path \in Paths, createRefused(path)
  PROVE  FSInv'
  <1>1. FSType'
    BY DEF FSInv, FSType, createRefused, Inodes, DataBlocks, Slots, Addresses
  <1>2. InUse /\ ~overrun' => DiskInv'
    BY DiskUnchanged DEF FSInv, createRefused
  <1>3. /\ phase' = "in use" /\ InUse
        /\ reply'.path = path /\ reply'.value = -1
    BY DEF createRefused
  <1>4. CreatedPathIsFound'
    <2>0. -1 # 0
      OBVIOUS
    <2>1. reply'.value # 0
      BY <1>3, <2>0, Zenon
    <2> QED
      BY <2>1, Zenon DEF CreatedPathIsFound
  <1> QED
    BY <1>1, <1>2, <1>3, <1>4 DEF FSInv

LEMMA mainPreserves ==
  ASSUME FSInv, main
  PROVE  FSInv'
  <1> DEFINE start == dataregion_blocks_start
  <1>1. /\ 0 \in Inodes /\ 1 \in Inodes /\ 2 \in Inodes
        /\ 0 \in DataBlocks /\ 1 \in DataBlocks /\ 2 \in DataBlocks
        /\ 0 \in Slots /\ start \in Nat \ {0}
        /\ start \in Addresses /\ start + 1 \in Addresses /\ start + 2 \in Addresses
        /\ 2 < total_inodes - INODES_PER_BLOCK
        /\ total_inodes - INODES_PER_BLOCK \in Int
    BY RoomAssumption DEF Inodes, DataBlocks, Slots, Addresses
  <1>2. FSType /\ Formatted /\ DiskInv /\ reply = NoReply /\ ~overrun
    BY DEF FSInv, main, InUse
  <1> HIDE DEF start
  <1>3. inode_status' = [n \in Inodes |-> IF n \in {0, 1, 2} THEN 1 ELSE 0]
    BY <1>1, <1>2 DEF main, Formatted
  <1>4. dataregion_status' = [b \in DataBlocks |-> IF b \in {0, 1, 2} THEN 1 ELSE 0]
    BY <1>1, <1>2 DEF main, Formatted
  <1>5. direct_ptrs' = [n \in Inodes |-> [j \in Slots |->
            IF n = 0 /\ j = 0 THEN start + 1
            ELSE IF n = 1 /\ j = 0 THEN start + 2 ELSE 0]]
    BY <1>1, <1>2 DEF main, Formatted, start
  <1>6. /\ block'[start] = RootEntry
        /\ block'[start + 1].inode = 1
        /\ block'[start + 2].inode = 2
    <2>1. block' = [block EXCEPT ![start + 1] = [filepath |-> HomeName, inode |-> 1],
                                 ![start + 2] = [filepath |-> UserName, inode |-> 2]]
      BY DEF main, start
    <2>2. DOMAIN block = Addresses /\ block[start] = RootEntry
      BY <1>2 DEF FSType, DiskInv, RootKept, start
    <2>3. start # start + 1 /\ start # start + 2 /\ start + 1 # start + 2
      BY <1>1
    <2> QED
      BY <1>1, <2>1, <2>2, <2>3
  <1>7. FSType'
    <2>1. direct_ptrs' \in [Inodes -> [Slots -> Addresses \union {0}]]
      BY <1>1, <1>5
    <2>2. /\ inode_status' \in [Inodes -> {0, 1}]
          /\ dataregion_status' \in [DataBlocks -> {0, 1}]
      BY <1>3, <1>4
    <2>3. \A n \in Inodes :
             inode_status'[n] = 1 => n < total_inodes - INODES_PER_BLOCK
      BY <1>1, <1>3
    <2>4. block' = [a \in Addresses |-> block'[a]]
      BY <1>2 DEF main, FSType
    <2>5. phase' = "in use" /\ overrun' \in BOOLEAN
      BY <1>2 DEF main, FSType
    <2> QED
      BY <2>1, <2>2, <2>3, <2>4, <2>5
         DEF FSType, Inodes, DataBlocks, Slots, Addresses
  <1>8. Entries' = {<<0, 0>>, <<1, 0>>}
    <2>1. ASSUME NEW n \in Inodes, NEW j \in Slots
          PROVE  direct_ptrs'[n][j] # 0 <=> j = 0 /\ n \in {0, 1}
      BY <1>1, <1>5
    <2> QED
      BY <1>1, <2>1 DEF Entries
  <1>9. /\ Pointer(<<0, 0>>)' = start + 1 /\ EntryAt(<<0, 0>>)'.inode = 1
        /\ Pointer(<<1, 0>>)' = start + 2 /\ EntryAt(<<1, 0>>)'.inode = 2
    BY <1>1, <1>5, <1>6 DEF Pointer, EntryAt
  <1>10. DiskInv'
    <2>1. RootKept'
      BY <1>1, <1>3, <1>4, <1>6 DEF RootKept, start
    <2>2. InodesInOrder'
      <3>1. \A n, m \in Inodes : n \in {0, 1, 2} /\ m <= n => m \in {0, 1, 2}
        BY DEF Inodes
      <3> QED
        BY <1>3, <3>1 DEF InodesInOrder
    <2>3. SlotsInOrder'
      <3>1. \A j, k \in Slots : k = 0 /\ j <= k => j = 0
        BY DEF Slots
      <3> SUFFICES ASSUME NEW n \in Inodes, NEW j \in Slots, NEW k \in Slots,
                          direct_ptrs'[n][k] # 0, j <= k
                   PROVE  direct_ptrs'[n][j] # 0
        BY DEF SlotsInOrder
      <3>2. k = 0
        BY <1>5
      <3> QED
        BY <3>1, <3>2
    <2>4. /\ (start + 1) - start = 1 /\ (start + 2) - start = 2
          /\ start + 1 # start + 2
      BY <1>1
    <2>5. EntriesAreUsed'
      <3> SUFFICES ASSUME NEW e \in Entries'
                   PROVE  /\ Pointer(e)' - start \in DataBlocks \ {0}
                          /\ dataregion_status'[Pointer(e)' - start] = 1
                          /\ EntryAt(e)'.inode \in Inodes
                          /\ inode_status'[EntryAt(e)'.inode] = 1
                          /\ inode_status'[e[1]] = 1
                          /\ e[1] < EntryAt(e)'.inode
        BY DEF EntriesAreUsed, start
      <3>1. CASE e = <<0, 0>>
        <4>1. Pointer(e)' - start = 1 /\ EntryAt(e)'.inode = 1 /\ e[1] = 0
          BY <1>9, <2>4, <3>1
        <4> QED
          BY <1>1, <1>3, <1>4, <4>1
      <3>2. CASE e = <<1, 0>>
        <4>1. Pointer(e)' - start = 2 /\ EntryAt(e)'.inode = 2 /\ e[1] = 1
          BY <1>9, <2>4, <3>2
        <4> QED
          BY <1>1, <1>3, <1>4, <4>1
      <3> QED
        BY <1>8, <3>1, <3>2
    <2>6. EntriesAreDistinct'
      BY <1>8, <1>9, <2>4 DEF EntriesAreDistinct
    <2>7. UsedAreReached'
      <3>1. ASSUME NEW b \in DataBlocks \ {0}, dataregion_status'[b] = 1
            PROVE  \E e \in Entries' : Pointer(e)' = start + b
        <4>1. b = 1 \/ b = 2
          BY <1>4, <3>1
        <4> QED
          BY <1>8, <1>9, <4>1
      <3>2. ASSUME NEW n \in Inodes \ {0}, inode_status'[n] = 1
            PROVE  \E e \in Entries' : EntryAt(e)'.inode = n
        <4>1. n = 1 \/ n = 2
          BY <1>3, <3>2
        <4> QED
          BY <1>8, <1>9, <4>1
      <3> QED
        BY <3>1, <3>2 DEF UsedAreReached, start
    <2> QED
      BY <2>1, <2>2, <2>3, <2>5, <2>6, <2>7 DEF DiskInv
  <1>11. phase' = "in use" /\ reply' = NoReply /\ NoReply' = NoReply
    BY <1>2 DEF main, NoReply, RootName
  <1>12. CreatedPathIsFound'
    BY <1>11 DEF CreatedPathIsFound, NoReply
  <1> QED
    BY <1>7, <1>10, <1>11, <1>12 DEF FSInv

\* create, also when the directory or the disk overflows.
LEMMA createEntryPreserves ==
  ASSUME FSInv, NEW path \in Paths, createEntry(path)
  PROVE  FSInv'
  <1>1. FSType
    BY DEF FSInv
  <1>2. FSType'
    <2> DEFINE dir == find_path_block(path).inode
               n == find_free(inode_status)
               b == find_free(dataregion_status)
               address == dataregion_blocks_start + b
    <2>1. n \in {-1} \union Inodes
      BY <1>1, FindFree, RoomAssumption DEF FSType, Inodes
    <2>2. b \in {-1} \union DataBlocks
      BY <1>1, FindFree, RoomAssumption DEF FSType, DataBlocks
    <2>3. n < total_inodes - INODES_PER_BLOCK
      BY DEF createEntry
    <2>4. address \in Addresses
      <3> HIDE DEF b
      <3> QED
        BY <2>2, RoomAssumption DEF DataBlocks, Addresses
    <2>5. /\ inode_status' \in [Inodes -> {0, 1}]
          /\ \A k \in Inodes :
               inode_status'[k] = 1 => k < total_inodes - INODES_PER_BLOCK
      BY <1>1, <2>1, <2>3 DEF createEntry, set_status, FSType
    <2>6. dataregion_status' \in [DataBlocks -> {0, 1}]
      BY <1>1, <2>2 DEF createEntry, set_status, FSType
    <2>7. direct_ptrs' \in [Inodes -> [Slots -> Addresses \union {0}]]
      <3>1. PICK p \in SlotFor(dir) : direct_ptrs' = [direct_ptrs EXCEPT ![dir] =
                       [j \in Slots |-> IF j = p THEN address ELSE @[j]]]
        BY DEF createEntry
      <3> HIDE DEF address, dir
      <3>2. direct_ptrs \in [Inodes -> [Slots -> Addresses \union {0}]]
        BY <1>1 DEF FSType
      <3> QED
        BY <2>4, <3>1, <3>2
    <2>8. block' = [a \in Addresses |-> block'[a]]
      BY <1>1 DEF createEntry, FSType
    <2>9. phase' = "in use" /\ overrun' \in BOOLEAN
      BY <1>1 DEF createEntry, FSType
    <2> QED
      BY <2>5, <2>6, <2>7, <2>8, <2>9
         DEF FSType, Inodes, DataBlocks, Slots, Addresses
  <1>3. phase' = "in use" /\ InUse /\ reply'.path = path /\ (~overrun' => ~overrun)
    BY DEF createEntry
  <1>4. ~overrun' => DiskInv'
    BY <1>1, <1>3, CreateStores, CreateKeepsDisk DEF FSInv
  <1>5. reply'.parent => ParentFound(path)
    BY DEF createEntry
  <1>6. CreatedPathIsFound'
    <2> SUFFICES ASSUME reply'.parent, ~overrun'
                 PROVE  Walk(parsePath(path))'.found
      BY <1>3, Zenon DEF CreatedPathIsFound
    <2> QED
      BY <1>1, <1>3, <1>5, CreateIsFound DEF FSInv
  <1> QED
    BY <1>2, <1>3, <1>4, <1>6 DEF FSInv

\* The invariant behind the theorems below.
THEOREM FSInvariant == Spec => []FSInv
  <1>1. FSInv /\ [Next]_vars => FSInv'
    <2> SUFFICES ASSUME FSInv, [Next]_vars PROVE FSInv'
      OBVIOUS
    <2>1. CASE sfs_init
      BY <2>1, sfs_initPreserves
    <2>2. CASE main
      BY <2>2, mainPreserves
    <2>3. CASE Restart
      BY <2>3, RestartPreserves
    <2>4. ASSUME NEW path \in Paths, createRefused(path) \/ createEntry(path)
          PROVE  FSInv'
      BY <2>4, createRefusedPreserves, createEntryPreserves
    <2>5. CASE UNCHANGED vars
      <3>1. FSType'
        BY <2>5 DEF FSInv, FSType, vars
      <3>2. UNCHANGED <<inode_status, dataregion_status, direct_ptrs, block,
                        phase, reply, overrun>>
        BY <2>5 DEF vars
      <3>3. InUse' /\ ~overrun' => DiskInv'
        BY <3>2, DiskUnchanged DEF FSInv, InUse
      <3>4. CreatedPathIsFound'
        <4> SUFFICES ASSUME NEW path \in Paths, reply.path = path,
                            reply.value = 0, reply.parent, ~overrun
                     PROVE  Walk(parsePath(path))'.found
          BY <3>2, Zenon DEF CreatedPathIsFound
        <4>1. Walk(parsePath(path))' = Walk(parsePath(path))
          BY <3>2, WalkUnchanged
        <4>2. Walk(parsePath(path)).found
          BY DEF FSInv, CreatedPathIsFound
        <4> QED
          BY <4>1, <4>2
      <3>5. phase' = "formatted" => Formatted'
        BY <3>2 DEF FSInv, Formatted
      <3>6. /\ phase' # "in use" => reply' = NoReply' /\ ~overrun'
            /\ reply' # NoReply' => reply'.path \in Paths
        BY <3>2 DEF FSInv, NoReply, RootName
      <3> QED
        BY <3>1, <3>3, <3>4, <3>5, <3>6 DEF FSInv
    <2> QED
      BY <2>1, <2>2, <2>3, <2>4, <2>5 DEF Next
  <1> QED
    BY <1>1, InitEstablishes, PTL DEF Spec

\* A set with at most one element has as many as it has.
LEMMA AtMostOne ==
  ASSUME NEW T, \A x, y \in T : x = y
  PROVE  Cardinality(T) = IF T = {} THEN 0 ELSE 1
  <1>1. CASE T = {}
    BY <1>1, FS_EmptySet
  <1>2. CASE T # {}
    <2>1. PICK x \in T : T = {x}
      BY <1>2
    <2> QED
      BY <1>2, <2>1, FS_Singleton
  <1> QED
    BY <1>1, <1>2

\* sfs_init, main and create keep the directories a tree on the used inodes.
THEOREM DirectoriesAreATree == Spec => []DirectoriesFormTree
  <1>1. FSInv => DirectoriesFormTree
    <2> SUFFICES ASSUME FSInv, InUse, ~overrun
                 PROVE  /\ \A n \in Inodes \ {0} :
                             Cardinality({e \in Entries : EntryAt(e).inode = n})
                               = inode_status[n]
                        /\ \A e \in Entries :
                             e[1] < EntryAt(e).inode /\ inode_status[e[1]] = 1
      BY DEF DirectoriesFormTree
    <2>1. FSType /\ DiskInv
      BY DEF FSInv
    <2>2. ASSUME NEW n \in Inodes \ {0}
          PROVE  Cardinality({e \in Entries : EntryAt(e).inode = n})
                   = inode_status[n]
      <3> DEFINE T == {e \in Entries : EntryAt(e).inode = n}
      <3>1. \A x, y \in T : x = y
        BY <2>1 DEF DiskInv, EntriesAreDistinct
      <3>2. inode_status[n] = 1 <=> T # {}
        BY <2>1 DEF DiskInv, EntriesAreUsed, UsedAreReached
      <3>3. inode_status[n] \in {0, 1}
        BY <2>1 DEF FSType
      <3> HIDE DEF T
      <3>4. Cardinality(T) = inode_status[n]
        BY <3>1, <3>2, <3>3, AtMostOne
      <3> QED
        BY <3>4 DEF T
    <2>3. \A e \in Entries : e[1] < EntryAt(e).inode /\ inode_status[e[1]] = 1
      BY <2>1 DEF DiskInv, EntriesAreUsed
    <2> QED
      BY <2>2, <2>3
  <1> QED
    BY <1>1, FSInvariant, PTL

\* The bitmap of the data region marks exactly the blocks that are in use.
THEOREM BlocksAreMatched == Spec => []BlocksMatchPointers
  <1>1. FSInv => BlocksMatchPointers
    <2> SUFFICES ASSUME FSInv, InUse, ~overrun, NEW b \in DataBlocks \ {0}
                 PROVE  Cardinality({e \in Entries :
                            direct_ptrs[e[1]][e[2]] = dataregion_blocks_start + b})
                          = dataregion_status[b]
      BY DEF BlocksMatchPointers
    <2>1. FSType /\ DiskInv
      BY DEF FSInv
    <2> DEFINE T == {e \in Entries :
                       direct_ptrs[e[1]][e[2]] = dataregion_blocks_start + b}
    <2>2. \A x, y \in T : x = y
      BY <2>1 DEF DiskInv, EntriesAreDistinct, Pointer
    <2>3. dataregion_status[b] = 1 <=> T # {}
      <3>1. ASSUME NEW e \in T
            PROVE  dataregion_status[b] = 1
        <4>1. Pointer(e) = dataregion_blocks_start + b
          BY DEF Pointer
        <4>2. Pointer(e) - dataregion_blocks_start = b
          BY <4>1, RoomAssumption DEF DataBlocks
        <4> QED
          BY <2>1, <4>2 DEF DiskInv, EntriesAreUsed
      <3>2. dataregion_status[b] = 1 => T # {}
        BY <2>1 DEF DiskInv, UsedAreReached, Pointer
      <3> QED
        BY <3>1, <3>2
    <2>4. dataregion_status[b] \in {0, 1}
      BY <2>1 DEF FSType
    <2> HIDE DEF T
    <2>5. Cardinality(T) = dataregion_status[b]
      BY <2>2, <2>3, <2>4, AtMostOne
    <2> QED
      BY <2>5 DEF T
  <1> QED
    BY <1>1, FSInvariant, PTL

\* What create made in a directory that was there, find_path_block finds.
THEOREM CreatedStaysFound == Spec => []CreatedIsFound
  <1>1. FSInv => CreatedIsFound
    <2> SUFFICES ASSUME FSInv, reply.value = 0, reply.parent, ~overrun
                 PROVE  Walk(parsePath(reply.path)).found
      BY DEF CreatedIsFound
    <2>1. reply # NoReply
      BY DEF NoReply
    <2>2. reply.path \in Paths
      BY <2>1 DEF FSInv
    <2> QED
      BY <2>2 DEF FSInv, CreatedPathIsFound
  <1> QED
    BY <1>1, FSInvariant, PTL

\* No step changes what a path leads to.
THEOREM LookupsStayStable == Spec => LookupsAreStable
  <1>1. FSInv /\ [Next]_vars =>
          \A path \in Paths :
            (InUse /\ ~overrun' /\ Walk(parsePath(path)).found)
              => Walk(parsePath(path))' = Walk(parsePath(path))
    <2> SUFFICES ASSUME FSInv, [Next]_vars, NEW path \in Paths, InUse,
                        ~overrun', Walk(parsePath(path)).found
                 PROVE  Walk(parsePath(path))' = Walk(parsePath(path))
      BY Zenon
    <2>1. CASE sfs_init
      BY <2>1 DEF sfs_init, InUse
    <2>2. CASE main
      <3> DEFINE fldrs == parsePath(path)
      <3>1. FSType /\ DiskInv /\ Formatted
        BY <2>2 DEF FSInv, main, InUse
      <3>2. PICK S : fldrs \in Seq(S) /\ Len(fldrs) \in Nat \ {0}
        BY NamesOfPath
      <3>3. PICK w : IsWalk(fldrs, w) /\ Walk(fldrs) = w[Len(fldrs)]
        BY <3>2, WalkUnfolds
      <3> HIDE DEF fldrs
      <3>4. 0 \in 0..Len(fldrs) /\ 1 \in 0..Len(fldrs) /\ 1 \in 1..Len(fldrs)
            /\ 1 - 1 = 0
        BY <3>2
      <3>5. w[1].found
        BY <3>1, <3>2, <3>3, <3>4, AllFound DEF fldrs
      <3>6. w[1] = WalkTo(w[0], fldrs[1]) /\ w[0] = [entry |-> RootEntry, found |-> TRUE]
            /\ \E x, found : RoundIs(w[0], x, found)
        <4>1. /\ \A i \in 0..Len(fldrs) : \E x, found : RoundIs(w[i], x, found)
              /\ w[0] = [entry |-> RootEntry, found |-> TRUE]
              /\ \A i \in 1..Len(fldrs) : w[i] = WalkTo(w[i - 1], fldrs[i])
          BY <3>1, <3>2, <3>3, WalkRounds
        <4>2. w[1] = WalkTo(w[1 - 1], fldrs[1])
          BY <3>4, <4>1
        <4> QED
          BY <3>4, <4>1, <4>2
      <3>7. Matches(w[0].entry.inode, fldrs[1]) # {}
        BY <3>1, <3>5, <3>6, OneRound
      <3>8. Matches(0, fldrs[1]) = {}
        <4>1. 0 \in Inodes
          BY RoomAssumption DEF Inodes
        <4> QED
          BY <3>1, <4>1 DEF Formatted, Matches
      <3>9. w[0].entry.inode = 0
        BY <3>6 DEF RootEntry
      <3> QED
        BY <3>7, <3>8, <3>9
    <2>3. CASE Restart
      BY <2>3, WalkUnchanged DEF Restart
    <2>4. ASSUME NEW q \in Paths, createRefused(q)
          PROVE  Walk(parsePath(path))' = Walk(parsePath(path))
      BY <2>4, WalkUnchanged DEF createRefused
    <2>5. ASSUME NEW q \in Paths, createEntry(q)
          PROVE  Walk(parsePath(path))' = Walk(parsePath(path))
      <3>1. FSType /\ DiskInv
        BY <2>5 DEF FSInv, createEntry
      <3>2. PICK p, b, n : Created(find_path_block(q).inode, p, b, n,
                                   Last(parsePath(q)))
        BY <2>5, <3>1, CreateStores
      <3>3. PICK S : parsePath(path) \in Seq(S)
        BY NamesOfPath
      <3> QED
        BY <3>1, <3>2, <3>3, WalkStable
    <2>6. CASE UNCHANGED vars
      BY <2>6, WalkUnchanged DEF vars
    <2> QED
      BY <2>1, <2>2, <2>3, <2>4, <2>5, <2>6 DEF Next
  <1> QED
    BY <1>1, FSInvariant, PTL DEF Spec, LookupsAreStable
=============================================================================
