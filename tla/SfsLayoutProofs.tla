-------------------------- MODULE SfsLayoutProofs --------------------------
(***************************************************************************)
(* The layout, and the addressing of bits and inodes within it, are right  *)
(* for every disk of 8, 16, ... 8 * MaxDisk MB.                            *)
(***************************************************************************)
EXTENDS SfsLayout, TLAPS

\* Below 1544 MB the division by VALUE never yields a multiple of VALUE, so
\* that the inode bitmap is always rounded up.
LEMMA AlwaysRoundedUp ==
  ASSUME NEW k \in 1..192
  PROVE  ((4093 * k - 1) \div 513) % 513 # 0
  OBVIOUS

\* The layout i of a disk of k * 8 MB: 12288 * k data blocks fill 3 * k blocks
\* of bitmap exactly, and 4093 * k - 1 blocks are left for the inodes.
HasLayout(i, k) ==
  LET q == (4093 * k - 1) \div 513 IN
  /\ i.dataregion_blocks = 12288 * k
  /\ i.dataregion_bitmap_blocks = 3 * k
  /\ i.inode_bitmap_blocks = q + 1
  /\ i.inode_blocks = 4093 * k - 2 - q
  /\ i.total_inodes = 8 * (4093 * k - 2 - q)
  /\ i.dataregion_bitmap_start = 1
  /\ i.inode_bitmap_start = 1 + 3 * k
  /\ i.inode_blocks_start = 2 + 3 * k + q
  /\ i.dataregion_blocks_start = 4096 * k

LEMMA LayoutOf ==
  ASSUME NEW k \in 1..192
  PROVE  HasLayout(get_metadata_info(k * Megabytes8), k)
  <1>. DEFINE size == k * Megabytes8
             data == size - (size + 3) \div 4
  <1>1. /\ data = 6291456 * k
        /\ size - data = 2097152 * k
    BY DEF Megabytes8
  <1>2. /\ data \div BLOCK_SIZE = 12288 * k
        /\ (12288 * k) \div BITS_PER_BLOCK = 3 * k
        /\ MetadataBlocks(size - data, 3 * k) = 4093 * k - 1
    BY <1>1 DEF MetadataBlocks, BLOCK_SIZE, BITS_PER_BLOCK
  <1>3. InodeBitmapBlocks(4093 * k - 1) = (4093 * k - 1) \div 513 + 1
    BY AlwaysRoundedUp DEF InodeBitmapBlocks, VALUE
  <1>. QED
    BY <1>2, <1>3 DEF HasLayout, get_metadata_info, TotalInodes, INODES_PER_BLOCK

\* The disk is k * 8 MB for some k, and info is what sfs_init computed for it.
LayoutInv ==
  \E k \in 1..MaxDisk : /\ total_size = k * Megabytes8
                        /\ info = get_metadata_info(k * Megabytes8)

LEMMA LayoutInvariant == Spec => []LayoutInv
  <1>1. Init => LayoutInv
    <2>. SUFFICES ASSUME Init PROVE LayoutInv
      OBVIOUS
    <2>1. total_size = 1 * Megabytes8
      BY DEF Init, Megabytes8
    <2>. QED
      BY <2>1, MaxDiskAssumption DEF Init, LayoutInv
  <1>2. LayoutInv /\ [Next]_vars => LayoutInv'
    <2>. SUFFICES ASSUME LayoutInv, [Next]_vars PROVE LayoutInv'
      OBVIOUS
    <2>1. PICK k \in 1..MaxDisk : /\ total_size = k * Megabytes8
                                 /\ info = get_metadata_info(k * Megabytes8)
      BY DEF LayoutInv
    <2>2. CASE Grow
      <3>1. k + 1 \in 1..MaxDisk /\ total_size' = (k + 1) * Megabytes8
        BY <2>1, <2>2, MaxDiskAssumption DEF Grow, Megabytes8
      <3>. QED
        BY <3>1, <2>2 DEF Grow, LayoutInv
    <2>3. CASE UNCHANGED vars
      BY <2>1, <2>3 DEF vars, LayoutInv
    <2>. QED
      BY <2>2, <2>3 DEF Next
  <1>. QED
    BY <1>1, <1>2, PTL DEF Spec

\* On every such disk the regions follow each other up to the end of the file,
\* each bitmap has a bit for everything it describes, and there are more
\* inodes than data blocks.
LEMMA LayoutIsCorrect ==
  LayoutInv => RegionsFillDisk /\ BitmapsCover /\ InodesOutlastBlocks
  <1>. SUFFICES ASSUME LayoutInv
                PROVE  RegionsFillDisk /\ BitmapsCover /\ InodesOutlastBlocks
    OBVIOUS
  <1>1. PICK k \in 1..MaxDisk : /\ total_size = k * Megabytes8
                               /\ info = get_metadata_info(k * Megabytes8)
    BY DEF LayoutInv
  <1>. DEFINE q == (4093 * k - 1) \div 513
  <1>2. k \in 1..192 /\ q \in Nat
    BY <1>1, MaxDiskAssumption
  <1>3. /\ 513 * q <= 4093 * k - 1
        /\ 4093 * k - 1 < 513 * q + 513
    BY <1>2
  <1>4. HasLayout(info, k)
    BY <1>1, <1>2, LayoutOf
  <1>5. RegionsFillDisk
    BY <1>1, <1>2, <1>3, <1>4 DEF HasLayout, RegionsFillDisk, InodeOf,
                                 Megabytes8, BLOCK_SIZE, INODES_PER_BLOCK
  <1>6. BitmapsCover
    BY <1>2, <1>3, <1>4 DEF HasLayout, BitmapsCover, BitOf, blk_number,
                            BITS_PER_BLOCK
  <1>7. InodesOutlastBlocks
    BY <1>2, <1>3, <1>4 DEF HasLayout, InodesOutlastBlocks, INODES_PER_BLOCK
  <1>. QED
    BY <1>5, <1>6, <1>7

\* A bitmap that starts at block start and has a bit for number count - 1 in
\* block last or before has one for every number below count.
LEMMA BitsFit ==
  ASSUME NEW start \in Nat, NEW count \in Nat, NEW last \in Nat,
         count > 0, start + (count - 1) \div BITS_PER_BLOCK <= last
  PROVE  OwnBits(start, count, last)
  <1>. SUFFICES ASSUME NEW n \in 0..(count - 1)
                PROVE  LET bit == BitOf(start, n) IN
                       /\ bit.block \in start..last
                       /\ bit.byte \in 0..(BLOCK_SIZE - 1)
                       /\ bit.bit \in 0..ZERO_INDEX_BITS
                       /\ n = (bit.block - start) * BITS_PER_BLOCK
                                + bit.byte * BITS_PER_BYTE
                                + (ZERO_INDEX_BITS - bit.bit)
    BY DEF OwnBits
  <1>1. n \div BITS_PER_BLOCK <= (count - 1) \div BITS_PER_BLOCK
    BY DEF BITS_PER_BLOCK
  <1>. QED
    BY <1>1 DEF BitOf, blk_number, byte_offset, bit_offset, BITS_PER_BLOCK,
                BITS_PER_BYTE, ZERO_INDEX_BITS, BLOCK_SIZE

\* The bits and the inodes are where they belong.
LEMMA AddressingIsCorrect ==
  LayoutInv => BitsInBitmaps /\ InodesInTable
  <1>. SUFFICES ASSUME LayoutInv
                PROVE  BitsInBitmaps /\ InodesInTable
    OBVIOUS
  <1>1. PICK k \in 1..MaxDisk : /\ total_size = k * Megabytes8
                               /\ info = get_metadata_info(k * Megabytes8)
    BY DEF LayoutInv
  <1>. DEFINE q == (4093 * k - 1) \div 513
              inodes == 4093 * k - 2 - q
  <1>2. k \in 1..192 /\ q \in Nat /\ 513 * q <= 4093 * k - 1
    BY <1>1, MaxDiskAssumption
  <1>3. /\ HasLayout(info, k) /\ BitmapsCover
        /\ inodes \in Nat /\ inodes > 0
    BY <1>1, <1>2, LayoutOf, LayoutIsCorrect
  <1>4. /\ info.dataregion_bitmap_start = 1 /\ info.dataregion_blocks = 12288 * k
        /\ info.inode_bitmap_start = 1 + 3 * k
        /\ info.inode_blocks_start = 2 + 3 * k + q
        /\ info.total_inodes = 8 * inodes
        /\ info.dataregion_blocks_start = info.inode_blocks_start + inodes
    BY <1>2, <1>3 DEF HasLayout
  <1>. HIDE DEF q, inodes
  <1>5. BitsInBitmaps
    <2>1. /\ 1 + (12288 * k - 1) \div BITS_PER_BLOCK < 1 + 3 * k
          /\ 1 + 3 * k + (8 * inodes - 1) \div BITS_PER_BLOCK < 2 + 3 * k + q
      BY <1>3, <1>4 DEF BitmapsCover, BitOf, blk_number
    <2>2. OwnBits(1, 12288 * k, 3 * k)
      BY <1>2, <2>1, BitsFit DEF BITS_PER_BLOCK
    <2>3. OwnBits(1 + 3 * k, 8 * inodes, 1 + 3 * k + q)
      BY <1>2, <1>3, <2>1, BitsFit DEF BITS_PER_BLOCK
    <2>4. /\ info.inode_bitmap_start - 1 = 3 * k
          /\ info.inode_blocks_start - 1 = 1 + 3 * k + q
      BY <1>2, <1>4
    <2>5. OwnBits(info.dataregion_bitmap_start, info.dataregion_blocks,
                  info.inode_bitmap_start - 1)
      BY <1>4, <2>2, <2>4
    <2>6. OwnBits(info.inode_bitmap_start, info.total_inodes,
                  info.inode_blocks_start - 1)
      BY <1>4, <2>3, <2>4
    <2>. QED
      BY <2>5, <2>6 DEF BitsInBitmaps
  <1>6. InodesInTable
    <2>. DEFINE start == info.inode_blocks_start
    <2>0. /\ info.total_inodes - 1 = 8 * inodes - 1
          /\ info.dataregion_blocks_start - 1 = start + inodes - 1
      BY <1>2, <1>3, <1>4
    <2>. SUFFICES ASSUME NEW n \in 0..(8 * inodes - 1)
                  PROVE  /\ InodeOf(start, n).block \in start..(start + inodes - 1)
                         /\ InodeOf(start, n).offset \in 0..(INODES_PER_BLOCK - 1)
                         /\ \A m \in 0..(8 * inodes - 1) :
                               InodeOf(start, m) = InodeOf(start, n) => m = n
      BY <2>0 DEF InodesInTable
    <2>1. start \in Nat
      BY <1>2, <1>4
    <2>2. n \in Nat /\ n \div 8 < inodes
      BY <1>3
    <2>3. /\ InodeOf(start, n).block = start + n \div 8
          /\ InodeOf(start, n).offset = n - 8 * (n \div 8)
      BY DEF InodeOf, INODES_PER_BLOCK
    <2>4. /\ InodeOf(start, n).block \in start..(start + inodes - 1)
          /\ InodeOf(start, n).offset \in 0..(INODES_PER_BLOCK - 1)
      <3>. HIDE DEF start
      <3>. QED
        BY <1>3, <2>1, <2>2, <2>3 DEF INODES_PER_BLOCK
    <2>5. ASSUME NEW m \in 0..(8 * inodes - 1), InodeOf(start, m) = InodeOf(start, n)
          PROVE  m = n
      <3>1. /\ InodeOf(start, m).block = start + m \div 8
            /\ InodeOf(start, m).offset = m - 8 * (m \div 8)
        BY DEF InodeOf, INODES_PER_BLOCK
      <3>. HIDE DEF start
      <3>. QED
        BY <1>3, <2>1, <2>2, <2>3, <2>5, <3>1
    <2>. QED
      BY <2>4, <2>5
  <1>. QED
    BY <1>5, <1>6

\* get_metadata_info leaves no gap between the regions of the disk, no overlap,
\* and nothing at its end.
THEOREM RegionsFill == Spec => []RegionsFillDisk
  BY LayoutIsCorrect, LayoutInvariant, PTL

\* Every inode and every data block has a bit within its bitmap's blocks.
THEOREM BitmapsAreLargeEnough == Spec => []BitmapsCover
  BY LayoutIsCorrect, LayoutInvariant, PTL

\* create, which takes an inode for every data block, runs out of data blocks
\* before it uses the last block of the inode table.
THEOREM InodesOutlast == Spec => []InodesOutlastBlocks
  BY LayoutIsCorrect, LayoutInvariant, PTL

\* check_inode_status, set_inode_status and their companions for data blocks
\* find every number of the disk at a bit of its own, inside its bitmap.
THEOREM BitsAreDistinct == Spec => []BitsInBitmaps
  BY AddressingIsCorrect, LayoutInvariant, PTL

\* get_inode and set_inode find every inode of the disk inside the inode table,
\* at a place of its own.
THEOREM InodesAreDistinct == Spec => []InodesInTable
  BY AddressingIsCorrect, LayoutInvariant, PTL
=============================================================================
