------------------------------ MODULE SfsLayout ------------------------------
(***************************************************************************)
(* Where test/test.c puts the regions of its disk: get_metadata_info, and  *)
(* the bit of the bitmaps that stands for an inode or a data block.  All   *)
(* numbers are the code's own; they fit an int for every disk below 2 GB.  *)
(* The disk grows by 8 MB per step.                                        *)
(***************************************************************************)
EXTENDS Integers

CONSTANT MaxDisk        \* bound: the largest disk, in units of 8 MB

\* At 193 (1544 MB) the inode bitmap is not rounded up and is too small.
ASSUME MaxDiskAssumption == MaxDisk \in 1..192

BLOCK_SIZE == 512
BITS_PER_BLOCK == 4096
BITS_PER_BYTE == 8
INODES_PER_BLOCK == 8
ZERO_INDEX_BITS == 7
VALUE == 513

VARIABLES
  total_size,      \* the size of the file that holds the disk
  info             \* the metadata_info that sfs_init stores

vars == <<total_size, info>>

Megabytes8 == 8388608

-----------------------------------------------------------------------------
\* (mutant: the superblock is forgotten)
MetadataBlocks_NoSuper(size, data_bitmap_blocks) ==
  size \div BLOCK_SIZE - data_bitmap_blocks

\* The blocks left for inodes and their bitmap.
MetadataBlocks(size, data_bitmap_blocks) ==
  size \div BLOCK_SIZE - data_bitmap_blocks - 1

\* (mutant: the inode bitmap is not rounded up)
InodeBitmapBlocks_Floor(metadata) == metadata \div VALUE

\* One block of the inode bitmap for the 512 blocks of inodes that it covers.
InodeBitmapBlocks(metadata) ==
  LET inode_bitmap == metadata \div VALUE IN
  IF inode_bitmap % VALUE # 0 THEN inode_bitmap + 1 ELSE inode_bitmap

\* (mutant: one inode per block)
TotalInodes_One(inode_blocks) == inode_blocks

TotalInodes(inode_blocks) == inode_blocks * INODES_PER_BLOCK

get_metadata_info(size) ==
  LET data_size           == size - (size + 3) \div 4     \* 0.75 * size
      data_blocks         == data_size \div BLOCK_SIZE
      data_bitmap_blocks  == data_blocks \div BITS_PER_BLOCK
      metadata_blocks     == MetadataBlocks(size - data_size,
                                            data_bitmap_blocks)
      inode_bitmap        == InodeBitmapBlocks(metadata_blocks)
      inode_blocks        == metadata_blocks - inode_bitmap
  IN
  [dataregion_blocks        |-> data_blocks,
   dataregion_bitmap_blocks |-> data_bitmap_blocks,
   inode_blocks             |-> inode_blocks,
   inode_bitmap_blocks      |-> inode_bitmap,
   total_inodes             |-> TotalInodes(inode_blocks),
   dataregion_bitmap_start  |-> 1,
   inode_bitmap_start       |-> 1 + data_bitmap_blocks,
   inode_blocks_start       |-> 1 + data_bitmap_blocks + inode_bitmap,
   dataregion_blocks_start  |-> 1 + data_bitmap_blocks + inode_bitmap
                                  + inode_blocks]

Init ==
  /\ total_size = Megabytes8
  /\ info = get_metadata_info(total_size)

\* The next larger disk is formatted.
Grow ==
  /\ total_size < MaxDisk * Megabytes8
  /\ total_size' = total_size + Megabytes8
  /\ info' = get_metadata_info(total_size')

Next == Grow

Spec == Init /\ [][Next]_vars

-----------------------------------------------------------------------------
(***************************************************************************)
(* The bit of number n in the bitmap that starts at block "start"          *)
(* (check_ and set_inode_status, check_ and set_dataregion_status).        *)
(***************************************************************************)
blk_number(n) == n \div BITS_PER_BLOCK

byte_offset(n) == (n - BITS_PER_BLOCK * blk_number(n)) \div BITS_PER_BYTE

bit_offset(n) ==
  n - BITS_PER_BLOCK * blk_number(n) - byte_offset(n) * BITS_PER_BYTE

BitOf(start, n) ==
  [block |-> start + blk_number(n), byte |-> byte_offset(n),
   bit |-> ZERO_INDEX_BITS - bit_offset(n)]

\* The block and the place in it where get_inode and set_inode find inode n.
InodeOf(start, n) ==
  [block |-> start + n \div INODES_PER_BLOCK,
   offset |-> n - INODES_PER_BLOCK * (n \div INODES_PER_BLOCK)]

-----------------------------------------------------------------------------
(***************************************************************************)
(* Properties.                                                             *)
(***************************************************************************)
\* The superblock and the regions follow each other and end where the file
\* ends: no block belongs to two regions, none lies outside the file, and the
\* last inode is in the last block of the inode table.
RegionsFillDisk ==
  /\ info.dataregion_bitmap_blocks > 0 /\ info.inode_bitmap_blocks > 0
  /\ info.inode_blocks > 0
  /\ InodeOf(info.inode_blocks_start, info.total_inodes - 1).block
       = info.dataregion_blocks_start - 1
  /\ info.dataregion_blocks_start + info.dataregion_blocks
       = total_size \div BLOCK_SIZE

\* The bit of every data block and of every inode lies in its own bitmap, so
\* that marking one used never changes another bitmap or an inode.
BitmapsCover ==
  /\ BitOf(info.dataregion_bitmap_start, info.dataregion_blocks - 1).block
       < info.inode_bitmap_start
  /\ BitOf(info.inode_bitmap_start, info.total_inodes - 1).block
       < info.inode_blocks_start

\* Data blocks run out before the inodes that share the last block of the
\* table with others: with every block in use create still gets an inode.
InodesOutlastBlocks ==
  info.total_inodes > info.dataregion_blocks + INODES_PER_BLOCK

\* Each of the numbers below count has a bit of its own in the blocks
\* start..last: number n can be read off its bit.
OwnBits(start, count, last) ==
  \A n \in 0..(count - 1) :
    LET bit == BitOf(start, n) IN
    /\ bit.block \in start..last
    /\ bit.byte \in 0..(BLOCK_SIZE - 1)
    /\ bit.bit \in 0..ZERO_INDEX_BITS
    /\ n = (bit.block - start) * BITS_PER_BLOCK + bit.byte * BITS_PER_BYTE
             + (ZERO_INDEX_BITS - bit.bit)

\* Every data block has a bit of its own in the data bitmap, and every inode one
\* in the inode bitmap.  (Too many numbers for TLC: proved only.)
BitsInBitmaps ==
  /\ OwnBits(info.dataregion_bitmap_start, info.dataregion_blocks,
             info.inode_bitmap_start - 1)
  /\ OwnBits(info.inode_bitmap_start, info.total_inodes,
             info.inode_blocks_start - 1)

\* Every inode of the disk lies in a block of the inode table, in one of the
\* block's places, and in no other inode's place: set_inode changes neither a
\* bitmap nor a data block nor another inode.  (Proved only.)
InodesInTable ==
  \A n \in 0..(info.total_inodes - 1) :
    LET place == InodeOf(info.inode_blocks_start, n) IN
    /\ place.block \in info.inode_blocks_start
                         ..(info.dataregion_blocks_start - 1)
    /\ place.offset \in 0..(INODES_PER_BLOCK - 1)
    /\ \A m \in 0..(info.total_inodes - 1) :
          InodeOf(info.inode_blocks_start, m) = place => m = n
=============================================================================
