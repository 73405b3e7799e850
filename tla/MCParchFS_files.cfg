\* Files around the limits of the direct, indirect and double-indirect
\* blocks, and images that run out of blocks while one is written.
CONSTANTS
  BLK_SIZE = 2
  DIRECT_BLK_COUNT = 1
  BLKNO_PER_BLK = 5
  BLK_COUNT = 25
  E_KERNEL = 1
  S_RESERVE = 24
  INODE_COUNT = 4
  INODE_BITS = 8
  Names = {n1, n2}
  LongNames = {}
  FileSizes = {0, 1, 2, 11, 12, 13, 14, 21, 23}
SPECIFICATION Spec
INVARIANTS BlocksOwnedOnce PointersAllocated NoBlockLeaked
  ScanStaysInTable Footprint
PROPERTIES Terminates CopiesHostTree
CHECK_DEADLOCK FALSE
