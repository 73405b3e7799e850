\* Directory trees: two host levels and more, directories that outgrow
\* their first block into the indirect one, files of up to two blocks.
CONSTANTS
  BLK_SIZE = 2
  DIRECT_BLK_COUNT = 1
  BLKNO_PER_BLK = 4
  BLK_COUNT = 16
  E_KERNEL = 0
  S_RESERVE = 16
  INODE_COUNT = 5
  INODE_BITS = 8
  Names = {n1, n2, long}
  LongNames = {long}
  FileSizes = {0, 1, 2}
SPECIFICATION Spec
INVARIANTS TypeOK FreeCounters AssertionsHold TreeShape
PROPERTIES CopiesHostTree
CHECK_DEADLOCK FALSE
