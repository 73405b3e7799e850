\* Six nodes of six bits, and a bitmap as long as the list or longer: node 6
\* lies over bits 0..5, node 7 over bits 6..11 and so over its own.
CONSTANTS
  INODE_COUNT = 6
  BitmapSizes = {6, 12, 18}
  NODE_BITS = 6
  PermBits = {0, 2}
  DirBit = 3
  FileBit = 4
  OtherBits = {5}
SPECIFICATION Spec
INVARIANTS SoundBeforeOverrun FullReported
CHECK_DEADLOCK FALSE
