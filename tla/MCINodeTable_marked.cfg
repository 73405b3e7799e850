\* Eight nodes, bits for eighteen, nodes of six bits: node 8 lies over
\* bits 0..5, node 9 over bits 6..11 and so over its own.
CONSTANTS
  INODE_COUNT = 8
  BitmapSizes = {18}
  NODE_BITS = 6
  PermBits = {0, 2}
  DirBit = 3
  FileBit = 4
  OtherBits = {5}
SPECIFICATION Spec
INVARIANTS INodeMarked
CHECK_DEADLOCK FALSE
