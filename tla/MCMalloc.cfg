SPECIFICATION Spec
CONSTANTS
  HEADER_SIZE = 16
  WORD = 4096
  NU_WORD = 4
  MIN_CORE = 3
  HEAP_START = 2
  HEAP_END = 10
  Requests = {0, 17, 48}
  Errno = 1
INVARIANTS TypeOK ListInOrder HeapPartitioned
PROPERTIES CallsReturn ImplementsHeap
CHECK_DEADLOCK FALSE
