SPECIFICATION Spec
CONSTANTS
  HEADER_SIZE = 16
  WORD = 4096
  NU_WORD = 4
  MIN_CORE = 3
  HEAP_START = 2
  HEAP_END = 10
  Requests = {0, 17, 48}
  Errno = 12
INVARIANT NoMemoryIsNull
CHECK_DEADLOCK FALSE
