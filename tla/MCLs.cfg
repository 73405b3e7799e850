\* Registers of 6 bits and u32s of 4: the smallest number has two digits and
\* a sign, and with its NUL fills put_int's buffer.  One entry more than ls
\* has room for.
CONSTANTS
  WORD = 64
  NARROW = 16
  BUF = 4
  MaxRefused = 3
  Directories <- MCDirectories
  ROOM = 2
  Errors = {2}
  Leftovers = {0, 1}
  Calls <- MCCalls
SPECIFICATION Spec
INVARIANTS PrintsAsMeant
CHECK_DEADLOCK FALSE
