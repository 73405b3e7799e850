\* Files longer than a buffer and longer than the heap; ENOENT, the gap in
\* the table, a number behind it, and an answer that is not negated.
CONSTANTS
  WORD = 8192
  Commands <- MCCommands
  ARGS = 3
  CHUNK = 2
  HEAP_SIZE = 5
  MIN_CAP = 1
  MaxPanics = 2
  Refusals = {8190, 8151, 5}
  Killed = 137
  MaxFile = 3
  MaxWords = 4
SPECIFICATION Spec
INVARIANTS TypeOK ArgumentsArrive CatShowsFile CodeTellsOutcome LibrariesAgree
PROPERTIES ComesBack
CHECK_DEADLOCK FALSE
