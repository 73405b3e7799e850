\* Both redirections, and pipes.
SPECIFICATION Spec
CONSTANTS
  Lines <- GrammarLines
  MaxLength = 0
INVARIANTS GrammarAsMeant
CHECK_DEADLOCK FALSE
