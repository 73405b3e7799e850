\* What a user may type, in one piece per character, and broken pieces; a
\* buffer of three bytes and the NUL.
SPECIFICATION RSpec
CONSTANTS
  Source <- Pieces
  MaxPieces = 3
  BufSize = 4
  MaxRefused = 1
INVARIANTS LinesAsTyped EchoIsLine LastLine SameLines CutGoesOn
CHECK_DEADLOCK FALSE
