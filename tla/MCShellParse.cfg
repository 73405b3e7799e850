\* Lines with at most one redirection, and every short line.
SPECIFICATION Spec
CONSTANTS
  Lines <- MixedLines
  MaxLength = 6
INVARIANTS OneFileAsMeant NothingLost SignsDecide
CHECK_DEADLOCK FALSE
