SPECIFICATION Spec
CONSTANTS
  VALUE_MATE = 32
  MAX_PLY = 6
  RULE50 = 6
  MAX_DTZ = 128
  Games <- MCGames
  MultiPVs = {1, 2}
INVARIANTS LinesAreEarned RankedMovesKeepTheResult ShownLinesKeepTheScore
PROPERTY MatesAreKept
CHECK_DEADLOCK FALSE
