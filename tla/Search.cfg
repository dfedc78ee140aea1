SPECIFICATION Spec
CONSTANTS
  VALUE_MATE = 32
  MAX_PLY = 6
  RULE50 = 4
  RULE50_TT = 4
  VERIFY_DEPTH = 3
  Games <- MCGames
  Windows <- MCWindows
  Depths = {5}
  MaxSearches = 2
  MaxChoices = 2
INVARIANTS
  DecisiveAnswersAreProven
  DecisiveEntriesAreProven
  SearchAssertionsHold
  LinesAreLines
CHECK_DEADLOCK FALSE
