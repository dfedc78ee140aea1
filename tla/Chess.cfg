SPECIFICATION Spec
CONSTANTS
  Layouts <- MCLayouts
  MaxCardinality = 5
  Scenarios <- MCScenarios
  History <- MCHistory
  HashMoves <- MCHashMoves
  MIN_PC_COUNT_HYBRID = 15
INVARIANTS
  MovesAreTheRules
  EndgamesHaveTheirEntries
  StateIsExact
  PositionsAreKept
  SeeIsTheExchange
  RepetitionsAreSeen
  AccumulatorsAreExact
  MovesArePickedOnce
CHECK_DEADLOCK FALSE
