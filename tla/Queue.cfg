\* Two senders send up to three commands, one of two lines, then the engine is destroyed.
CONSTANTS
  s1 = s1
  s2 = s2
  one = one
  two = two
  Quit = Quit
  Closer = Closer
  Nobody = Nobody
  Senders <- MCSenders
  Commands <- MCCommands
  Lines <- MCLines
  MaxSends = 3
SPECIFICATION FairSpec
INVARIANT NoSleepOnData
PROPERTIES ImplementsCommandStream DestroyReturns
CHECK_DEADLOCK TRUE
