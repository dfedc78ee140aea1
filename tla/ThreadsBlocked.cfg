\* A host that sends a waiting command behind its own infinite search. The engine really stops.
CONSTANTS
  MaxThreads = 1
  MaxCommands = 2
  Polite = FALSE
  Searches <- Infinite
SPECIFICATION FairSpec
PROPERTY CommandsReturn
CHECK_DEADLOCK FALSE
