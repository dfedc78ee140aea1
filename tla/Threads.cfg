\* Up to three threads, three commands of any kind before "quit"; a host that never blocks
\* the UCI thread behind its own search.
CONSTANTS
  MaxThreads = 3
  MaxCommands = 3
  Polite = TRUE
  Searches <- AllSearches
SPECIFICATION FairSpec
INVARIANTS WaitsAreSound SearchersAreCurrent NoChangeUnderSearch
PROPERTIES ImplementsUciContract SearchAnswered CommandsReturn
CHECK_DEADLOCK TRUE
