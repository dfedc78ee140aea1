\* Three threads create and destroy engines; any of them may also wait for idle.
CONSTANTS
  h1 = h1
  h2 = h2
  h3 = h3
  Nobody = Nobody
  Threads <- MCThreads
  Idlers <- MCThreads
SPECIFICATION FairSpec
INVARIANTS GateHasHolder NoDanglingStream
PROPERTIES ImplementsExclusiveEngine CreatorsAreWoken
CHECK_DEADLOCK TRUE
