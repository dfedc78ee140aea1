\* One of the three threads also calls sf_wait_idle: the single notification can go to it.
CONSTANTS
  h1 = h1
  h2 = h2
  h3 = h3
  Nobody = Nobody
  Threads <- MCThreads
  Idlers <- OneIdler
SPECIFICATION FairSpec
PROPERTY WaitingCreateProceeds
CHECK_DEADLOCK TRUE
