SPECIFICATION FairSpec
CONSTANTS
  Processes = {p1, p2}
  Networks = {n1, n2}
  Segments = {s1, s2, s3}
  NoSegment = NoSegment
  Local = Local
  Nobody = Nobody
  NoSocket = NoSocket
  PeersStall = TRUE
  CallsFail = TRUE
  Platforms = {"unix", "windows"}
  MaxOpens = 3
INVARIANTS NetworkIsWhole OneSegment
PROPERTY OpensReturn
CHECK_DEADLOCK FALSE
