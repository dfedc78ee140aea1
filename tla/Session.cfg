\* Either the host calls shutdown() before it drops its last reference, or the callback does
\* not retain. The session really stops; CallsReturn is about being stuck.
CONSTANTS
  Hosts = {h1, h2}
  Uci = uci
  Searcher = searcher
  Nobody = nobody
  Programs <- DisciplinedPrograms
  MaxCalls = 4
  MaxLines = 3
SPECIFICATION FairSpec
INVARIANTS BridgeOutlivesCalls CallbackSeesObject AllOutputDelivered
PROPERTY CallsReturn
CHECK_DEADLOCK FALSE
