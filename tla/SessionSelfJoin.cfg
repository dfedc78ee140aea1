\* The host may just drop its references while the callback retains the object.
CONSTANTS
  Hosts = {h1}
  Uci = uci
  Searcher = searcher
  Nobody = nobody
  Programs <- CarelessProgram
  MaxCalls = 2
  MaxLines = 1
SPECIFICATION Spec
INVARIANT NoSelfJoin
CHECK_DEADLOCK TRUE
