SPECIFICATION FairSpec
CONSTANTS
  p1 = p1
  p2 = p2
  c1 = c1
  Form = form
  Runner = runner
  NoRead = noread
  NoConn = noconn
  NoWrite = nowrite
  Reads <- MCReads
  Writes <- MCWrites
  Conns <- MCConns
  MaxVersion = 2
  MaxMishaps = 1
INVARIANTS TypeOK OneThreadEach
PROPERTIES DataNeverGoesBack PageCatchesUp
CHECK_DEADLOCK FALSE
