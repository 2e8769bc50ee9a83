CONSTANTS
  Conns = {c1}
  NoConn = NoConn
  MaxFds = 1
  MaxStarts = 2
SPECIFICATION Spec
CHECK_DEADLOCK FALSE
INVARIANT RestartFindsAddressFree
