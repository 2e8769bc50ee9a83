CONSTANTS
  Conns = {c1, c2, c3}
  NoConn = NoConn
  MaxFds = 2
  MaxStarts = 2
SPECIFICATION FairSpec
CHECK_DEADLOCK FALSE
INVARIANTS
  TypeOK
  ReleasedWhenServed
  WorkersAreIsolated
  NoLostChild
PROPERTIES
  ServiceSpec
  ZombiesReaped
  BacklogServed
  AddressReturned
