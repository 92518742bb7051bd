SPECIFICATION Spec
CONSTANTS
  c1 = c1  c2 = c2  c3 = c3
  Client = {c1, c2, c3}
  Listeners = 2
  MaxConns = 1
  MaxRecvSize = 1
  SocketTimeOut = 2
  SelectConsumes = TRUE
  MaxWait = 2
  MaxSends = 1
  MaxEntries = 1
SYMMETRY Clients
INVARIANTS TypeOK PoolBounded OneOwner NoUseAfterFree
PROPERTY ImplementsOwnership
