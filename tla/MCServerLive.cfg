SPECIFICATION FairSpec
CONSTANTS
  c1 = c1  c2 = c2  c3 = c3
  Client = {c1, c2}
  Listeners = 2
  MaxConns = 1
  MaxRecvSize = 0
  SocketTimeOut = 1
  SelectConsumes = TRUE
  MaxWait = 1
  MaxSends = 1
  MaxEntries = 1
PROPERTIES WorkersReturn RequestsSettled ShutsDown
