SPECIFICATION FairSpec
CONSTANTS
  c1 = c1  c2 = c2  s1 = s1  s2 = s2  m1 = m1  m2 = m2
  Conn = {c1, c2}
  Secondary = {s1, s2}
  Owner <- OwnerEach
  PassOK = {s1}
  Msg = {m1}
  NoMsg = NoMsg
  NoConn = NoConn
  Fragment = FALSE
  Breaks = FALSE
  MaxRelayed = 9
INVARIANT OnlyWithPassword
PROPERTIES HandshakeKept HandshakeSettles Delivered
CHECK_DEADLOCK FALSE
