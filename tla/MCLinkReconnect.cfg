SPECIFICATION Spec
CONSTANTS
  c1 = c1  c2 = c2  s1 = s1  s2 = s2  m1 = m1  m2 = m2
  Conn = {c1, c2}
  Secondary = {s1}
  Owner <- OwnerSame
  PassOK = {s1}
  Msg = {m1}
  NoMsg = NoMsg
  NoConn = NoConn
  Fragment = FALSE
  Breaks = TRUE
  MaxRelayed = 0
INVARIANT ListedExist
PROPERTY IsChannel
CHECK_DEADLOCK FALSE
