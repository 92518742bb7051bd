SPECIFICATION Spec
CONSTANTS
  c1 = c1  c2 = c2  s1 = s1  s2 = s2  m1 = m1  m2 = m2
  Conn = {c1, c2}
  Secondary = {s1, s2}
  Owner <- OwnerEach
  PassOK = {s1, s2}
  Msg = {m1, m2}
  NoMsg = NoMsg
  NoConn = NoConn
  Fragment = TRUE
  Breaks = FALSE
  MaxRelayed = 1
INVARIANTS TypeOK NoEcho
PROPERTY IsChannel
SYMMETRY Alike
CHECK_DEADLOCK FALSE
