SPECIFICATION FairSpec
CONSTANTS
  s1 = s1  s2 = s2  a1 = a1  a2 = a2  k1 = k1  k2 = k2
  Secondary = {s1, s2}
  Address = {a1, a2}
  Key = {k1, k2}
  Blank = Blank
  NoPeer = NoPeer
  Nothing = Nothing
  Bounds <- SomeBounds
INVARIANT Agreed
PROPERTIES HolderOnly Forgotten
CHECK_DEADLOCK FALSE
