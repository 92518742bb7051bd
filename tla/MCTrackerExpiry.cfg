SPECIFICATION Spec
CONSTANTS
  h1 = h1  p1 = p1  p2 = p2  p3 = p3  a1 = a1  a2 = a2  a3 = a3
  port = port  k1 = k1  k2 = k2
  InfoHash = {h1}
  PeerId = {p1, p2}
  IP = {a1, a2}
  Port = {port}
  Key = {k1}
  NoKey = NoKey
  NoPeer = NoPeer
  NoReply = NoReply
  Requests <- CountRequests
  LinkAnnounces <- LinkStops
  NumWant = {0}
  Restored <- FromDisk
  MaxGive = 0
  TimeOut = 1
  Linked = TRUE
  KeySupport = TRUE
  CountUnique = TRUE
  KeepDead = FALSE
  AllowedDir = TRUE
  MaxLag = 1
  MaxTime = 6
  MaxQueued = 1
  MaxCompleted = 0
  MaxCounted = 3
INVARIANTS TypeOK TimedPeers NoLinger CountsExact
PROPERTIES RemovalJustified
