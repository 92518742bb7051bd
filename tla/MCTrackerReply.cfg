SPECIFICATION Spec
CONSTANTS
  h1 = h1  p1 = p1  p2 = p2  p3 = p3  a1 = a1  a2 = a2  a3 = a3
  port = port  k1 = k1  k2 = k2
  InfoHash = {h1}
  PeerId = {p1, p2, p3}
  IP = {a1, a2, a3}
  Port = {port}
  Key = {k1}
  NoKey = NoKey
  NoPeer = NoPeer
  NoReply = NoReply
  Requests <- ReplyRequests
  LinkAnnounces <- NoAnnounces
  NumWant = {1, 3}
  Restored <- FromNothing
  MaxGive = 2
  TimeOut = 2
  Linked = FALSE
  KeySupport = TRUE
  CountUnique = FALSE
  KeepDead = FALSE
  AllowedDir = FALSE
  MaxLag = 1
  MaxTime = 0
  MaxQueued = 0
  MaxCompleted = 0
  MaxCounted = 0
INVARIANTS ShortReplyIsComplete CacheBounded
