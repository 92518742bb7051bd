SPECIFICATION Spec
CONSTANTS
  adm = adm  mem = mem  p1 = p1  p2 = p2  h1 = h1
  User = {adm, mem}
  Pass = {p1, p2}
  UserBefore <- Alphabetic
  NoUser = NoUser
  NoPass = NoPass
  Garbled = Garbled
  NoAccess = NoAccess
  Guest = Guest
  GuestAccess <- Guests
  MemberAccess <- Members
  Grants <- SomeGrants
  Loaded <- SomeTables
  CutEntries <- CutByCodec
  Discarded = Discarded
  MaxChanges = 3
  MaxFaults = 1
  Hash = {h1}
  HashBefore <- OneHash
  NoTag = NoTag
  Nobody = Nobody
  KeepDead = FALSE
  ParseOnUpload = TRUE
  MaxTorrents = 0
INVARIANTS LoginAsGiven EverythingSaved PageHolds
PROPERTIES LockedOut UploaderKept
