SPECIFICATION FairSpec
CONSTANTS
  f1 = f1  f2 = f2  h1 = h1  h2 = h2
  File = {f1, f2}
  Hash = {h1, h2}
  Broken = Broken
  NoFile = NoFile
  NoName = NoName
  MaxTorrents = 2
  Configs <- AllConfigs
  Outside = TRUE
  OpenFails = TRUE
  MaxChanges = 4
INVARIANTS OnlyChangedStale KeepDeadShown
PROPERTIES WithdrawnForReason Settles
