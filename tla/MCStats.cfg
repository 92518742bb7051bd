SPECIFICATION Spec
CONSTANTS
  Hash = {1, 2, 3}
  AnyTag = AnyTag
  RemoveHTML <- Escaped
  MaxInt = 127
  Shown <- SomeColumns
  Sortable = TRUE
  AsProgress = TRUE
  PageRange = 1
  FeedLimit = 2
  Discarded = Discarded
  Peer = {1}
  Left = {0, 2}
  NoLeft = NoLeft
  Gone = Gone
  Spoiled = Spoiled
  NoSwarm = NoSwarm
  File <- Torrents
  NoFile <- Unknown
  Percent <- ExactPercent
  Tags <- SomeTags
  Comments <- SomeComments
  NoTag = 0
  Edits <- SomeEdits
  Kind <- Kinds
  Interval <- Intervals
  TimeOut = 2
  MaxPeersDisplay = 1
  Views <- SomeViews
  Configs <- SomeConfigs
  MaxLag = 1
INVARIANTS UpToDate CountsAgree NothingMissed LinksLead
