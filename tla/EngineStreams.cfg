\* Two feeds of a source; two or three maps; two connections.
CONSTANTS
  Feeds = {1, 2}
  Casts <- TwoFeeds
  Room = 2
  Counts = {2}
  Groups = 2
  MaxLost = 1
  DataRoom = 2
  Parts = 3
  Maps = 3
  Conns = {1, 2}
  Rpcs <- TwoConns
  News = {"granted", "lost"}
  MaxRequests = 1
SPECIFICATION StreamsSpec
INVARIANTS
  GroupIsWhole
  SilentWhenUnheard
  MapIsWhole
  KnowsLatest
PROPERTIES
  FeedEnds
  ControlIsReleased
  ControlEnds
CHECK_DEADLOCK FALSE
