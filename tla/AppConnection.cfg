\* Two streams that come with any of three ids, and two updates.
CONSTANTS
  s1 = s1
  s2 = s2
  app1 = app1
  app2 = app2
  none = none
  free = free
  u1 = u1
  u2 = u2
  Stream <- TwoStreams
  Id <- AppsAndSdk
  NoId <- none
  Brings <- SameOrOther
  Free <- free
  Updater <- TwoUpdaters
  Status <- SomeStatus
  MaxTries = 1
  MaxCalls = 3
SPECIFICATION FairSpec
INVARIANTS
  PrimaryKeepsId
  RunningHasStream
  SentIsValid
PROPERTIES
  CallAnswered
  StatusStreamEnds
CHECK_DEADLOCK FALSE
