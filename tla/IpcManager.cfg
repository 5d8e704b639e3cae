\* Two handlers on one tag, and room for both in markedForDelete.
CONSTANTS
  l1 = l1
  l2 = l2
  p = p
  q = q
  ta = ta
  tb = tb
  Tag <- TwoTags
  Listener <- TwoListeners
  Sender <- BothSenders
  TagOf <- SameTag
  Unique <- UniqueSecond
  NumChan = 2
  MarkCap = 2
SPECIFICATION FairSpec
INVARIANT NeverPanics
PROPERTIES
  ImplementsRegistry
  BroadcastEnds
  HandlerReturns
CHECK_DEADLOCK FALSE
