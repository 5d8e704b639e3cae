\* One listener more than markedForDelete holds: five and six in the code.
CONSTANTS
  l1 = l1
  l2 = l2
  p = p
  q = q
  ta = ta
  tb = tb
  Tag <- TwoTags
  Listener <- TwoListeners
  Sender <- OneSender
  TagOf <- SameTag
  Unique <- UniqueSecond
  NumChan = 1
  MarkCap = 1
SPECIFICATION FairSpec
PROPERTY
  ProcessMessagesLoops
CHECK_DEADLOCK FALSE
