CONSTANTS
  s1 = s1
  s2 = s2
  u1 = u1
  u2 = u2
  Stream <- TwoStreams
  Utterance <- TwoUtterances
  Frames = 1
  inactiveNumMax = 1
  ActiveMin = 0
  MaxChunks = 2
SPECIFICATION FairSpec
INVARIANTS
  DeafHasDecoder
  DecodesAlone
PROPERTY HearsAgain
CHECK_DEADLOCK FALSE
