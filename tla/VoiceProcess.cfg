\* A superseded stream and the current one, one audio message a chunk.
CONSTANTS
  s1 = s1
  s2 = s2
  nil = nil
  Stream <- TwoStreams
  NoStream <- nil
  Modes = {"Normal", "KnowledgeGraph", "Unknown"}
  Locales = {"empty", "malformed"}
  Samples = {1}
  Stoppable = TRUE
  StreamSize = 1
  ChanCap = 1
  MaxBuf = 1
SPECIFICATION FairSpec
INVARIANT PanicOnlyWhenDone
PROPERTIES
  ImplementsSession
  StreamEventuallyClosed
  RoutinesEnd
CHECK_DEADLOCK FALSE
