\* Two calls of every handler by gRPC, and every path by way of switchboard.
CONSTANTS
  Calls = {1, 2}
  Plays <- TwoCalls
  MaxParts = 2
  Inboxes <- AnInbox
SPECIFICATION ProxySpec
INVARIANTS
  AnswerIsOwn
  PathReachesItsHandler
PROPERTIES
  CallReturns
  ProxyAnswers
CHECK_DEADLOCK FALSE
