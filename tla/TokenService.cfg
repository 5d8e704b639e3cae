CONSTANTS
  a = a
  rf = rf
  Client <- OneClient
  Refresher <- rf
  MaxToken = 3
SPECIFICATION FairSpec
INVARIANTS
  HandedIsDurable
  AnswerIsFresh
PROPERTIES
  ImplementsRobotToken
  RequestAnswered
  DueIsRefreshed
CHECK_DEADLOCK FALSE
