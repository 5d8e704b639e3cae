CONSTANTS
  c1 = c1
  c2 = c2
  f1 = f1
  Checker <- TwoChecks
  Forcer <- OneForcer
  MaxLen = 2
SPECIFICATION FairSpec
PROPERTIES
  CheckEnds
  ForceEnds
CHECK_DEADLOCK FALSE
