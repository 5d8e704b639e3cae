CONSTANTS
  c1 = c1
  c2 = c2
  f1 = f1
  Checker <- TwoChecks
  Forcer <- OneForcer
  MaxLen = 2
SPECIFICATION Spec
INVARIANT CheckNeverPanics
CHECK_DEADLOCK FALSE
