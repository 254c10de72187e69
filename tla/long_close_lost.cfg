SPECIFICATION FairSpec
CONSTANTS
  c1 = c1
  c2 = c2
  Callers <- OneCaller
  MaxCalls = 2
  EarlyCalls = FALSE
PROPERTIES
  CloseIsAnswered
CHECK_DEADLOCK FALSE
