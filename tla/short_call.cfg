SPECIFICATION FairSpec
CONSTANTS
  a1 = a1
  a2 = a2
  Apps <- TwoApps
  Looper = looper
  Worker = worker
  MaxCancels = 2
INVARIANTS
  LifetimesKept
  Answered
  EndsBounded
PROPERTIES
  ClosingEnds
CHECK_DEADLOCK FALSE
