SPECIFICATION FairSpec
CONSTANTS
  c1 = c1
  c2 = c2
  Callers <- TwoCallers
  MaxCalls = 4
  EarlyCalls = TRUE
INVARIANTS
  LifetimesKept
  NoMissedWake
  LossIsReported
PROPERTIES
  ImplementsFifo
  UndisturbedCloseReleases
CHECK_DEADLOCK FALSE
