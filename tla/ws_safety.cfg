SPECIFICATION FairSpec
CONSTANTS
  a1 = a1
  a2 = a2
  Apps <- TwoApps
  Loop = loop
  Writer = writer
  None = none
  MaxCalls = 2
  MaxUpcalls = 1
  MaxPings = 2
INVARIANTS
  OnlyTwoInversions
  SendsAccounted
  CrashWindow
PROPERTIES
  ImplementsFifo
  CloseFrameEnds
CHECK_DEADLOCK FALSE
