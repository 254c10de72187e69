SPECIFICATION FairSpec
CONSTANTS
  s1 = s1
  s2 = s2
  a1 = a1
  p = p
  Senders <- TwoSenders
  Asyncs <- OneAsync
  Interests <- ReadOnly
  PendingW = p
  MaxSends = 3
  MaxArrivals = 1
INVARIANTS
  NoSleepOverSignal
  KernelInStep
  PendingActive
CHECK_DEADLOCK FALSE
PROPERTIES
  ImplementsWakeup
  SignalsHandled
