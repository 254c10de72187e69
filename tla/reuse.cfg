SPECIFICATION Spec
CONSTANTS
  a = a
  b = b
  c = c
  none = none
  None = none
  Calls <- ThreeCalls
  authority <- TwoHosts
  MaxIdle = 0
  MaxCancels = 1
  Faulty <- TwoCalls
SYMMETRY Symmetry
CONSTRAINT ThirdCallOrFailure
INVARIANTS
  PoolSound
  NoneForgotten
  StuckOnlyWhenDying
CHECK_DEADLOCK FALSE
