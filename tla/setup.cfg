SPECIFICATION Spec
CONSTANTS
  c1 = c1
  c2 = c2
  Calls <- TwoCalls
  Servers = {"s"}
  Asked <- SomeAsked
  Lengths = {1, 3}
  MaxToken = 2
  MaxSession = 3
  MaxRecvData = 4
SYMMETRY CallSymmetry
INVARIANTS
  NoMisuse
  Backed
  NothingLeft
  OffersSound
CHECK_DEADLOCK FALSE
