SPECIFICATION FairSpec
CONSTANTS
  a = a
  b = b
  c = c
  d = d
  u1 = u1
  u2 = u2
  none = none
  Calls <- SomeCalls
  Users <- OneUser
  NoCall = none
  url <- SomeUrls
  MaxRequests = 2
  MaxPerHost = 1
  MaxCancels = 1
INVARIANTS
  SlotsSound
  NoneStranded
PROPERTIES
  StartedOnce
  QueueMoves
CHECK_DEADLOCK FALSE
