SPECIFICATION Spec
CONSTANTS
  a = a
  b = b
  c = c
  d = d
  u1 = u1
  u2 = u2
  none = none
  Calls <- FewCalls
  Users <- TwoUsers
  NoCall = none
  url <- SomeUrls
  MaxRequests = 2
  MaxPerHost = 1
  MaxCancels = 1
INVARIANTS
  StillInFlight
CHECK_DEADLOCK FALSE
