SPECIFICATION Spec
CONSTANTS
  a1 = a1
  a2 = a2
  NULL = NULL
  Addresses <- TwoAddresses
  MaxMessages = 2
  Messages <- SomeMessages
  MaxAnswered = 1
  MaxReply = 2
  MaxRecv = 2
  MaxSent = 3
CHECK_DEADLOCK FALSE
INVARIANTS
  SentInOrder
  ReceivedInOrder
  Accounted
PROPERTIES
  HeadersWindow
