SPECIFICATION SomeTimersSpec
CONSTANTS
  pending_w = pending_w
  Timers <- SixTimers
  Repeating <- Engine
  NoTimer = pending_w
  Delays <- SomeDelays
  MaxNow = 2
  MaxOps = 7
CHECK_DEADLOCK FALSE
PROPERTIES
  ImplementsService
