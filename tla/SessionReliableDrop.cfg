SPECIFICATION Spec
CONSTANTS
  NThreads = 2
  High = 2
  DefaultBp = 1
  MaxBuffer = 6
  Strategy = "Reliable"
  IdleTimeout = FALSE
  Sizes = {3, 6}
  Events = {}
  MaxMsgs = 1
INVARIANT DroppedIsRefused
CHECK_DEADLOCK FALSE
