SPECIFICATION Spec
CONSTANTS
  NThreads = 1
  High = 2
  DefaultBp = 1
  MaxBuffer = 6
  Strategy = "Reliable"
  IdleTimeout = TRUE
  Sizes = {1}
  Events = {"read"}
  MaxMsgs = 1
PROPERTY OnlyIdleIsClosed
CHECK_DEADLOCK FALSE
