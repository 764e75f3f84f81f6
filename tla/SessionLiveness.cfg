SPECIFICATION FairSpec
CONSTANTS
  NThreads = 1
  High = 2
  DefaultBp = 1
  MaxBuffer = 6
  Strategy = "Reliable"
  IdleTimeout = FALSE
  Sizes = {1, 3}
  Events = {"stop"}
  MaxMsgs = 3
PROPERTY EventuallySent
PROPERTY BpEventuallyOff
CHECK_DEADLOCK FALSE
