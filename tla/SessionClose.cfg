SPECIFICATION Spec
CONSTANTS
  NThreads = 1
  High = 2
  DefaultBp = 1
  MaxBuffer = 6
  Strategy = "Reliable"
  IdleTimeout = TRUE
  Sizes = {1, 3}
  Events = {"read", "readError", "writeError", "stop", "cancel"}
  MaxMsgs = 2
INVARIANT TypeOK
INVARIANT Accounting
INVARIANT Notified
PROPERTY QuietAfterClose
CHECK_DEADLOCK FALSE
