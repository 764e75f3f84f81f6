SPECIFICATION Spec
CONSTANTS
  High = 2
  DefaultBp = 1
  MaxBuffer = 6
  Strategy = "Reliable"
  ReopenOnError = TRUE
  StopOnException = FALSE
  Sizes = {1, 3}
  Faults = {"open", "read", "eof", "write", "throw"}
  MaxMsgs = 3
  MaxStarts = 1
INVARIANT TypeOK
INVARIANT NoStuckQueue
CHECK_DEADLOCK FALSE
