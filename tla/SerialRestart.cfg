SPECIFICATION Spec
CONSTANTS
  High = 2
  DefaultBp = 1
  MaxBuffer = 6
  Strategy = "BestEffort"
  ReopenOnError = TRUE
  StopOnException = TRUE
  Sizes = {1, 3}
  Faults = {"open", "read", "eof", "write", "throw"}
  MaxMsgs = 2
  MaxStarts = 2
INVARIANT ConnectedIsLive
INVARIANT NoStuckConnecting
INVARIANT StopIsFinal
CHECK_DEADLOCK FALSE
