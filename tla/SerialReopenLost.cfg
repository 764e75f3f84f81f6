SPECIFICATION Spec
CONSTANTS
  High = 2
  DefaultBp = 1
  MaxBuffer = 6
  Strategy = "Reliable"
  ReopenOnError = TRUE
  StopOnException = FALSE
  Sizes = {1}
  Faults = {"write"}
  MaxMsgs = 1
  MaxStarts = 1
INVARIANT ReopensAfterError
CHECK_DEADLOCK FALSE
