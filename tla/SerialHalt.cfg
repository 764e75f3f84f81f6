SPECIFICATION Spec
CONSTANTS
  High = 2
  DefaultBp = 1
  MaxBuffer = 6
  Strategy = "Reliable"
  ReopenOnError = TRUE
  StopOnException = TRUE
  Sizes = {1}
  Faults = {"throw", "write"}
  MaxMsgs = 1
  MaxStarts = 1
PROPERTY HaltedStaysHalted
CHECK_DEADLOCK FALSE
