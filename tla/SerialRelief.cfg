SPECIFICATION Spec
CONSTANTS
  High = 2
  DefaultBp = 1
  MaxBuffer = 6
  Strategy = "Reliable"
  ReopenOnError = TRUE
  StopOnException = FALSE
  Sizes = {1, 3}
  Faults = {"read"}
  MaxMsgs = 2
  MaxStarts = 1
INVARIANT DrainedIsRelieved
CHECK_DEADLOCK FALSE
