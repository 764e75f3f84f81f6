SPECIFICATION FairSpec
CONSTANTS
  High = 2
  DefaultBp = 1
  MaxBuffer = 6
  Strategy = "Reliable"
  ReopenOnError = TRUE
  StopOnException = FALSE
  Sizes = {1, 3}
  Faults = {"read", "write"}
  MaxMsgs = 1
  MaxStarts = 2
PROPERTY StopCloses
PROPERTY ConnectingEnds
CHECK_DEADLOCK FALSE
