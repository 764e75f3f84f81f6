SPECIFICATION Spec
CONSTANTS
  NThreads = 2
  High = 2
  DefaultBp = 1
  MaxBuffer = 6
  Strategy = "BestEffort"
  IdleTimeout = FALSE
  Sizes = {1, 6}
  Events = {"stop", "writeError"}
  MaxMsgs = 2
INVARIANT Accounting
INVARIANT QueueBound
PROPERTY OnlyOverwritesLose
CHECK_DEADLOCK FALSE
