SPECIFICATION Spec
CONSTANTS
  NThreads = 2
  High = 2
  DefaultBp = 1
  MaxBuffer = 6
  Strategy = "Reliable"
  IdleTimeout = FALSE
  Sizes = {1, 3, 6}
  Events = {}
  MaxMsgs = 3
INVARIANT OneWriteAtATime
INVARIANT NothingVanishes
INVARIANT SendOrder
INVARIANT Accounting
INVARIANT QueueBound
INVARIANT NoStuckQueue
INVARIANT BpHasWitness
INVARIANT PendingOnlyUnderBp
CHECK_DEADLOCK FALSE
