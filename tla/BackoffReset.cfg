\* A connection whose first read fails.
CONSTANTS
  QueueCapacity = 1
  MaxAttempts = 2
  MaxStops = 2
SPECIFICATION Spec
INVARIANT ResetOnlyAfterMessage
CHECK_DEADLOCK FALSE
