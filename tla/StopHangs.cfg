\* stop() against a connection attempt in progress.
CONSTANTS
  QueueCapacity = 1
  MaxAttempts = 2
  MaxStops = 2
SPECIFICATION FairSpec
PROPERTY StopReturns
CHECK_DEADLOCK FALSE
