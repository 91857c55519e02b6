\* stop() of an established connection.
CONSTANTS
  QueueCapacity = 1
  MaxAttempts = 2
  MaxStops = 2
SPECIFICATION Spec
PROPERTY StopIsNotReported
CHECK_DEADLOCK FALSE
