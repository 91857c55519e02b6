\* stop() between the stop test of the loop and the reset of the policy.
CONSTANTS
  QueueCapacity = 1
  MaxAttempts = 2
  MaxStops = 2
SPECIFICATION Spec
PROPERTY NoBackoffAfterStop
CHECK_DEADLOCK FALSE
