SPECIFICATION Spec
CONSTANTS
  Worker = {w1, w2}
  Origins = {"route"}
  AutoRetryLimit = 1
  MaxRetries = 1
  MaxReplays = 1
  MaxMinutes = 2
  MaxFaults = 1
CHECK_DEADLOCK FALSE
INVARIANT
  AutoRetryDispatches
