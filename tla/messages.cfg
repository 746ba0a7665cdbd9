SPECIFICATION LiveSpec
CONSTANTS
  Worker = {w1, w2}
  Origins = {"route", "scheduled"}
  AutoRetryLimit = 1
  MaxRetries = 1
  MaxReplays = 1
  MaxMinutes = 2
  MaxFaults = 1
CHECK_DEADLOCK FALSE
INVARIANTS
  TypeOK
  OneDispatcher
  SentIffFired
PROPERTIES
  DeliveredStays
  ClosedStaysClosed
  InterruptedIsResolved
  ScheduleSettles
