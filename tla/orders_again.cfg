SPECIFICATION Spec
CONSTANTS
  Runner = {r1, r2}
  Slot = {s1}
  MaxAttempts = 2
  MaxOrders = 2
  MaxTriggers = 1
  MaxCrons = 1
  MaxRemedies = 1
  MaxReleases = 1
  MaxFaults = 1
CHECK_DEADLOCK FALSE
INVARIANT
  NoDoubleBuy
