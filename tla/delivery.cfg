SPECIFICATION LiveSpec
CONSTANTS
  Delivery = {d1, d2}
  Sweep = {s1, s2}
  Ladder = 1
  DisableAfter = 2
  MaxSwitches = 1
  MaxFaults = 1
CHECK_DEADLOCK FALSE
INVARIANTS
  TypeOK
  OneSweepPerDelivery
  PostsBounded
PROPERTIES
  EventuallySettled
