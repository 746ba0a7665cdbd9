SPECIFICATION LiveSpec
CONSTANTS
  call = call
  plain = plain
  NoEvent = NoEvent
  Event = {call, plain}
  KindOf <- TwoKinds
  Request = {q1, q2}
  Sweep = {s1, s2}
  MaxAttempts = 2
  MinAge = 1
  Lease = 2
  TaskLife = 0
  HandlerLife = 1
  MaxPosts = 3
  MaxFaults = 1
CHECK_DEADLOCK FALSE
INVARIANTS
  TypeOK
  OneSweepPerRow
  AckedIsOwedOrHandled
  ReplaysBounded
PROPERTIES
  NoRerunOfStamped
  EventuallySettled
