SPECIFICATION LiveSpec
CONSTANTS
  u1 = u1
  u2 = u2
  NoUser = NoUser
  User <- U
  MaxLegs = 1
  Contexts <- Openings
  Placements <- Placed
  DialResults <- Unsure
  Budget <- Losses
  MaxMirrorAttempts = 1
CHECK_DEADLOCK FALSE
PROPERTIES
  EventuallyOver
  ImplementsLifecycle
  TerminalAbsorbs
