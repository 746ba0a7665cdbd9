SPECIFICATION Spec
CONSTANTS
  u1 = u1
  u2 = u2
  NoUser = NoUser
  User <- U
  MaxLegs = 2
  Contexts <- Every
  Placements <- Placed
  DialResults <- DialResult
  Budget <- Evictions
  MaxMirrorAttempts = 2
CHECK_DEADLOCK FALSE
INVARIANTS
  RingingHasAvenue
  NoLegOutlivesCall
  BothAnsweredAreBridged
