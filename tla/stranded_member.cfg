SPECIFICATION Spec
CONSTANTS
  u1 = u1
  u2 = u2
  NoUser = NoUser
  User <- U
  MaxLegs = 1
  Contexts <- Alone
  Placements <- NoCalls
  DialResults <- Sure
  Budget <- Nothing
  MaxMirrorAttempts = 2
CHECK_DEADLOCK FALSE
INVARIANTS
  AnsweredLegsAutoTear
