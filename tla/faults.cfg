SPECIFICATION Spec
CONSTANTS
  u1 = u1
  u2 = u2
  NoUser = NoUser
  User <- U
  MaxLegs = 1
  Contexts <- Alone
  Placements <- NoCalls
  DialResults <- Refusable
  Budget <- Faults1
  MaxMirrorAttempts = 3
CHECK_DEADLOCK FALSE
INVARIANTS
  RowAgrees
  MirrorOwedIsArmed
  NoParkedCustomer
  VoicemailKept
  LineFreed
  
