SPECIFICATION Spec
CONSTANTS
  u1 = u1
  u2 = u2
  NoUser = NoUser
  User <- U
  MaxLegs = 2
  Contexts <- Crew
  Placements <- NoCalls
  DialResults <- Sure
  Budget <- Asked1
  MaxMirrorAttempts = 2
CHECK_DEADLOCK FALSE
INVARIANTS
  TypeOK
  HangupAlwaysEnds
  NoGhostRing
  RingingCancelsNobody
PROPERTIES
  DeclinedNeverRung
  FirstAnswerWins
