SPECIFICATION Spec
CONSTANTS
  QperConn = 2
  MaxCalls = 5
INVARIANTS
  OnlyCurrentOpen
  OwnAnswer
  AtMostQperConn
  RotatedWhenFull
