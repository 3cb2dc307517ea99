SPECIFICATION Spec
CONSTANTS
  a = a
  b = b
  Nobody = Nobody
  ClientCount = 2
  Peers <- TwoClients
  Scripts <- Pings
  Parts = 1
  MaxRuns = 1
  MaxPushes = 1
  Leavers <- TwoClients
  Stallers = {}
  Endings <- Never
  MayRegister = FALSE
SYMMETRY Symmetry
INVARIANT
  AnswersInOrder
CHECK_DEADLOCK FALSE
