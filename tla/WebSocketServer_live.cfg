SPECIFICATION FairSpec
CONSTANTS
  a = a
  b = b
  Nobody = Nobody
  ClientCount = 2
  Peers <- TwoClients
  Scripts <- OneChat
  Parts = 1
  MaxRuns = 1
  MaxPushes = 0
  Leavers = {}
  Stallers <- OneClient
  Endings <- Closed
  MayRegister = FALSE
INVARIANT
  StraysUnserved
PROPERTIES
  CloseReturns
  TextIsHandled
CHECK_DEADLOCK FALSE
