SPECIFICATION FairSpec
CONSTANTS
  a = a
  b = b
  Nobody = Nobody
  ClientCount = 1
  Peers <- OneClient
  Scripts <- OneChat
  Parts = 1
  MaxRuns = 1
  MaxPushes = 0
  Leavers <- OneClient
  Stallers = {}
  Endings <- Deleted
  MayRegister = FALSE
PROPERTY
  DestroyReturns
CHECK_DEADLOCK FALSE
