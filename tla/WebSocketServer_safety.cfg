SPECIFICATION Spec
CONSTANTS
  a = a
  b = b
  Nobody = Nobody
  ClientCount = 1
  Peers <- TwoClients
  Scripts <- Chats
  Parts = 2
  MaxRuns = 1
  MaxPushes = 0
  Leavers <- TwoClients
  Stallers = {}
  Endings <- Always
  MayRegister = TRUE
SYMMETRY Symmetry
INVARIANTS
  TypeOK
  QueueIsStream
  NothingLeft
PROPERTY
  ImplementsService
CHECK_DEADLOCK FALSE
