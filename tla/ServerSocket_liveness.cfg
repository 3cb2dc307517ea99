SPECIFICATION FairSpec
CONSTANTS
  a = a
  b = b
  c = c
  w1 = w1
  w2 = w2
  Nobody = Nobody
  ClientCount = 1
  Peers <- TwoClients
  Writers <- NoWriters
  Senders <- OneClient
  MaxSend = 2
  MaxWrites = 0
  Parts = 1
  Tls <- PlainOrTls
  SpuriousReads = FALSE
  MayClose = TRUE
INVARIANT
  BuffersAccounted
PROPERTIES
  ImplementsSessions
  ArrivalIsReported
  EndIsReported
  DataArrives
  CloseReturns
