SPECIFICATION Spec
CONSTANTS
  a = a
  b = b
  c = c
  w1 = w1
  w2 = w2
  Nobody = Nobody
  ClientCount = 2
  Peers <- ThreeClients
  Writers <- OneWriter
  Senders <- NoClients
  MaxSend = 0
  MaxWrites = 1
  Parts = 1
  Tls <- OnlyPlain
  SpuriousReads = FALSE
  MayClose = FALSE
INVARIANT
  WritesReachTheirClient
