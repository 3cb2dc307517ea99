SPECIFICATION Spec
CONSTANTS
  a = a
  b = b
  c = c
  w1 = w1
  w2 = w2
  Nobody = Nobody
  ClientCount = 2
  Peers <- TwoClients
  Writers <- TwoWriters
  Senders <- NoClients
  MaxSend = 0
  MaxWrites = 1
  Parts = 2
  Tls <- PlainOrTls
  SpuriousReads = TRUE
  MayClose = TRUE
SYMMETRY Symmetry
INVARIANTS
  TypeOK
  DescriptorsTracked
  ClosedIsClosed
  WritesNotMixed
PROPERTY
  ImplementsSessions
