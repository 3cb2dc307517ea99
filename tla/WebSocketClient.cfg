SPECIFICATION FairSpec
CONSTANTS
  Script <- Answers
  MaxOpens = 2
  Tls <- PlainOrTls
  Calls <- All
INVARIANTS
  TypeOK
  MessagesAreStream
  QuietAfterEnd
PROPERTIES
  ImplementsSession
  EndIsReal
  CloseReturns
  EndIsReported
  MessagesAreHeard
CHECK_DEADLOCK FALSE
