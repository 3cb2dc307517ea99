CONSTANTS
  Setups <- MCSetups
  MaxOpens = 2
SPECIFICATION Spec
INVARIANTS
  PiecesDontMatter
  RequestArrives
  OpenedMeansAgreed
  HandlersSeeTheirArgs
  RoutesAreFound
  BodyDelivered
  HandshakeEnds
CHECK_DEADLOCK FALSE
