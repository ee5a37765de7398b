CONSTANTS
  RingSize = 2
  Links = {l1}
  MaxEvents = 3
  MaxConns = 3
  MaxRestarts = 1
  SendCap = 2
  IncomingCap = 1
  Unencodable = {2}
  MayCancel = TRUE
  None = None
SPECIFICATION Spec
INVARIANTS
  TypeOK
  NeitherVanishNorMultiply
  OvertakingNeedsReconnect
  NoConnectionLeak
PROPERTIES
  WritersEnd
  ImplementsLossyLink
