CONSTANTS
  RingSize = 3
  Nodes = {"a", "b"}
  Copiers = {"a", "b"}
  Links <- TwoLinks
  Types = {"text"}
  Contents = {"x", "y"}
  UserValues <- TextValues
  ReadsBack <- Verbatim
  TTL = 1
  ChanCap = 1
  MaxCopies = 2
  MaxTS = 2
  MaxTicks = 1
  FIFO = TRUE
  Lossy = FALSE
  WriteMayFail = FALSE
  ReadMayFail = FALSE
  AtomicPoll = TRUE
  Interference = FALSE
  Timely = TRUE
  None = None
SPECIFICATION Spec
PROPERTIES
  ComesToRest
  CopyTakesEffect
  Converges
