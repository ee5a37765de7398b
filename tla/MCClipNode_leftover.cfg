CONSTANTS
  RingSize = 4
  Nodes = {"a", "b"}
  Copiers = {"a", "b"}
  Links <- OneLinkEach
  Types = {"text"}
  Contents = {"x", "y"}
  UserValues <- TextValues
  ReadsBack <- Verbatim
  TTL = 1
  ChanCap = 1
  MaxCopies = 3
  MaxTS = 3
  MaxTicks = 1
  FIFO = TRUE
  Lossy = FALSE
  WriteMayFail = FALSE
  ReadMayFail = FALSE
  AtomicPoll = TRUE
  Interference = FALSE
  Timely = TRUE
  None = None
SPECIFICATION Safety
INVARIANT CalmCopySpreads
