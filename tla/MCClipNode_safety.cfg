CONSTANTS
  RingSize = 4
  Nodes = {"a", "b"}
  Copiers = {"a", "b"}
  Links <- TwoLinksAndSelf
  Types = {"text", "image"}
  Contents = {"x", "p", "q"}
  UserValues <- TextOrImage
  ReadsBack <- BReencodes
  TTL = 1
  ChanCap = 1
  MaxCopies = 2
  MaxTS = 3
  MaxTicks = 2
  FIFO = FALSE
  Lossy = TRUE
  WriteMayFail = TRUE
  ReadMayFail = FALSE
  AtomicPoll = TRUE
  Interference = FALSE
  Timely = TRUE
  None = None
SPECIFICATION Safety
INVARIANTS
  TypeOK
  
  
  
