CONSTANTS
  Offers = {o1, o2}
  MaxCopies = 1
  MaxAsks = 2
  MayCancel = TRUE
  AtomicWrite = TRUE
  None = None
SPECIFICATION Safety
INVARIANTS
  TypeOK
  DoneClosedOnce
  OneDownloadAtATime
  ReceivedNeverOffered
 
CHECK_DEADLOCK FALSE
