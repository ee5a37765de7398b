CONSTANTS
  Offers = {o1}
  MaxCopies = 1
  MaxAsks = 1
  MayCancel = TRUE
  AtomicWrite = TRUE
  None = None
SPECIFICATION Spec
PROPERTY ShutdownCompletes
CHECK_DEADLOCK FALSE
