CONSTANTS
  Offers = {o1}
  MaxCopies = 1
  MaxAsks = 1
  MayCancel = FALSE
  AtomicWrite = TRUE
  None = None
SPECIFICATION Safety
INVARIANT PublishedOfferIsServed
