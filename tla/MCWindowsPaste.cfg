CONSTANTS
  Files = {"f", "g"}
  Selections <- OneOrBoth
  MaxCopies = 2
  MaxEdits = 1
  MayExpire = TRUE
  MaxPresses = 2
  WriteMayFail = TRUE
  None = None
  MaxFileEntries = 2
SPECIFICATION Spec
INVARIANTS
  TypeOK
  
  ServesLastAnnounced
  
  MarkerIsServed
PROPERTY TransfersEnd
CHECK_DEADLOCK FALSE
