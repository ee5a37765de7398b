CONSTANTS
  p = p
  q = q
  Peers = {p, q}
  Garbled = Garbled
  Broken = Broken
  CommandLines <- UsualLines
  OldConfigs <- OldConfig
  None = None
  MaxCommands = 2
  MaxCrashes = 2
  MaxLogins = 2
  MaxChanges = 1
SPECIFICATION Spec
INVARIANTS
  TypeOK
  CompleteMeansWhole
  InstalledIsWhatRuns
PROPERTIES
  SetupOnce
  ServedInTheEnd
CHECK_DEADLOCK FALSE
