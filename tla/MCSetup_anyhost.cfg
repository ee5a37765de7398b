CONSTANTS
  p = p
  q = q
  Peers = {p, q}
  Garbled = Garbled
  Broken = Broken
  CommandLines <- AnyLines
  OldConfigs = {}
  None = None
  MaxCommands = 1
  MaxCrashes = 0
  MaxLogins = 1
  MaxChanges = 0
SPECIFICATION Spec
PROPERTY ServedInTheEnd
CHECK_DEADLOCK FALSE
