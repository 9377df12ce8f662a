SPECIFICATION Spec
CONSTANTS
  Importers = {i}
  Requests = {}
  None = None
  MaxCrashes = 0
INVARIANTS
  RolledBackIsUnchanged
CHECK_DEADLOCK FALSE
