SPECIFICATION Spec
CONSTANTS
  ConfigTables <- MCConfigTables
  Segments = 2
  Uninitialised = {0, 3}
  MaxEntries = 3
  MaxEvents = 2
INVARIANTS
  MapIsFinal
  HandoffRight
  
CHECK_DEADLOCK FALSE
