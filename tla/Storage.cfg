SPECIFICATION Spec
CONSTANTS
  Machines <- MCMachines
  Adapters = {"a1", "a2"}
  Ports = 3
  Functions = 2
  MappedPorts = 2
  BlockSize = 3
  Entries = 3
  Cleared = 2
  Junk = {0, 5, 9}
  Byte = 10
  Lines <- MCLines
INVARIANTS
  ProbedOnce
  OnlyPlanWritten
  FirstEntriesAreFiles
  CoveringLineRunsAlone
PROPERTIES
  ImplementsCatalog
