SPECIFICATION PTSpec
CONSTANTS
  MemoryMaps <- MCMemoryMaps
  Kernel <- MCKernel
  FrameBuffers <- MCFrameBuffers
  Devices <- MCDevices
  LowPages = 3
  PageBytes = 4
  Word = 128
  Fan = 3
  MaxGrants = 2
INVARIANTS
  TableTree
  IdentityComplete
  FaultsOnlyPastMemory
PROPERTIES
  ImplementsAddressSpace
CHECK_DEADLOCK FALSE
