SPECIFICATION Spec
CONSTANTS
  MemoryMaps <- MCMemoryMaps
  Kernel <- MCKernel
  FrameBuffers <- MCFrameBuffers
  LowPages = 3
  PageBytes = 2
  Word = 64
INVARIANTS
  CursorInv
  OwnedIsBacked
  CountersBalance
PROPERTIES
  LowestFirst
  ImplementsPool
