SPECIFICATION Spec
CONSTANTS
  a = a
  b = b
  Blank = Blank
  Sectors <- MCSectors
  Data <- MCData
  CmdSlotCounts = {1, 2}
  Byte = 2
  MaxSpin = 2
  MaxErrors = 2
  ClearsBusy = FALSE
INVARIANTS
  IdleIsQuiet
  StrayOnlyWhenFull
PROPERTIES
  IssuedUntouched
  ImplementsBlockDevice
  ErrorReported
  AnsweredUnlessHalted
CHECK_DEADLOCK FALSE
