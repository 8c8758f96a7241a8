SPECIFICATION Spec
CONSTANTS
  a = a
  b = b
  Blank = Blank
  Sectors <- MCLargeSectors
  Data <- MCData
  CmdSlotCounts = {2}
  Byte = 2
  MaxSpin = 2
  MaxErrors = 0
  ClearsBusy = FALSE
INVARIANT FisNamesSector
CHECK_DEADLOCK FALSE
