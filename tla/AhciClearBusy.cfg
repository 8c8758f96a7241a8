SPECIFICATION Spec
CONSTANTS
  a = a
  b = b
  Blank = Blank
  Sectors <- MCSectors
  Data <- MCData
  CmdSlotCounts = {2}
  Byte = 2
  MaxSpin = 2
  MaxErrors = 0
  ClearsBusy = TRUE
PROPERTY CompletionAwaited
CHECK_DEADLOCK FALSE
