SPECIFICATION InterruptSpec
CONSTANTS
  a = a
  Nul = Nul
  Keys <- MCKeys
  Junk <- MCJunk
  Lines <- MCLines
  MaxKeys = 4
  MaxRaises = 2
  Faults <- MCFaults
INVARIANTS
  PromptStays
  NothingLeftInService
PROPERTIES
  PointerMatchesLength
  StraysOnlyAtFirstPrompt
  StuckOnlyDuringBoot
  AllHandled
  ImplementsLineEditor
CHECK_DEADLOCK FALSE
