SPECIFICATION Spec
CONSTANTS
  Width = 45
  Height = 60
  Word = 160
  Prompt = 2
  MaxRows = 20
  MaxKeys = 7
INVARIANTS
  CursorFollowsLine
PROPERTIES
  OffScreenOnlyPastEdges
CHECK_DEADLOCK FALSE
