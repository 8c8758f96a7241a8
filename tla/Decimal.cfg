SPECIFICATION Spec
CONSTANTS
  Numbers <- MCNumbers
  Unsigned = 200
  Size = 6
INVARIANTS
  ReadsBack
PROPERTIES
  HandsOutNumeral
