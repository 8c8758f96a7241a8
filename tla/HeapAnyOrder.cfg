SPECIFICATION Spec
CONSTANTS
  Boot <- MCNoBoot
  Requests <- MCSmallRequests
  PageWords = 512
  MaxPages = 40
  MaxLive = 4
  AnyOrder = TRUE
INVARIANTS
  HeadersApart
