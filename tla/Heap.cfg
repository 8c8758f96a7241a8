SPECIFICATION Spec
CONSTANTS
  Boot <- MCBoot
  Requests <- MCRequests
  PageWords = 512
  MaxPages = 40
  MaxLive = 4
  AnyOrder = FALSE
INVARIANTS
  ListWhole
  HeadersApart
  LinksFromFreshWords
  PagesApart
PROPERTIES
  ImplementsArena
  KmallocReturns
