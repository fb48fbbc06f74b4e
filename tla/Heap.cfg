SPECIFICATION HeapSpec
CONSTANTS
  PAGE_SIZE = 64
  WordBits = 10
  bmk_membase = 64
  bmk_memsize = 192
  MaxCurrent = 4
  Nbytes = {0, 20, 64}
  Align = {12, 64}
  EmptyAligned = FALSE
  MaxLive = 3
INVARIANTS
  PagesOnce
  BlocksApart
  OwnersServed
PROPERTIES
  BlocksKept
  ImplementAllocator
CHECK_DEADLOCK FALSE
