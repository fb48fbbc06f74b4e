SPECIFICATION MemSpec
CONSTANTS
  PAGE_SIZE = 64
  WordBits = 10
  bmk_membase = 64
  bmk_memsize = 256
  MaxCurrent = 6
  Nbytes = {0, 8, 24, 57}
  Align = {0, 12, 16, 64}
  EmptyAligned = FALSE
  MaxLive = 3
INVARIANT DataKept
CHECK_DEADLOCK FALSE
