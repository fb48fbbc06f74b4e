SPECIFICATION PartsSpec
CONSTANTS
  PAGE_SIZE = 4
  MEMSTART = 16
  End = 22
  WordBits = 6
  MapAddr = {0, 16}
  MapLen = {8, 15, 40}
  MaxEntries = 2
  LoaderFlags = {{}, {2, 64}}
  Line = {0, 2, 5, 10, 11, 12, 13}
  BMK_MAXINTR = 12
  Cookie = {1, 12, 13}
  MaxHandlers = 2
  Thread = {t1, t2, t3}
  Lwp = {l1, l2}
  NoLwp = NoLwp
  Error = {0, 1}
  MaxLock = 2
  MemCells = 32
  HostLen = 3
  MemSizes = {5, 6, 15, 107, 1005, 10005}
  BMK_MEMRESERVE = 5
  TmpSize = 5
  MaxBuf = 6
  ArrayLen = 4
  Byte = {1, 2}
  CONS_WIDTH = 3
  CONS_HEIGHT = 3
  Char = {" ", "a", "b"}
  n_uword_bits = 3
  Ops = {"udivdi3", "umoddi3", "divdi3", "moddi3", "udivsi3"}
  Queue = {h1, h2}
  Elem = {e1, e2, e3}
  NULL = NULL
INVARIANTS
  MemoryBehindImage
  NoHyperspace
  ThreadsOwnState
  MutexByLwp
  ParamAnswered
  StringsRight
  ScreenShowsPaper
  DivisionCorrect
  ListRepresented
  ForeachVisitsAll
PROPERTIES
  BufferKept
CHECK_DEADLOCK FALSE
