SPECIFICATION FiberSpec
CONSTANTS
  t0 = t0
  t1 = t1
  t2 = t2
  a = a
  s = s
  c = c
  None = None
  Thread = {t0, t1, t2}
  init_thread = t0
  Mutex = {a, s}
  CV = {c}
  WaitHead = {a, s, c}
  Spin = {s}
  Interlock = {s}
  Interrupted = {t1}
  MaxDepth = 2
  MaxTime = 1
  MaxSleep = 1
INVARIANTS
  WaitersLive
  NoLostWakeup
  VcpuReleased
  WaitersCounted
  NowrapSucceeds
PROPERTIES
  Spec
