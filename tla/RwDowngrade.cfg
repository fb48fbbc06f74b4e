SPECIFICATION RwSpec
CONSTANTS
  t0 = t0
  t1 = t1
  t2 = t2
  rwait = rwait
  wwait = wwait
  None = None
  Thread = {t0, t1, t2}
  init_thread = t0
  WaitHead = {rwait, wwait}
  Interrupted = {t1}
  MaxTime = 1
  MaxSleep = 1
INVARIANT DowngradeByOwner
