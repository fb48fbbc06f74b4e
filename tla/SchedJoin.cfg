SPECIFICATION JoinSpec
CONSTANTS
  t0 = t0
  t1 = t1
  t2 = t2
  Thread = {t0, t1, t2}
  init_thread = t0
  MaxTime = 1
  MaxSleep = 1
INVARIANT JoinableCanBeJoined
