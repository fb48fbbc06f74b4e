SPECIFICATION RRFairSpec
CONSTANTS
  t0 = t0
  t1 = t1
  t2 = t2
  Thread = {t0, t1, t2}
  init_thread = t0
  MaxTime = 3
  MaxSleep = 2
INVARIANTS
  TypeOK
  ListsIntact
  StackNotFreed
  ContextSaved
  RunnableDisarmed
PROPERTIES
  RunnableRuns
  SleeperRuns
  RoundRobin
