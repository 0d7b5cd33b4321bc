SPECIFICATION FairSpec
CONSTANTS
  INITPROC = init
  Pid = {init, p1, p2}
  InitTask = s0
  Task = {s0, s1, s2}
  Addr = {w}
  MaxThreads = 2
  MaxWaiters = 1
  None = None
  Gone = Gone
  AnyChild = AnyChild
INVARIANTS ProcessTree ReapNeverPanics OnePlace FutexQueues
PROPERTIES WaitReturns ReadyRuns
