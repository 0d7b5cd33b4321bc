CONSTANTS
  Thread = {t0, t1}
  Main = t0
  KillNums = {9, 12, 18, 19}
  ActionNums = {11, 33}
  Masks <- MCMasks
  Actions <- MCActions
  Faults <- MCFaults
  MaxSends = 2
  None = None
SPECIFICATION Spec
INVARIANT StoppedStays
INVARIANT InterruptedContextKept
PROPERTY KillKills
CHECK_DEADLOCK FALSE
