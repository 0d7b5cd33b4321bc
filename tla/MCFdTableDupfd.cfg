SPECIFICATION Spec
CONSTANTS
  f = f
  File = {f}
  None = None
  U8 = 4
  Stdio <- MCStdio
  DEFAULT_FD_LIMIT = 4
  SYSTEM_FD_LIMIT = 5
  Limits = {2, 5}
  MaxFds = 5
  MaxRecycled = 5
INVARIANT DupfdIsLowest
CHECK_DEADLOCK FALSE
