SPECIFICATION FairSpec
CONSTANTS
  Block = {b1, b2, b3}
  Offset = {o1, o2}
  Value = {z, v}
  Zero = z
  CACHEPOOLSIZE = 2
  PRIORITY_UPPERBOUND = 1
  NoBlock = NoBlock
  None = None
INVARIANT LatestSurvivesSweep
PROPERTIES AccessReturns StoreSpec
