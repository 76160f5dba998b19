\* The parent may act once on its own account; nothing is lost.
SPECIFICATION FairSpec
CONSTANTS
  Ids = {i1}
  MaxSeq = 3
  MaxCalls = 0
  MaxParent = 1
  MaxFaults = 0
  Ticks = {t1}
  None = None
PROPERTY ChildConverges
CHECK_DEADLOCK FALSE
