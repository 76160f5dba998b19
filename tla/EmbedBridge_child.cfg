\* Two rows, one request of the child, one act of the parent of its own, one lost call.
SPECIFICATION FairSpec
CONSTANTS
  Ids = {i1, i2}
  MaxSeq = 3
  MaxCalls = 1
  MaxParent = 1
  MaxFaults = 1
  Ticks = {t1, t2}
  None = None
INVARIANT HonestChild
PROPERTY ConvergesWithParent
CHECK_DEADLOCK FALSE
