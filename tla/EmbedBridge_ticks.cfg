\* Two ticks that overlap.  The parent does nothing of its own.
SPECIFICATION Spec
CONSTANTS
  Ids = {i1}
  MaxSeq = 4
  MaxCalls = 1
  MaxParent = 0
  MaxFaults = 0
  Ticks = {t1, t2}
  None = None
INVARIANT AlwaysHonest
CHECK_DEADLOCK FALSE
