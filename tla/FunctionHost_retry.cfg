\* A row appears between a call and its retry.
SPECIFICATION Spec
CONSTANTS
  Attempts = {a1, a2}
  Commands = {k}
  Programs <- MCRetry
  Slots = 2
  MaxWrites = 3
  MaxReads = 3
  RowMayAppear = TRUE
  None = None
INVARIANT LandedOnce
CHECK_DEADLOCK FALSE
