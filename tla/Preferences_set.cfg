\* One foreign write beside one setPref, no faults.
SPECIFICATION Spec
CONSTANTS
  Keys = {k1}
  MaxForeign = 1
  MaxRemoved = 0
  MaxSets = 1
  MaxFaults = 0
  None = None
INVARIANT PrefsHonest
CHECK_DEADLOCK FALSE
