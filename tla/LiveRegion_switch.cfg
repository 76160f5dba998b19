\* Three switches between two apps, no failures.
SPECIFICATION Spec
CONSTANTS
  Apps = {a, b}
  Displays = {}
  MaxOpens = 3
  MaxCommits = 0
  MaxFaults = 0
  None = None
INVARIANT ShowsTheLastOpened
CHECK_DEADLOCK FALSE
