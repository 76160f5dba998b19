\* A mount whose every walk is torn by writes.
SPECIFICATION FairSpec
CONSTANTS
  Ids = {1, 2}
  Positions = {1}
  Writes = {}
  Checks = {poll}
  MaxPages = 2
  MaxRestarts = 1
  Ladder = 1
  MaxSeq = 5
  MaxFaults = 0
  None = None
CHECK_DEADLOCK FALSE
PROPERTIES MountsEventually
