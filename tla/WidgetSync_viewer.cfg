\* A widget in the browser viewer: /events starts a second check beside the poll's.
SPECIFICATION Spec
CONSTANTS
  Ids = {1}
  Positions = {1}
  Writes = {w1}
  Checks = {poll, sse}
  MaxPages = 1
  MaxRestarts = 0
  Ladder = 1
  MaxSeq = 4
  MaxFaults = 0
  None = None
INVARIANTS HonestWatermark
