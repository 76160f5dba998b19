\* A widget in a chat host: one poll, two write calls in flight.  Safety only, in a larger instance than WidgetSync_live.
SPECIFICATION Spec
CONSTANTS
  Ids = {1, 2}
  Positions = {1, 2}
  Writes = {w1, w2}
  Checks = {poll}
  MaxPages = 2
  MaxRestarts = 0
  Ladder = 0
  MaxSeq = 4
  MaxFaults = 0
  None = None
SYMMETRY Symmetry
INVARIANTS HonestWatermark TotalIsHonest
