\* One write call at a time, foreign writes, one poll, one dropped call: is what the widget claims true,
\* and does it catch up?
SPECIFICATION FairSpec
CONSTANTS
  Ids = {1, 2}
  Positions = {1}
  Writes = {w1}
  Checks = {poll}
  MaxPages = 2
  MaxRestarts = 1
  Ladder = 1
  MaxSeq = 4
  MaxFaults = 1
  None = None
INVARIANTS HonestWatermark TotalIsHonest
PROPERTIES Converges
