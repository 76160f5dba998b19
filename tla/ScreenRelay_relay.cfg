\* Two calls and one settings widget that learns its name late; three failures.
SPECIFICATION FairSpec
CONSTANTS
  Widgets = {w1}
  Settings = {w1}
  Jobs = {j1, j2}
  Polls = {a, b}
  MaxFaults = 3
  None = None
\* Every widget may close.
CHECK_DEADLOCK FALSE
INVARIANTS RunsAtMostOnce NothingStranded NoIdleWait
PROPERTIES QueueDrains
