\* The comment on the second write, with two operations at the same time and no crash.
SPECIFICATION Spec
CONSTANTS
  Paths = {p1}
  Shas = {s1}
  Ops = {o1, o2}
  MaxCrashes = 0
  None = None
CHECK_DEADLOCK FALSE
INVARIANTS BytesStay
