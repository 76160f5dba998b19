\* Two operations interleaved at disk calls, two paths, two contents, one crash; no symmetry, for the liveness.
SPECIFICATION FairSpec
CONSTANTS
  Paths = {p1, p2}
  Shas = {s1, s2}
  Ops = {o1, o2}
  MaxCrashes = 1
  None = None
INVARIANT LostOnlyInWindows
PROPERTY OrphansReclaimed
