\* A purge plan, and another app that stops claiming the collection before the answer.
SPECIFICATION Spec
CONSTANTS
  Names = {"a", "b"}
  Colls = {"a"}
  Documents = {"d1", "built"}
  Built = {"built"}
  Saves <- MCSaves
  Edits = {}
  Entries = {}
  Writers = {"b"}
  Purged = {"a"}
  MaxSeq = 6
  MaxRows = 1
  MaxSettings = 0
  MaxAges = 0
  Omitted = Omitted
  None = None
PROPERTY PlanIsWhatHappens
CHECK_DEADLOCK FALSE
