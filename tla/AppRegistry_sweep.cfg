\* One app, saved by the AI and undone by the user.
SPECIFICATION Spec
CONSTANTS
  Names = {"a"}
  Colls = {"a"}
  Documents = {"d1", "built"}
  Built = {"built"}
  Saves <- MCAgentSaves
  Edits = {}
  Entries = {}
  Writers = {}
  Purged = {}
  MaxSeq = 5
  MaxRows = 1
  MaxSettings = 0
  MaxAges = 1
  Omitted = Omitted
  None = None
PROPERTY UndoKeepsCheckpoints
CHECK_DEADLOCK FALSE
