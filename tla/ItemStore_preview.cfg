\* The preview comment taken literally: every demand, those raised inside a batch included.
SPECIFICATION Spec
CONSTANTS
  Ids = {i1}
  Collections = {todo}
  Groups = {g1}
  Keys = {k1}
  Vals = {v1, v2}
  Added = {v1, v2}
  Unfit = {}
  Commands = {}
  Callers = {human}
  Readers = {}
  Positions = {}
  MaxSeq = 4
  MaxBatch = 2
  MaxTokens = 1
  None = None
  Absent = Absent
  Null = Null
  Random = Random
INVARIANTS EditKillsPreview
