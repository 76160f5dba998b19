\* The undo comment taken literally: null counts as a value of its own.
SPECIFICATION Spec
CONSTANTS
  Ids = {i1}
  Collections = {todo}
  Groups = {g1}
  Keys = {k1, k2}
  Vals = {v1}
  Added = {v1, Null}
  Unfit = {Absent}
  Commands = {}
  Callers = {}
  Readers = {}
  Positions = {}
  MaxSeq = 4
  MaxBatch = 0
  MaxTokens = 0
  None = None
  Absent = Absent
  Null = Null
  Random = Random
PROPERTIES UndoIsExact
