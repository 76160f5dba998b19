\* Two rows, one key; batches of two beside single writes, a command id sent again, one reader, one
\* confirmation at a time, a manifest that comes and goes, undo.
SPECIFICATION Spec
CONSTANTS
  Ids = {i1, i2}
  Collections = {todo}
  Groups = {g1}
  Keys = {k1}
  Vals = {v1}
  Added = {v1}
  Unfit = {v1}
  Commands = {c1}
  Callers = {human}
  Readers = {r1}
  Positions = {1}
  MaxSeq = 4
  MaxBatch = 2
  MaxTokens = 1
  None = None
  Absent = Absent
  Null = Null
  Random = Random
INVARIANTS LedgerExplainsRows ConfirmedOnce ShownIsDeleted NoLostUpdate OneEffectPerCommand
PROPERTIES IsVersionedTable NoNewViolations UndoRestores
SYMMETRY Symmetry
