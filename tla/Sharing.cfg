\* One app, two grants, a budget of two writes in a window of two ticks; copies of three rows; a widget
\* that reads twice and calls twice.  The bounds of a corner run out.
SPECIFICATION MCSpec
CONSTANTS
  Names = {"a"}
  Colls = {"a", "x"}
  Documents = {"d1", "d2"}
  Built = {}
  Saves <- MCSaves
  Edits = {"a"}
  Entries <- MCEntries
  Writers = {}
  Purged = {}
  MaxSeq = 4
  MaxRows = 2
  MaxSettings = 0
  MaxAges = 0
  Budget = 2
  Window = 2
  MaxSharedRows = 2
  MaxBatch = 2
  MaxTicks = 2
  MaxInvites = 2
  Omitted = Omitted
  None = None
  Nil = Nil
  Apps = {"app", "other"}
  Collections = {"h", "g", "x", "x2", "x3", "k", "k2", "l", "l2", "bare", "settings"}
  Ids = {1, 2, 3, 11, 12, 13, 14, 15}
  OtherTools = {}
  ControlPlane = {"save_app"}
  Settings = "settings"
  HandleOf <- Bare
  All = "*"
  Rows = {1, 2, 3}
  Minted = {11, 12, 13, 14, 15}
  Shelf = {"h", "g"}
  Home = "h"
  Own = "x"
  Copies = {"k", "l"}
  Spellings <- MCSpellings
  Requests <- MCRequests
  PageSize = 2
  ChunkSize = 1
  MaxCopy = 3
INVARIANTS BudgetHolds CopiesStayApart
PROPERTIES WritesFollowTheApp StoreUpdatesKeepEdits CopyIsWhole SharedCodeStaysShared ChildIsConfined
CHECK_DEADLOCK FALSE
