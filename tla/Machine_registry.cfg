\* The installer, the uninstaller, the servers' opens and the pushes of one machine; and six events (five
\* while revisions age) of a registry of two apps, of which b claims a's collection by declaring it or
\* writing to it.  The bounds of a corner run out.
SPECIFICATION MCSpec
CHECK_DEADLOCK FALSE
SYMMETRY Alike
CONSTANTS
  None = None
  Nil = Nil
  Declarations = {d1, d2}
  AppNames = {"a", "b"}
  Detected = {"claude", "claude-code", "codex"}
  Servers = {s1, s2}
  Shipped = "now"
  Users = "mine"
  Engines <- MCEngines
  Pushers = {p1, p2}
  Paths = {"x", "y"}
  Pushes <- MCPushes
  Names = {"a", "b"}
  Colls = {"a"}
  Documents = {"d1", "built"}
  Built = {"built"}
  Saves <- MCSaves
  Edits = {}
  Entries = {}
  Writers = {"b"}
  Purged = {"a"}
  MaxSeq = 6
  MaxRows = 1
  MaxSettings = 1
  MaxAges = 1
  Omitted = Omitted
INVARIANTS UsersOwnKept DoneMeansInstalled ClimbKeepsDeclarations ReferencesStand
PROPERTIES OnlyOwnRowsCleared NothingUnseenDestroyed UndoGivesPreImage
