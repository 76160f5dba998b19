------------------------------- MODULE Guard -------------------------------
(***************************************************************************)
(* What an app that runs behind the runner may ask its parent to do: the   *)
(* caps that its tier, the user's policies or its share give it            *)
(* (src/src/contracts.mjs, computeCaps in src/src/engine.mjs), the tools   *)
(* no app may call (src/src/tool-policy.mjs) and the guard that refuses,   *)
(* binds and stamps every call before it leaves (makeGuard in              *)
(* src/src/runner.mjs).                                                    *)
(*                                                                         *)
(* A guard is a record of what makeGuard closes over and reads at the call:*)
(* the rows its parent shows it (shown), where it was shown a row of       *)
(* another account (seen), the rows it knows to be settings.  A call is a  *)
(* record of the arguments that some rule looks at.                        *)
(***************************************************************************)

CONSTANTS
  Apps,          \* app names
  Collections,   \* collections and handles of shared ones
  Ids,           \* row ids
  OtherTools,    \* tools no rule of the guard names
  ControlPlane,  \* every spelling of a control-plane or internal tool
  Settings,      \* the settings collection
  HandleOf,      \* the handle of the collection an owner's code calls by its bare name, or Nil
  All,           \* the wildcard of call_tools
  Nil

DataWrites == {"data_add_item", "data_update_item", "data_move_item", "data_delete_item"}
FileReads == {"file_read", "file_list"}
FileWrites == {"file_write", "file_delete"}
SourceReads == {"get_app_html", "get_app"}

\* (bug) the delta read is not bound.
BoundReadsOfRows == {"data_list"}

BoundReads == {"data_list", "data_changes"}

Tools ==
  DataWrites \cup FileReads \cup FileWrites \cup SourceReads \cup ControlPlane \cup OtherTools
    \cup {"data_list", "data_changes", "list_data_collections", "apply_data_writes", "call_function"}

Caps ==
  [call_tools : SUBSET (Tools \cup {All}), send_message : BOOLEAN, delete_items : {"allow", "confirm", "deny"},
   cross_collection_read : BOOLEAN, cross_collection_write : BOOLEAN, settings_write : BOOLEAN,
   read_source : BOOLEAN, file_read : BOOLEAN, file_write : BOOLEAN, collections : (SUBSET Collections) \cup {Nil}]

Guards ==
  [name : Apps, coll : Collections, caps : Caps, shown : SUBSET Ids, seen : [Ids -> Collections \cup {Nil}], settings : SUBSET Ids]

Calls ==
  [tool : Tools, app : Apps, collection : Collections \cup {Nil}, id : Ids,
   actor : {"human", "agent"}, via : Apps \cup {Nil}, confirm : BOOLEAN]

ASSUME NilIsNil == Nil \notin Collections \cup Apps \cup Calls
ASSUME WallIsApart == ControlPlane \cap (DataWrites \cup FileWrites \cup {"call_function"}) = {}
ASSUME HandlesAreHandles == HandleOf \in [Collections -> Collections \cup {Nil}]

----------------------------------------------------------------------------
\* Caps.

Nothing ==
  [call_tools |-> {}, send_message |-> FALSE, delete_items |-> "deny", cross_collection_read |-> FALSE,
   cross_collection_write |-> FALSE, settings_write |-> FALSE, read_source |-> FALSE,
   file_read |-> FALSE, file_write |-> FALSE, collections |-> Nil]

TierCaps(tier) ==
  CASE tier = "unreviewed" -> Nothing
    [] tier = "shared" -> [Nothing EXCEPT !.call_tools = {"data_list", "data_changes"} \cup FileReads, !.file_read = TRUE]
    [] tier = "local" ->
         [call_tools |-> {All}, send_message |-> TRUE, delete_items |-> "allow", cross_collection_read |-> TRUE,
          cross_collection_write |-> TRUE, settings_write |-> TRUE, read_source |-> TRUE,
          file_read |-> TRUE, file_write |-> TRUE, collections |-> Nil]

SharedCaps(role, colls) ==
  LET base == [TierCaps("shared") EXCEPT !.collections = colls]
  IN  IF role = "editor"
      THEN [base EXCEPT !.call_tools = @ \cup DataWrites \cup FileWrites, !.delete_items = "confirm", !.file_write = TRUE]
      ELSE base

\* The tier's preset under the user's policies for the tier, and under those for the app.
ComputeCaps(tier, defaults, own) ==
  [cap \in DOMAIN TierCaps(tier) |->
     IF cap \in DOMAIN own THEN own[cap] ELSE IF cap \in DOMAIN defaults THEN defaults[cap] ELSE TierCaps(tier)[cap]]

----------------------------------------------------------------------------
\* The rules.

Shared(g) == g.caps.collections # Nil
Reach(g) == IF Shared(g) THEN g.caps.collections ELSE {g.coll}

\* Whatever a shared app names becomes a collection it was shared over.
Pin(g, c) ==
  IF c # Nil /\ c \in g.caps.collections THEN c
  ELSE IF c # Nil /\ HandleOf[c] \in g.caps.collections THEN HandleOf[c]
  ELSE g.coll

\* (bug) a row's collection is left for the engine to find.
ShownNowhere(g, id) == Nil

\* Where a shared app was shown a row.
ShownAt(g, id) == IF g.seen[id] # Nil THEN g.seen[id] ELSE IF id \in g.shown THEN g.coll ELSE Nil

\* The collection a write is sent with; an owned app's row is found by its id.
Addressed(g, call, bound) ==
  IF Shared(g)
  THEN IF call.tool = "data_add_item" THEN Pin(g, IF bound THEN g.coll ELSE call.collection)
       ELSE ShownAt(g, call.id)
  ELSE IF call.tool = "data_add_item" /\ (bound \/ ~ g.caps.cross_collection_write) THEN g.coll
  ELSE call.collection

SettingsDenied(g, c) == c = Settings /\ ~ g.caps.settings_write

\* A guard that cannot tell which rows are settings takes any row for one.
MayWriteRow(g, id, bound) ==
  /\ ~ SettingsDenied(g, g.coll)
  /\ g.settings = {} \/ id \in g.settings => g.caps.settings_write
  /\ bound \/ ~ g.caps.cross_collection_write => id \in g.shown

WriteAllowed(g, call, bound) ==
  IF Shared(g) THEN call.tool = "data_add_item" \/ call.id \in g.shown \/ g.seen[call.id] # Nil
  ELSE IF call.tool = "data_add_item" THEN ~ SettingsDenied(g, Addressed(g, call, bound))
  ELSE MayWriteRow(g, call.id, bound)

\* The one write policy of the typed verbs (bound) and of the generic tools.
DataWrite(g, call, bound) ==
  IF ~ WriteAllowed(g, call, bound) \/ (call.tool = "data_delete_item" /\ g.caps.delete_items = "deny") THEN Nil
  ELSE [call EXCEPT !.actor = "human", !.via = g.name, !.collection = Addressed(g, call, bound),
                    !.confirm = @ \/ (call.tool = "data_delete_item" /\ g.caps.delete_items = "confirm")]

\* addItem, updateItem, moveItem, deleteItem.
Typed(g, call) == DataWrite(g, [call EXCEPT !.collection = Nil, !.confirm = FALSE], TRUE)

\* refresh and readCollection.
ReadTarget(g, c) ==
  IF Shared(g) THEN Pin(g, c)
  ELSE IF g.caps.cross_collection_read /\ c # Nil THEN c ELSE g.coll

Allowed(g, tool) ==
  /\ tool \notin ControlPlane
  /\ All \in g.caps.call_tools \/ tool \in g.caps.call_tools
  /\ tool \in SourceReads => g.caps.read_source
  /\ tool \in FileReads => g.caps.file_read
  /\ tool \in FileWrites => g.caps.file_write
  /\ tool = "list_data_collections" => g.caps.cross_collection_read
  /\ tool # "apply_data_writes"

\* data_list and data_changes.
ReadBoundTo(g, c) == IF Shared(g) THEN Pin(g, c) ELSE IF g.caps.cross_collection_read THEN c ELSE g.coll

\* callTool: refused, or forwarded as bound and stamped here.
CallTool(g, call) ==
  IF ~ Allowed(g, call.tool) THEN Nil
  ELSE IF call.tool \in DataWrites THEN DataWrite(g, call, FALSE)
  ELSE [call EXCEPT
          !.app = IF call.tool \in FileReads \cup FileWrites \cup {"call_function"} THEN g.name ELSE @,
          !.actor = IF call.tool \in {"file_delete", "call_function"} THEN "human" ELSE @,
          !.via = IF call.tool = "call_function" THEN g.name ELSE @,
          !.collection = IF call.tool \in BoundReads THEN ReadBoundTo(g, @) ELSE @]

----------------------------------------------------------------------------
\* What the guard is for.

\* A guard that no policy has opened to other collections, over collections it was shared if any.
Strict(g) ==
  /\ ~ g.caps.cross_collection_read /\ ~ g.caps.cross_collection_write
  /\ Shared(g) => g.coll \in g.caps.collections /\ \A id \in Ids : g.seen[id] \in g.caps.collections \cup {Nil}

\* A forwarded call stays with the app: its own files and functions, collections in its reach, rows
\* it was shown there, in the name of the person at the screen, and never the registry or a policy.
Confined(g, call) ==
  /\ call.tool \notin ControlPlane /\ call.tool # "apply_data_writes"
  /\ call.tool \in DataWrites \cup {"file_delete", "call_function"} => call.actor = "human"
  /\ call.tool \in DataWrites \cup {"call_function"} => call.via = g.name
  /\ call.tool \in FileReads \cup FileWrites \cup {"call_function"} => call.app = g.name
  /\ call.tool \in {"data_list", "data_changes", "data_add_item"} => call.collection \in Reach(g)
  /\ call.tool \in DataWrites \ {"data_add_item"} =>
       IF Shared(g) THEN call.collection \in Reach(g) /\ (call.collection = g.seen[call.id] \/ call.id \in g.shown)
       ELSE call.id \in g.shown
  /\ call.tool \in DataWrites /\ g.coll = Settings /\ ~ Shared(g) => g.caps.settings_write
  /\ call.tool = "data_delete_item" => g.caps.delete_items # "deny" /\ (g.caps.delete_items = "confirm" => call.confirm)
=============================================================================
