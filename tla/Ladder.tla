------------------------------ MODULE Ladder ------------------------------
(***************************************************************************)
(* The schema ladder that openStore climbs (src/src/store.mjs), as         *)
(* operators on a store file: which files a build opens, refuses or        *)
(* migrates, and what the rungs do to the shape of the tables and to the   *)
(* declarations.  Up to v5 an app declared itself in a block inside its    *)
(* document (src/src/manifest-block.mjs) and a column projected it; from   *)
(* v6 the column is the declaration, the revisions carry one too, and a    *)
(* document has no block.                                                  *)
(*                                                                         *)
(* Of a document the model keeps what its block says, and of a manifest    *)
(* what it declares; the spelling of the JSON is left out.                 *)
(***************************************************************************)
EXTENDS Integers, Sequences, FiniteSets, FiniteSetsExt

CONSTANTS
  Declarations,  \* what an app may declare
  AppNames,      \* names an app may have
  Nil            \* a null column, no row, no entry

ASSUME DeclarationsApart == Declarations \cap {Nil, "{}", "junk", "absent", "empty", "bad", "huge"} = {}

SCHEMA_VERSION == 9
Spoken == 4 .. SCHEMA_VERSION

\* The block of a document: none, an empty one, an unreadable one, a document too big to read, or what it declares.
Blocks == {"absent", "empty", "bad", "huge"} \cup Declarations

\* A manifest column: null, what it declares, {}, or something no save would take.
Columns == {Nil, "{}", "junk"} \cup Declarations

----------------------------------------------------------------------------
\* The shape of the tables, as far as a rung changes it.

Reservations ==
  {"item.principal", "change_event.principal", "app.kit_version", "app.server_script", "file.backend"}
SideTables == {"ledger_truncation", "report_watermark"}
NewTables == {"live_pointer", "principal"}
SkillColumns == {"app.skill", "app.skill_from", "app_history.skill", "app_history.skill_from"}

Shapes == SUBSET ({"html", "ui", "app_history.manifest"} \cup Reservations \cup SideTables \cup NewTables \cup SkillColumns)

\* A store file, of whatever version: its events, the revisions of its apps, and its head rows.  Of an event,
\* "table" and "version" are history: the app it was about, under the name the tables know it by today, and the
\* number of the revision a save wrote.  The ledger does not record them, and the ladder does not read them.
Words == Columns \cup Blocks
Events ==
  [type : {"component_saved", "component_deleted"}, name : AppNames, ts : Nat, table : AppNames, version : Nat]
Revisions == [name : AppNames, version : Nat, ts : Nat, block : Blocks, manifest : Words]
Apps == [name : AppNames, block : Blocks, manifest : Words]

Files ==
  {f \in [version : Nat, shape : Shapes, events : Seq(Events), revisions : SUBSET Revisions, apps : SUBSET Apps] :
     IsFiniteSet(f.revisions)}

\* What a build of each version leaves behind: the tables,
ShapeOf(v) ==
  CASE v = 4 -> {"html"} \cup Reservations \cup SideTables
    [] v = 5 -> {"html"}
    [] v = 6 -> {"ui", "app_history.manifest"}
    [] v = 7 -> {"ui", "app_history.manifest", "live_pointer"}
    [] v = 8 -> {"ui", "app_history.manifest", "change_event.principal"} \cup NewTables
    [] v = 9 -> {"ui", "app_history.manifest", "change_event.principal"} \cup NewTables \cup SkillColumns

\* The DDL every open runs: it creates the tables that are missing and alters none.
Schema(f) == [f EXCEPT !.shape = @ \cup NewTables]

----------------------------------------------------------------------------
\* Which revision did each save event write?

SaveEvents(f) == {i \in DOMAIN f.events : f.events[i].type = "component_saved"}
Deletes(f) == DOMAIN f.events \ SaveEvents(f)

\* and, before v6, the rows: each save wrote a revision of its own, at its own reading of the clock and under a
\* number no later than its event's; nothing else wrote one; and an app is deleted under a name of its own.
Written(f) ==
  /\ \A r, s \in f.revisions : r.name = s.name /\ r.version = s.version => r = s
  /\ \A a, b \in f.apps : a.name = b.name => a = b
  /\ \A i \in SaveEvents(f) :
       /\ f.events[i].version \in 1 .. i
       /\ \E r \in f.revisions : /\ r.name = f.events[i].table /\ r.version = f.events[i].version
                                 /\ r.ts = f.events[i].ts
       /\ \A j \in SaveEvents(f) :
            f.events[j].table = f.events[i].table /\ f.events[j].version = f.events[i].version => i = j
  /\ \A r \in f.revisions : \E i \in SaveEvents(f) : r.name = f.events[i].table /\ r.version = f.events[i].version
  /\ \A i \in Deletes(f) :
       \/ f.events[i].name = f.events[i].table
       \/ \E j \in SaveEvents(f) : /\ j < i /\ f.events[j].name = f.events[i].name
                                   /\ f.events[j].table = f.events[i].table

AsBuilt(f) ==
  f.version \in Spoken => f.shape = ShapeOf(f.version) /\ (f.version <= 5 => Written(f))

RevisionAt(f, name, version) == {r \in f.revisions : r.name = name /\ r.version = version}
Exact(f) == {i \in SaveEvents(f) : RevisionAt(f, f.events[i].name, i) # {}}
Claimed(f) == UNION {RevisionAt(f, f.events[i].name, i) : i \in Exact(f)}

\* Where the key misses, the one revision of the event's own clock reading that no event has claimed.
ByClock(f, i) ==
  LET at == {r \in f.revisions : r.ts = f.events[i].ts}
  IN  IF /\ Cardinality(at) = 1 /\ at \cap Claimed(f) = {}
         /\ \A j \in SaveEvents(f) \ Exact(f) : f.events[j].ts = f.events[i].ts => i <= j
      THEN at ELSE {}

ResolveRevisions(f) ==
  [i \in SaveEvents(f) |->
     LET at == IF i \in Exact(f) THEN RevisionAt(f, f.events[i].name, i) ELSE ByClock(f, i)
     IN  IF at = {} THEN Nil ELSE CHOOSE r \in at : TRUE]

\* A name of the ledger that a table has since renamed.
Alias(f, name) ==
  LET renamed == {i \in SaveEvents(f) \ Exact(f) : /\ f.events[i].name = name /\ ByClock(f, i) # {}
                                                   /\ \A r \in ByClock(f, i) : r.name # name}
  IN  IF renamed = {} THEN name ELSE (CHOOSE r \in ByClock(f, Max(renamed)) : TRUE).name

----------------------------------------------------------------------------
\* What a revision declares.

\* A document without a block says nothing: the value before it stands.
DeriveLegacyManifest(block, inherited) ==
  CASE block = "absent" -> inherited [] block = "empty" -> Nil [] OTHER -> block

Unreadable(block) == block = "bad"

\* A delete ends the inheritance of the app its name belongs to.
Cuts(f, i, name) == f.events[i].type = "component_deleted" /\ Alias(f, f.events[i].name) = name

\* The declarations the ledger is replayed to, one for each save event.
Derived(f) ==
  LET at == ResolveRevisions(f)
      value[i \in DOMAIN f.events] ==
        IF i \notin SaveEvents(f) \/ at[i] = Nil THEN Nil
        ELSE LET before == {j \in 1 .. i - 1 : Cuts(f, j, at[i].name)
                              \/ (j \in SaveEvents(f) /\ at[j] # Nil /\ at[j].name = at[i].name)}
                 inherited == IF before = {} \/ Max(before) \notin SaveEvents(f) THEN Nil ELSE value[Max(before)]
             IN  DeriveLegacyManifest(at[i].block, inherited)
  IN  value

\* The newest save of the app that a row of the table shows.
HeadEvent(f, name) ==
  LET at == ResolveRevisions(f)
      saves == {i \in SaveEvents(f) : at[i] # Nil /\ at[i].name = name}
  IN  IF saves = {} THEN 0 ELSE Max(saves)

----------------------------------------------------------------------------
\* The head row.

Wanted(f, a) ==
  IF HeadEvent(f, a.name) > 0 THEN Derived(f)[HeadEvent(f, a.name)] ELSE DeriveLegacyManifest(a.block, a.manifest)

\* Where the document and the column disagree: one that alone speaks is believed, two are refused.
ReconcileHead(want, have) ==
  IF have = Nil THEN [ok |-> TRUE, manifest |-> want, fromColumn |-> FALSE]
  ELSE IF want # Nil \/ have = "junk" THEN [ok |-> FALSE]
  ELSE IF have = "{}" THEN [ok |-> TRUE, manifest |-> Nil, fromColumn |-> FALSE]
  ELSE [ok |-> TRUE, manifest |-> have, fromColumn |-> TRUE]

Reconciled(want, have) ==
  IF want = have THEN [ok |-> TRUE, manifest |-> have, fromColumn |-> FALSE] ELSE ReconcileHead(want, have)

HeadSlot(f, a) == Reconciled(Wanted(f, a), a.manifest)

----------------------------------------------------------------------------
\* The rungs.

MigrateV4toV5(f) == [f EXCEPT !.shape = @ \ (Reservations \cup SideTables)]

\* Refused whole when a save wrote no revision, a block cannot be read, or both sides of a head speak.
RefusedV5toV6(f) ==
  LET at == ResolveRevisions(f)
  IN  \/ \E r \in f.revisions : r.block = "huge"
      \/ \E i \in SaveEvents(f) : at[i] # Nil => Unreadable(at[i].block)
      \/ \E a \in f.apps : \/ HeadEvent(f, a.name) = 0 /\ Unreadable(a.block)
                           \/ ~ HeadSlot(f, a).ok

\* (bug) a column that alone spoke is kept at the head row and nowhere else.
HeadRowAlone(f, r) == FALSE

\* The revision the newest save of an app wrote, whose column alone spoke, carries what it said.
CarriesTheColumn(f, r) ==
  \E a \in f.apps : HeadSlot(f, a).fromColumn /\ HeadEvent(f, a.name) > 0 /\ r = ResolveRevisions(f)[HeadEvent(f, a.name)]

MigrateV5toV6(f) ==
  LET at == ResolveRevisions(f)
      declared(r) == Derived(f)[CHOOSE i \in SaveEvents(f) : at[i] = r]
      row(name) == CHOOSE a \in f.apps : a.name = name
      revision(r) ==
        IF \A i \in SaveEvents(f) : at[i] # r THEN r
        ELSE [r EXCEPT !.block = "absent",
                       !.manifest = IF CarriesTheColumn(f, r) THEN HeadSlot(f, row(r.name)).manifest ELSE declared(r)]
  IN  Schema([f EXCEPT !.shape = (@ \ {"html"}) \cup {"ui", "app_history.manifest"},
                       !.revisions = {revision(r) : r \in @},
                       !.apps = {[a EXCEPT !.block = "absent", !.manifest = HeadSlot(f, a).manifest] : a \in @}])

MigrateV6toV7(f) == Schema(f)
MigrateV7toV8(f) == Schema([f EXCEPT !.shape = @ \cup {"change_event.principal"}])
MigrateV8toV9(f) == Schema([f EXCEPT !.shape = @ \cup SkillColumns])

----------------------------------------------------------------------------
\* Opening.

\* The gate: a version newer than the build or older than the ladder is left exactly as it is.
Gate(f) == f.version \in Spoken

\* A store written by no one yet.
FreshStore ==
  [version |-> SCHEMA_VERSION, shape |-> ShapeOf(SCHEMA_VERSION), events |-> <<>>, revisions |-> {}, apps |-> {}]

\* A store of the version or below it takes the rung, a later one is past it.
From4(f) == IF f.version = 4 THEN MigrateV4toV5(f) ELSE f
From5(f) == IF f.version <= 5 THEN MigrateV5toV6(f) ELSE f
From6(f) == IF f.version <= 6 THEN MigrateV6toV7(f) ELSE f
From7(f) == IF f.version <= 7 THEN MigrateV7toV8(f) ELSE f

RefusedClimb(f) == f.version <= 5 /\ RefusedV5toV6(From4(f))

Climb(f) == [MigrateV8toV9(From7(From6(From5(From4(f))))) EXCEPT !.version = SCHEMA_VERSION]

\* The one transaction of an open, past the gate: the version is read again and not judged again.
Opened(f) ==
  IF f = Nil THEN FreshStore ELSE IF f.version \in 4 .. SCHEMA_VERSION - 1 THEN Climb(f) ELSE Schema(f)

\* The read-only door neither creates nor climbs.
OpensReadOnly(f) == f # Nil /\ f.version = SCHEMA_VERSION

----------------------------------------------------------------------------
\* The engine that wrote a v4 store: how its saves named their revisions and projected the declaration.

V4Store == [version |-> 4, shape |-> ShapeOf(4), events |-> <<>>, revisions |-> {}, apps |-> {}]
RowsOf(f, name) == {a \in f.apps : a.name = name}
ColumnOf(f, name) == IF RowsOf(f, name) = {} THEN Nil ELSE (CHOOSE a \in RowsOf(f, name) : TRUE).manifest

\* The column after a save: what is in force, nothing at all, what stood before, or something odd.
Projections(f, name, block) ==
  {Nil, ColumnOf(f, name), "{}", "junk"}
    \cup (IF block \in Declarations THEN {block} ELSE IF block = "absent" THEN {ColumnOf(f, name)} ELSE {})

\* The numbers an app's revisions have.
Numbers(f, name) == {r.version : r \in {s \in f.revisions : s.name = name}}

\* A save at a reading of the clock; its revision under the event's number or under the next of the app's own,
\* in the table of that name or of the name it was to be renamed to.
OldSave(f, name, table, counted, block, column, sameTick) ==
  LET at == Len(f.events) + 1
      ts == IF sameTick /\ at > 1 THEN f.events[at - 1].ts ELSE at
      version == IF counted THEN 1 + Max({0} \cup Numbers(f, table)) ELSE at
  IN  [f EXCEPT !.events = Append(@, [type |-> "component_saved", name |-> name, ts |-> ts,
                                      table |-> table, version |-> version]),
                !.revisions = @ \cup {[name |-> table, version |-> version, ts |-> ts, block |-> block, manifest |-> Nil]},
                !.apps = (@ \ RowsOf(f, table)) \cup {[name |-> table, block |-> block, manifest |-> column]}]

OldDelete(f, name, table) ==
  [f EXCEPT !.events = Append(@, [type |-> "component_deleted", name |-> name, ts |-> Len(f.events) + 1,
                                  table |-> table, version |-> 0]),
            !.apps = @ \ RowsOf(f, table)]

----------------------------------------------------------------------------
\* What a climb must keep, said from what was written and without the ladder's own walk.

Own(f, i) == CHOOSE r \in f.revisions : r.name = f.events[i].table /\ r.version = f.events[i].version
SavesOf(f, name) == {i \in SaveEvents(f) : f.events[i].table = name}

\* The declaration in force after a save, to a reader of the old documents: the last statement a document of
\* the app made since the app was last deleted.
InForce(f, i) ==
  LET app == f.events[i].table
      stated == {j \in 1 .. i : /\ j \in SavesOf(f, app) /\ Own(f, j).block # "absent"
                                /\ \A k \in j .. i : ~ (k \in Deletes(f) /\ f.events[k].table = app)}
      last == Own(f, Max(stated)).block
  IN  IF stated # {} /\ last \in Declarations THEN last ELSE Nil

\* No name under which this app was saved or deleted is that of a delete or a save of another.
OwnName(f, name) ==
  \A i \in SaveEvents(f), j \in Deletes(f) :
    f.events[i].name = f.events[j].name /\ name \in {f.events[i].table, f.events[j].table} =>
      f.events[i].table = f.events[j].table

\* What a head row shows declared.
Stands(f, a) ==
  IF SavesOf(f, a.name) = {} THEN DeriveLegacyManifest(a.block, a.manifest) ELSE InForce(f, Max(SavesOf(f, a.name)))

\* No revision and no app is lost, and no document has a block.  Every revision carries across what was in force
\* when it was written, except a head's, where only the column spoke; the head row and its newest revision agree;
\* no declaration of a head is lost or made up.  What was in force is known where the app's names are its own.
ClimbKeeps(f, g) ==
  LET after(i) == CHOOSE s \in g.revisions : s.name = f.events[i].table /\ s.version = f.events[i].version
  IN  IF f.version > 5 THEN g.events = f.events /\ g.revisions = f.revisions /\ g.apps = f.apps
      ELSE /\ g.events = f.events
           /\ {<<s.name, s.version, s.ts>> : s \in g.revisions} = {<<r.name, r.version, r.ts>> : r \in f.revisions}
           /\ {b.name : b \in g.apps} = {a.name : a \in f.apps}
           /\ \A s \in g.revisions \cup g.apps : s.block = "absent"
           /\ \A i \in SaveEvents(f) : OwnName(f, f.events[i].table) /\ after(i).manifest # InForce(f, i) =>
                /\ InForce(f, i) = Nil /\ i = Max(SavesOf(f, f.events[i].table))
                /\ \E a \in f.apps : a.name = f.events[i].table /\ after(i).manifest = a.manifest
           /\ \A a \in f.apps, b \in g.apps : b.name = a.name =>
                /\ SavesOf(f, a.name) # {} => after(Max(SavesOf(f, a.name))).manifest = b.manifest
                /\ OwnName(f, a.name) => /\ {a.manifest, Stands(f, a)} \cap Declarations \subseteq {b.manifest}
                                         /\ b.manifest \in {Nil, a.manifest, Stands(f, a)}
=============================================================================
