---------------------------- MODULE AppRegistry ----------------------------
(***************************************************************************)
(* The app registry of the store (src/src/store.mjs) and the tools that    *)
(* drive it: save, restore and undo of an app's document, its revisions,   *)
(* the delete that keeps the data, and the purge that takes with it what   *)
(* only this app used.  Every command is one transaction.                  *)
(*                                                                         *)
(* Of the ledger the model keeps what these commands read back from it:    *)
(* an app's own saves and deletes, and per collection its first and last   *)
(* event and the apps that wrote to it.  The skill slot follows the rules  *)
(* of the manifest slot; of a manifest only the collections are kept.  A   *)
(* malformed slot is refused without effect and is not modelled.           *)
(***************************************************************************)
EXTENDS Integers, Sequences, FiniteSets, FiniteSetsExt, SequencesExt

CONSTANTS
  Names,      \* app names
  Colls,      \* collections; one may be spelled like an app
  Documents,  \* values of the ui slot
  Built,      \* the documents that reference their own bundle
  Saves,      \* save_app commands: [name, actor, ui, manifest]
  Edits,      \* apps a user or the AI edits in place
  Entries,    \* what versions of the App Store package offer: [name, ui, manifest]
  Writers,    \* apps whose widgets write items
  Purged,     \* apps a user asks to purge
  MaxSeq,     \* bound: events in the ledger
  MaxRows,    \* bound: rows of a collection
  MaxSettings, \* bound: writes of settings
  MaxAges,    \* bound: how often the revisions so far grow old
  Omitted,    \* a slot the command does not name
  None        \* no app, no manifest, no version, no plan

ASSUME RegistryBounds == MaxSeq \in Nat /\ MaxRows \in Nat /\ MaxSettings \in Nat /\ MaxAges \in Nat
ASSUME ActorsAreApps == Writers \subseteq Names /\ Purged \subseteq Names /\ Edits \subseteq Names
ASSUME BuiltAreDocuments == Built \subseteq Documents
ASSUME SavesShape ==
  Saves \subseteq [name : Names, actor : {"agent", "human", "guest"}, ui : Documents \cup {Omitted},
                   manifest : (SUBSET Colls) \cup {None, Omitted}]

\* A row of the app table.
Manifests == (SUBSET Colls) \cup {None}
AppRows ==
  [version : Nat, author : {"agent", "human", "guest", "library"}, ui : Documents, manifest : Manifests]

ASSUME FiniteColls == IsFiniteSet(Colls)
ASSUME SentinelsAreApart ==
  /\ None \notin Nat /\ None \notin AppRows /\ None # Omitted
  /\ Omitted \notin Documents /\ \A m \in Manifests : m # Omitted
ASSUME EntriesShape == Entries \subseteq [name : Names, ui : Documents, manifest : Manifests]

VARIABLES
  seq,       \* the last event of the ledger
  app,       \* the app table: name -> [version, author, ui, manifest], or None
  history,   \* app_history: name -> set of [version, ui, manifest, old]
  log,       \* the app's own events, oldest first: [seq, kind, from]
  coll,      \* collection -> [born, last, rows, via]
  settings,  \* [last, groups]: the last settings event, the apps that have settings
  plan,      \* the purge plan last handed out: [name, world, shown, at], or None
  ages,      \* how often time has passed
  found,     \* what an install read before it writes: [entry, version], or None
  lineage,   \* history variable: name -> the save the app it bears descends from
  maker,     \* history variable: collection -> the lineage its name bore at its first event
  preimage   \* history variable: name -> the slots the last save replaced, or None

registry == <<app, history, log>>
data == <<coll, settings>>
ghosts == <<lineage, maker, preimage>>
vars == <<seq, registry, data, plan, ages, found, ghosts>>

----------------------------------------------------------------------------
\* What the ledger says of an app's lives.

Saved(n) == {e.seq : e \in {x \in Range(log[n]) : x.kind = "saved"}}
Deleted(n) == {e.seq : e \in {x \in Range(log[n]) : x.kind = "deleted"}}
Latest(S) == IF S = {} THEN 0 ELSE Max(S)
Earliest(S) == IF S = {} THEN 0 ELSE Min(S)

\* The last delete that a save followed; a name deleted for good keeps the life it had.
LifeStart(n) == Latest({d \in Deleted(n) : \E s \in Saved(n) : s > d})

LifeStartBefore(n, at) ==
  Latest({d \in Deleted(n) : d < at /\ \E s \in Saved(n) : d < s /\ s < at})

FirstSaveAfter(n, life) == Earliest({s \in Saved(n) : s > life})
AppBirth(n) == FirstSaveAfter(n, LifeStart(n))

RestoredFrom(n, at) ==
  LET e == {x \in Range(log[n]) : x.seq = at} IN (CHOOSE x \in e : TRUE).from

\* The revisions a user may roll back to: those of the current life.
Checkpoints(n) == {h \in history[n] : h.version > LifeStart(n)}

\* The birth of the app, through the lives that opened by restoring the life before.
CompBorn(n) ==
  LET born[life \in 0 .. MaxSeq] ==
        LET first == FirstSaveAfter(n, life)
            from == IF first > 0 THEN RestoredFrom(n, first) ELSE None
            prev == LifeStartBefore(n, life)
        IN  IF life > 0 /\ first > 0 /\ from # None /\ from < life /\ from > prev THEN born[prev] ELSE first
  IN  born[LifeStart(n)]

----------------------------------------------------------------------------
\* What deleting an app would take with it.

\* An app claims a collection by declaring it, or by having written to it.
Claimants(c) ==
  {n \in Names : app[n] # None /\ app[n].manifest # None /\ c \in app[n].manifest} \cup coll[c].via

Candidates(n) == {c \in Colls : (c = n /\ coll[c].rows > 0) \/ n \in Claimants(c)}

\* (bug) sharing the name is taken for owning the rows.
SpelledLike(n, c) == c = n

\* Named after the app and first used after it was born.
BornAfterTheApp(n, c) == c = n /\ CompBorn(n) > 0 /\ coll[c].born > CompBorn(n)

Verdict(n, c) ==
  IF Claimants(c) \ {n} # {} THEN "shared"
  ELSE IF BornAfterTheApp(n, c) THEN "exclusive"
  ELSE "unknown"

Exclusive(n) == {c \in Candidates(n) : Verdict(n, c) = "exclusive"}

\* (bug) the confirmation pins row counts.
WorldByCount(n) == <<app[n].version, {<<c, coll[c].rows>> : c \in Candidates(n)}, Cardinality(settings.groups)>>

\* What a confirmation is bound to.
World(n) == <<app[n].version, {<<c, coll[c].last>> : c \in Candidates(n)}, settings.last>>

----------------------------------------------------------------------------
\* Saving.

TierOf(author) == IF author = "guest" THEN "unreviewed" ELSE "local"

MaySave(n, actor, expected) ==
  IF app[n] = None THEN expected = None
  ELSE /\ expected \in {None, app[n].version}
       /\ TierOf(app[n].author) = TierOf(actor)
       /\ ~ (actor = "agent" /\ app[n].ui \in Built)

HeadRevision(n) == CHOOSE h \in history[n] : \A g \in history[n] : g.version <= h.version
Slots(r) == [ui |-> r.ui, manifest |-> r.manifest]

\* An omitted slot inherits the head revision's; creating needs a ui.
Resolved(n, ui, manifest) ==
  [ui |-> IF ui = Omitted THEN HeadRevision(n).ui ELSE ui,
   manifest |-> IF manifest # Omitted THEN manifest
                ELSE IF app[n] = None THEN None ELSE HeadRevision(n).manifest]

\* A human push on a human app sweeps its stale revisions.
Swept(n, actor) ==
  IF actor = "human" /\ app[n] # None /\ app[n].author = "human"
  THEN {h \in history[n] : h.old} ELSE {}

\* Only a checkpoint that exists is recorded as restored.
SaveApp(n, actor, expected, ui, manifest, from) ==
  /\ seq < MaxSeq /\ seq' = seq + 1
  /\ MaySave(n, actor, expected)
  /\ IF app[n] = None THEN ui # Omitted ELSE ui # Omitted \/ manifest # Omitted
  /\ LET slots == Resolved(n, ui, manifest)
         restored == IF \E h \in history[n] : h.version = from THEN from ELSE None
         revision == [version |-> seq', ui |-> slots.ui, manifest |-> slots.manifest, old |-> FALSE]
     IN  /\ app' = [app EXCEPT ![n] = [version |-> seq', author |-> actor,
                                       ui |-> slots.ui, manifest |-> slots.manifest]]
         /\ history' = [history EXCEPT ![n] = (@ \ Swept(n, actor)) \cup {revision}]
         /\ log' = [log EXCEPT ![n] = Append(@, [seq |-> seq', kind |-> "saved", from |-> restored])]
         /\ preimage' = [preimage EXCEPT ![n] = IF app[n] = None THEN None ELSE Slots(app[n])]
         /\ lineage' = [lineage EXCEPT ![n] = IF app[n] # None \/ restored # None THEN @ ELSE seq']
  /\ UNCHANGED <<data, plan, ages, maker>>

\* save_app, and a push by the CLI.
Save == \E c \in Saves, expected \in {None} \cup 1 .. seq :
          SaveApp(c.name, c.actor, expected, c.ui, c.manifest, None)

\* edit_app: the ui of the version that was read, in place; an app built elsewhere is refused, whoever asks.
EditApp(n) ==
  /\ n \in Edits /\ app[n] # None /\ app[n].ui \notin Built
  /\ \E actor \in {"agent", "human"}, ui \in Documents \ {app[n].ui} :
       SaveApp(n, actor, app[n].version, ui, Omitted, None)

\* install_from_app_store looks first: an app of somebody else's is refused, a current one left alone.
FindForInstall(e) ==
  /\ found = None
  /\ app[e.name] # None => app[e.name].author = "library" /\ Slots(app[e.name]) # Slots(e)
  /\ found' = [entry |-> e, version |-> IF app[e.name] = None THEN None ELSE app[e.name].version]
  /\ UNCHANGED <<seq, registry, data, plan, ages, ghosts>>

\* (bug) an update is written over whatever is there by now.
ExpectsNothing == None

\* An update is written over the version that was read, a first install over nothing in particular.
ExpectedByInstall == found.version

\* Another server may have written to the same store since.
InstallFromStore ==
  /\ found # None /\ found' = None
  /\ LET e == found.entry
     IN  \/ SaveApp(e.name, "library", ExpectedByInstall, e.ui, e.manifest, None)
         \/ /\ ~ MaySave(e.name, "library", ExpectedByInstall)
            /\ UNCHANGED <<seq, registry, data, plan, ages, ghosts>>

\* restore_app: a checkpoint of this life, re-saved whole on top of what is there.
Restore(n) ==
  \E h \in Checkpoints(n) :
    SaveApp(n, "agent", IF app[n] = None THEN None ELSE app[n].version, h.ui, h.manifest, h.version)

\* (bug) the oldest revision there is.
FirstRevisionBelow(n, at) == CHOOSE h \in history[n] : \A g \in history[n] : h.version <= g.version

\* The previous revision is the pre-image.
RevisionBelow(n, at) ==
  LET below == {h \in history[n] : h.version < at}
  IN  CHOOSE h \in below : \A g \in below : g.version <= h.version

\* undoLast on an app whose last event is a save; there is nothing to undo it to, or it is re-saved.
Undo(n) ==
  /\ log[n] # <<>> /\ Last(log[n]).kind = "saved"
  /\ \E h \in history[n] : h.version < Last(log[n]).seq
  /\ LET h == RevisionBelow(n, Last(log[n]).seq)
     IN  SaveApp(n, "human", None, h.ui, h.manifest, None)

----------------------------------------------------------------------------
\* Deleting.

\* The events are rows_cleared for a collection that had rows, and for the settings, then component_deleted.
DeleteApp(n, gone, group) ==
  LET cleared == {c \in gone : coll[c].rows > 0}
      order == SetToSeq(cleared)
      at == [c \in cleared |-> seq + (CHOOSE i \in DOMAIN order : order[i] = c)]
      grouped == IF group THEN 1 ELSE 0
  IN  /\ seq' = seq + Len(order) + grouped + 1 /\ seq' <= MaxSeq
      /\ coll' = [c \in Colls |-> IF c \in cleared THEN [coll[c] EXCEPT !.rows = 0, !.last = at[c]] ELSE coll[c]]
      /\ settings' = IF group THEN [last |-> seq' - 1, groups |-> settings.groups \ {n}] ELSE settings
      /\ app' = [app EXCEPT ![n] = None]
      /\ log' = [log EXCEPT ![n] = Append(@, [seq |-> seq', kind |-> "deleted", from |-> None])]
      /\ UNCHANGED <<history, ages, ghosts>>

\* delete_app: the registry row goes, data and history stay.
Delete(n) == app[n] # None /\ DeleteApp(n, {}, FALSE) /\ UNCHANGED plan

\* purge_app without a confirmation hands out the plan.
AskPurge(n) ==
  /\ n \in Purged /\ app[n] # None
  /\ plan' = [name |-> n, world |-> World(n), shown |-> Exclusive(n), at |-> seq]
  /\ UNCHANGED <<seq, registry, data, ages, ghosts>>

\* purge_app with it: the plan is computed again, the confirmation verified against the world now.
Purge(n) ==
  /\ app[n] # None /\ plan # None /\ plan.name = n /\ plan.world = World(n)
  /\ DeleteApp(n, Exclusive(n), n \in settings.groups)
  /\ plan' = None

----------------------------------------------------------------------------
\* Items and settings, as far as the registry reads them.

\* A write to a collection: by the model (via None) or through an app's widget.
Wrote(c, via, rows) ==
  /\ seq < MaxSeq /\ seq' = seq + 1
  /\ rows \in 0 .. MaxRows
  /\ coll' = [coll EXCEPT ![c] = [born |-> IF @.born = 0 THEN seq' ELSE @.born, last |-> seq', rows |-> rows,
                                  via |-> IF via = None THEN @.via ELSE @.via \cup {via}]]
  /\ maker' = IF coll[c].born = 0 /\ c \in Names THEN [maker EXCEPT ![c] = lineage[c]] ELSE maker
  /\ UNCHANGED <<registry, settings, plan, ages, lineage, preimage>>

\* A row is added or deleted.  A widget may outlive its app's registration.
WriteItem == \E c \in Colls, via \in {None} \cup {n \in Writers : log[n] # <<>>}, d \in {-1, 1} :
               Wrote(c, via, coll[c].rows + d)

\* A setting of an app is written; its group is the app's name.
WriteSetting(n) ==
  /\ seq < MaxSeq /\ seq' = seq + 1 /\ settings.last = 0 /\ MaxSettings > 0
  /\ settings' = [last |-> seq', groups |-> settings.groups \cup {n}]
  /\ UNCHANGED <<registry, coll, plan, ages, ghosts>>

\* More than HUMAN_HISTORY_KEEP_DAYS pass, and the confirmation's lifetime with them.
Age ==
  /\ ages < MaxAges /\ ages' = ages + 1
  /\ history' = [n \in Names |-> {[h EXCEPT !.old = TRUE] : h \in history[n]}]
  /\ plan' = None
  /\ UNCHANGED <<seq, app, log, data, ghosts>>

----------------------------------------------------------------------------
Init ==
  /\ seq = 0
  /\ app = [n \in Names |-> None]
  /\ history = [n \in Names |-> {}]
  /\ log = [n \in Names |-> <<>>]
  /\ coll = [c \in Colls |-> [born |-> 0, last |-> 0, rows |-> 0, via |-> {}]]
  /\ settings = [last |-> 0, groups |-> {}]
  /\ plan = None /\ ages = 0 /\ found = None
  /\ lineage = [n \in Names |-> 0]
  /\ maker = [c \in Colls |-> 0]
  /\ preimage = [n \in Names |-> None]

Step ==
  \/ Save
  \/ \E n \in Names : \/ EditApp(n) \/ Restore(n) \/ Undo(n) \/ Delete(n)
                     \/ AskPurge(n) \/ Purge(n) \/ WriteSetting(n)
  \/ WriteItem
  \/ Age

Next ==
  \/ Step /\ UNCHANGED found
  \/ \E e \in Entries : FindForInstall(e)
  \/ InstallFromStore

Spec == Init /\ [][Next]_vars

----------------------------------------------------------------------------
(* Properties.                                                             *)

\* A purge destroys only rows of a collection that first came to be under this very app (the app
\* it descends from through deletes and restores), whatever lives other holders of the name had:
\* the disposition's walk over the ledger against the lineage itself.
OnlyOwnRowsCleared ==
  [][\A c \in Colls : coll[c].rows > 0 /\ coll'[c].rows = 0 /\ (\E n \in Names : Purge(n)) =>
        c \in Names /\ maker[c] # 0 /\ maker[c] = lineage[c]]_vars

\* Between the plan and the purge it confirms nobody wrote to a collection that goes, to a setting
\* that goes, or to the app itself: no row is destroyed that was added after the user was asked.
NothingUnseenDestroyed ==
  [][\A n \in Names : Purge(n) =>
        /\ \A c \in Exclusive(n) : coll[c].last <= plan.at
        /\ n \in settings.groups => settings.last <= plan.at
        /\ app[n].version <= plan.at]_vars

\* A purge takes no collection that its plan showed as kept ("any write that could change the plan
\* invalidates the answer", store.mjs:1891).
PlanIsWhatHappens == [][\A n \in Names : Purge(n) => Exclusive(n) \subseteq plan.shown]_vars

\* Undo of a save puts back every slot the save replaced, or refuses, also after the sweep.
UndoGivesPreImage ==
  [][\A n \in Names : Undo(n) /\ preimage[n] # None => Slots(app'[n]) = preimage[n]]_vars

\* Undo takes no checkpoint of an app whose saves are the AI's ("a recovery action destroying the
\* recovery points, irreversibly", store.mjs:1826); run with no human push among Saves.
UndoKeepsCheckpoints == [][\A n \in Names : Undo(n) => history[n] \subseteq history'[n]]_vars

\* An update from the App Store replaces nothing but a document of the App Store: whatever else was
\* saved over the installed app, an edit, an undo, a rollback, and whenever, is never overwritten.
StoreUpdatesKeepEdits ==
  [][InstallFromStore /\ found.version # None /\ app' # app =>
       \E e \in Entries : e.name = found.entry.name /\ Slots(app[e.name]) = Slots(e)]_vars

=============================================================================
