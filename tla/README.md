# open-mcp-apps, modelled in TLA+

open-mcp-apps keeps a user's apps and their data in one SQLite file. Any number of host
processes (chat hosts, a browser viewer, command line tools) open that file at the same time;
AI agents write through MCP tools, people through widgets, other accounts through shared apps.
These modules model the parts where that concurrency, and the failures around it, decide whether
data stays right. TLC checks them on small instances; TLAPS proves what matters most for
every size.

Paths below are relative to the repository (`src/store.mjs` is the store).

## Reading order

| Module | Models | Kind |
| --- | --- | --- |
| `VersionedTable` | what readers of the items may rely on | abstract specification |
| `ItemStore`, `ItemStoreProofs` | items, ledger, batches, confirmations, undo (`store.mjs`, `confirmation.mjs`) | component, proofs |
| `AppRegistry` | saves, rollback, undo, delete and purge of apps; App Store updates (`store.mjs`, `tools/`) | component |
| `WidgetSync`, `WidgetSyncProofs` | one widget's copy of one collection (`runtime-core.mjs`, `shell-runtime.js`) | component, with the store's ledger as its environment; proofs |
| `Preferences` | the widget's second cache, of its settings (`shell-runtime.js`) | component |
| `EmbedBridge`, `EmbedBridgeProofs` | an app mounted inside another one (`shell-runtime.js`, `runner.mjs`) | component, proofs |
| `LiveRegion` | the region that follows the app opened last (`store.mjs`, `http.mjs`, `shell-runtime.js`) | component |
| `FileChannel`, `FileChannelProofs` | blobs on disk under refs in the database (`files.mjs`, `store.mjs`) | component, proofs |
| `ScreenRelay`, `ScreenRelayProofs` | the model reading and pressing things in an open widget (`tools/screen.mjs`) | server, widget and transport together; proofs |
| `FunctionHost`, `FunctionHostProofs` | functions of apps in worker threads (`functions.mjs`, `function-worker.mjs`) | component, proofs |
| `Guard` | what an app that runs behind the runner may ask for (`runner.mjs`, `contracts.mjs`) | operators |
| `ShareScope` | another account's writes to a shared app (`store.mjs`, `sharing.mjs`) | component, over `AppRegistry` |
| `SharedUse` | a shared app in the recipient's account: its widget and its copies | component, over `Guard` |
| `SharingProofs` | the registry, the wall before it, the guard, the shared widget and the copies | proofs about `AppRegistry`, `ShareScope`, `Guard` and `SharedUse` |
| `Ladder` | the schema gate and the migrations (`store.mjs`) | operators |
| `Install` | installer, uninstaller, seeder and the servers' opens (`install.mjs`, `uninstall.mjs`, `seed.mjs`) | component, over `Ladder` |
| `AppPush`, `AppPushProofs` | pushing an app from a file (`install-app.mjs`) | component, over `Install`; proofs about both |
| `MC*` | values, symmetry sets and corners for TLC | model checking |

Definitions marked `(bug)` are mistakes somebody could plausibly make in the code. Nothing uses
them; each shows, put in the place of the definition below it, that a property notices.

## The system's parts

**Item store** (`store.mjs`). State: the `item` rows, each with a version; `change_event`, the
append-only ledger whose `seq` gives those versions; manifests in force. Each command is one
SQLite transaction, so processes interleave at commands. Hard: repeated commands, stale versions,
half-failed batches, undo after anything. Correct when: the ledger accounts for the rows, versions
never name two contents, no command acts twice, and no stale write wins.

**Confirmation codec** (`confirmation.mjs`). Stateless tokens bound to caller, target and version
that let a human's delete or purge through. Correct when: a token spends at most once and only
for what was shown.

**App registry** (`store.mjs`, `tools/apps.mjs`, `tools/registry.mjs`, `tools/app-store.mjs`). Apps
with documents, manifests and revisions; who may save over whom; rollback to revisions of this
life; a purge that takes what only this app used. Hard: names are reused, so everything that asks
"is this the same app?" reads it back from the ledger. Correct when: a purge takes nothing that is
not the app's own or that nobody was asked about, undo is exact, an update replaces no edit.

**Schema and migrations** (`store.mjs`). A gate and five rungs in one immediate transaction, one of
which moves declarations out of documents. Correct when: no declaration is lost or made up.

**Installer and its relatives** (`install.mjs`, `uninstall.mjs`, `seed.mjs`, `install-app.mjs`). Scripts
that edit configurations of the hosts, copy an old store, push apps. Hard: others write to the same
files and rows, a probe may see less than there is, and a run may die anywhere. Correct when: what is the user's own survives, and what the
summary says is so.

**Widget runtime** (`runtime-core.mjs`, `shell-runtime.js`). A cached copy of a collection and one
number, the ledger seq up to which it is claimed to be true, filled by paged walks, moved
by receipts, refreshed when a poll or an `/events` message shows that the ledger moved. Everything
lands in any order. Correct when: the number is honest, and the copy converges. Preferences and
embedded children are two more caches of the same kind, each with rules of its own.

**File channel** (`files.mjs`). Content-addressed blobs in a folder, refs in the database, no
transaction over both. Correct when: a ref has its bytes, and bytes without a ref go away.

**Screen relay** (`tools/screen.mjs`, `shell-runtime.js`). The server hands jobs to long-polling
widgets. Correct when: a press happens at most once, and no call is left behind.

**Functions** (`functions.mjs`, `function-worker.mjs`). User code in worker threads behind a slot
semaphore; blocking round trips over a shared word; deadlines, budgets, derived command ids.
Correct when: slots are not lost, a retry writes nothing twice, an answer tells what landed.

**Runner guard** (`runner.mjs`, `contracts.mjs`). An app the user has not reviewed, or that somebody
shared, runs behind a guard that refuses, binds and stamps its calls. Correct when: nothing that
leaves it reaches beyond what the app was given.

**Sharing** (`sharing.mjs`, `scopeStore` in `store.mjs`, `tools/sharing.mjs`). Grants name a life of an
app; a wall decides for every operation what they reach now, and the store then carries it out; a budget limits writes; `copy_app`
carries app and rows over, page by page. Correct when: writes follow the app that was shared, and
a copy is whole and apart.

**The rest.** The notification bridge, the viewer's port race, `guide.mjs`, `prompts.mjs`, schemas
and text functions: see *Not modelled*.

Interaction: tools and widgets call the store; the store emits `change` after each commit to the
bridge and to `/events`; other processes notice through the ledger's `seq`. Receipts carry the
event's seq and the previous one of the collection, which is all a widget has to place them. Functions
and shared apps reach the same commands through narrower doors.

`PROJECT.json` lists every component with its status, and every hazard at its line.

## How the models correspond to the code

### ItemStore

`rows`, `ledger` and `strict` are the `item` table, `change_event` and the collections whose
manifest is enforced. `txn` is the open batch with the state it would roll back to: the one place
where a command does not commit at once. `tokens` are the confirmations that are still good,
`held` the rows that clients remember across an await. Actions are the verbs of `core`; their
guards are its early returns, and a refusal outside a batch is `Refused`. `ClearRows` and
`SaveManifest` are the other planes as far as items feel them.

A new id in a batch is one no event has named, because the caller did not choose it. A batch names
only rows that were there when it began, because it is written before it runs. Versions in
commands are those of rows somebody has read, or left out. Violations are per key and message
(`fieldViolations`); the delta rule of updates and the full check of adds are kept. Left out: size
limits, `via`, principals, the settings collection's own rules.

### AppRegistry

One action per command, each one transaction; of the ledger the module keeps what the registry reads
back: per app its saves and deletes (`log`), per collection its first and last event and who wrote
to it (`coll`). `SaveApp` is the save command with its guard (`MaySave`), the inheritance of omitted
slots (`Resolved`) and the sweep of a pushed app's stock (`Swept`); save, edit, rollback, undo and install
differ in the arguments they give it. `CompBorn` is the walk through lives. `FindForInstall` and
`InstallFromStore` are two steps, as another server may write between them. History variables
(`lineage`, `maker`, `preimage`) say the truth the ledger walk has to find.

### WidgetSync

The store is reduced to what a widget can observe: the seq, the collection's last seq, the rows'
positions and versions. A page holds one row (500 in the code) and `MAX_PAGES` shrinks with it, so a
collection of two rows is a walk of two pages with a gap to write in. What is painted is a set: a copy that a
torn walk reads twice, unchanged, is one row here and two in the code until the next walk. Each request is split where
the code awaits: the store's part, the answer in flight, the continuation. `checks` are the calls
of `checkOwnChanges`: one in a chat host, where only the poll makes them, two in the viewer,
where `/events` makes them beside it.

### Preferences, EmbedBridge, LiveRegion

`Preferences` is `prefItems` and `lastSettingsVersion` with everything that moves them: `syncPrefs`
(one read at a time, one queued), `adopt`, the probe, `setPref` with its fallback from update to
add. A read is one snapshot. `EmbedBridge` is `childSnap` in the parent and the child's copy `S`;
`Push`, `RefreshChild`, `AckLands` and the tick are the closures of `embed`. A parent that shows the same
collection does not tick the child, its own walk does. Ticks are not awaited, so any number of them (`Ticks`) is
under way at once, each with the mark it asked from; when one ends it sets the mark to what it was told. `crossed`
is history: a late tick has moved the mark back, and one that asked about later than that has moved it on again, over
what a read taken in between had not seen. The next read that is taken clears it. `LiveRegion` is `touchLiveApp`, the stream and
`embedLive`: `gen` is the region's count of switches, by which late answers are told.

### FileChannel

An operation is a record that says at which disk call it is; any other may act in between. A blob
is `fresh` for the minute of the age guard, then `old`. `Age` assumes that no operation takes a
minute from its first look at a blob to its end; the guard is meaningless without that, and the code
says so by choosing it. `raced` and `cut` are history: they mark the two windows that remain.

### ScreenRelay

Server, widgets and wire in one module, because the questions are about all three. All timers
may fire at any time. Which live widget a call means is left open: `pick` takes the one touched last,
and no property depends on it.

### FunctionHost

A body is a program: the calls it makes in order, and whether it catches refusals. The engine's handlers
are single steps, the worker's steps fall between them; `flag`, `request` and `reply` are the shared word
and the two directions of the port. `Terminated` is the `finally` clause and everything that the call's
closure held. The store is `Execute`: a replay of a known id, a write, or a refusal.

### Guard, ShareScope, SharedUse

`Guard` has no state: a guard is a record of what `makeGuard` closes over, `CallTool` and `Typed` give
the call it forwards or `Nil`; the doors for preferences, for files chosen by the user and for messages to the
chat are not in it. `ShareScope` adds grants, the recipient's calls and the budget to
`AppRegistry`, so that the owner edits, deletes, replaces and updates the app while a call is under way. A
write of the recipient is two steps, `PassWall` (the view, the vetting and the limits) and the store's transaction
(`SharedLands`, `SharedRefused`), as in `scopeStore`; in between, the owner's other processes act, and the transaction looks
again only at the row's collection. The cap on rows is judged at the wall, so a collection may pass it by what the
owner adds meanwhile.
`SharedUse` joins the recipient's side: `copy_app` split at its page reads and chunks, the widget's reads
and calls through `Guard`, and the engine's `writeTarget`. A page is a set of rows
that comes first in the order of the collection, not a list; which rows a chunk carries is left open;
the names of a copy are the first free spellings, chosen all at once. A copy keeps row ids where it can,
and `Minted` bounds the ids it makes up where it cannot, which is where the two
meet. The viewer's store is written to by one process here (the mapping of a copy and the save of the
app are then one step), the owner's also from elsewhere; a copy's files, and the confirmation
dialog, are left out.

### Ladder, Install, AppPush

`Ladder` is `openStore` and its rungs as operators on a store file, of which it keeps the version, the
shape of the tables, save events, revisions and heads with what their blocks and columns declare.
`OldSave` and `OldDelete` are the engine that wrote the old store, with every way it is known to have
numbered revisions and projected the column. Each event also remembers which app it was about and which
revision it wrote (`table`, `version`): the ledger does not say so, the ladder has to find out, and
`InForce` and `ClimbKeeps` say from this memory, and without the ladder's own walk, what a climb must keep.
They leave out one case, a ledger name shared by the delete or save of two apps (`OwnName`), where the
code is wrong (`Machine_renamed`). `Install` is a machine: configurations of three hosts, the shared store, a clone's
old store, one run of the installer or uninstaller at a time, servers that gate, open and seed.
`MaySee` is what a probe may make of an entry: all of it; of Codex's variables the names alone; and where a
command fails or prints something else, or Claude Code's file cannot be read, less than there is, which
the adapter takes for what there is (`Mistaken`). A seeder is two looks and two writes, each its own step, by whoever
opened the store, beside servers whose users save and delete; its save names the version it saw, its delete and a first
save name none (`Overruns`). Only a full entry, a masked one and one without its variables are told apart: an argument
list that comes back cut differently is a stale entry like any other.
`AppPush` adds pushes. `excused` and `raced` name what the code has no remedy for (an entry between `remove`
and `add`, a half-copied store, a configuration edited between read and write, a row that a user saves between the
seeder's look and a write that names no version, a prune worked out before another push), and the hosts a probe was
mistaken about, where the code has a fault (`installer_probe`).

## Runs

| Run | Question | Bounds |
| --- | --- | --- |
| `items` | do versions, ledger, batches, confirmations, manifest check and undo agree, and do readers see a versioned table? | 2 ids, 1 key, a value and null, a repeated command id, a reader, a confirmation, batches of up to 2, 4 events |
| `widget` | in a chat host, is the watermark honest, and the count, and does the widget catch up? | 2 rows, 1 position, walks of 2 pages, 1 restart, 1 write in flight, 1 poll, 4 events, 1 lost call |
| `screen_relay` | once, and not lost by the server? | 1 widget, 2 jobs, 2 polls, 3 faults |
| `file_channel` | does a ref keep its bytes, do orphans go? | 2 operations, 2 paths, 2 contents, 1 crash |
| `function_calls` | slots, single writes, whole answers, everyone served? | 2 slots, 3 attempts at one command, programs of up to 2 calls, a row that may appear, budgets of 2 writes and 1 read |
| `embed_child` | is the projection honest, does it catch up beside its parent? | 2 rows, 3 events, 1 request of the child, 1 act of the parent, 1 lost call, 2 ticks at once |
| `sharing` | do shared writes follow the app, are copies whole and apart, does a shared widget stay shared? | four corners: 4 events and 2 grants; 1 grant and 2 writes in a window of 2 ticks; 3 rows in pages of 2 and chunks of 1, 2 copies, 1 death; a widget with 2 reads and 2 calls |
| `machine_registry` | does what is the user's survive the tools; do purges and undo keep to what they may take? | six corners: 2 runs for up to 2 hosts, one with a past, and a crash or an edit, or 1 run and both; 2 runs for one host, 1 crash, 1 server and 1 save of its user over stores of five versions; 3 saves of the old engine and 2 opening servers; 3 pushes; a registry of 2 apps with 6 events, or 5 while revisions age |
| `pref_set`, `live_region`, `widget_viewer`, `installer_probe` | four comments of the code taken at their word | as small as the counterexample allows |

Why the bounds are enough to be interesting. Four events fit add, edit, delete and undo of one row,
or a batch of two after two single commands; a reused version takes three. Two rows are the least that
can tear a walk; one restart is the least that has a strict attempt before the one that takes what it has, which is
the case that is hard to be honest about (`WidgetSync_host.cfg` leaves the restart out, and has two positions and two
writes in flight; it passes too). The races
of the file channel take two operations; a third only repeats a role. A superseded poll takes two
polls, and a third failure in a row ends the loop. Three attempts over two slots make one wait, and
two attempts under one id run side by side. A purge's questions need a second app that claims the first
one's collection, and a life that ends and opens again: save, write, delete, save, write, purge are
six events. A copy of three rows in pages of two dies inside a page, and the owner moves a row across
the page boundary. The corners of one run share nothing but a specification: in each, the half of the
variables that is not asked about stands still.

`CHECK_DEADLOCK FALSE` stands where the system may stop (widgets close) or where all bounds run out.

### Fairness

`WidgetSync`: the browser's event loop runs what is ready and timers fire (weak fairness of each
continuation); a call that is not dropped is answered, for a deadline bounds it. Nobody has to
write or to refresh. `FileChannel`: a disk call returns, and time passes over a blob whether or not
something touches it now and then, hence strong fairness of `Age`. That sweeps keep coming is an
antecedent of `OrphansReclaimed`, not a fairness condition, because the code sweeps at startup only.
`ScreenRelay`: an open widget keeps its loop going; the wire delivers what it does not lose.
`FunctionHost`: the engine's event loop runs and the deadline fires; a body may go on for ever.
`EmbedBridge`: the poll keeps going, and what was asked is answered if it is not lost.

### Where code and comments differ

Four runs end in a violation, each of one property that a comment states.

* `pref_set`. The comment on `setPref` knows that moving the mark past an unread write hides it, and
  gates the receipt. But `adopt` takes a walk's `settings_version` for the mark before the read that would
  make it true has come; a receipt then follows that mark, and the read, which holds the other
  actor's row, is thrown away as too old. No probe sees a difference afterwards.
* `live_region`. "The late answer must abandon rather than mount over": a switch back to the mounted app
  returns before it counts as a switch, so the answer of the switch in between is not late.
* `widget_viewer`. `checkOwnChanges` reads the watermark before its await and overwrites it
  after. Two chains, as in the browser viewer, rewind it and then move it past rows that were
  never read. With one chain (`widget`) the watermark is honest.
* `installer_probe`. "Every OTHER key the user has is handed back as its own `-e`", says Claude Code's adapter of the entry
  it removes and adds again. It reads those keys from `~/.claude.json` inside an empty `catch`: where that
  read fails the entry seems to have none, and the user's variables go. By the same way an entry that still carries the
  retired key reads as current. Codex's adapter keeps unknown apart from none.

More configurations are kept that end in a counterexample; each shows a limit of the code, or a sentence
that says a little more than it does.

| Configuration (module) | Shows |
| --- | --- |
| `ItemStore_preview` (`MCItemStore`) | a confirmation raised inside a batch that rolls back covers other content of the same version (`EditKillsPreview`); only the store's own interface reaches this |
| `ItemStore_undo_exact` (`MCItemStore`) | undo of an update does not bring back a stored null (`UndoIsExact`) |
| `WidgetSync_mount` (`MCWidgetSync`) | a mount whose every walk is torn stays unmounted (`MountsEventually`) |
| `FileChannel_race` (`MCFileChannel`) | stat and unlink are two calls; bytes rewritten between them are lost (`BytesStay`) |
| `EmbedBridge_stale` (`EmbedBridge`) | a child of another collection misses a change that its parent's own walk or receipt stepped over: the poll sees the parent current and ticks nobody (`ChildConverges`) |
| `EmbedBridge_ticks` (`EmbedBridge`) | two ticks that overlap: the late one moves the mark back, a read is taken from there, and the other moves the mark over what that read had not seen (`AlwaysHonest`; `runtime-core.mjs:249`, "holding `latest_seq` is safe") |
| `Sharing_race` (`MCSharing`) | between the wall and the store another process of the owner deletes or rebinds the app, and the write lands all the same (`LandsInScope`) |
| `Machine_seed` (`MCMachine`) | an app a user saves under a name the seeder has just looked at, and writes without naming a version, is retired or replaced (`SeederLeavesUsersRows`) |
| `FunctionHost_retry` (`MCFunctionHost`) | a retry whose update found no row the first time issues its writes under other numbers (`LandedOnce`) |
| `AppRegistry_plan` (`MCAppRegistry`) | a claimant that goes away makes a purge take a collection its plan showed as kept (`PlanIsWhatHappens`) |
| `Machine_renamed` (`MCMachine`) | a delete under a name that a table has since renamed cuts the renamed app's chain and not that of the newer app: what the deleted app declared is declared by its successor (`HeadsAreOfThisLife`) |
| `AppRegistry_sweep` (`MCAppRegistry`) | undo makes an AI's app a human's, and the next undo sweeps its revisions (`UndoKeepsCheckpoints`) |

In `Machine_renamed` the alias of `resolveRevisions` (`store.mjs:915-939`) is one for the whole ledger: once
`gallery` has been renamed to `library` in the tables, every delete of a `gallery` is taken for one of `library`, also of a
later app of that name. `store.mjs:752-755` and `913-914` promise that the chain is cut.

Noticed, without a run. `sweepOrphans` is called "periodic" but runs at startup only. A retried put
whose file has been deleted writes its blob again, an orphan until a sweep. The budget of a recipient is
kept per process. A copy retried after the owner bound another collection leaves that one out silently,
and a page that fails ends its collection without a word. The seeder's command id is a hash of the content
alone, so a return to older content is taken for a replay. A first install from the App Store names no
version, so an app created meanwhile is replaced. Undo of the save that created an app under a reused
name brings back the previous holder's document. `edit_app` hands a single replacement to
`String.replace`, which expands `$&` in it.

## What is proved

Eight modules hold proofs; each EXTENDS its component and TLAPS. Every theorem is about the same
definitions that the runs check, for every value of the constants: every invariant and every action
property of a passing run is one.

| Theorem | Says | Module |
| --- | --- | --- |
| `CommandsAreIdempotent`, `ConfirmationsAreSingleUse`, `UpdatesAreNotLost` | `OneEffectPerCommand`, `ConfirmedOnce`, `NoLostUpdate` | `ItemStoreProofs` |
| `LedgerIsAFullAccount`, `WhatWasShownIsDeleted`, `ManifestsAreKept`, `UndoRestoresTheRow` | `LedgerExplainsRows`, `ShownIsDeleted`, `NoNewViolations`, `UndoRestores` | `ItemStoreProofs` |
| `ItemsAreAVersionedTable` | `IsVersionedTable`: `ItemStore` implements `VersionedTable` | `ItemStoreProofs` |
| `TypeCorrect`, `VersionsFollowTheLedger`, `Invariance` | types; a row's version is its last event; the invariant | `ItemStoreProofs` |
| `WatermarkIsHonest` | `HonestWatermark`, in a widget with one chain of checks | `WidgetSyncProofs` |
| `TotalIsTrue`, `AccountInvariance` | `TotalIsHonest`, with any number of chains; the invariant | `WidgetSyncProofs` |
| `ProjectionIsHonest` | `HonestChild`, with any number of overlapping ticks | `EmbedBridgeProofs` |
| `NoJobRunsTwice`, `NoPollWaitsIdly`, `NoCallIsStranded` | `RunsAtMostOnce`, `NoIdleWait`, `NothingStranded` | `ScreenRelayProofs` |
| `SlotsNeverDrift`, `NoReplyIsMissed` | `SlotsAreCounted`, `SleepersAreHeard` | `FunctionHostProofs` |
| `WritesLandOnce`, `AnswersAreWhole` | `LandedOnce`, `AnswerIsWhole`, if no row appears that a body updates | `FunctionHostProofs` |
| `BytesAreLostOnlyInWindows` | `LostOnlyInWindows` | `FileChannelProofs` |
| `InstalledFilesStand` | `ReferencesStand`, on a machine in any state | `AppPushProofs` |
| `WhatIsTheUsersIsKept`, `SummaryIsTrue`, `MachineInvariance` | `UsersOwnKept`, `DoneMeansInstalled`, from any machine a user may have; the invariant | `AppPushProofs` |
| `DeclarationsAreKept` | `ClimbKeepsDeclarations`, from any store an older build can have left | `AppPushProofs` |
| `NoUnseenLoss`, `UndoIsExact`, `PurgesItsOwn` | `NothingUnseenDestroyed`, `UndoGivesPreImage`, `OnlyOwnRowsCleared` | `SharingProofs` |
| `UpdatesSpareEdits`, `SharedUpdatesSpareEdits` | `StoreUpdatesKeepEdits`, alone and while recipients write | `SharingProofs` |
| `SharedWritesFollow`, `TheBudgetHolds` | `WritesFollowTheApp`, `BudgetHolds` | `SharingProofs` |
| `TypedConfined`, `CallToolConfined`, `ChildStaysConfined` | every call a strict guard forwards is confined; `ChildIsConfined` over every sequence of reads and calls | `SharingProofs` |
| `SharedWidgetsStayShared` | `SharedCodeStaysShared` | `SharingProofs` |
| `CopiesAreApart`, `CopiesAreWhole` | `CopiesStayApart`, `CopyIsWhole` | `SharingProofs` |

Assumptions are those on constants, which the runs evaluate: bounds are naturals, sentinels (`None`, `Nil`,
`Null`, the marks of an odd column or block) are not values, sets of paths, rows and collections are finite where something is counted, shipped
versions are not the user's, the control plane is apart from the data tools. Three theorems have a
hypothesis on the instance, and each is needed: one chain of checks (`widget_viewer` is the counterexample
with two), no row that appears between attempts (`FunctionHost_retry`), a child's collection with rows
to speak of.

**Items.** A rollback restores rows and cuts the ledger, so "versions follow the ledger" has to hold
of the rows and ledger the batch began with (`SnapshotInv`), and rows the batch has not touched
have to be those. A confirmed delete happens once because it is the first event about its row since
the version it pins (`Pinned`), and takes what was shown because a version names one content for
as long as the ledger stands. A reader's row stays true because no version at or below the
committed ledger is ever given out again (`HeldInv`). That the ledger explains the rows is recursion over
its events: the replay is a function on the lengths of the ledger, and that there is one for each length, and that two agree
on a common prefix, is shown at a least length where it would fail. First each action is classified by its effect on
rows and ledger (`StepClasses`), then every part of the invariant is preserved once per class. For the
refinement each class is either a commit of the abstract table, whose seq it moves past every version
given out, or invisible outside its batch.

**Widget.** The watermark claims something about rows the widget has not seen, so the invariant carries an
account that the model does not keep: `E`, the numbers of the collection's events, and `P`, every row one
of them left. What is on screen, in a walk's hands or in a receipt is in `P`, so its version says which event
left it. A receipt moves the watermark only if no event of `E` lies between the two; a check that was told
"nothing moved", only over a stretch without events. The hard case is a walk that gave up being strict and read
a row before and after it moved: the row is then painted twice, and a receipt that moved the watermark would make the
older copy a lie. `Twice` and `Blocked` say why none can: the collection has an event the walk did not stand
for, and each receipt in flight is either behind it or cannot be placed. With two chains the account breaks at one step:
a check writes down a mark it took from before the other's walk.

**Embedded child.** What moves the projection are snapshots, receipts and ticks, and each is true of a stretch
of the ledger that has been written (`Exact`, `Acked`, `Told`). The ledger only grows, so they stay true
however late they land (`PastStands`), and a row is the same at both ends of a stretch without events about
it (`QuietStretch`). A tick may move the mark back, when a receipt or another tick came in meanwhile; it
may make it dishonest only where it moves it on from below where it asked, over a stretch nobody was told of: that is
`crossed`, which `EmbedBridge_ticks` reaches and a read that is taken ends.

**Registry and wall.** Commands of the registry read the ledger back, so its invariant says what they find:
that nothing is dated after the last event (`Dated`), that the head revision is the row and revisions grow old from
the oldest on (`Heads`), so that the one below a save is what the save replaced, whatever a sweep has taken (`PreImages`), that a document that says it came from the App Store did
(`FromTheStore`), that a purge's plan is dated by the state it was read from (`PlanIsDated`). A purge clears only
the app's own collections because the walk back through lives finds the true beginning of this one
(`Origins`): a life begins at the first save after the last delete, unless a restore joined the two. The wall
rests on the same walk: the birth a grant names is the life it was given in (`Lives`). What it has let through is remembered (`vetted`) until
the store answers, and where it lands is compared with that, not with what the app is about by then. The budget holds of every window
because what has landed in it, or been let through, is remembered in it (`Budgeted`), however long the clock runs.

**Guard, shared widget, copies.** Confinement is by cases on the tool, for any guard record, and over sequences needs only
that a guard stays a well-formed record. A shared widget's write names a collection of its share when it is sent
(`SentStays`), and the engine looks the row up there when it lands, wherever the row is by then. Copies stay
apart because a name is taken from when its mapping is recorded. A copy is whole because a row that has stood
since the attempt began is, at every step, copied, or in a collection still to be read, or in the page in hand, or after
the cursor (`Ahead`), and a receipt names a row that is here or that the viewer has deleted (`Receipted`).

**Screen relay.** A job is in one place (`OnePlace`), has not been run while it is on its way there
(`NotYetRun`), and a poll is either a request, or waits, or is an answer (`OnePoll`): then nothing can
hand a job out twice, and what a widget holds it still owes or has settled (`Kept`).

**Functions.** The gate and the wake follow from what each stage of a round trip leaves on the port
(`Port`) and who is in line (`InLine`). That a write lands once needs more: attempts under one id run one
program, so the counters before each call depend on the program alone. The proof carries a chart
(`Trail`): for each command the counters before each call, as far as any attempt has come; every
running body and every landed write is on it, and it only grows. A number then names a call
(`NumberNamesTheCall`). In `function_calls` the row may appear for a program that makes no call after
changing it, whose numbers cannot shift.

**File channel.** A put that found its blob missing leans on the age guard: its blob is young while it
is under way (`YoungWhilePut`), and what a GC is about to unlink is not (`UnlinksTheOld`). A put that
found the blob there leans on its second write (`CountedTooEarly`). What is left are the two windows.

**Machine and pushes.** What a run of the installer holds in memory is what it will put back, for the host it is
at and for every host it is past (`InHand`, `HostsKept`, `AppliedStand`), unless a probe was mistaken about it; the rows survive because a copy is of a whole
store or excused (`RowsKept`), and because of what every seeder means to write (`SeedersHold`): the row it is about to
retire, or to save without naming a version, is not the user's, unless it is excused; and a climb from a store of any version ends in one of this schema with well-shaped
tables. Until a push lands, each of its references is stored, queued, known missing, or raced
(`Backed`); its prune list misses its own references, and those of the installed template as long as its
landing is the last one (`SparesOwn`).

**The ladder.** What an old store may hold is `AsBuilt`: the tables of its version and, up to v5, one revision
for each save at the save's own reading of the clock (`Written`), which `OldSave` and `OldDelete`
preserve. A climb that is not refused has found a revision for every save, by its number or by its clock, and no two
saves have found the same (`ResolvedApart`). Each has then found its own: the newest that had found
another's would have found that of a newer save, which has found it too (`ResolvedIsOwn`). Where the app's names are its own, a delete cuts what it deleted
(`CutsIts`). Then what the walk replays is what was in force: take the earliest save where it is not, and look at
the last save or delete before it (`DerivedIsInForce`). The rung moves that into the columns (`RungCarriesRevisions`,
`RungCarriesHeads`), loses nothing (`RungLosesNothing`), and the later rungs leave the rows alone
(`LaterRungs`). `ClimbInv` carries this over the machine's steps: a store that climbed is only replaced by a copy,
whose origin is forgotten, or removed.

Out of the prover's reach, and left to TLC: all liveness (`Converges`, `QueueDrains`, `OrphansReclaimed`,
`EveryCallAnswers`, `ConvergesWithParent`). What a recursive definition computes is proved here only where there
is a closed form to compare it with at a least counterexample (the ledger's replay, the ladder's walk). The four properties that comments state and runs
refute have nothing to prove.

## What could come next

A composition of `WidgetSync` with `ItemStore`'s abstract table, so that the widget's environment is the store's
promise and not a copy of it; the notification bridge; range edits as an operator against a reference definition; the
parts of `Preferences` and `LiveRegion` that do hold (a preference is never shown older than its mark while one
write is under way; the stream is never ahead of the store), as invariants with proofs.

## Not modelled

Rendering, theming, building the sandboxed page, the text of guides and prompts, schemas: no
shared state, or pure input and output. The notification bridge folds events into one flush per tick, and
a lost notification costs a refresh. The viewer's port race is one question over HTTP. The manifest cache,
the key file of the confirmation codec and the settings collection's duplicate rule are single-process
details of modelled components. Authentication does not exist in this engine; callers are strings.
SQLite is taken at its word: transactions are atomic, and readers see what is committed.

## Running

    tlc -workers 2 -config ItemStore_all.cfg MCItemStore.tla
    tlapm WidgetSyncProofs.tla

`PROJECT.json` names the module of every configuration.
