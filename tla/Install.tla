------------------------------ MODULE Install ------------------------------
(***************************************************************************)
(* A machine as the installer (src/install.mjs), the uninstaller           *)
(* (src/uninstall.mjs), the seeder (src/seed.mjs) and the servers that the *)
(* hosts start leave it: the hosts' configurations, each with the user's   *)
(* own settings in it, the store a clone used to keep, and the one shared  *)
(* store, which every opening build gates, climbs and seeds.               *)
(*                                                                         *)
(* The installer works from what it has read: a host's configuration is    *)
(* read, then written, and where the host's CLI cannot edit an entry it is *)
(* removed and added again, the settings held in memory meanwhile.  What   *)
(* it has read may be less than there is.  The seeder, too, reads a row and *)
(* writes it later, while other servers serve the user.  One installer or  *)
(* uninstaller runs at a time.                                             *)
(***************************************************************************)
EXTENDS Ladder, SequencesExt

CONSTANTS
  Detected,  \* the hosts found on this machine
  Servers,   \* server processes
  Shipped,   \* the system app this engine ships
  Engines,   \* server -> the system app its engine ships
  Users      \* a user's app

ADAPTERS == <<"claude", "claude-code", "codex">>
Hosts == Range(ADAPTERS)

ASSUME OldNames == {"a", "b"} \subseteq AppNames
ASSUME DetectedHosts == Detected \subseteq Hosts
ASSUME EnginesShip == DOMAIN Engines = Servers
ASSUME InstallerIsNoServer == "installer" \notin Servers
ASSUME UsersIsNotShipped == Users \notin {Nil, "seed", Shipped} /\ \A s \in Servers : Engines[s] # Users

VARIABLES
  config,    \* host -> [entry, legacy, others, valid]
  features,  \* Codex's [features] block: "none", "lacking", "on"
  store,     \* the shared store: [file, app, library, seeded], or Nil
  clone,     \* the clone's own store, which no one writes: [db, wal], or Nil
  tool,      \* the installer or uninstaller at work
  server,    \* server -> "down", "gated", "up"
  seeding,   \* opener -> how far its seeder is, and the row it means to replace: [at, saw]
  budget,    \* bound: [runs, edits, crashes, starts, saves, pushes] still to come
  own,       \* history variable: what is the user's own: [env, others, rows]
  excused,   \* history variable: the hosts, the rows, and "store", that a race, a crash or a blind probe in a gap has hit
  origin     \* history variable: the store file as it was before it climbed, or Nil

machine == <<config, features, store, clone>>
servers == <<server, seeding>>
machineVars == <<machine, tool, servers, budget, own, excused, origin>>

----------------------------------------------------------------------------
\* Entries.

\* The user's own variables, and OMA_DYNAMIC_TOOLS: unset, the user's "0", or the "1" once written here.
NoEnv == [proxy |-> FALSE, dynamic |-> "unset"]
Envs == [proxy : BOOLEAN, dynamic : {"unset", "0", "1"}]
HostEntries == [here : BOOLEAN, env : Envs]

Configs == [entry : HostEntries \cup {Nil}, legacy : BOOLEAN, others : BOOLEAN, valid : BOOLEAN]

CarriesStaleEnv(env) == env.dynamic = "1"

StripStaleEnv(env) == IF CarriesStaleEnv(env) THEN [env EXCEPT !.dynamic = "unset"] ELSE env

\* What the user put there.
UsersPart(entry) == IF entry = Nil THEN NoEnv ELSE StripStaleEnv(entry.env)

Current(entry, staleEnv) == entry # Nil /\ entry.here /\ ~ staleEnv

Status(entry, staleEnv) ==
  IF entry = Nil THEN "fresh" ELSE IF Current(entry, staleEnv) THEN "current" ELSE "stale"

\* Codex masks the values: where they cannot be read either way, the names of the keys are all there is to see.
EnvMasked(entry) == entry # Nil /\ entry.env # NoEnv

\* What a probe may make of an entry: the whole of it; nothing, where the host's CLI fails or prints what
\* cannot be parsed; Claude Code's without its variables, which come from a file whose read may fail; of Codex's
\* variables the names alone.
MaySee(h, seen, unreadable) ==
  LET entry == config[h].entry IN
  \/ ~ unreadable /\ seen = entry
  \/ ~ unreadable /\ h # "claude" /\ seen = Nil
  \/ ~ unreadable /\ h = "claude-code" /\ entry # Nil /\ seen = [entry EXCEPT !.env = NoEnv]
  \/ unreadable /\ h = "codex" /\ EnvMasked(entry) /\ seen = entry

\* A probe that takes what it could not see for what is not there.  Where it takes a whole entry of Claude Code's
\* for none, `claude mcp add` refuses, and nothing comes of it.
Mistaken(h, seen) == seen # config[h].entry /\ ~ (h = "claude-code" /\ seen = Nil)

\* (bug) values that cannot be read are no values.
StateBlind(h, seen, unreadable, legacy) ==
  LET entry == IF unreadable THEN [seen EXCEPT !.env = NoEnv] ELSE seen
  IN  [entry |-> entry, legacy |-> legacy, others |-> config[h].others, unreadable |-> FALSE,
       status |-> Status(entry, entry # Nil /\ CarriesStaleEnv(entry.env))]

\* An adapter's state(), of what its probes have seen: what apply() will go by.
State(h, seen, unreadable, legacy) ==
  LET stale == seen # Nil /\ (IF unreadable THEN seen.env.dynamic # "unset" ELSE CarriesStaleEnv(seen.env))
  IN  [entry |-> seen, legacy |-> legacy, others |-> config[h].others, unreadable |-> unreadable,
       status |-> Status(seen, stale)]

----------------------------------------------------------------------------
\* The store.

Pages == {Shipped} \cup Range(Engines)
Stores == [file : Files, app : Pages \cup {Nil, Users}, library : {Nil, Users, "seed"},
           seeded : SUBSET (Pages \cup {"seed"})]
Clones == [db : Stores, wal : Stores \cup {Nil}]

ASSUME NilIsNothing == Nil \notin HostEntries /\ Nil \notin Files /\ Nil \notin Stores /\ Nil \notin Clones

\* The rows of a new store.
Rows(file) == [file |-> file, app |-> Nil, library |-> Nil, seeded |-> {}]
UsersRows(s) == {x \in {"app", "library"} : s # Nil /\ s[x] = Users}
Content == IF clone.wal = Nil THEN clone.db ELSE clone.wal

MayOpen(s) == s # Nil => Gate(s.file)
ClimbRefused(s) == s # Nil /\ s.file.version < SCHEMA_VERSION /\ RefusedClimb(s.file)

OpenStore(s) == IF s = Nil THEN Rows(FreshStore) ELSE [s EXCEPT !.file = Opened(s.file)]

\* A store another process finds half copied is one it opens and writes to.
HalfCopied == excused' = excused \cup (IF tool.pc \in {"copy", "copy wal"} THEN {"store"} ELSE {})

\* openStore, in a transaction of its own.
Open ==
  /\ store' = OpenStore(store)
  /\ origin' = IF store # Nil /\ store.file.version < SCHEMA_VERSION THEN store.file ELSE origin

----------------------------------------------------------------------------
\* The seeder of whoever has opened the store: a read and a write for the name that is retired, and then for
\* the name that is shipped.

Openers == Servers \cup {"installer"}
PageOf(x) == IF x = "installer" THEN Shipped ELSE Engines[x]
NotSeeding == [at |-> "no", saw |-> Nil]
Seeds(x) == seeding' = [seeding EXCEPT ![x].at = "opened"]

\* Is the row under the retired name one the seeder wrote?
LookAtRetired(x) ==
  /\ seeding[x].at = "opened"
  /\ seeding' = [seeding EXCEPT ![x].at = IF store.library = "seed" THEN "retire" ELSE "retired"]
  /\ UNCHANGED <<machine, tool, server, budget, own, excused, origin>>

\* A delete that names no version; its id names the version that was read, so it is not made twice.
RetireRenamed(x) ==
  /\ seeding[x].at = "retire"
  /\ store' = IF "seed" \in store.seeded \/ store.library = Nil THEN store
              ELSE [store EXCEPT !.library = Nil, !.seeded = @ \cup {"seed"}]
  /\ seeding' = [seeding EXCEPT ![x].at = "retired"]
  /\ UNCHANGED <<config, features, clone, tool, server, budget, own, excused, origin>>

\* A user's app under the shipped name stays; so does a row that is the shipped one already.
LookAtSystemApp(x) ==
  /\ seeding[x].at = "retired"
  /\ seeding' = [seeding EXCEPT ![x] = IF store.app \in {Users, PageOf(x)} THEN NotSeeding
                                      ELSE [at |-> "save", saw |-> store.app]]
  /\ UNCHANGED <<machine, tool, server, budget, own, excused, origin>>

\* (bug) no version is named.
OvertakenNever(x) == FALSE

\* The save names the version of the row it replaces, if there was one.
Overtaken(x) == seeding[x].saw # Nil /\ store.app \notin {Nil, seeding[x].saw}

\* The save's id is the content's, and a save of that id is not made twice.
SaveSystemApp(x) ==
  /\ seeding[x].at = "save"
  /\ store' = IF PageOf(x) \in store.seeded \/ Overtaken(x) THEN store
              ELSE [store EXCEPT !.app = PageOf(x), !.seeded = @ \cup {PageOf(x)}]
  /\ seeding' = [seeding EXCEPT ![x] = NotSeeding]
  /\ UNCHANGED <<config, features, clone, tool, server, budget, own, excused, origin>>

\* What is about to be written in row `r` without a look at what is there by then.
Overruns(x, r) ==
  \/ r = "library" /\ seeding[x].at = "retire"
  \/ r = "app" /\ seeding[x].at = "save" /\ seeding[x].saw = Nil

----------------------------------------------------------------------------
\* A run of the installer.

Idle == [pc |-> "idle", todo |-> {}, state |-> Nil, failed |-> {}, byHand |-> {}, applied |-> {}]

\* The next host of those still to do, in the adapters' order.
host == ADAPTERS[Min({i \in DOMAIN ADAPTERS : ADAPTERS[i] \in tool.todo})]

StartInstall(selected, fresh) ==
  /\ tool.pc = "idle" /\ budget.runs > 0 /\ selected # {}
  /\ tool' = [Idle EXCEPT !.pc = IF ~ fresh /\ store = Nil /\ clone # Nil THEN "copy" ELSE "build",
                          !.todo = selected]
  /\ budget' = [budget EXCEPT !.runs = @ - 1]
  /\ UNCHANGED <<machine, servers, own, excused, origin>>

\* migrate(): the files one after the other; the shared store exists from the first on.
CopyDb ==
  /\ tool.pc = "copy"
  /\ store' = clone.db /\ origin' = Nil
  /\ tool' = [tool EXCEPT !.pc = IF clone.wal = Nil THEN "build" ELSE "copy wal"]
  /\ own' = [own EXCEPT !.rows = UsersRows(Content)]
  /\ UNCHANGED <<config, features, clone, servers, budget, excused>>

CopyWal ==
  /\ tool.pc = "copy wal"
  /\ store' = clone.wal
  /\ tool' = [tool EXCEPT !.pc = "build"]
  /\ UNCHANGED <<config, features, clone, servers, budget, own, excused, origin>>

\* npm install, the build, the seeder, whose steps follow; whatever of it fails ends the run.
Build ==
  /\ tool.pc = "build" /\ MayOpen(store) /\ ~ ClimbRefused(store)
  /\ Open /\ Seeds("installer")
  /\ tool' = [tool EXCEPT !.pc = "hosts"]
  /\ UNCHANGED <<config, features, clone, server, budget, own, excused>>

BuildFails ==
  /\ tool.pc = "build"
  /\ (MayOpen(store) /\ ~ ClimbRefused(store) => budget.crashes > 0)
  /\ budget' = [budget EXCEPT !.crashes = IF @ > 0 THEN @ - 1 ELSE 0]
  /\ tool' = Idle
  /\ UNCHANGED <<machine, servers, own, excused, origin>>

\* The next host is looked at; a file that cannot be read, or makes no sense, is left alone.
ReadHost ==
  /\ tool.pc = "hosts" /\ tool.todo # {} /\ seeding["installer"].at = "no"
  /\ \/ /\ config[host].valid
        /\ \E seen \in HostEntries \cup {Nil}, unreadable, legacy \in BOOLEAN :
             /\ MaySee(host, seen, unreadable)
             /\ legacy = config[host].legacy \/ (~ legacy /\ host # "claude")
             /\ tool' = [tool EXCEPT !.pc = "apply", !.state = State(host, seen, unreadable, legacy)]
             /\ excused' = IF Mistaken(host, seen) THEN excused \cup {host} ELSE excused
     \/ /\ host = "claude"
        /\ tool' = [tool EXCEPT !.todo = @ \ {host}, !.failed = @ \cup {host}]
        /\ UNCHANGED excused
  /\ UNCHANGED <<machine, servers, budget, own, origin>>

HostDone(t) == [t EXCEPT !.pc = "hosts", !.todo = @ \ {host}, !.state = Nil, !.applied = @ \cup {host}]

\* (bug) the entry is written as a new one is.
MergeFresh(st) == [here |-> TRUE, env |-> NoEnv]

\* The user's variables survive; ours win on the keys we own.
Merged(st) == [here |-> TRUE, env |-> IF st.entry = Nil THEN NoEnv ELSE StripStaleEnv(st.entry.env)]

\* Claude Desktop: the whole file, as it was read and changed.
WriteDesktop ==
  /\ tool.pc = "apply" /\ host = "claude"
  /\ config' = IF tool.state.status = "current" /\ ~ tool.state.legacy THEN config
               ELSE [config EXCEPT ![host] = [entry |-> Merged(tool.state), legacy |-> FALSE,
                                           others |-> tool.state.others, valid |-> TRUE]]
  /\ tool' = HostDone(tool)
  /\ UNCHANGED <<features, store, clone, servers, budget, own, excused, origin>>

\* Codex's rendering flags, written once, when there is no block to put them in.
EnsureFeatures == features' = IF host = "codex" /\ features = "none" THEN "on" ELSE features

\* The CLIs: the old name goes, then a stale entry; either removal may fail.  An entry whose values
\* could not be read stays as it is.
ApplyByCli ==
  LET st == tool.state IN
  /\ tool.pc = "apply" /\ host \in {"claude-code", "codex"}
  /\ \E legacyGone, gone \in BOOLEAN :
       /\ config' = [config EXCEPT
            ![host].legacy = @ /\ ~ (st.legacy /\ legacyGone),
            ![host].entry = IF st.status = "stale" /\ ~ st.unreadable /\ gone THEN Nil ELSE @]
       /\ (st.status = "stale" /\ ~ st.unreadable) \/ gone
       /\ st.legacy \/ legacyGone
  /\ IF st.status = "fresh" \/ (st.status = "stale" /\ ~ st.unreadable)
     THEN tool' = [tool EXCEPT !.pc = "add"] /\ UNCHANGED features
     ELSE /\ EnsureFeatures
          /\ tool' = HostDone([tool EXCEPT !.byHand = IF st.unreadable /\ st.status = "stale" THEN @ \cup {host} ELSE @])
  /\ UNCHANGED <<store, clone, servers, budget, own, excused, origin>>

\* `codex mcp add` replaces what is there, `claude mcp add` refuses.
AddTaken == host = "claude-code" /\ config[host].entry # Nil

AddByCli ==
  /\ tool.pc = "add" /\ ~ AddTaken
  /\ config' = [config EXCEPT ![host].entry = Merged(tool.state)]
  /\ EnsureFeatures
  /\ tool' = HostDone(tool)
  /\ UNCHANGED <<store, clone, servers, budget, own, excused, origin>>

\* What the run was holding is gone with it.
InAGap == tool.pc = "add" /\ tool.state.entry # Nil /\ config[host].entry = Nil
Abandoned == (IF InAGap THEN {host} ELSE {}) \cup (IF tool.pc = "copy wal" THEN {"store"} ELSE {})

\* An `add` that fails ends the run: the hosts that come after are not registered.
AddFails ==
  /\ tool.pc = "add" /\ (AddTaken \/ budget.crashes > 0)
  /\ budget' = [budget EXCEPT !.crashes = IF AddTaken THEN @ ELSE @ - 1]
  /\ tool' = Idle /\ excused' = excused \cup Abandoned
  /\ UNCHANGED <<machine, servers, own, origin>>

Crash ==
  /\ tool.pc \notin {"idle", "done"} /\ budget.crashes > 0
  /\ budget' = [budget EXCEPT !.crashes = @ - 1]
  /\ tool' = Idle /\ excused' = excused \cup Abandoned
  /\ seeding' = [seeding EXCEPT !["installer"] = NotSeeding]
  /\ UNCHANGED <<machine, server, own, origin>>

\* The summary; then the user is told.
Summary ==
  /\ tool.pc = "hosts" /\ tool.todo = {}
  /\ tool' = [tool EXCEPT !.pc = "done"]
  /\ UNCHANGED <<machine, servers, budget, own, excused, origin>>

Read == tool.pc = "done" /\ tool' = Idle /\ UNCHANGED <<machine, servers, budget, own, excused, origin>>

----------------------------------------------------------------------------
\* A run of the uninstaller.

Present(x) == config[x].valid /\ (config[x].entry # Nil \/ config[x].legacy)

StartUninstall(selected, purge) ==
  /\ tool.pc = "idle" /\ budget.runs > 0
  /\ budget' = [budget EXCEPT !.runs = @ - 1]
  /\ tool' = [Idle EXCEPT !.pc = IF purge THEN "remove, purge" ELSE "remove",
                          !.todo = {x \in selected : Present(x)}]
  /\ UNCHANGED <<machine, servers, own, excused, origin>>

\* Only the keys that are ours; a CLI's removal may fail.
RemoveHost ==
  /\ tool.pc \in {"remove", "remove, purge"} /\ tool.todo # {}
  /\ \E entryGone, legacyGone \in BOOLEAN :
       /\ host = "claude" => entryGone /\ legacyGone
       /\ config' = IF ~ config[host].valid THEN config
                    ELSE [config EXCEPT ![host].entry = IF entryGone THEN Nil ELSE @,
                                        ![host].legacy = @ /\ ~ legacyGone]
       /\ own' = IF config[host].valid /\ entryGone THEN [own EXCEPT !.env[host] = NoEnv] ELSE own
  /\ tool' = [tool EXCEPT !.todo = @ \ {host}]
  /\ UNCHANGED <<features, store, clone, servers, budget, excused, origin>>

\* purgeStore(): only where the user asked for it.  A server that has the file open goes on with one that nobody
\* else will see.
PurgeStore ==
  /\ tool.pc = "remove, purge" /\ tool.todo = {}
  /\ store' = Nil /\ origin' = Nil /\ own' = [own EXCEPT !.rows = {}]
  /\ server' = [s \in Servers |-> "down"] /\ seeding' = [x \in Openers |-> NotSeeding]
  /\ tool' = Idle
  /\ UNCHANGED <<config, features, clone, budget, excused>>

Kept ==
  /\ tool.pc = "remove" /\ tool.todo = {}
  /\ tool' = Idle /\ UNCHANGED <<machine, servers, budget, own, excused, origin>>

----------------------------------------------------------------------------
\* The servers, and the user.

\* A server looks at the version before it takes the write lock.
ServerGate(s) ==
  /\ server[s] = "down" /\ budget.starts > 0 /\ MayOpen(store)
  /\ budget' = [budget EXCEPT !.starts = @ - 1]
  /\ server' = [server EXCEPT ![s] = "gated"]
  /\ UNCHANGED <<machine, tool, seeding, own, excused, origin>>

\* It serves when its seeder is through.
ServerOpens(s) ==
  /\ server[s] = "gated" /\ ~ ClimbRefused(store)
  /\ Open /\ Seeds(s)
  /\ HalfCopied
  /\ server' = [server EXCEPT ![s] = "up"]
  /\ UNCHANGED <<config, features, clone, tool, budget, own>>

ServerStops(s) ==
  /\ server[s] = "up" \/ (server[s] = "gated" /\ ClimbRefused(store))
  /\ server' = [server EXCEPT ![s] = "down"]
  /\ seeding' = [seeding EXCEPT ![s] = NotSeeding]
  /\ UNCHANGED <<machine, tool, budget, own, excused, origin>>

\* The user, or the AI for them, saves an app under a name the seeder uses or used, or deletes the one that is
\* there: of the shipped names "dashboard" is not locked, and the retired one is anybody's.
UserSaves(s, r, row) ==
  /\ server[s] = "up" /\ seeding[s].at = "no" /\ budget.saves > 0
  /\ row = Nil => store[r] # Nil
  /\ store' = [store EXCEPT ![r] = row]
  /\ own' = [own EXCEPT !.rows = IF row = Users THEN @ \cup {r} ELSE @ \ {r}]
  /\ excused' = IF row = Users /\ \E x \in Openers : Overruns(x, r) THEN excused \cup {r} ELSE excused
  /\ budget' = [budget EXCEPT !.saves = @ - 1]
  /\ UNCHANGED <<config, features, clone, tool, servers, origin>>

\* The user, or the host itself, writes a configuration; a run that has read it does not know.
Edit(x, env, others) ==
  /\ budget.edits > 0 /\ config[x].valid
  /\ budget' = [budget EXCEPT !.edits = @ - 1]
  /\ config' = [config EXCEPT ![x].entry = IF @ = Nil THEN Nil ELSE [@ EXCEPT !.env = env], ![x].others = others]
  /\ own' = [own EXCEPT !.env[x] = IF config[x].entry = Nil THEN @ ELSE StripStaleEnv(env), !.others[x] = others]
  /\ excused' = IF tool.pc \in {"apply", "add"} /\ host = x THEN excused \cup {x} ELSE excused
  /\ UNCHANGED <<features, store, clone, tool, servers, origin>>

\* An app is renamed in the tables once, and before there is another of either name.
RenamedLater(f, name, table) == \A i \in DOMAIN f.events : f.events[i].table # name /\ f.events[i].name # table

\* Before this release: the engine that wrote the store goes on writing it, one app at a time, the first perhaps
\* renamed since.
OldEngine ==
  /\ budget.saves > 0 /\ store # Nil /\ store.file.version = 4
  /\ tool.pc = "idle" /\ \A s \in Servers : server[s] = "down"
  /\ \E name, table \in {"a", "b"} :
       LET f == store.file
           now == \/ \E block \in Blocks, counted, sameTick \in BOOLEAN :
                       /\ name # table => counted
                       /\ \E column \in Projections(f, table, block) :
                            store' = [store EXCEPT !.file = OldSave(f, name, table, counted, block, column, sameTick)]
                  \/ /\ RowsOf(f, table) # {}
                     /\ name # table => \E i \in SavesOf(f, table) : f.events[i].name = name
                     /\ store' = [store EXCEPT !.file = OldDelete(f, name, table)]
       IN  /\ now /\ (name # table => name = "a" /\ RenamedLater(f, name, table))
           /\ f.apps = {} \/ RowsOf(f, table) # {}
  /\ budget' = [budget EXCEPT !.saves = @ - 1]
  /\ UNCHANGED <<config, features, clone, tool, servers, own, excused, origin>>

----------------------------------------------------------------------------
\* A machine at its start: whatever was installed, edited or left behind before; the stores as builds leave them.
StartsWith(configs, block, shared, cloned) ==
  /\ config = configs /\ features = block /\ store = shared /\ clone = cloned
  /\ tool = Idle /\ server = [s \in Servers |-> "down"] /\ seeding = [x \in Openers |-> NotSeeding]
  /\ own = [env |-> [x \in Hosts |-> UsersPart(configs[x].entry)], others |-> [x \in Hosts |-> configs[x].others],
            rows |-> UsersRows(shared)]
  /\ excused = {} /\ origin = Nil

MachineInit ==
  /\ \E configs \in [Hosts -> Configs], block \in {"none", "lacking", "on"},
        shared \in Stores \cup {Nil}, cloned \in Clones \cup {Nil} :
       /\ StartsWith(configs, block, shared, cloned)
       /\ \A x \in Hosts \ {"claude"} : configs[x].valid
       /\ shared # Nil => AsBuilt(shared.file)
       /\ cloned # Nil => AsBuilt(cloned.db.file) /\ (cloned.wal # Nil => AsBuilt(cloned.wal.file))
  /\ budget \in [runs : Nat, edits : Nat, crashes : Nat, starts : Nat, saves : Nat, pushes : Nat]

InstallNext ==
  \/ \E selected \in SUBSET Detected :
       \/ \E fresh \in BOOLEAN : StartInstall(selected, fresh)
       \/ \E purge \in BOOLEAN : StartUninstall(selected, purge)
  \/ CopyDb \/ CopyWal \/ Build \/ BuildFails
  \/ ReadHost \/ WriteDesktop \/ ApplyByCli \/ AddByCli \/ AddFails \/ Summary \/ Read \/ Crash
  \/ RemoveHost \/ PurgeStore \/ Kept
  \/ \E x \in Openers : LookAtRetired(x) \/ RetireRenamed(x) \/ LookAtSystemApp(x) \/ SaveSystemApp(x)
  \/ \E s \in Servers :
       \/ ServerGate(s) \/ ServerOpens(s) \/ ServerStops(s)
       \/ \E r \in {"app", "library"}, row \in {Users, Nil} : UserSaves(s, r, row)
  \/ \E x \in Detected, env \in {e \in Envs : ~ CarriesStaleEnv(e)}, others \in BOOLEAN : Edit(x, env, others)
  \/ OldEngine

----------------------------------------------------------------------------
(* Properties.                                                             *)

\* What is the user's own survives every run of the tools, their crashes and each other's starts: the
\* other servers and the variables in a host's configuration, and the apps of theirs under a
\* system app's name, present or past; except where a crash or an edit fell into one of the known gaps, or a
\* probe took what it could not see for what is not there.
UsersOwnKept ==
  /\ \A x \in Hosts \ excused :
       /\ config[x].others = own.others[x]
       /\ IF config[x].entry # Nil THEN UsersPart(config[x].entry) = own.env[x]
          ELSE own.env[x] = NoEnv \/ (tool.pc = "add" /\ host = x)
  /\ "store" \notin excused /\ tool.pc # "copy wal" => UsersRows(store) \ excused = own.rows \ excused

\* What a run's summary says it has registered is registered: the entry starts this server and the
\* retired workaround is off it, unless the run says it needs a hand; and the store is of this schema.
DoneMeansInstalled ==
  tool.pc = "done" =>
    /\ \A x \in tool.applied \ (tool.byHand \cup excused) : Current(config[x].entry, CarriesStaleEnv(config[x].entry.env))
    /\ store # Nil => store.file.version = SCHEMA_VERSION

\* A store that climbed kept every declaration, whichever build opened it first and whoever raced it,
\* and has the tables of its version.
ClimbKeepsDeclarations ==
  store # Nil /\ store.file.version = SCHEMA_VERSION /\ "store" \notin excused =>
    /\ store.file.shape = ShapeOf(SCHEMA_VERSION)
    /\ origin # Nil => ClimbKeeps(origin, store.file)
=============================================================================
