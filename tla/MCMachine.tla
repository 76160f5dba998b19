----------------------------- MODULE MCMachine -----------------------------
(* Small instances of a machine for TLC: one corner of it is furnished at a *)
(* time, and the bounds let the tools of that corner run, for two hosts at  *)
(* most; where the store is what matters, for one.  The last corners are    *)
(* the registry of the store a server has open there: once with writes of   *)
(* settings, once with revisions that grow old.                             *)
EXTENDS AppPush, AppRegistry

VARIABLE corner

Alike == Permutations(Servers) \cup Permutations(Pushers)

MCEngines == [s \in Servers |-> "old"]

Build1(refs, assets, prune) == [refs |-> refs, assets |-> assets, prune |-> prune]
MCPushes ==
  {Build1({"x"}, {"x"}, TRUE), Build1({"y"}, {"y"}, TRUE), Build1({"x"}, {}, TRUE), Build1({"x", "y"}, {"y"}, FALSE)}

Bounds == [runs |-> 0, edits |-> 0, crashes |-> 0, starts |-> 0, saves |-> 0, pushes |-> 0]

Bare == [entry |-> Nil, legacy |-> FALSE, others |-> FALSE, valid |-> TRUE]
BareHosts == [x \in Hosts |-> Bare]

\* One host has a past; an entry under the old name is from before there was one of this server.
HostWithPast ==
  \E x \in Detected, e \in {h \in HostEntries : h.env.proxy} \cup {Nil}, legacy, valid \in BOOLEAN,
     block \in {"none", "lacking"} :
    /\ ~ valid => x = "claude"
    /\ ~ (legacy /\ e # Nil /\ e.here)
    /\ block = "lacking" => x = "codex"
    /\ StartsWith([BareHosts EXCEPT ![x] = [entry |-> e, legacy |-> legacy, others |-> TRUE, valid |-> valid]],
                  block, Nil, Nil)

\* Two runs and a crash or an edit, or one run and both.
HostCorner ==
  /\ \/ budget = [Bounds EXCEPT !.runs = 2, !.crashes = 1]
     \/ budget = [Bounds EXCEPT !.runs = 2, !.edits = 1]
     \/ budget = [Bounds EXCEPT !.runs = 1, !.edits = 1, !.crashes = 1]
  /\ HostWithPast

\* A store too old, one before and one after the manifests moved, today's and one too new; shared or
\* a clone's, with or without a write-ahead log; what was seeded may have been deleted.
OldStore(v, row, library, seeded) ==
  [Rows([FreshStore EXCEPT !.version = v, !.shape = IF v \in Spoken THEN ShapeOf(v) ELSE {}])
     EXCEPT !.app = row, !.library = library, !.seeded = seeded]

StoreCorner ==
  /\ budget = [Bounds EXCEPT !.runs = 2, !.crashes = 1, !.starts = 1, !.saves = 1]
  /\ \E v \in {3, 4, 7, 9, 10}, row \in {Nil, Users, "old"}, library \in {Nil, "seed", Users}, seeded \in {{}, {"old"}} :
       /\ row = Users <=> library = Users
       /\ row = "old" => seeded = {"old"}
       /\ LET s == OldStore(v, row, library, seeded) IN
            \/ StartsWith(BareHosts, "none", s, Nil)
            \/ StartsWith(BareHosts, "none", Nil, [db |-> s, wal |-> Nil])
            \/ StartsWith(BareHosts, "none", Nil, [db |-> OldStore(v, Nil, Nil, {}), wal |-> s])

\* The old engine writes some more; then two servers open the store.
ClimbCorner ==
  /\ budget = [Bounds EXCEPT !.starts = 2, !.saves = 3]
  /\ StartsWith(BareHosts, "none", Rows(V4Store), Nil)

\* Pushes, two at a time, one of which dies.
PushCorner ==
  /\ budget = [Bounds EXCEPT !.pushes = 3, !.crashes = 1]
  /\ \E shared \in {Nil, OldStore(8, "old", Nil, {"old"})} : StartsWith(BareHosts, "none", shared, Nil)

\* a is written by the AI and pushed by hand; b, unreviewed, declares a's collection.
Cmd(n, who, ui, m) == [name |-> n, actor |-> who, ui |-> ui, manifest |-> m]
MCSaves ==
  {Cmd("a", "agent", "d1", Omitted), Cmd("a", "human", "built", {"a"}), Cmd("b", "guest", "d1", {"a"})}

MCInit ==
  /\ PushInit /\ Init
  /\ \/ corner = "machine" /\ (HostCorner \/ ClimbCorner \/ PushCorner)
     \/ corner = "store" /\ StoreCorner
     \/ corner \in {"registry", "aged"} /\ budget = Bounds /\ StartsWith(BareHosts, "none", Nil, Nil)

MCNext ==
  /\ \/ /\ corner \in {"machine", "store"} /\ MachineNext /\ UNCHANGED vars
        /\ Cardinality(tool'.todo) <= 2
        /\ corner = "store" => tool'.todo \subseteq {"claude"}
     \/ corner = "registry" /\ Next /\ UNCHANGED <<ages, allVars>>
     \/ corner = "aged" /\ Next /\ UNCHANGED <<settings, allVars>> /\ seq' < MaxSeq
  /\ UNCHANGED corner

MCSpec == MCInit /\ [][MCNext]_<<allVars, vars, corner>>

----------------------------------------------------------------------------
\* One run of the installer over one host with a past, which nobody and nothing disturbs.
MCProbeInit ==
  /\ PushInit /\ Init
  /\ corner = "machine" /\ budget = [Bounds EXCEPT !.runs = 1] /\ HostWithPast

MCProbeSpec == MCProbeInit /\ [][MCNext]_<<allVars, vars, corner>>

\* Claude Code's adapter says of the entry it removes and adds again that "Every OTHER key the user has is handed
\* back as its own `-e`, or this cleanup would quietly cost them their proxy": when the run is through with the
\* host, the user's variables are in its entry as they were.
KeysAreHandedBack ==
  tool.pc = "done" /\ "claude-code" \in tool.applied =>
    UsersPart(config["claude-code"].entry) = own.env["claude-code"]

----------------------------------------------------------------------------
MCStoreInit == PushInit /\ Init /\ corner = "store" /\ StoreCorner

MCStoreSpec == MCStoreInit /\ [][MCNext]_<<allVars, vars, corner>>

\* As if the seeder's look at a row and its write were one: "An app a USER named `library` has some other author and
\* is left exactly where it is", and "A system NAME occupied by an app this seeder did not write is the USER'S".
SeederLeavesUsersRows == "store" \notin excused /\ tool.pc # "copy wal" => own.rows \subseteq UsersRows(store)

----------------------------------------------------------------------------
\* A ledger with a table renamed: its name then belongs to a newer app, which is deleted and made again.
RenamedStore(d) ==
  LET renamed == OldSave(V4Store, "a", "b", TRUE, "absent", Nil, FALSE)
      newer == OldSave(renamed, "a", "a", FALSE, d, d, FALSE)
  IN  OldSave(OldDelete(newer, "a", "a"), "a", "a", FALSE, "absent", Nil, FALSE)

MCRenamedInit ==
  /\ PushInit /\ Init
  /\ corner = "machine" /\ budget = [Bounds EXCEPT !.starts = 1]
  /\ \E d \in Declarations : StartsWith(BareHosts, "none", Rows(RenamedStore(d)), Nil)

MCRenamedSpec == MCRenamedInit /\ [][MCNext]_<<allVars, vars, corner>>

\* migrateV5toV6 says that "the walk must restart at nothing across a delete->recreate boundary": a head shows
\* what its column said or what a document of its present life did, whatever names the ledger has reused.
HeadsAreOfThisLife ==
  store # Nil /\ origin # Nil /\ origin.version <= 5 =>
    \A a \in origin.apps, b \in store.file.apps : a.name = b.name => b.manifest \in {Nil, a.manifest, Stands(origin, a)}
=============================================================================
