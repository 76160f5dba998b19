----------------------------- MODULE ShareScope -----------------------------
(***************************************************************************)
(* Sharing an app with another account: the wall in front of the owner's   *)
(* store (scopeStore in src/src/store.mjs), the grants a tool call resolves *)
(* its handles with (src/src/sharing.mjs) and the share tool               *)
(* (src/src/tools/sharing.mjs), over the owner's app registry.  One owner, *)
(* one recipient.  A grant names an app's life, not its collections: what  *)
(* it reaches is worked out again for every operation of the wall, while   *)
(* the grants themselves are read once per tool call.  The wall and the    *)
(* store's own transaction are two steps: the recipient's process does     *)
(* nothing in between, but the owner's may.                                *)
(***************************************************************************)
EXTENDS AppRegistry

CONSTANTS
  Budget,        \* SHARED_WRITES_PER_HOUR
  Window,        \* the hour, in ticks of the clock
  MaxSharedRows, \* SHARED_COLLECTION_MAX_ROWS
  MaxBatch,      \* bound: writes of a batch
  MaxTicks,      \* bound: ticks of the clock
  MaxInvites     \* bound: grants ever made

ASSUME ShareBounds ==
  /\ Budget \in Nat /\ Window \in Nat \ {0} /\ MaxSharedRows \in Nat /\ MaxBatch \in Nat
  /\ MaxTicks \in Nat /\ MaxInvites \in Nat

Times == 0 .. MaxTicks
Verbs == {"add", "edit", "delete"}
SharedWrites == [coll : Colls, verb : Verbs, n : 1 .. MaxBatch, at : Times]

ASSUME NoneIsNoWrite == None \notin SharedWrites

VARIABLES
  grants,   \* the deployment's records: [app, birth, role], with the life of the app as history
  invited,  \* how many were made
  call,     \* the grants the tool call under way has read, or None
  clock,
  spent,    \* time -> the recipient's writes taken then, as far as they are remembered
  vetted,   \* the write the wall has let through and the store has not answered: [coll, verb, n, at], or None
  life,     \* history variable: name -> the save that last created its app
  landed    \* history variable: time -> the writes let through then that the store has carried out

sharing == <<grants, invited, call, clock, spent, vetted, landed>>
allVars == <<vars, sharing, life>>

----------------------------------------------------------------------------
\* What a grant reaches.

\* The collection an app opens on: the only one it declares, if its declarations count, or its name.
DefaultCollection(n) ==
  IF TierOf(app[n].author) = "local" /\ app[n].manifest # None /\ Cardinality(app[n].manifest) = 1
  THEN CHOOSE c \in app[n].manifest : TRUE ELSE n

Declared(n) ==
  IF TierOf(app[n].author) = "local" /\ app[n].manifest # None THEN app[n].manifest ELSE {}

AppCollections(n) == ({DefaultCollection(n)} \cup Declared(n)) \cap Colls

\* (bug) a grant is alive while its app's name is taken.
AliveByName(g) == app[g.app] # None

\* A grant is dead when its app is gone or reborn.
Alive(g) == app[g.app] # None /\ AppBirth(g.app) = g.birth

\* The strongest role the call's grants give on a collection.
Roles(c) == {g.role : g \in {x \in call : Alive(x) /\ c \in AppCollections(x.app)}}

MayWrite(c) == call # None /\ "editor" \in Roles(c)

----------------------------------------------------------------------------
\* The hourly budget: kept per owner's database file and account.

Total(writes) == LET sum[t \in Times] == writes[t] + (IF t = 0 THEN 0 ELSE sum[t - 1]) IN sum[MaxTicks]

Fresh == [t \in Times |-> IF clock - t < Window THEN spent[t] ELSE 0]
Push(writes, n) == [writes EXCEPT ![clock] = @ + n]

\* (bug) a batch counts once.
TakeOne(n) == Total(Fresh) + n <= Budget /\ spent' = Push(Fresh, 1)

\* Taken after the wall and before the store, whatever the store then says.
Take(n) == Total(Fresh) + n <= Budget /\ spent' = Push(Fresh, n)

----------------------------------------------------------------------------
\* The owner's share tool, and the deployment's records behind it.

Invite(n, role) ==
  /\ app[n] # None /\ invited < MaxInvites /\ invited' = invited + 1
  /\ grants' = grants \cup {[app |-> n, birth |-> AppBirth(n), role |-> role, life |-> life[n]]}
  /\ UNCHANGED <<call, clock, spent, vetted, landed>>

Revoke(g) == grants' = grants \ {g} /\ UNCHANGED <<invited, call, clock, spent, vetted, landed>>

SetRole(g, role) ==
  /\ role # g.role /\ app[g.app] # None
  /\ grants' = (grants \ {g}) \cup {[g EXCEPT !.role = role]}
  /\ UNCHANGED <<invited, call, clock, spent, vetted, landed>>

\* A tool call of the recipient opens a session, which reads the grants once; the deployment may
\* close those it is told are dead.
OpenCall ==
  /\ call = None /\ grants # {} /\ call' = grants
  /\ grants' \in {grants, {g \in grants : Alive(g)}}
  /\ UNCHANGED <<invited, clock, spent, vetted, landed>>

EndCall ==
  /\ call # None /\ vetted = None /\ call' = None
  /\ UNCHANGED <<grants, invited, clock, spent, vetted, landed>>

Tick ==
  /\ clock < MaxTicks /\ clock' = clock + 1
  /\ UNCHANGED <<grants, invited, call, spent, vetted, landed>>

----------------------------------------------------------------------------
\* The wall's writes.

\* view, vet and limits: a batch of adds or of updates in one collection, or a delete, vetted and
\* counted as a whole.  A row that is written must be there.
PassWall(c, verb, n) ==
  /\ vetted = None /\ MayWrite(c) /\ (verb = "delete" => n = 1)
  /\ IF verb = "add" THEN coll[c].rows + n <= MaxSharedRows ELSE coll[c].rows > 0
  /\ Take(n)
  /\ vetted' = [coll |-> c, verb |-> verb, n |-> n, at |-> clock]
  /\ UNCHANGED <<vars, grants, invited, call, clock, landed>>

RowsAfter(v) ==
  coll[v.coll].rows + (IF v.verb = "add" THEN v.n ELSE IF v.verb = "delete" THEN -1 ELSE 0)

\* The store's transaction.  It looks again whether the row is in the collection the wall has pinned,
\* and at nothing else of what the wall has judged.
SharedLands ==
  /\ vetted # None /\ vetted' = None
  /\ vetted.verb # "add" => coll[vetted.coll].rows > 0
  /\ seq + vetted.n <= MaxSeq /\ seq' = seq + vetted.n
  /\ LET c == vetted.coll
     IN  /\ coll' = [coll EXCEPT ![c].born = IF @ = 0 THEN seq + 1 ELSE @, ![c].last = seq',
                                 ![c].rows = RowsAfter(vetted)]
         /\ maker' = IF coll[c].born = 0 /\ c \in Names THEN [maker EXCEPT ![c] = lineage[c]] ELSE maker
  /\ landed' = [landed EXCEPT ![vetted.at] = @ + vetted.n]
  /\ UNCHANGED <<registry, settings, plan, ages, lineage, preimage, grants, invited, call, clock, spent>>

\* The store refuses it: a conflict, a manifest, a delete to confirm.
SharedRefused ==
  /\ vetted # None /\ vetted' = None
  /\ UNCHANGED <<vars, grants, invited, call, clock, spent, landed>>

----------------------------------------------------------------------------
ShareStarts(made, at) ==
  /\ Init
  /\ grants = {} /\ invited = made /\ call = None /\ clock = at /\ vetted = None
  /\ spent = [t \in Times |-> 0] /\ landed = [t \in Times |-> 0]
  /\ life = [n \in Names |-> 0]

ShareInit == ShareStarts(0, 0)

\* The owner's own steps; a row that appears where none was begins a life.
Owner ==
  /\ Next /\ UNCHANGED sharing
  /\ life' = [n \in Names |-> IF app[n] = None /\ app'[n] # None THEN seq' ELSE life[n]]

Records ==
  /\ \/ \E n \in Names, role \in {"viewer", "editor"} : Invite(n, role)
     \/ \E g \in grants : Revoke(g) \/ \E role \in {"viewer", "editor"} : SetRole(g, role)
     \/ OpenCall \/ EndCall \/ Tick
  /\ UNCHANGED <<vars, life>>

Recipient ==
  /\ \/ \E c \in Colls, verb \in Verbs, n \in 1 .. MaxBatch : PassWall(c, verb, n)
     \/ SharedLands \/ SharedRefused
  /\ UNCHANGED <<life, found>>

ShareNext == Owner \/ Records \/ Recipient

ShareSpec == ShareInit /\ [][ShareNext]_allVars

----------------------------------------------------------------------------
(* Properties.                                                             *)

\* An app of the call's grants is about the collection, for an editor, and is the one that was shared.
InScope(c) ==
  \E g \in call : /\ g.role = "editor" /\ app[g.app] # None /\ life[g.app] = g.life
                 /\ c \in AppCollections(g.app)

\* A shared write lands only in the collection it was let through for, and it is let through only
\* while an app of the call's grants is about that collection, for an editor, and is still the one
\* that was shared: neither a new app under an old name nor a collection the owner has unbound is
\* reached by a write that begins later, however long its call has been running.
WritesFollowTheApp ==
  [][/\ vetted = None /\ vetted' # None => InScope(vetted'.coll)
     /\ landed' # landed => vetted # None /\ \A c \in Colls : coll'[c] # coll[c] => c = vetted.coll]_allVars

\* As if wall and store were one: it does not hold, another process of the owner may delete or
\* rebind the app between them.
LandsInScope == [][landed' # landed => \A c \in Colls : coll'[c] # coll[c] => InScope(c)]_allVars

\* In no window of the clock does the recipient land more writes than the budget, whatever the
\* batches, the refusals and the calls they are spread over: each at the time it was let through.
BudgetHolds ==
  \A t \in 0 .. clock :
    Total([x \in Times |-> IF t - Window < x /\ x <= t THEN landed[x] ELSE 0]) <= Budget
=============================================================================
