----------------------------- MODULE WidgetSync -----------------------------
(***************************************************************************)
(* One widget that shows one collection (src/src/runtime-core.mjs and the  *)
(* wiring in src/src/shell-runtime.js): the paged walk, the adoption gate, *)
(* the receipts of its own writes, and the probe that looks for the writes *)
(* of others.  Requests and replies are in flight, so they interleave with *)
(* everything else and may land in any order.                              *)
(*                                                                         *)
(* The widget's claim is one number: `version`, the ledger seq up to which *)
(* its rows are true.  A page carries one row here (500 in the code).      *)
(***************************************************************************)
EXTENDS Integers, FiniteSets

CONSTANTS
  Ids,          \* row ids, numbers: pages are ordered by (position, id)
  Positions,    \* positions of rows in the collection
  Writes,       \* the widget's write calls that can be in flight at once
  Checks,       \* probe-and-check chains: the poll, and each /events message
  MaxPages,     \* MAX_PAGES, in pages of one row
  MaxRestarts,  \* MAX_WALK_RESTARTS
  Ladder,       \* retries of the mount recovery
  MaxSeq,       \* bound: events in the ledger
  MaxFaults,    \* bound: calls the bridge drops
  None

ASSUME IdsAssumption == Ids \subseteq Nat /\ IsFiniteSet(Ids)
ASSUME LimitsAssumption ==
  /\ MaxPages \in Nat \ {0} /\ MaxRestarts \in Nat
  /\ Ladder \in Nat /\ MaxSeq \in Nat /\ MaxFaults \in Nat
  /\ Positions \subseteq Nat
ASSUME WritesAssumption == IsFiniteSet(Writes)
ASSUME NoneAssumption == None \notin Nat /\ None \notin [id : Ids, pos : Positions, ver : Nat]

VARIABLES
  seq,        \* store: last seq of the ledger
  collSeq,    \* store: last seq of an event of this collection
  table,      \* store: id -> position of the row, or None
  last,       \* store: id -> seq of the last event that touched the row
  items,      \* widget: state.items, a set of [id, pos, ver]
  version,    \* widget: state.version
  total,      \* widget: state.total
  truncated,  \* widget: state.truncated
  shown,      \* the items of the last state the app was handed (emit)
  ready,      \* "no", "warming" (the preferences are on their way), "yes"
  walked,     \* walkedOnce
  walk,       \* the walk in flight, or None
  writes,     \* the write calls in flight
  burst,      \* burstNeedsWalk
  checks,     \* the check chains
  rungs,      \* retries left on the recovery ladder
  faults      \* calls dropped so far

store == <<seq, collSeq, table, last>>
paint == <<items, version, total, truncated, shown>>
mount == <<ready, walked, rungs>>
vars == <<store, paint, mount, walk, writes, burst, checks, faults>>

RowOf(i) == [id |-> i, pos |-> table[i], ver |-> last[i]]
Rows == {RowOf(i) : i \in {j \in Ids : table[j] # None}}
Copies(rows, i) == {r \in rows : r.id = i}

----------------------------------------------------------------------------
(* The store: every writer of the collection, and the rest of the ledger.   *)

\* One event of the collection: the row moves to p, or goes when p is None.
Log(i, p) ==
  /\ seq < MaxSeq
  /\ seq' = seq + 1
  /\ collSeq' = seq + 1
  /\ table' = [table EXCEPT ![i] = p]
  /\ last' = [last EXCEPT ![i] = seq + 1]

\* Another actor adds, edits, moves or deletes a row.
Foreign(i, p) ==
  /\ p = None => table[i] # None
  /\ Log(i, p)
  /\ UNCHANGED <<paint, mount, walk, writes, burst, checks, faults>>

\* rows_cleared: one event takes every row of the collection.
Cleared ==
  /\ seq < MaxSeq
  /\ seq' = seq + 1
  /\ collSeq' = seq + 1
  /\ table' = [i \in Ids |-> None]
  /\ last' = [i \in Ids |-> IF table[i] = None THEN last[i] ELSE seq + 1]
  /\ UNCHANGED <<paint, mount, walk, writes, burst, checks, faults>>

\* A write to some other collection moves the one global seq.
Elsewhere ==
  /\ seq < MaxSeq
  /\ seq' = seq + 1
  /\ UNCHANGED <<collSeq, table, last, paint, mount, walk, writes, burst, checks, faults>>

----------------------------------------------------------------------------
(* The paged walk (walkPages, walkOnce) and the single flight of walk().    *)

Fresh == [attempt |-> 0, pages |-> 0, stamp |-> None, total |-> 0, rows |-> {},
          cursor |-> None, torn |-> FALSE, truncated |-> FALSE, done |-> FALSE,
          again |-> FALSE]

\* walk(): a trigger that finds a walk in flight queues one re-run.
Triggered == IF walk = None THEN Fresh ELSE [walk EXCEPT !.again = TRUE]

Before(r, s) == r.pos < s.pos \/ (r.pos = s.pos /\ r.id < s.id)

\* (bug) a torn walk carries the freshest stamp it saw.
StampFreshest(w) == seq

\* The stamp of a walk is its first page's: the oldest instant it saw.
Stamp(w) == IF w.stamp = None THEN seq ELSE w.stamp

\* The last permitted attempt tolerates a tear.
MayRestart(w) == w.attempt < MaxRestarts

\* One data_list page, read in one transaction: stamp, count and rows agree.
FetchPage ==
  /\ walk # None
  /\ ~walk.done
  /\ LET rest  == {r \in Rows : walk.cursor = None \/ Before(walk.cursor, r)}
         got   == {r \in rest : \A s \in rest : r = s \/ Before(r, s)}
         tear  == walk.stamp # None /\ walk.stamp # seq
         more  == rest # got
         full  == walk.pages + 1 >= MaxPages
     IN  walk' =
           IF tear /\ MayRestart(walk)
           THEN [Fresh EXCEPT !.attempt = walk.attempt + 1, !.again = walk.again]
           ELSE [walk EXCEPT
                   !.pages = @ + 1,
                   !.stamp = Stamp(walk),
                   !.total = IF walk.stamp = None THEN Cardinality(Rows) ELSE @,
                   !.rows = @ \cup got,
                   !.cursor = IF got = {} THEN @ ELSE CHOOSE r \in got : TRUE,
                   !.torn = @ \/ tear,
                   !.truncated = more /\ full,
                   !.done = ~more \/ full]
  /\ UNCHANGED <<store, paint, mount, writes, burst, checks, faults>>

AfterWalk == walk' = IF walk.again THEN Fresh ELSE None

\* canAdopt: not older than what is painted, and complete or marked incomplete.
CanAdopt(w) == w.stamp >= version /\ (w.truncated \/ Cardinality(w.rows) = w.total)

\* (bug) the repaint is skipped whenever the row count is the same.
SameCount(w) == Cardinality(w.rows) = Cardinality(items)

\* A snapshot like the one on screen is not handed to the app again.
Unchanged(w) == w.stamp = version /\ Cardinality(w.rows) = Cardinality(items)

\* The end of walk(): adopt() keeps the old rows when the gate refuses, walkedOnce is set anyway.
FinishWalk ==
  /\ walk # None
  /\ walk.done
  /\ walked' = TRUE
  /\ IF CanAdopt(walk)
     THEN /\ items' = walk.rows
          /\ version' = walk.stamp
          /\ total' = walk.total
          /\ truncated' = walk.truncated
          /\ shown' = IF ready = "yes" /\ ~Unchanged(walk) THEN walk.rows ELSE shown
          /\ ready' = IF ready = "no" THEN "warming" ELSE ready
     ELSE UNCHANGED <<paint, ready>>
  /\ AfterWalk
  /\ UNCHANGED <<store, rungs, writes, burst, checks, faults>>

\* A page that fails ends the walk with nothing adopted.
WalkFails ==
  /\ walk # None
  /\ faults < MaxFaults
  /\ faults' = faults + 1
  /\ AfterWalk
  /\ UNCHANGED <<store, paint, mount, writes, burst, checks>>

\* markReady's flush: the preferences are in, or a second has gone by.
Flush ==
  /\ ready = "warming"
  /\ ready' = "yes"
  /\ shown' = items
  /\ UNCHANGED <<store, items, version, total, truncated, walked, rungs, walk, writes, burst,
                 checks, faults>>

\* oma.refresh(), the refresh button, the tab coming back, the host pushing a tool result.
Refresh ==
  /\ walk' = Triggered
  /\ UNCHANGED <<store, paint, mount, writes, burst, checks, faults>>

\* scheduleMountRecovery: it stops at the first walk that got to its end.
Recover ==
  /\ rungs > 0
  /\ ~walked
  /\ rungs' = rungs - 1
  /\ walk' = Triggered
  /\ UNCHANGED <<store, paint, ready, walked, writes, burst, checks, faults>>

----------------------------------------------------------------------------
(* The widget's own writes: call(), decideAck, applyAck.                    *)

Idle == [st |-> "idle"]
Pending == Cardinality({w \in Writes : writes[w] # Idle})

Send(w) ==
  /\ writes[w] = Idle
  /\ writes' = [writes EXCEPT ![w] = [st |-> "sent"]]
  /\ UNCHANGED <<store, paint, mount, walk, burst, checks, faults>>

Receipt(i, p) ==
  [kind |-> "ok", id |-> i, deleted |-> p = None, seq |-> seq + 1, prev |-> collSeq,
   item |-> IF p = None THEN None ELSE [id |-> i, pos |-> p, ver |-> seq + 1]]

\* The store runs the write; the receipt sets out for the widget.
Execute(w, i, p) ==
  /\ writes[w].st = "sent"
  /\ p = None => table[i] # None
  /\ Log(i, p)
  /\ writes' = [writes EXCEPT ![w] = [st |-> "acked", ack |-> Receipt(i, p)]]
  /\ UNCHANGED <<paint, mount, walk, burst, checks, faults>>

\* A refusal: a version conflict, or an error result or a confirmation demand.
Refuse(w, kind) ==
  /\ writes[w].st = "sent"
  /\ kind \in {"conflict", "error"}
  /\ writes' = [writes EXCEPT ![w] = [st |-> "acked", ack |-> [kind |-> kind]]]
  /\ UNCHANGED <<store, paint, mount, walk, burst, checks, faults>>

\* The host lost the reply and sends the command again: the store answers from its ledger, with
\* the first event's seq, no prev_collection_seq, and the row as it stands now.
Replay(w) ==
  /\ writes[w].st = "acked"
  /\ writes[w].ack.kind = "ok"
  /\ LET a == writes[w].ack
     IN  writes' = [writes EXCEPT ![w].ack =
           [a EXCEPT !.prev = None,
                     !.item = IF a.deleted \/ table[a.id] = None THEN None ELSE RowOf(a.id)]]
  /\ UNCHANGED <<store, paint, mount, walk, burst, checks, faults>>

\* ackPosition: a receipt sits where its row sits.
Position(a) == IF a.item # None THEN a.item.ver ELSE a.seq

\* (bug) every receipt ahead of the watermark is taken to follow it directly.
DecideByOrder(a) ==
  IF a.kind = "error" THEN "ignore"
  ELSE IF a.kind = "conflict" THEN "conflict"
  ELSE IF Position(a) <= version THEN "stale"
  ELSE "apply"

\* decideAck
Decide(a) ==
  IF a.kind = "error" THEN "ignore"
  ELSE IF a.kind = "conflict" THEN "conflict"
  ELSE IF Position(a) <= version THEN "stale"
  ELSE IF a.prev # None /\ a.prev <= version THEN "apply"
  ELSE "apply-refresh"

\* A torn walk may have painted a row twice: the first copies, in the order of the rows.
FirstCopies(i) == {r \in Copies(items, i) : \A s \in Copies(items, i) : r.pos <= s.pos}

\* applyAck, as the set of its outcomes: it takes the first copy of the row it finds.  None means
\* there is nothing to apply.  A second copy that says the same as the receipt is one with it here.
Applied(a) ==
  LET With(old) == IF a.deleted THEN items \ old
                   ELSE IF a.item = None THEN None ELSE (items \ old) \cup {a.item}
  IN  IF Copies(items, a.id) = {} THEN {With({})}
      ELSE {IF r.ver > Position(a) THEN items ELSE With({r}) : r \in FirstCopies(a.id)}

\* (bug) an add counts one up, a delete one down.
TotalByVerb(a, rows) == IF a.deleted THEN total - 1 ELSE total + 1

\* The count follows the length of the rows, never the verb.
NewTotal(a, rows) == total + Cardinality(rows) - Cardinality(items)

\* The finally block of call(): one walk for the whole burst, when its last call is back.
EndCall(w, needsWalk) ==
  /\ writes' = [writes EXCEPT ![w] = Idle]
  /\ IF Pending = 1 /\ (burst \/ needsWalk)
     THEN burst' = FALSE /\ walk' = Triggered
     ELSE burst' = (burst \/ needsWalk) /\ UNCHANGED walk

Receive(w) ==
  /\ writes[w].st = "acked"
  /\ LET a == writes[w].ack
         d == Decide(a)
         advance == d = "apply" /\ Pending = 1
     IN  IF d \in {"apply", "apply-refresh"}
         THEN \E rows \in Applied(a) :
                /\ IF rows # None
                   THEN /\ items' = rows
                        /\ shown' = rows
                        /\ version' = IF advance /\ a.seq > version THEN a.seq ELSE version
                        /\ total' = NewTotal(a, rows)
                   ELSE UNCHANGED <<items, shown, version, total>>
                /\ EndCall(w, ~advance \/ rows = None)
         ELSE EndCall(w, d = "conflict") /\ UNCHANGED <<items, shown, version, total>>
  /\ UNCHANGED <<store, truncated, mount, checks, faults>>

\* The bridge drops the call: the command may have run, and nobody comes back to say so.
Drop(w) ==
  /\ writes[w] # Idle
  /\ faults < MaxFaults
  /\ faults' = faults + 1
  /\ EndCall(w, FALSE)
  /\ UNCHANGED <<store, paint, mount, checks>>

----------------------------------------------------------------------------
(* Looking for the writes of others: pollTick, the /events stream,          *)
(* checkOwnChanges.                                                         *)

\* get_data_version answers, or /events sends a frame: a seq on its way to the widget.
Probe(c) ==
  /\ ready = "yes"
  /\ checks[c] = Idle
  /\ checks' = [checks EXCEPT ![c] = [st |-> "probed", seq |-> seq]]
  /\ UNCHANGED <<store, paint, mount, walk, writes, burst, faults>>

\* decideProbe, and the first lines of checkOwnChanges up to its await.
Heed(c) ==
  /\ checks[c].st = "probed"
  /\ checks' = [checks EXCEPT ![c] =
       IF checks[c].seq # version /\ Pending = 0 THEN [st |-> "asked", since |-> version] ELSE Idle]
  /\ UNCHANGED <<store, paint, mount, walk, writes, burst, faults>>

\* data_changes: does the collection have an event after `since`, and where the ledger is.
Answer(c) ==
  /\ checks[c].st = "asked"
  /\ checks' = [checks EXCEPT ![c] =
       [st |-> "told", moved |-> collSeq > checks[c].since, latest |-> seq]]
  /\ UNCHANGED <<store, paint, mount, walk, writes, burst, faults>>

\* decideChanges: walk, and wait for it, or step to the ledger's seq.
Hear(c) ==
  /\ checks[c].st = "told"
  /\ IF checks[c].moved
     THEN /\ walk' = Triggered
          /\ checks' = [checks EXCEPT ![c] = [st |-> "walking"]]
          /\ UNCHANGED version
     ELSE /\ version' = checks[c].latest
          /\ checks' = [checks EXCEPT ![c] = Idle]
          /\ UNCHANGED walk
  /\ UNCHANGED <<store, items, total, truncated, shown, mount, writes, burst, faults>>

Resume(c) ==
  /\ checks[c].st = "walking"
  /\ walk = None
  /\ checks' = [checks EXCEPT ![c] = Idle]
  /\ UNCHANGED <<store, paint, mount, walk, writes, burst, faults>>

\* A dropped probe or check: the next tick tries again.
CheckFails(c) ==
  /\ checks[c].st \in {"probed", "asked", "told"}
  /\ faults < MaxFaults
  /\ faults' = faults + 1
  /\ checks' = [checks EXCEPT ![c] = Idle]
  /\ UNCHANGED <<store, paint, mount, walk, writes, burst>>

----------------------------------------------------------------------------
\* The collection has a row for every id, in some order; the mount has just started its walk.
Init ==
  /\ table \in [Ids -> Positions]
  /\ last = [i \in Ids |-> Cardinality({j \in Ids : j <= i})]
  /\ seq = Cardinality(Ids)
  /\ collSeq = seq
  /\ items = {} /\ version = 0 /\ total = 0 /\ truncated = FALSE /\ shown = {}
  /\ ready = "no" /\ walked = FALSE /\ rungs = Ladder
  /\ walk = Fresh
  /\ writes = [w \in Writes |-> Idle]
  /\ burst = FALSE
  /\ checks = [c \in Checks |-> Idle]
  /\ faults = 0

Next ==
  \/ \E i \in Ids, p \in Positions \cup {None} :
       Foreign(i, p) \/ \E w \in Writes : Execute(w, i, p)
  \/ Cleared
  \/ Elsewhere
  \/ FetchPage \/ FinishWalk \/ WalkFails \/ Flush \/ Refresh \/ Recover
  \/ \E w \in Writes :
       Send(w) \/ Replay(w) \/ Receive(w) \/ Drop(w) \/ \E kind \in {"conflict", "error"} : Refuse(w, kind)
  \/ \E c \in Checks :
       Probe(c) \/ Heed(c) \/ Answer(c) \/ Hear(c) \/ Resume(c) \/ CheckFails(c)

Spec == Init /\ [][Next]_vars

\* The event loop runs what is ready to run and timers fire; a call the bridge does not drop is
\* answered (BRIDGE_DEADLINE_MS bounds the wait).  Nothing obliges anyone to write or to refresh.
Fairness ==
  /\ WF_vars(FetchPage) /\ WF_vars(FinishWalk) /\ WF_vars(Flush) /\ WF_vars(Recover)
  /\ \A w \in Writes :
       /\ WF_vars((\E i \in Ids, p \in Positions \cup {None} : Execute(w, i, p)) \/ Refuse(w, "error"))
       /\ WF_vars(Receive(w))
  /\ \A c \in Checks :
       WF_vars(Probe(c)) /\ WF_vars(Heed(c)) /\ WF_vars(Answer(c)) /\ WF_vars(Hear(c)) /\ WF_vars(Resume(c))

FairSpec == Spec /\ Fairness

----------------------------------------------------------------------------
(* Properties.                                                             *)

\* The watermark is true: of every row whose last event is within `version` the widget shows
\* what the store holds and nothing else, so no probe that finds `version` current can miss a
\* change.  (Where a torn walk painted a row twice, both copies may come to say the same.)
HonestWatermark ==
  ~truncated => \A i \in Ids : last[i] <= version => Copies(items, i) = Copies(Rows, i)

\* state.total is the number of rows painted, unless the projection says it is cut off.
TotalIsHonest == ~truncated => total = Cardinality(items)

Current == items = Rows /\ total = Cardinality(Rows) /\ shown = items

\* Once the writers and the bridge are quiet, a widget that got ready ends up showing the
\* collection: every row, their count, and the app was handed exactly that.  (Events and drops
\* are bounded; the widget's own calls, refused ones included, must come to an end.)
Converges ==
  <>(ready = "yes") /\ <>[](Pending = 0) => <>[](Current \/ truncated)

\* Every mount comes to show its data: a walk torn by writes is retried until one is adopted.
MountsEventually == <>(ready = "yes")
=============================================================================
