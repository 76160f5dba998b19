---------------------------- MODULE EmbedBridge ----------------------------
(***************************************************************************)
(* An app mounted inside another one (embed in src/src/shell-runtime.js,   *)
(* the guard and the bridge in src/src/runner.mjs).  The parent page keeps *)
(* the child's projection, childSnap: boot and refreshes read it, receipts *)
(* of the child's writes merge into it, and a tick asks whether the        *)
(* collection has moved.  The child holds a copy, S, and repaints when its *)
(* own test says that a message changed something.                         *)
(*                                                                         *)
(* The child does not probe.  The parent does, for its own collection, and *)
(* passes the tick on.  A read of a collection is one snapshot here; how a *)
(* walk puts it together is WidgetSync.                                    *)
(***************************************************************************)
EXTENDS Integers, Sequences, FiniteSets

CONSTANTS
  Ids,       \* rows of the child's collection
  MaxSeq,    \* bound on the ledger
  MaxCalls,  \* bound on the child's writes and refreshes
  MaxParent, \* bound on the parent's own walks and writes
  MaxFaults, \* bound on calls whose answer is lost
  Ticks,     \* ticks that may be under way at once
  None

ASSUME EmbedBounds ==
  /\ None \notin Ids
  /\ \A b \in {MaxSeq, MaxCalls, MaxParent, MaxFaults} : b \in Nat

VARIABLES
  log,      \* the ledger: [id, alive], id None for an event of another collection
  same,     \* the parent shows the same collection
  pv,       \* state.version of the parent
  pwalk,    \* the parent's walk: None or its snapshot
  pack,     \* the receipt of a write of the parent: None or its seq
  tick,     \* tick -> None, or [at, since, moved, latest]: asked, or told
  snap,     \* childSnap: [version, rows]
  reads,    \* reads of the collection under way: [kind, got]
  frame,    \* "loading" | "loaded" | "pushed"
  calls,    \* the child's writes under way
  S,        \* the child's state: [version, rows]
  isReady,  \* the child has had a snapshot
  painted,  \* the rows of the child's last ready or change callback
  crossed,  \* (history) what snap claims rests on a tick that asked about later than snap then was
  sent, moves, faults

parent == <<same, pv, pwalk, pack>>
child == <<S, isReady, painted>>
counts == <<sent, moves, faults>>
vars == <<log, parent, tick, snap, crossed, reads, frame, calls, child, counts>>

----------------------------------------------------------------------------
\* The ledger.
seq == Len(log)
Events(i, t) == {n \in 1..t : log[n].id = i}
Last(set) == CHOOSE n \in set : \A m \in set : m <= n
CollSeq(t) == LET own == {n \in 1..t : log[n].id # None} IN IF own = {} THEN 0 ELSE Last(own)
RowAt(i, t) == IF Events(i, t) = {} \/ ~log[Last(Events(i, t))].alive THEN {}
               ELSE {[id |-> i, version |-> Last(Events(i, t))]}
RowsAt(t) == UNION {RowAt(i, t) : i \in Ids}
Snapshot == [version |-> seq, rows |-> RowsAt(seq)]
RowOf(rows, i) == {r \in rows : r.id = i}

Log(i, alive) == seq < MaxSeq /\ log' = Append(log, [id |-> i, alive |-> alive])

\* Another actor writes or deletes a row.
Foreign(i, alive) ==
  /\ alive \/ RowAt(i, seq) # {}
  /\ Log(i, alive)
  /\ UNCHANGED <<parent, tick, snap, crossed, reads, frame, calls, child, counts>>

\* A write to a third collection moves the one global seq.
Elsewhere ==
  /\ Log(None, TRUE)
  /\ UNCHANGED <<parent, tick, snap, crossed, reads, frame, calls, child, counts>>

----------------------------------------------------------------------------
\* (bug) only the number of rows is looked at.
RepaintsByCount(changed, s) == changed \/ Cardinality(s.rows) # Cardinality(S.rows)

\* The change test of BRIDGE.
Repaints(changed, s) ==
  changed \/ s.version # S.version \/ Cardinality(s.rows) # Cardinality(S.rows)

\* push: a message into a frame that has not loaded is lost.
Push(changed, s) ==
  IF frame = "loading" THEN UNCHANGED child
  ELSE /\ S' = s /\ isReady' = TRUE
       /\ painted' = IF ~isReady \/ Repaints(changed, s) THEN s.rows ELSE painted

\* A read that is older than what is held is not taken.
NotOlder(s) == s.version >= snap.version

Load ==
  /\ frame = "loading" /\ frame' = "loaded"
  /\ UNCHANGED <<log, parent, tick, snap, crossed, reads, calls, child, counts>>

\* frame.onload: the boot read or 1200 ms, whichever is first, and then a push.
FirstPush ==
  /\ frame = "loaded" /\ frame' = "pushed"
  /\ Push(FALSE, snap)
  /\ UNCHANGED <<log, parent, tick, snap, crossed, reads, calls, counts>>

\* A preference of the child moved, or was read again: the whole snapshot is pushed along.
PushPrefs(changed) ==
  /\ frame = "pushed" /\ Push(changed, snap)
  /\ UNCHANGED <<log, parent, tick, snap, crossed, reads, frame, calls, counts>>

----------------------------------------------------------------------------
\* refreshChild: one read at a time, and whoever comes meanwhile waits for that one.
RefreshChild(rs) ==
  IF \E r \in rs : r.kind = "refresh" THEN rs ELSE rs \cup {[kind |-> "refresh", got |-> None]}

ReadCollection(r) ==
  /\ r.got = None
  /\ reads' = (reads \ {r}) \cup {[r EXCEPT !.got = Snapshot]}
  /\ UNCHANGED <<log, parent, tick, snap, crossed, frame, calls, child, counts>>

\* Boot and the child's own refresh push whether or not the read was taken.
ReadLands(r) ==
  /\ r.got # None
  /\ reads' = reads \ {r}
  /\ LET next == IF NotOlder(r.got) THEN r.got ELSE snap
     IN /\ snap' = next /\ crossed' = (crossed /\ ~NotOlder(r.got))
        /\ IF NotOlder(r.got) \/ r.kind # "refresh" THEN Push(FALSE, next) ELSE UNCHANGED child
  /\ UNCHANGED <<log, parent, tick, frame, calls, counts>>

ReadFails(r) ==
  /\ faults < MaxFaults /\ faults' = faults + 1
  /\ reads' = reads \ {r}
  /\ UNCHANGED <<log, parent, tick, snap, crossed, frame, calls, child, sent, moves>>

AskRefresh ==
  /\ isReady /\ sent < MaxCalls /\ sent' = sent + 1
  /\ \A r \in reads : r.kind # "asked"
  /\ reads' = reads \cup {[kind |-> "asked", got |-> None]}
  /\ UNCHANGED <<log, parent, tick, snap, crossed, frame, calls, child, moves, faults>>

----------------------------------------------------------------------------
\* The child writes; the guard lets through an add, and an id that is in the projection.
Write(i, alive) ==
  /\ isReady /\ sent < MaxCalls /\ sent' = sent + 1
  /\ RowOf(snap.rows, i) # {} \/ (alive /\ Events(i, seq) = {})
  /\ calls' = calls \cup {[n |-> sent, id |-> i, alive |-> alive, ack |-> None]}
  /\ UNCHANGED <<log, parent, tick, snap, crossed, reads, frame, child, moves, faults>>

Answer(c, ack) == calls' = (calls \ {c}) \cup {[c EXCEPT !.ack = ack]}

\* The store carries the write out.  A receipt names the event before its own in the collection.
Execute(c) ==
  /\ c.ack = None
  /\ RowAt(c.id, seq) # {} \/ Events(c.id, seq) = {}
  /\ Log(c.id, c.alive)
  /\ Answer(c, [kind |-> "ok", seq |-> seq + 1, prev |-> CollSeq(seq)])
  /\ UNCHANGED <<parent, tick, snap, crossed, reads, frame, child, counts>>

\* A refusal, as a conflict that says what the row is now or as a bare error.
Refuse(c, kind) ==
  /\ c.ack = None
  /\ Answer(c, [kind |-> kind, seq |-> 0, prev |-> 0])
  /\ UNCHANGED <<log, parent, tick, snap, crossed, reads, frame, child, counts>>

\* (bug) every receipt ahead of the mark is taken to follow it directly.
FollowsAlways(a) == TRUE

\* decideAck: a receipt moves the mark when the event before it is inside the mark.
Follows(a) == a.prev <= snap.version

\* applyAck: the row of the receipt, unless a later version of it is held.
Merged(c) ==
  LET old == RowOf(snap.rows, c.id)
      new == IF c.alive THEN {[id |-> c.id, version |-> c.ack.seq]} ELSE {}
  IN IF \E r \in old : r.version > c.ack.seq THEN snap.rows ELSE (snap.rows \ old) \cup new

AckLands(c) ==
  /\ c.ack # None
  /\ calls' = calls \ {c}
  /\ \/ /\ c.ack.kind = "ok" /\ c.ack.seq > snap.version
        /\ LET next == [version |-> IF Follows(c.ack) THEN c.ack.seq ELSE snap.version,
                        rows |-> Merged(c)]
           IN snap' = next /\ Push(TRUE, next)
        /\ reads' = IF Follows(c.ack) THEN reads ELSE RefreshChild(reads)
     \/ /\ c.ack.kind = "ok" /\ c.ack.seq <= snap.version
        /\ UNCHANGED <<snap, reads, child>>
     \/ /\ c.ack.kind # "ok"
        /\ reads' = IF c.ack.kind = "conflict" THEN RefreshChild(reads) ELSE reads
        /\ UNCHANGED <<snap, child>>
  /\ UNCHANGED <<log, parent, tick, crossed, frame, counts>>

CallLost(c) ==
  /\ faults < MaxFaults /\ faults' = faults + 1
  /\ calls' = calls \ {c}
  /\ UNCHANGED <<log, parent, tick, snap, crossed, reads, frame, child, sent, moves>>

----------------------------------------------------------------------------
\* The parent reads its own collection: the tab comes back, the host pushes a tool result.
ParentWalk ==
  /\ pwalk = None /\ moves < MaxParent /\ moves' = moves + 1
  /\ pwalk' = Snapshot
  /\ UNCHANGED <<log, same, pv, pack, tick, snap, crossed, reads, frame, calls, child, sent, faults>>

\* adopt, and the child's onParentChange when both show one collection.
ParentAdopt ==
  /\ pwalk # None /\ pwalk' = None
  /\ pv' = IF pwalk.version >= pv THEN pwalk.version ELSE pv
  /\ IF same /\ pwalk.version > pv /\ NotOlder(pwalk)
     THEN snap' = pwalk /\ crossed' = FALSE /\ Push(FALSE, pwalk)
     ELSE UNCHANGED <<snap, crossed, child>>
  /\ UNCHANGED <<log, same, pack, tick, reads, frame, calls, counts>>

\* The parent writes to its own, other collection, which nobody else writes to here.
ParentWrite ==
  /\ ~same /\ pack = None /\ moves < MaxParent /\ moves' = moves + 1
  /\ Log(None, TRUE) /\ pack' = seq + 1
  /\ UNCHANGED <<same, pv, pwalk, tick, snap, crossed, reads, frame, calls, child, sent, faults>>

ParentAcked ==
  /\ pack # None /\ pack' = None
  /\ pv' = IF pack > pv THEN pack ELSE pv
  /\ UNCHANGED <<log, same, pwalk, tick, snap, crossed, reads, frame, calls, child, counts>>

\* pollTick and the /events handler: nothing is asked unless the seq is not the parent's own.  Then
\* the parent asks for its own changes, walks or advances, and ticks the child, without waiting for
\* the ticks before to end.  (The probe's answer is heeded at once: a late one asks once too often,
\* or leaves it to the next.)
Probe ==
  /\ seq # pv
  /\ \/ /\ same /\ pwalk = None
        /\ IF CollSeq(seq) > pv THEN pwalk' = Snapshot /\ UNCHANGED pv
                                ELSE pv' = seq /\ UNCHANGED pwalk
        /\ UNCHANGED tick
     \/ /\ ~same
        /\ pv' = seq
        /\ \E k \in Ticks :
             /\ tick[k] = None
             /\ tick' = [tick EXCEPT ![k] = [at |-> "asked", since |-> snap.version, moved |-> FALSE, latest |-> 0]]
        /\ UNCHANGED pwalk
  /\ UNCHANGED <<log, same, pack, snap, crossed, reads, frame, calls, child, counts>>

\* data_changes: is there an event of the collection after `since`, and where is the ledger.
TickAnswered(k) ==
  /\ tick[k] # None /\ tick[k].at = "asked"
  /\ tick' = [tick EXCEPT ![k] = [at |-> "told", since |-> tick[k].since, moved |-> CollSeq(seq) > tick[k].since,
                                  latest |-> seq]]
  /\ UNCHANGED <<log, parent, snap, crossed, reads, frame, calls, child, counts>>

\* The mark is set to what the tick was told, wherever it is by now.
TickEnds(k) ==
  /\ tick[k] # None /\ tick[k].at = "told"
  /\ tick' = [tick EXCEPT ![k] = None]
  /\ IF tick[k].moved
     THEN reads' = RefreshChild(reads) /\ UNCHANGED <<snap, crossed>>
     ELSE /\ snap' = [snap EXCEPT !.version = tick[k].latest]
          /\ crossed' = (crossed \/ tick[k].since > snap.version)
          /\ UNCHANGED reads
  /\ UNCHANGED <<log, parent, frame, calls, child, counts>>

TickFails(k) ==
  /\ tick[k] # None /\ faults < MaxFaults /\ faults' = faults + 1
  /\ tick' = [tick EXCEPT ![k] = None]
  /\ UNCHANGED <<log, parent, snap, crossed, reads, frame, calls, child, sent, moves>>

----------------------------------------------------------------------------
\* The embedder is up to date, the frame is created, the boot read is under way.
Init ==
  /\ log = <<[id |-> CHOOSE i \in Ids : TRUE, alive |-> TRUE]>> /\ same \in BOOLEAN
  /\ pv = 1 /\ pwalk = None /\ pack = None /\ tick = [k \in Ticks |-> None]
  /\ snap = [version |-> 0, rows |-> {}] /\ crossed = FALSE /\ reads = {[kind |-> "boot", got |-> None]}
  /\ frame = "loading" /\ calls = {}
  /\ S = [version |-> 0, rows |-> {}] /\ isReady = FALSE /\ painted = {}
  /\ sent = 0 /\ moves = 0 /\ faults = 0

Next ==
  \/ \E i \in Ids, alive \in BOOLEAN : Foreign(i, alive) \/ Write(i, alive)
  \/ Elsewhere \/ Load \/ FirstPush \/ AskRefresh
  \/ \E changed \in BOOLEAN : PushPrefs(changed)
  \/ \E r \in reads : ReadCollection(r) \/ ReadLands(r) \/ ReadFails(r)
  \/ \E c \in calls : \/ Execute(c) \/ AckLands(c) \/ CallLost(c)
                      \/ \E kind \in {"conflict", "error"} : Refuse(c, kind)
  \/ ParentWalk \/ ParentAdopt \/ ParentWrite \/ ParentAcked \/ Probe
  \/ \E k \in Ticks : TickAnswered(k) \/ TickEnds(k) \/ TickFails(k)

Spec == Init /\ [][Next]_vars

\* The poll keeps going and what was asked is answered; nobody has to write, read or fail.
Progress ==
  \/ Load \/ FirstPush \/ ParentAdopt \/ ParentAcked
  \/ \E k \in Ticks : TickAnswered(k) \/ TickEnds(k)
  \/ \E r \in reads : ReadCollection(r) \/ ReadLands(r)
  \/ \E c \in calls : Execute(c) \/ AckLands(c)

FairSpec == Spec /\ WF_vars(Progress) /\ WF_vars(Probe)

----------------------------------------------------------------------------
\* "holding `latest_seq` is safe": every row of the projection (or its absence) is that of the
\* collection at the version it carries or later.  Two ticks that overlap break it.
AlwaysHonest == \A i \in Ids : \E t \in snap.version..seq : RowOf(snap.rows, i) = RowAt(i, t)

\* The projection claims no more than it shows, whatever lands in whatever order and however many
\* ticks overlap, but for one crossing: a late tick has moved the mark back, and then a tick that
\* asked about later than that moves it on, over what a read taken from in between had not seen.
\* The next read that is taken ends it.
HonestChild == crossed \/ AlwaysHonest

\* "Embedded children ride the same probe": once the collection is left alone the child ends up
\* showing it, whatever the parent does on its own account.
ChildConverges == <>[](painted = RowsAt(seq))

\* "Same collection: the parent's own walk and onChange already cover it": beside a parent that shows
\* the same collection the child does end up showing it, if no read was lost.
ConvergesWithParent == same /\ [](faults = 0) => ChildConverges
=============================================================================
