------------------------- MODULE EmbedBridgeProofs -------------------------
(***************************************************************************)
(* The projection of an embedded child is honest: whatever version it      *)
(* carries, each of its rows is that of the collection then or later.      *)
(* What may move it are snapshots, receipts and ticks, and each is true of *)
(* a stretch of the ledger that has been written: the ledger only grows,   *)
(* and a row is the same throughout a stretch without events about it.     *)
(***************************************************************************)
EXTENDS EmbedBridge, TLAPS

WF == INSTANCE WellFoundedInduction

----------------------------------------------------------------------------
(* The ledger.                                                             *)

Entries == [id : Ids \cup {None}, alive : BOOLEAN]

\* The latest of a set of events is one of them, and none comes after it.
LEMMA LastIsLast ==
  ASSUME NEW t \in Nat, NEW set \in SUBSET (1..t), set # {}
  PROVE  Last(set) \in set /\ \A m \in set : m <= Last(set)
  <1> DEFINE above == {n \in Nat : \A m \in set : m <= n}
             less == {xy \in Nat \X Nat : xy[1] < xy[2]}
  <1>1. WF!IsWellFoundedOn(less, Nat)
    BY WF!NatLessThanWellFounded, Zenon DEF WF!OpToRel
  <1>2. above \subseteq Nat /\ t \in above
    OBVIOUS
  <1>3. PICK u \in above : \A n \in above : ~ (<<n, u>> \in less)
    <2> HIDE DEF above, less
    <2> QED BY <1>1, <1>2, WF!WFMin
  <1>4. u \in Nat /\ \A m \in set : m <= u
    BY <1>3
  <1>5. u \in set
    <2> SUFFICES ASSUME u \notin set PROVE FALSE
      OBVIOUS
    <2>1. \A m \in set : m \in 1..t /\ m <= u - 1
      BY <1>4
    <2>2. u - 1 \in above
      <3>1. PICK m \in set : TRUE
        OBVIOUS
      <3> QED BY <1>4, <2>1, <3>1
    <2>3. <<u - 1, u>> \in less
      BY <1>4, <2>2
    <2> QED BY <1>3, <2>2, <2>3
  <1> HIDE DEF above, less
  <1>6. \E n \in set : \A m \in set : m <= n
    BY <1>4, <1>5
  <1> QED BY <1>6 DEF Last

\* A row is the same throughout a stretch that does not name it.
LEMMA QuietStretch ==
  ASSUME NEW i \in Ids, NEW s \in Nat, NEW t \in Nat, s <= t, \A n \in 1..t : n > s => log[n].id # i
  PROVE  RowAt(i, s) = RowAt(i, t)
  <1>1. Events(i, s) = Events(i, t)
    BY DEF Events
  <1> QED BY <1>1 DEF RowAt

\* A row at an event about it is what the event made of it.
LEMMA RowAtItsEvent ==
  ASSUME NEW i \in Ids, NEW a \in BOOLEAN, NEW n \in Nat \ {0}, log[n] = [id |-> i, alive |-> a]
  PROVE  RowAt(i, n) = IF a THEN {[id |-> i, version |-> n]} ELSE {}
  <1>1. n \in Events(i, n) /\ \A m \in Events(i, n) : m \in Nat /\ m <= n
    BY DEF Events
  <1>2. Last(Events(i, n)) = n
    BY <1>1 DEF Last
  <1> QED BY <1>1, <1>2 DEF RowAt

\* A row carries its id, and an event that there has been as its version.
LEMMA RowCarriesItsEvent ==
  ASSUME NEW i \in Ids, NEW t \in Nat, NEW r \in RowAt(i, t)
  PROVE  r.id = i /\ r.version \in 1..t
  <1>1. Events(i, t) # {} /\ r = [id |-> i, version |-> Last(Events(i, t))]
    BY DEF RowAt
  <1>2. Events(i, t) \in SUBSET (1..t)
    BY DEF Events
  <1>3. Last(Events(i, t)) \in Events(i, t)
    BY <1>1, <1>2, LastIsLast
  <1> QED BY <1>1, <1>2, <1>3

\* Of a snapshot, the row is the row.
LEMMA RowOfSnapshot ==
  ASSUME NEW i \in Ids, NEW t \in Nat
  PROVE  RowOf(RowsAt(t), i) = RowAt(i, t)
  <1>1. \A j \in Ids : \A r \in RowAt(j, t) : r.id = j
    BY RowCarriesItsEvent
  <1> QED BY <1>1 DEF RowOf, RowsAt

\* Nothing happens in the collection after its last event.
LEMMA AfterCollSeq ==
  ASSUME log \in Seq(Entries), NEW t \in 0..seq
  PROVE  CollSeq(t) \in 0..t /\ \A n \in 1..t : n > CollSeq(t) => log[n].id = None
  <1> DEFINE own == {n \in 1..t : log[n].id # None}
  <1>1. own \in SUBSET (1..t) /\ t \in Nat
    OBVIOUS
  <1>2. CASE own = {}
    BY <1>2 DEF CollSeq
  <1>3. CASE own # {}
    <2>1. CollSeq(t) = Last(own)
      BY <1>3 DEF CollSeq
    <2>2. PICK last : last = Last(own)
      OBVIOUS
    <2>3. last \in own /\ \A m \in own : m <= last
      <3> HIDE DEF own
      <3> QED BY <1>1, <1>3, <2>2, LastIsLast
    <2>4. last \in 1..t
      BY <2>3
    <2>5. ASSUME NEW n \in 1..t, n > last PROVE log[n].id = None
      <3>1. n \notin own
        BY <2>3, <2>4, <2>5
      <3> QED BY <3>1
    <2> HIDE DEF own
    <2> QED BY <2>1, <2>2, <2>4, <2>5
  <1> QED BY <1>2, <1>3

----------------------------------------------------------------------------
(* The invariant.                                                          *)

\* A read tells the collection at one point of the ledger.
Shaped(s) == s = [version |-> s.version, rows |-> s.rows] /\ s.version \in 0..seq
Exact(s) == Shaped(s) /\ s.rows = RowsAt(s.version)

\* A receipt tells its event, and the one before it in the collection.
Acked(c) ==
  /\ c.ack.seq \in 1..seq /\ log[c.ack.seq] = [id |-> c.id, alive |-> c.alive]
  /\ c.ack.prev \in 0..(c.ack.seq - 1)
  /\ \A n \in 1..(c.ack.seq - 1) : n > c.ack.prev => log[n].id = None

\* A tick tells of the stretch since the version it was asked at.
Told(k) ==
  /\ k.latest \in 0..seq
  /\ ~ k.moved => \A n \in 1..k.latest : n > k.since => log[n].id = None

ReadsTell == \A r \in reads : r = [kind |-> r.kind, got |-> r.got] /\ (r.got = None \/ Exact(r.got))
WalkTells == pwalk = None \/ Exact(pwalk)
CallsTell ==
  \A c \in calls : /\ c = [n |-> c.n, id |-> c.id, alive |-> c.alive, ack |-> c.ack]
                   /\ c.id \in Ids /\ c.alive \in BOOLEAN
                   /\ c.ack = None \/ c.ack.kind # "ok" \/ Acked(c)
Tells(k) ==
  /\ k = [at |-> k.at, since |-> k.since, moved |-> k.moved, latest |-> k.latest]
  /\ k.since \in 0..seq
  /\ k.at = "told" => Told(k)
TicksTell == tick = [k \in Ticks |-> tick[k]] /\ \A k \in Ticks : tick[k] = None \/ Tells(tick[k])

\* The rows a copy shows are those of its version, or later ones.
Honest(s) == Shaped(s) /\ \A i \in Ids : \E t \in s.version..seq : RowOf(s.rows, i) = RowAt(i, t)

\* Until a tick has crossed, the projection is honest.
SnapTells == Shaped(snap) /\ crossed \in BOOLEAN /\ (crossed \/ Honest(snap))

ChildInv == log \in Seq(Entries) /\ SnapTells /\ ReadsTell /\ WalkTells /\ CallsTell /\ TicksTell

----------------------------------------------------------------------------
(* Steps.                                                                  *)

\* What each variable moves with.
LEMMA Movers ==
  ASSUME [Next]_vars
  PROVE  /\ \/ UNCHANGED log
            \/ Elsewhere \/ ParentWrite
            \/ \E i \in Ids, alive \in BOOLEAN : Foreign(i, alive)
            \/ \E c \in calls : Execute(c)
         /\ \/ UNCHANGED reads
            \/ \E r \in reads : ReadCollection(r) \/ ReadLands(r) \/ ReadFails(r)
            \/ AskRefresh
            \/ \E k \in Ticks : TickEnds(k)
            \/ \E c \in calls : AckLands(c)
         /\ UNCHANGED pwalk \/ ParentWalk \/ ParentAdopt \/ Probe
         /\ \/ UNCHANGED calls
            \/ \E i \in Ids, alive \in BOOLEAN : Write(i, alive)
            \/ \E c \in calls : \/ Execute(c) \/ AckLands(c) \/ CallLost(c)
                                \/ \E kind \in {"conflict", "error"} : Refuse(c, kind)
         /\ UNCHANGED tick \/ Probe \/ \E k \in Ticks : TickAnswered(k) \/ TickEnds(k) \/ TickFails(k)
         /\ \/ UNCHANGED <<snap, crossed>>
            \/ ParentAdopt
            \/ \E k \in Ticks : TickEnds(k)
            \/ \E r \in reads : ReadLands(r)
            \/ \E c \in calls : AckLands(c)
  <1>1. CASE UNCHANGED vars
    BY <1>1 DEF vars, parent
  <1>2. ASSUME NEW i \in Ids, NEW alive \in BOOLEAN, Foreign(i, alive) PROVE UNCHANGED <<reads, pwalk, calls, tick, snap, crossed>>
    BY <1>2 DEF Foreign, parent
  <1>3. ASSUME NEW i \in Ids, NEW alive \in BOOLEAN, Write(i, alive) PROVE UNCHANGED <<log, reads, pwalk, tick, snap, crossed>>
    BY <1>3 DEF Write, parent
  <1>4. ASSUME Elsewhere PROVE UNCHANGED <<reads, pwalk, calls, tick, snap, crossed>>
    BY <1>4 DEF Elsewhere, parent
  <1>5. ASSUME Load \/ FirstPush \/ \E changed \in BOOLEAN : PushPrefs(changed)
        PROVE  UNCHANGED <<log, reads, pwalk, calls, tick, snap, crossed>>
    BY <1>5 DEF Load, FirstPush, PushPrefs, parent
  <1>6. ASSUME AskRefresh PROVE UNCHANGED <<log, pwalk, calls, tick, snap, crossed>>
    BY <1>6 DEF AskRefresh, parent
  <1>7. ASSUME NEW r \in reads, ReadCollection(r) \/ ReadFails(r) PROVE UNCHANGED <<log, pwalk, calls, tick, snap, crossed>>
    BY <1>7 DEF ReadCollection, ReadFails, parent
  <1>8. ASSUME NEW r \in reads, ReadLands(r) PROVE UNCHANGED <<log, pwalk, calls, tick>>
    BY <1>8 DEF ReadLands, parent
  <1>9. ASSUME NEW c \in calls, Execute(c) PROVE UNCHANGED <<reads, pwalk, tick, snap, crossed>>
    BY <1>9 DEF Execute, parent
  <1>10. ASSUME NEW c \in calls, AckLands(c) PROVE UNCHANGED <<log, pwalk, tick>>
    BY <1>10 DEF AckLands, parent
  <1>11. ASSUME NEW c \in calls, CallLost(c) \/ \E kind \in {"conflict", "error"} : Refuse(c, kind)
         PROVE  UNCHANGED <<log, reads, pwalk, tick, snap, crossed>>
    BY <1>11 DEF CallLost, Refuse, parent
  <1>12. ASSUME ParentWalk PROVE UNCHANGED <<log, reads, calls, tick, snap, crossed>>
    BY <1>12 DEF ParentWalk
  <1>13. ASSUME ParentAdopt PROVE UNCHANGED <<log, reads, calls, tick>>
    BY <1>13 DEF ParentAdopt
  <1>14. ASSUME ParentWrite PROVE UNCHANGED <<reads, pwalk, calls, tick, snap, crossed>>
    BY <1>14 DEF ParentWrite
  <1>15. ASSUME ParentAcked PROVE UNCHANGED <<log, reads, pwalk, calls, tick, snap, crossed>>
    BY <1>15 DEF ParentAcked
  <1>16. ASSUME Probe PROVE UNCHANGED <<log, reads, calls, snap, crossed>>
    BY <1>16 DEF Probe
  <1>17. ASSUME NEW k \in Ticks, TickAnswered(k) \/ TickFails(k) PROVE UNCHANGED <<log, reads, pwalk, calls, snap, crossed>>
    BY <1>17 DEF TickAnswered, TickFails, parent
  <1>18. ASSUME NEW k \in Ticks, TickEnds(k) PROVE UNCHANGED <<log, pwalk, calls>>
    BY <1>18 DEF TickEnds, parent
  <1> QED
    BY <1>1, <1>2, <1>3, <1>4, <1>5, <1>6, <1>7, <1>8, <1>9, <1>10, <1>11, <1>12, <1>13, <1>14, <1>15, <1>16,
       <1>17, <1>18 DEF Next

\* The ledger grows by an event, or stands.
LEMMA LogGrows ==
  ASSUME ChildInv, [Next]_vars
  PROVE  log' = log \/ \E e \in Entries : log' = Append(log, e)
  <1>1. ASSUME NEW i \in Ids \cup {None}, NEW alive \in BOOLEAN, Log(i, alive)
        PROVE  \E e \in Entries : log' = Append(log, e)
    BY <1>1 DEF Log, Entries
  <1>2. ASSUME NEW i \in Ids, NEW alive \in BOOLEAN, Foreign(i, alive) PROVE Log(i, alive)
    BY <1>2 DEF Foreign
  <1>3. Elsewhere \/ ParentWrite => Log(None, TRUE)
    BY DEF Elsewhere, ParentWrite
  <1>4. ASSUME NEW c \in calls, Execute(c) PROVE Log(c.id, c.alive) /\ c.id \in Ids /\ c.alive \in BOOLEAN
    BY <1>4 DEF Execute, ChildInv, CallsTell
  <1> QED BY <1>1, <1>2, <1>3, <1>4, Movers

\* So what was true of a stretch stays true of it.
LEMMA PastStands ==
  ASSUME ChildInv, [Next]_vars
  PROVE  /\ log' \in Seq(Entries) /\ seq \in Nat /\ seq' \in Nat /\ seq <= seq'
         /\ \A n \in 1..seq : log'[n] = log[n]
         /\ \A t \in 0..seq : RowsAt(t)' = RowsAt(t) /\ \A i \in Ids : RowAt(i, t)' = RowAt(i, t)
  <1>1. log \in Seq(Entries)
    BY DEF ChildInv
  <1>2. log' \in Seq(Entries) /\ seq \in Nat /\ seq' \in Nat /\ seq <= seq' /\ \A n \in 1..seq : log'[n] = log[n]
    BY <1>1, LogGrows DEF seq
  <1>3. ASSUME NEW t \in 0..seq, NEW i \in Ids PROVE RowAt(i, t)' = RowAt(i, t)
    <2>1. Events(i, t)' = Events(i, t)
      BY <1>2 DEF Events
    <2>2. CASE Events(i, t) = {}
      BY <2>1, <2>2 DEF RowAt
    <2>3. CASE Events(i, t) # {}
      <3>1. Events(i, t) \in SUBSET (1..t) /\ t \in Nat
        BY <1>2 DEF Events
      <3>2. Last(Events(i, t)) \in Events(i, t)
        BY <2>3, <3>1, LastIsLast
      <3>3. log'[Last(Events(i, t))] = log[Last(Events(i, t))]
        BY <1>2, <3>1, <3>2
      <3>4. Last(Events(i, t))' = Last(Events(i, t))
        BY <2>1 DEF Last
      <3> QED BY <2>1, <3>3, <3>4 DEF RowAt
    <2> QED BY <2>2, <2>3
  <1>4. ASSUME NEW t \in 0..seq PROVE RowsAt(t)' = RowsAt(t)
    BY <1>3 DEF RowsAt
  <1> QED BY <1>2, <1>3, <1>4

LEMMA ExactStays ==
  ASSUME ChildInv, [Next]_vars, NEW s, Exact(s)
  PROVE  Exact(s)'
  BY PastStands DEF Exact, Shaped

\* A snapshot is exact.
LEMMA SnapshotIsExact ==
  ASSUME log \in Seq(Entries)
  PROVE  Exact(Snapshot)
  <1>1. seq \in Nat
    BY DEF seq
  <1> QED BY <1>1 DEF Exact, Shaped, Snapshot

\* Reads under way go on telling the truth.
LEMMA ReadsStep ==
  ASSUME ChildInv, [Next]_vars
  PROVE  ReadsTell'
  <1>1. \A r \in reads : r = [kind |-> r.kind, got |-> r.got] /\ (r.got = None \/ Exact(r.got)')
    BY ExactStays DEF ChildInv, ReadsTell
  <1>2. ASSUME NEW rs, rs \subseteq reads, reads' \in {rs, RefreshChild(rs), rs \cup {[kind |-> "asked", got |-> None]}}
        PROVE  ReadsTell'
    <2>1. \A r \in reads' : r \in reads \/ r = [kind |-> "refresh", got |-> None] \/ r = [kind |-> "asked", got |-> None]
      BY <1>2 DEF RefreshChild
    <2>2. \A r \in reads' : r = [kind |-> r.kind, got |-> r.got] /\ (r.got = None \/ Exact(r.got)')
      BY <1>1, <2>1
    <2> QED BY <2>2 DEF ReadsTell
  <1>3. ASSUME NEW r \in reads, ReadCollection(r) PROVE ReadsTell'
    <2>1. Exact(Snapshot)
      BY SnapshotIsExact DEF ChildInv
    <2>2. PICK s : s = Snapshot /\ Exact(s)'
      BY <2>1, ExactStays
    <2> DEFINE told == [kind |-> r.kind, got |-> s]
    <2>3. \A x \in reads' : x \in reads \/ x = told
      <3>1. [r EXCEPT !.got = Snapshot] = told
        BY <1>1, <2>2
      <3> HIDE DEF told
      <3> QED BY <1>3, <3>1 DEF ReadCollection
    <2>4. told = [kind |-> told.kind, got |-> told.got] /\ told.got = s
      OBVIOUS
    <2> HIDE DEF told
    <2>5. \A x \in reads' : x = [kind |-> x.kind, got |-> x.got] /\ (x.got = None \/ Exact(x.got)')
      BY <1>1, <2>2, <2>3, <2>4
    <2> QED BY <2>5 DEF ReadsTell
  <1>4. ASSUME NEW r \in reads, ReadLands(r) \/ ReadFails(r) PROVE ReadsTell'
    <2>1. reads' = reads \ {r}
      BY <1>4 DEF ReadLands, ReadFails
    <2> QED BY <1>2, <2>1
  <1>5. ASSUME AskRefresh PROVE ReadsTell'
    BY <1>2, <1>5 DEF AskRefresh
  <1>6. ASSUME NEW k \in Ticks, TickEnds(k) PROVE ReadsTell'
    BY <1>2, <1>6 DEF TickEnds
  <1>7. ASSUME NEW c \in calls, AckLands(c) PROVE ReadsTell'
    BY <1>2, <1>7 DEF AckLands
  <1>8. CASE UNCHANGED reads
    BY <1>2, <1>8
  <1> QED BY <1>3, <1>4, <1>5, <1>6, <1>7, <1>8, Movers

\* So does the parent's walk.
LEMMA WalkStep ==
  ASSUME ChildInv, [Next]_vars
  PROVE  WalkTells'
  <1>1. ASSUME ParentWalk \/ Probe, pwalk' = Snapshot PROVE WalkTells'
    <2>1. Exact(Snapshot)
      BY SnapshotIsExact DEF ChildInv
    <2>2. PICK s : s = Snapshot /\ Exact(s)'
      BY <2>1, ExactStays
    <2> QED BY <1>1, <2>2 DEF WalkTells
  <1>2. CASE pwalk' = pwalk
    BY <1>2, ExactStays DEF ChildInv, WalkTells
  <1>3. CASE pwalk' = None
    BY <1>3 DEF WalkTells
  <1>4. ParentWalk \/ Probe => pwalk' = Snapshot \/ pwalk' = pwalk
    BY DEF ParentWalk, Probe
  <1>5. ParentAdopt => pwalk' = None
    BY DEF ParentAdopt
  <1> QED BY <1>1, <1>2, <1>3, <1>4, <1>5, Movers

\* A receipt tells its event from when the store gives it.
LEMMA CallsStep ==
  ASSUME ChildInv, [Next]_vars
  PROVE  CallsTell'
  <1> DEFINE Formed(c) == c = [n |-> c.n, id |-> c.id, alive |-> c.alive, ack |-> c.ack] /\ c.id \in Ids /\ c.alive \in BOOLEAN
             Fine(c) == Formed(c) /\ (c.ack = None \/ c.ack.kind # "ok" \/ Acked(c))
  <1>1. ASSUME NEW c \in calls PROVE Fine(c)'
    <2>1. Formed(c) /\ (c.ack = None \/ c.ack.kind # "ok" \/ Acked(c))
      BY DEF ChildInv, CallsTell
    <2>2. ASSUME Acked(c) PROVE Acked(c)'
      <3>1. c.ack.seq \in 1..seq /\ c.ack.prev \in 0..(c.ack.seq - 1)
        BY <2>2 DEF Acked
      <3>2. log'[c.ack.seq] = log[c.ack.seq] /\ \A n \in 1..(c.ack.seq - 1) : log'[n] = log[n]
        BY <3>1, PastStands
      <3>3. c.ack.seq \in 1..seq'
        BY <3>1, PastStands
      <3> QED BY <2>2, <3>2, <3>3 DEF Acked
    <2> QED BY <2>1, <2>2
  <1>2. ASSUME NEW d, Fine(d)', NEW rest, rest \subseteq calls, calls' \subseteq rest \cup {d} PROVE CallsTell'
    <2>1. \A c \in calls' : c \in calls \/ c = d
      BY <1>2
    <2> HIDE DEF Fine
    <2>2. \A c \in calls' : Fine(c)'
      BY <1>1, <1>2, <2>1
    <2> QED BY <2>2 DEF CallsTell, Fine
  <1>3. ASSUME calls' \subseteq calls PROVE CallsTell'
    <2> HIDE DEF Fine
    <2>1. \A c \in calls' : Fine(c)'
      BY <1>1, <1>3
    <2> QED BY <2>1 DEF CallsTell, Fine
  <1>4. ASSUME NEW i \in Ids, NEW alive \in BOOLEAN, Write(i, alive) PROVE CallsTell'
    <2> DEFINE d == [n |-> sent, id |-> i, alive |-> alive, ack |-> None]
    <2>1. calls' \subseteq calls \cup {d}
      BY <1>4 DEF Write
    <2>2. PICK x : x = d
      OBVIOUS
    <2>3. Fine(x)'
      BY <2>2
    <2> HIDE DEF d, Fine
    <2> QED BY <1>2, <2>1, <2>2, <2>3
  <1>5. ASSUME NEW c \in calls, NEW ack, calls' = (calls \ {c}) \cup {[c EXCEPT !.ack = ack]},
               ack.kind # "ok" \/ Acked([c EXCEPT !.ack = ack])'
        PROVE  CallsTell'
    <2> DEFINE d == [n |-> c.n, id |-> c.id, alive |-> c.alive, ack |-> ack]
    <2>1. Formed(c)
      BY DEF ChildInv, CallsTell
    <2>2. [c EXCEPT !.ack = ack] = d
      BY <2>1
    <2>3. Fine(d)'
      BY <1>5, <2>1, <2>2
    <2> HIDE DEF d, Fine
    <2> QED BY <1>2, <1>5, <2>2, <2>3
  <1>6. ASSUME NEW c \in calls, Execute(c) PROVE CallsTell'
    <2> DEFINE a == [kind |-> "ok", seq |-> seq + 1, prev |-> CollSeq(seq)]
    <2>1. calls' = (calls \ {c}) \cup {[c EXCEPT !.ack = a]} /\ log' = Append(log, [id |-> c.id, alive |-> c.alive])
      BY <1>6 DEF Execute, Answer, Log
    <2>2. log \in Seq(Entries) /\ c.id \in Ids /\ c.alive \in BOOLEAN /\ Formed(c)
      BY DEF ChildInv, CallsTell
    <2>3. [id |-> c.id, alive |-> c.alive] \in Entries
      BY <2>2 DEF Entries
    <2>4. seq \in Nat /\ seq' = seq + 1 /\ log'[seq + 1] = [id |-> c.id, alive |-> c.alive]
          /\ \A n \in 1..seq : log'[n] = log[n]
      BY <2>1, <2>2, <2>3 DEF seq
    <2>5. CollSeq(seq) \in 0..seq /\ \A n \in 1..seq : n > CollSeq(seq) => log[n].id = None
      BY <2>2, <2>4, AfterCollSeq
    <2>6. PICK x : x = a
      OBVIOUS
    <2>7. [c EXCEPT !.ack = x] = [n |-> c.n, id |-> c.id, alive |-> c.alive, ack |-> x]
      BY <2>2
    <2>8. Acked([c EXCEPT !.ack = x])'
      <3>1. x.seq = seq + 1 /\ x.prev = CollSeq(seq)
        BY <2>6
      <3>2. x.seq \in 1..seq' /\ x.prev \in 0..(x.seq - 1)
        BY <2>4, <2>5, <3>1
      <3>3. \A n \in 1..(x.seq - 1) : n > x.prev => log'[n].id = None
        BY <2>4, <2>5, <3>1
      <3>4. log'[x.seq] = [id |-> c.id, alive |-> c.alive]
        BY <2>4, <3>1
      <3> QED BY <2>7, <3>2, <3>3, <3>4 DEF Acked
    <2> QED BY <1>5, <2>1, <2>6, <2>8
  <1>7. ASSUME NEW c \in calls, NEW kind \in {"conflict", "error"}, Refuse(c, kind) PROVE CallsTell'
    BY <1>5, <1>7 DEF Refuse, Answer
  <1>8. ASSUME NEW c \in calls, AckLands(c) \/ CallLost(c) PROVE calls' \subseteq calls
    BY <1>8 DEF AckLands, CallLost
  <1> HIDE DEF Fine
  <1> QED BY <1>3, <1>4, <1>6, <1>7, <1>8, Movers

----------------------------------------------------------------------------
(* The projection.                                                         *)

LEMMA ExactIsHonest ==
  ASSUME log \in Seq(Entries), NEW s, Exact(s)
  PROVE  Honest(s)
  <1>1. seq \in Nat /\ s.version \in 0..seq /\ s.rows = RowsAt(s.version) /\ Shaped(s)
    BY DEF Exact, Shaped, seq
  <1>2. \A i \in Ids : RowOf(s.rows, i) = RowAt(i, s.version)
    BY <1>1, RowOfSnapshot
  <1> QED BY <1>1, <1>2 DEF Honest

LEMMA HonestStays ==
  ASSUME ChildInv, [Next]_vars, NEW s, Honest(s)
  PROVE  Honest(s)'
  <1>1. Shaped(s)'
    BY PastStands DEF Honest, Shaped
  <1>2. ASSUME NEW i \in Ids PROVE \E t \in s.version..seq' : RowOf(s.rows, i)' = RowAt(i, t)'
    <2>1. PICK t \in s.version..seq : RowOf(s.rows, i) = RowAt(i, t)
      BY DEF Honest
    <2>2. t \in 0..seq /\ t \in s.version..seq'
      BY PastStands DEF Honest, Shaped
    <2>3. RowAt(i, t)' = RowAt(i, t)
      BY <2>2, PastStands
    <2>4. RowOf(s.rows, i)' = RowOf(s.rows, i)
      BY DEF RowOf
    <2> QED BY <2>1, <2>2, <2>3, <2>4
  <1> QED BY <1>1, <1>2 DEF Honest

\* A tick that tells of a quiet stretch moves the mark over it, back or forth: whatever a row was true of
\* since the projection's own version, it is true of the stretch's end, or of later.
LEMMA QuietTickIsHonest ==
  ASSUME ChildInv, Honest(snap), NEW k, Tells(k), k.at = "told", ~ k.moved, k.since <= snap.version
  PROVE  Honest([snap EXCEPT !.version = k.latest])
  <1> DEFINE s == [version |-> k.latest, rows |-> snap.rows]
  <1>1. /\ snap = [version |-> snap.version, rows |-> snap.rows] /\ snap.version \in 0..seq
        /\ k.latest \in 0..seq /\ k.since \in 0..snap.version
        /\ \A n \in 1..k.latest : n > k.since => log[n].id = None
        /\ log \in Seq(Entries) /\ seq \in Nat
    BY DEF ChildInv, Honest, Shaped, Tells, Told, seq
  <1>2. [snap EXCEPT !.version = k.latest] = s
    BY <1>1
  <1>3. ASSUME NEW i \in Ids PROVE \E t \in k.latest..seq : RowOf(snap.rows, i) = RowAt(i, t)
    <2>1. PICK t \in snap.version..seq : RowOf(snap.rows, i) = RowAt(i, t)
      BY DEF Honest
    <2>2. CASE t >= k.latest
      BY <1>1, <2>1, <2>2
    <2>3. CASE t < k.latest
      <3>1. t \in Nat /\ k.latest \in Nat /\ t <= k.latest /\ t >= k.since
        BY <1>1, <2>3
      <3>2. \A n \in 1..k.latest : n > t => log[n].id # i
        BY <1>1, <3>1, EmbedBounds
      <3>3. RowAt(i, t) = RowAt(i, k.latest)
        BY <3>1, <3>2, QuietStretch
      <3> QED BY <1>1, <2>1, <3>3
    <2> QED BY <1>1, <2>2, <2>3
  <1>4. Shaped(s)
    BY <1>1 DEF Shaped
  <1>5. s.version = k.latest /\ s.rows = snap.rows
    OBVIOUS
  <1> HIDE DEF s
  <1> QED BY <1>2, <1>3, <1>4, <1>5 DEF Honest

\* A receipt merges one row; it moves the mark when nothing happened in the collection in between.
LEMMA ReceiptIsHonest ==
  ASSUME ChildInv, Honest(snap), NEW c \in calls, c.ack # None, c.ack.kind = "ok", c.ack.seq > snap.version
  PROVE  Honest([version |-> IF Follows(c.ack) THEN c.ack.seq ELSE snap.version, rows |-> Merged(c)])
  <1> DEFINE v == IF Follows(c.ack) THEN c.ack.seq ELSE snap.version
             s == [version |-> v, rows |-> Merged(c)]
             new == IF c.alive THEN {[id |-> c.id, version |-> c.ack.seq]} ELSE {}
             old == RowOf(snap.rows, c.id)
  <1>1. /\ snap.version \in 0..seq /\ c.id \in Ids /\ c.alive \in BOOLEAN /\ Acked(c)
        /\ log \in Seq(Entries) /\ seq \in Nat
    BY DEF ChildInv, Honest, Shaped, CallsTell, seq
  <1>2. /\ c.ack.seq \in 1..seq /\ log[c.ack.seq] = [id |-> c.id, alive |-> c.alive]
        /\ c.ack.prev \in 0..(c.ack.seq - 1)
        /\ \A n \in 1..(c.ack.seq - 1) : n > c.ack.prev => log[n].id = None
    BY <1>1 DEF Acked
  <1>3. v \in 0..c.ack.seq /\ (v = c.ack.seq \/ v = snap.version) /\ (v = c.ack.seq => c.ack.prev <= snap.version)
    BY <1>1, <1>2 DEF Follows
  <1>4. \A i \in Ids : \E t \in snap.version..seq : RowOf(snap.rows, i) = RowAt(i, t)
    BY DEF Honest
  <1>5. RowAt(c.id, c.ack.seq) = new
    <2>1. c.ack.seq \in Nat \ {0}
      BY <1>1, <1>2
    <2> QED BY <1>1, <1>2, <2>1, RowAtItsEvent
  <1>6. /\ \A i \in Ids \ {c.id} : RowOf(Merged(c), i) = RowOf(snap.rows, i)
        /\ \/ RowOf(Merged(c), c.id) = new
           \/ RowOf(Merged(c), c.id) = old /\ \E r \in old : r.version > c.ack.seq
    <2>1. CASE \E r \in old : r.version > c.ack.seq
      BY <2>1 DEF Merged
    <2>2. CASE ~ \E r \in old : r.version > c.ack.seq
      <3>1. Merged(c) = (snap.rows \ old) \cup new
        BY <2>2 DEF Merged
      <3>2. \A r \in new : r.id = c.id
        OBVIOUS
      <3>3. \A r : r \in old <=> r \in snap.rows /\ r.id = c.id
        BY DEF RowOf
      <3> HIDE DEF new, old
      <3>4. RowOf(Merged(c), c.id) = new
        BY <3>1, <3>2, <3>3 DEF RowOf
      <3>5. \A i \in Ids \ {c.id} : RowOf(Merged(c), i) = RowOf(snap.rows, i)
        BY <3>1, <3>2, <3>3 DEF RowOf
      <3> QED BY <3>4, <3>5
    <2> QED BY <2>1, <2>2
  <1> HIDE DEF new, v
  <1>7. ASSUME NEW i \in Ids \ {c.id} PROVE \E t \in v..seq : RowOf(Merged(c), i) = RowAt(i, t)
    <2>1. PICK t \in snap.version..seq : RowOf(snap.rows, i) = RowAt(i, t)
      BY <1>4
    <2>2. CASE v = snap.version
      BY <1>6, <2>1, <2>2
    <2>3. CASE v = c.ack.seq /\ t >= c.ack.seq
      BY <1>1, <1>2, <1>6, <2>1, <2>3
    <2>4. CASE v = c.ack.seq /\ t < c.ack.seq
      <3>1. t \in Nat /\ c.ack.seq \in Nat /\ t <= c.ack.seq /\ t >= c.ack.prev
        BY <1>1, <1>2, <1>3, <2>4
      <3>2. \A n \in 1..c.ack.seq : n > t => log[n].id # i
        <4> SUFFICES ASSUME NEW n \in 1..c.ack.seq, n > t PROVE log[n].id # i
          OBVIOUS
        <4>1. CASE n = c.ack.seq
          BY <1>2, <4>1
        <4>2. CASE n # c.ack.seq
          <5>1. n \in 1..(c.ack.seq - 1) /\ n > c.ack.prev
            BY <1>2, <3>1, <4>2
          <5> QED BY <1>2, <5>1, EmbedBounds
        <4> QED BY <4>1, <4>2
      <3>3. RowAt(i, t) = RowAt(i, c.ack.seq)
        BY <3>1, <3>2, QuietStretch
      <3> QED BY <1>1, <1>2, <1>6, <2>1, <2>4, <3>3
    <2> QED BY <1>1, <1>2, <1>3, <2>2, <2>3, <2>4
  <1>8. \E t \in v..seq : RowOf(Merged(c), c.id) = RowAt(c.id, t)
    <2>1. CASE RowOf(Merged(c), c.id) = new
      BY <1>1, <1>2, <1>3, <1>5, <2>1
    <2>2. ASSUME RowOf(Merged(c), c.id) = old, NEW r \in old, r.version > c.ack.seq
          PROVE  \E t \in v..seq : RowOf(Merged(c), c.id) = RowAt(c.id, t)
      <3>1. PICK t \in snap.version..seq : old = RowAt(c.id, t)
        BY <1>1, <1>4
      <3>2. t \in Nat
        BY <1>1, <3>1
      <3>3. r.version \in 1..t
        BY <1>1, <2>2, <3>1, <3>2, RowCarriesItsEvent
      <3> HIDE DEF old
      <3>4. t \in v..seq
        BY <1>1, <1>2, <1>3, <2>2, <3>1, <3>2, <3>3
      <3> QED BY <2>2, <3>1, <3>4
    <2> QED BY <1>6, <2>1, <2>2
  <1>9. Shaped(s) /\ s.version = v /\ s.rows = Merged(c)
    BY <1>1, <1>2, <1>3 DEF Shaped
  <1>10. \A i \in Ids : \E t \in v..seq : RowOf(Merged(c), i) = RowAt(i, t)
    BY <1>7, <1>8
  <1>11. Honest(s)
    <2> HIDE DEF s
    <2> QED BY <1>9, <1>10 DEF Honest
  <1> QED BY <1>11 DEF v

\* Honest or not, it leaves a version that the ledger has reached.
LEMMA ReceiptIsShaped ==
  ASSUME ChildInv, NEW c \in calls, c.ack # None, c.ack.kind = "ok"
  PROVE  Shaped([version |-> IF Follows(c.ack) THEN c.ack.seq ELSE snap.version, rows |-> Merged(c)])
  <1>1. snap.version \in 0..seq /\ c.ack.seq \in 1..seq
    BY DEF ChildInv, SnapTells, Shaped, CallsTell, Acked
  <1> QED BY <1>1 DEF Shaped

\* What the projection becomes is honest, unless a tick crosses or has crossed.
LEMMA SnapStep ==
  ASSUME ChildInv, [Next]_vars
  PROVE  Shaped(snap') /\ crossed' \in BOOLEAN /\ (crossed' \/ Honest(snap'))
  <1> DEFINE Sound == Shaped(snap') /\ crossed' \in BOOLEAN /\ (crossed' \/ Honest(snap'))
  <1>1. /\ log \in Seq(Entries) /\ Shaped(snap) /\ snap.version \in Nat /\ seq \in Nat
        /\ crossed \in BOOLEAN /\ (crossed \/ Honest(snap))
    BY DEF ChildInv, SnapTells, Shaped, seq
  <1>2. ASSUME NEW s, Exact(s), snap' = s, crossed' \in BOOLEAN PROVE Sound
    <2>1. Honest(s)
      BY <1>1, <1>2, ExactIsHonest
    <2> QED BY <1>2, <2>1 DEF Honest
  <1>3. ASSUME snap' = snap, crossed' = crossed PROVE Sound
    BY <1>1, <1>3
  <1>4. ASSUME NEW r \in reads, ReadLands(r) PROVE Sound
    <2>1. r.got # None /\ snap' = (IF NotOlder(r.got) THEN r.got ELSE snap) /\ crossed' = (crossed /\ ~ NotOlder(r.got))
      BY <1>4 DEF ReadLands
    <2>2. Exact(r.got) /\ crossed' \in BOOLEAN
      BY <2>1 DEF ChildInv, ReadsTell
    <2>3. CASE NotOlder(r.got)
      BY <1>2, <2>1, <2>2, <2>3
    <2>4. CASE ~ NotOlder(r.got)
      BY <1>1, <1>3, <2>1, <2>4
    <2> QED BY <2>3, <2>4
  <1>5. ASSUME ParentAdopt PROVE Sound
    <2>1. pwalk # None /\ ((snap' = pwalk /\ crossed' = FALSE) \/ (snap' = snap /\ crossed' = crossed))
      BY <1>5 DEF ParentAdopt
    <2>2. Exact(pwalk)
      BY <2>1 DEF ChildInv, WalkTells
    <2> QED BY <1>2, <1>3, <2>1, <2>2
  <1>6. ASSUME NEW c \in calls, AckLands(c) PROVE Sound
    <2>1. CASE c.ack.kind = "ok" /\ c.ack.seq > snap.version
      <3> DEFINE s == [version |-> IF Follows(c.ack) THEN c.ack.seq ELSE snap.version, rows |-> Merged(c)]
      <3>1. snap' = s /\ c.ack # None /\ crossed' = crossed
        <4>1. ~ (c.ack.seq <= snap.version)
          <5>1. c.ack # None
            BY <1>6 DEF AckLands
          <5>2. c.ack.seq \in Nat
            <6>1. Acked(c)
              BY <2>1, <5>1 DEF ChildInv, CallsTell
            <6> QED BY <1>1, <6>1 DEF Acked
          <5> QED BY <1>1, <2>1, <5>2
        <4> QED BY <1>6, <2>1, <4>1 DEF AckLands
      <3>2. Shaped(s)
        BY <2>1, <3>1, ReceiptIsShaped
      <3>3. ASSUME Honest(snap) PROVE Honest(s)
        BY <2>1, <3>1, <3>3, ReceiptIsHonest
      <3> HIDE DEF s
      <3> QED BY <1>1, <3>1, <3>2, <3>3
    <2>2. CASE ~ (c.ack.kind = "ok" /\ c.ack.seq > snap.version)
      <3>1. snap' = snap /\ crossed' = crossed
        BY <1>6, <2>2 DEF AckLands
      <3> QED BY <1>3, <3>1
    <2> QED BY <2>1, <2>2
  <1>7. ASSUME NEW k \in Ticks, TickEnds(k) PROVE Sound
    <2>1. CASE tick[k].moved
      BY <1>3, <1>7, <2>1 DEF TickEnds
    <2>2. CASE ~ tick[k].moved
      <3>1. PICK x : x = tick[k]
        OBVIOUS
      <3>2. /\ snap' = [snap EXCEPT !.version = x.latest] /\ x # None /\ x.at = "told" /\ ~ x.moved
            /\ crossed' = (crossed \/ x.since > snap.version)
        BY <1>7, <2>2, <3>1 DEF TickEnds
      <3>3. Tells(x)
        BY <3>1, <3>2 DEF ChildInv, TicksTell
      <3>4. Shaped(snap')
        <4>1. x.latest \in 0..seq /\ snap = [version |-> snap.version, rows |-> snap.rows]
          BY <1>1, <3>2, <3>3 DEF Tells, Told, Shaped
        <4>2. snap' = [version |-> x.latest, rows |-> snap.rows]
          BY <3>2, <4>1
        <4> QED BY <4>1, <4>2 DEF Shaped
      <3>5. ASSUME ~ crossed' PROVE Honest(snap')
        <4>1. Honest(snap) /\ ~ (x.since > snap.version)
          BY <1>1, <3>2, <3>5
        <4>2. x.since <= snap.version
          BY <1>1, <3>3, <4>1 DEF Tells
        <4> QED BY <3>2, <3>3, <4>1, <4>2, QuietTickIsHonest
      <3> QED BY <1>1, <3>2, <3>4, <3>5
    <2> QED BY <2>1, <2>2
  <1> HIDE DEF Sound
  <1>8. Sound
    BY <1>3, <1>4, <1>5, <1>6, <1>7, Movers
  <1> QED BY <1>8 DEF Sound

\* What a tick has been told stays true.
LEMMA TellsStays ==
  ASSUME ChildInv, [Next]_vars, NEW k, Tells(k)
  PROVE  Tells(k)'
  <1>1. k.since \in 0..seq'
    BY PastStands DEF Tells
  <1>2. ASSUME k.at = "told" PROVE Told(k)'
    <2>1. Told(k) /\ seq \in Nat
      BY <1>2, PastStands DEF Tells
    <2>2. k.latest \in 0..seq /\ \A n \in 1..k.latest : n \in 1..seq
      BY <2>1 DEF Told
    <2>3. k.latest \in 0..seq' /\ \A n \in 1..k.latest : log'[n] = log[n]
      BY <2>2, PastStands
    <2> QED BY <2>1, <2>3 DEF Told
  <1> QED BY <1>1, <1>2 DEF Tells

\* Ticks tell of the ledger they were answered from.
LEMMA TickStep ==
  ASSUME ChildInv, [Next]_vars
  PROVE  TicksTell'
  <1>1. /\ log \in Seq(Entries) /\ seq \in Nat /\ snap.version \in 0..seq
        /\ tick = [k \in Ticks |-> tick[k]]
        /\ \A k \in Ticks : tick[k] = None \/ Tells(tick[k])
    BY DEF ChildInv, SnapTells, Shaped, TicksTell, seq
  <1>2. ASSUME NEW y, Tells(y) PROVE Tells(y)'
    BY <1>2, TellsStays
  <1>3. ASSUME NEW k \in Ticks, NEW x, tick' = [tick EXCEPT ![k] = x], x = None \/ Tells(x)'
        PROVE  TicksTell'
    <2>1. tick' = [j \in Ticks |-> tick'[j]] /\ \A j \in Ticks : tick'[j] = IF j = k THEN x ELSE tick[j]
      BY <1>1, <1>3
    <2>2. ASSUME NEW j \in Ticks PROVE (tick[j] = None \/ Tells(tick[j]))'
      <3>1. PICK y : y = tick'[j]
        OBVIOUS
      <3>2. y = None \/ Tells(y)'
        BY <1>1, <1>2, <1>3, <2>1, <3>1
      <3> QED BY <3>1, <3>2 DEF Tells, Told
    <2> QED BY <2>1, <2>2 DEF TicksTell
  <1>4. ASSUME UNCHANGED tick PROVE TicksTell'
    <2>1. ASSUME NEW j \in Ticks PROVE (tick[j] = None \/ Tells(tick[j]))'
      <3>1. PICK y : y = tick[j]
        OBVIOUS
      <3>2. y = None \/ Tells(y)'
        BY <1>1, <1>2, <3>1
      <3> QED BY <1>4, <3>1, <3>2 DEF Tells, Told
    <2> QED BY <1>1, <1>4, <2>1 DEF TicksTell
  <1>5. ASSUME Probe PROVE TicksTell'
    <2>1. ASSUME NEW k \in Ticks,
                 tick' = [tick EXCEPT ![k] = [at |-> "asked", since |-> snap.version, moved |-> FALSE, latest |-> 0]]
          PROVE  TicksTell'
      <3>1. PICK x : x = [at |-> "asked", since |-> snap.version, moved |-> FALSE, latest |-> 0]
        OBVIOUS
      <3>2. snap.version \in 0..seq'
        BY <1>1, PastStands
      <3>3. Tells(x)'
        BY <3>1, <3>2 DEF Tells
      <3> QED BY <1>3, <2>1, <3>1, <3>3
    <2> QED BY <1>4, <1>5, <2>1 DEF Probe
  <1>6. ASSUME NEW k \in Ticks, TickAnswered(k) PROVE TicksTell'
    <2>1. PICK x : x = tick[k]
      OBVIOUS
    <2>2. PICK y : y = [at |-> "told", since |-> x.since, moved |-> CollSeq(seq) > x.since, latest |-> seq]
      OBVIOUS
    <2>3. tick' = [tick EXCEPT ![k] = y] /\ x # None /\ UNCHANGED log
      BY <1>6, <2>1, <2>2 DEF TickAnswered
    <2>4. x.since \in 0..seq
      BY <1>1, <2>1, <2>3 DEF Tells
    <2>6. CollSeq(seq) \in 0..seq /\ \A n \in 1..seq : n > CollSeq(seq) => log[n].id = None
      BY <1>1, AfterCollSeq
    <2>7. seq' = seq
      BY <2>3 DEF seq
    <2>8. ASSUME ~ y.moved, NEW n \in 1..seq, n > x.since PROVE log[n].id = None
      <3>1. ~ (CollSeq(seq) > x.since)
        BY <2>2, <2>8
      <3>2. n > CollSeq(seq)
        BY <1>1, <2>4, <2>6, <2>8, <3>1
      <3> QED BY <2>6, <3>2
    <2>9. y.latest = seq /\ y.since = x.since
      BY <2>2
    <2>10. Told(y)'
      BY <1>1, <2>3, <2>7, <2>8, <2>9 DEF Told
    <2>11. Tells(y)'
      BY <2>2, <2>4, <2>7, <2>10 DEF Tells
    <2> QED BY <1>3, <2>3, <2>11
  <1>7. ASSUME NEW k \in Ticks, TickEnds(k) \/ TickFails(k) PROVE TicksTell'
    BY <1>3, <1>7 DEF TickEnds, TickFails
  <1> QED BY <1>4, <1>5, <1>6, <1>7, Movers

----------------------------------------------------------------------------
(* The theorem.                                                            *)

LEMMA ChildStep == ChildInv /\ [Next]_vars => ChildInv'
  <1> SUFFICES ASSUME ChildInv, [Next]_vars PROVE ChildInv'
    OBVIOUS
  <1>1. PICK s : s = snap' /\ Shaped(s) /\ crossed' \in BOOLEAN /\ (crossed' \/ Honest(s))
    BY SnapStep
  <1>2. Shaped(s)' /\ (Honest(s) => Honest(s)')
    BY <1>1, HonestStays, PastStands DEF Shaped
  <1>3. SnapTells'
    BY <1>1, <1>2 DEF SnapTells, Honest, Shaped
  <1> QED BY <1>3, PastStands, ReadsStep, WalkStep, CallsStep, TickStep DEF ChildInv

\* Whatever the child asks and writes, whatever lands in whatever order, however many ticks overlap, whatever
\* its parent shows and does, however long the ledger: until a tick crosses, the projection shows no row that
\* is older than the version it carries.
THEOREM ProjectionIsHonest == Ids # {} /\ Spec => []HonestChild
  <1>1. Ids # {} /\ Init => ChildInv
    <2> SUFFICES ASSUME Ids # {}, Init PROVE ChildInv
      OBVIOUS
    <2>1. PICK i \in Ids : log = <<[id |-> i, alive |-> TRUE]>>
      BY DEF Init
    <2>2. [id |-> i, alive |-> TRUE] \in Entries
      BY DEF Entries
    <2>3. log \in Seq(Entries) /\ seq = 1
      BY <2>1, <2>2 DEF seq
    <2>4. snap = [version |-> 0, rows |-> {}] /\ \A j \in Ids : RowOf({}, j) = {} /\ RowAt(j, 0) = {}
      BY DEF Init, RowOf, RowAt, Events
    <2>5. Honest(snap)
      <3>1. snap.version = 0 /\ snap.rows = {} /\ 0 \in 0..seq /\ Shaped(snap)
        BY <2>3, <2>4 DEF Shaped
      <3> QED BY <2>4, <3>1 DEF Honest
    <2>6. ReadsTell /\ WalkTells /\ CallsTell /\ TicksTell /\ crossed = FALSE
      BY DEF Init, ReadsTell, WalkTells, CallsTell, TicksTell
    <2> QED BY <2>3, <2>5, <2>6 DEF ChildInv, SnapTells, Honest
  <1>2. ChildInv => HonestChild
    BY DEF ChildInv, SnapTells, Honest, HonestChild, AlwaysHonest
  <1> QED BY <1>1, <1>2, ChildStep, PTL DEF Spec
=============================================================================
