-------------------------- MODULE WidgetSyncProofs --------------------------
(***************************************************************************)
(* The watermark of a widget, for any rows, positions, pages, restarts and *)
(* writes in flight: where one chain at a time looks for the writes of     *)
(* others, it is true of every row.                                        *)
(*                                                                         *)
(* The proof carries an account of the collection that the model does not  *)
(* keep: E, the numbers of its events, and P, every row any of them left.  *)
(* What the widget holds, a walk has gathered or a receipt carries is in   *)
(* P, so its version says which event left it; and that a receipt follows  *)
(* the watermark directly says that no event of E lies between.            *)
(***************************************************************************)
EXTENDS WidgetSync, FiniteSetTheorems, TLAPS

RowShape == [id : Ids, pos : Positions, ver : Nat]

WalkShape ==
  [attempt : Nat, pages : Nat, stamp : Nat \cup {None}, total : Nat, rows : SUBSET RowShape,
   cursor : RowShape \cup {None}, torn : BOOLEAN, truncated : BOOLEAN, done : BOOLEAN, again : BOOLEAN]

Receipts ==
  [kind : {"ok"}, id : Ids, deleted : BOOLEAN, seq : Nat, prev : Nat \cup {None}, item : RowShape \cup {None}]
Refusals == [kind : {"conflict", "error"}]
Calls == {Idle, [st |-> "sent"]} \cup [st : {"acked"}, ack : Receipts \cup Refusals]

Chains ==
  {Idle, [st |-> "walking"]} \cup [st : {"probed"}, seq : Nat] \cup [st : {"asked"}, since : Nat]
    \cup [st : {"told"}, moved : BOOLEAN, latest : Nat]

StoreTypes ==
  /\ seq \in Nat /\ collSeq \in Nat
  /\ table \in [Ids -> Positions \cup {None}] /\ last \in [Ids -> Nat]

PaintTypes ==
  /\ items \in SUBSET RowShape /\ IsFiniteSet(items)
  /\ version \in Nat /\ total \in Int /\ truncated \in BOOLEAN

\* A walk, and one that is done has fetched its first page.
Walks(w) == w \in WalkShape /\ IsFiniteSet(w.rows) /\ (w.done => w.stamp # None)
WalkTypes == walk # None => Walks(walk)

WidgetTypes ==
  /\ StoreTypes /\ PaintTypes /\ WalkTypes
  /\ writes \in [Writes -> Calls] /\ checks \in [Checks -> Chains]

----------------------------------------------------------------------------
(* Types.                                                                  *)

LEMMA RowTypes ==
  ASSUME StoreTypes
  PROVE  /\ \A i \in Ids : table[i] # None => RowOf(i) \in Rows /\ RowOf(i) \in RowShape
         /\ Rows \subseteq RowShape /\ IsFiniteSet(Rows)
         /\ Cardinality(Rows) = Cardinality({i \in Ids : table[i] # None})
  <1> DEFINE T == {i \in Ids : table[i] # None}
             f == [i \in T |-> RowOf(i)]
  <1>1. \A i \in T : RowOf(i) \in RowShape /\ RowOf(i).id = i
    BY DEF RowOf, RowShape, StoreTypes
  <1>2. Rows = {RowOf(i) : i \in T}
    BY DEF Rows
  <1>3. IsFiniteSet(T) /\ T \subseteq Ids
    BY IdsAssumption, FS_Subset
  <1> HIDE DEF T
  <1>4. f \in Bijection(T, Rows)
    BY <1>1, <1>2 DEF Bijection, Injection, Surjection, IsInjective
  <1>5. IsFiniteSet(Rows) /\ Cardinality(Rows) = Cardinality(T)
    BY <1>3, <1>4, FS_Bijection DEF ExistsBijection
  <1>6. \A i \in Ids : table[i] # None => i \in T
    BY DEF T
  <1> QED BY <1>1, <1>2, <1>5, <1>6 DEF T

\* A walk that has not begun.
LEMMA FreshTyped == Walks(Fresh)
  BY FS_EmptySet DEF Fresh, WalkShape, Walks

LEMMA AgainTyped ==
  ASSUME WalkTypes
  PROVE  /\ Walks(Triggered)
         /\ AfterWalk => WalkTypes'
  <1>1. Walks(Triggered)
    <2>1. CASE walk = None
      BY <2>1, FreshTyped DEF Triggered
    <2>2. CASE walk # None
      <3>1. Triggered = [walk EXCEPT !.again = TRUE] /\ Walks(walk)
        BY <2>2 DEF Triggered, WalkTypes
      <3>2. /\ Triggered \in WalkShape /\ Triggered.rows = walk.rows
            /\ Triggered.done = walk.done /\ Triggered.stamp = walk.stamp
        BY <3>1 DEF WalkShape, Walks
      <3> QED BY <3>1, <3>2 DEF Walks
    <2> QED BY <2>1, <2>2
  <1>2. AfterWalk => walk' = Fresh \/ walk' = None
    BY DEF AfterWalk
  <1> QED BY <1>1, <1>2, FreshTyped DEF WalkTypes

\* What a page does to a walk.
Page(got, more) ==
  /\ walk'.stamp = Stamp(walk)
  /\ walk'.total = IF walk.stamp = None THEN Cardinality(Rows) ELSE walk.total
  /\ walk'.rows = walk.rows \cup got
  /\ walk'.cursor = IF got = {} THEN walk.cursor ELSE CHOOSE r \in got : TRUE
  /\ walk'.done /\ ~walk'.truncated => ~more
  /\ walk'.again = walk.again

Rest == {r \in Rows : walk.cursor = None \/ Before(walk.cursor, r)}
Least(rest) == {r \in rest : \A s \in rest : r = s \/ Before(r, s)}
Restarted(w) == [Fresh EXCEPT !.attempt = w.attempt + 1, !.again = w.again]

LEMMA LeastIsOne ==
  ASSUME NEW rest \in SUBSET RowShape
  PROVE  Least(rest) = {} \/ \E g \in rest : Least(rest) = {g} /\ \A s \in rest : g = s \/ Before(g, s)
  <1>1. SUFFICES ASSUME NEW g \in Least(rest) PROVE Least(rest) = {g}
    BY DEF Least
  <1>2. ASSUME NEW r \in Least(rest), r # g PROVE FALSE
    <2>1. Before(r, g) /\ Before(g, r)
      BY <1>2 DEF Least
    <2>2. r.pos \in Nat /\ g.pos \in Nat /\ r.id \in Nat /\ g.id \in Nat
      BY LimitsAssumption, IdsAssumption DEF Least, RowShape
    <2> QED BY <2>1, <2>2 DEF Before
  <1> QED BY <1>2

LEMMA FetchIs ==
  ASSUME StoreTypes, WalkTypes, FetchPage
  PROVE  /\ walk # None /\ walk \in WalkShape /\ ~walk.done
         /\ Walks(walk')
         /\ walk' = Restarted(walk) \/ Page(Least(Rest), Rest # Least(Rest))
  <1> DEFINE got  == Least(Rest)
             tear == walk.stamp # None /\ walk.stamp # seq
             more == Rest # got
             full == walk.pages + 1 >= MaxPages
             next == [walk EXCEPT
                   !.pages = @ + 1,
                   !.stamp = Stamp(walk),
                   !.total = IF walk.stamp = None THEN Cardinality(Rows) ELSE @,
                   !.rows = @ \cup got,
                   !.cursor = IF got = {} THEN @ ELSE CHOOSE r \in got : TRUE,
                   !.torn = @ \/ tear,
                   !.truncated = more /\ full,
                   !.done = ~more \/ full]
  <1>1. walk # None /\ walk \in WalkShape /\ ~walk.done /\ IsFiniteSet(walk.rows)
    BY DEF FetchPage, WalkTypes, Walks
  <1>2. walk' = IF tear /\ MayRestart(walk) THEN Restarted(walk) ELSE next
    BY DEF FetchPage, Restarted, Rest, Least
  <1>3. Walks(Restarted(walk))
    <2>1. walk.attempt + 1 \in Nat /\ walk.again \in BOOLEAN
      BY <1>1 DEF WalkShape
    <2>2. /\ Restarted(walk) \in WalkShape /\ Restarted(walk).rows = Fresh.rows
          /\ Restarted(walk).done = Fresh.done /\ Restarted(walk).stamp = Fresh.stamp
      BY <2>1, FreshTyped DEF Restarted, WalkShape, Walks
    <2> QED BY <2>2, FreshTyped DEF Walks
  <1>4. Rest \subseteq RowShape /\ Cardinality(Rows) \in Nat /\ IsFiniteSet(Rest)
    BY RowTypes, FS_CardinalityType, FS_Subset DEF Rest
  <1>5. got \subseteq RowShape /\ IsFiniteSet(got)
    BY <1>4, FS_Subset DEF Least
  <1>6. (IF got = {} THEN walk.cursor ELSE CHOOSE r \in got : TRUE) \in RowShape \cup {None}
    <2> HIDE DEF got
    <2> QED BY <1>1, <1>5 DEF WalkShape
  <1>7. IsFiniteSet(walk.rows \cup got)
    BY <1>1, <1>5, FS_Union
  <1>8. Stamp(walk) \in Nat
    BY <1>1 DEF Stamp, WalkShape, StoreTypes
  <1>9. (IF walk.stamp = None THEN Cardinality(Rows) ELSE walk.total) \in Nat
    BY <1>1, <1>4 DEF WalkShape
  <1> HIDE DEF got
  <1>10. ASSUME walk' = next
         PROVE  walk' \in WalkShape /\ IsFiniteSet(walk'.rows) /\ Page(got, more)
    <2>1. /\ walk'.stamp = Stamp(walk)
          /\ walk'.total = IF walk.stamp = None THEN Cardinality(Rows) ELSE walk.total
          /\ walk'.rows = walk.rows \cup got
          /\ walk'.cursor = IF got = {} THEN walk.cursor ELSE CHOOSE r \in got : TRUE
          /\ walk'.truncated = (more /\ full) /\ walk'.done = (~more \/ full)
          /\ walk'.again = walk.again
      BY <1>1, <1>10 DEF WalkShape
    <2>2. /\ walk.pages + 1 \in Nat /\ walk.rows \cup got \in SUBSET RowShape
          /\ (walk.torn \/ tear) \in BOOLEAN /\ (more /\ full) \in BOOLEAN /\ (~more \/ full) \in BOOLEAN
      BY <1>1, <1>5 DEF WalkShape
    <2>3. walk' \in WalkShape
      <3> DEFINE a == Stamp(walk)
                 b == IF walk.stamp = None THEN Cardinality(Rows) ELSE walk.total
                 c == IF got = {} THEN walk.cursor ELSE CHOOSE r \in got : TRUE
                 d == walk.torn \/ tear
                 e == more /\ full
                 f == ~more \/ full
                 n == walk.pages + 1
                 t == walk.rows \cup got
      <3>1. walk' = [walk EXCEPT !.pages = n, !.stamp = a, !.total = b, !.rows = t, !.cursor = c, !.torn = d,
                                 !.truncated = e, !.done = f]
        BY <1>10
      <3>2. a \in Nat \cup {None} /\ b \in Nat /\ c \in RowShape \cup {None}
        BY <1>6, <1>8, <1>9
      <3>3. n \in Nat /\ t \in SUBSET RowShape /\ d \in BOOLEAN /\ e \in BOOLEAN /\ f \in BOOLEAN
        BY <2>2
      <3> HIDE DEF a, b, c, d, e, f, n, t
      <3> QED BY <1>1, <3>1, <3>2, <3>3 DEF WalkShape
    <2> QED BY <1>7, <2>1, <2>3 DEF Page
  <1>11. walk' = next => Walks(walk')
    BY <1>8, <1>10, NoneAssumption DEF Walks, Page
  <1> QED BY <1>1, <1>2, <1>3, <1>10, <1>11 DEF got

\* The rows a receipt may leave: as they are, with its row in the place of the first copy, or nothing to apply.
Without(i) == {items \ {r} : r \in FirstCopies(i)} \cup (IF Copies(items, i) = {} THEN {items} ELSE {})

LEMMA AppliedIs ==
  ASSUME items \in SUBSET RowShape, NEW a \in Receipts, NEW rows \in Applied(a), rows # None
  PROVE  \/ /\ rows = items
            /\ \E r \in FirstCopies(a.id) : r.ver > Position(a)
         \/ \E rest \in Without(a.id) :
              /\ \A r \in items \ rest : r.ver <= Position(a)
              /\ \/ a.deleted /\ rows = rest
                 \/ ~a.deleted /\ a.item # None /\ rows = rest \cup {a.item}
  <1> DEFINE With(old) == IF a.deleted THEN items \ old
                          ELSE IF a.item = None THEN None ELSE (items \ old) \cup {a.item}
  <1>1. CASE Copies(items, a.id) = {}
    <2>1. rows = With({})
      BY <1>1 DEF Applied
    <2>2. items \ {} = items /\ items \in Without(a.id)
      BY <1>1 DEF Without
    <2> QED BY <2>1, <2>2
  <1>2. CASE Copies(items, a.id) # {}
    <2>1. PICK r \in FirstCopies(a.id) : rows = IF r.ver > Position(a) THEN items ELSE With({r})
      BY <1>2 DEF Applied
    <2>2. CASE r.ver > Position(a)
      BY <2>1, <2>2
    <2>3. CASE ~ (r.ver > Position(a))
      <3>1. rows = With({r}) /\ items \ {r} \in Without(a.id)
        BY <2>1, <2>3 DEF Without
      <3>2. r \in RowShape
        BY DEF FirstCopies, Copies
      <3>3. r.ver \in Nat /\ Position(a) \in Nat
        BY <3>2 DEF Position, RowShape, Receipts
      <3>4. \A s \in items \ (items \ {r}) : s.ver <= Position(a)
        BY <2>3, <3>3
      <3> QED BY <3>1, <3>4
    <2> QED BY <2>2, <2>3
  <1> QED BY <1>1, <1>2

LEMMA AckTyped ==
  ASSUME WidgetTypes, NEW w \in Writes, writes[w].st = "acked"
  PROVE  /\ writes[w] = [st |-> "acked", ack |-> writes[w].ack]
         /\ writes[w].ack \in Receipts \cup Refusals
         /\ writes[w].ack.kind = "ok" => writes[w].ack \in Receipts
  <1>1. writes[w] \in Calls
    BY DEF WidgetTypes
  <1>2. writes[w] \in [st : {"acked"}, ack : Receipts \cup Refusals]
    BY <1>1 DEF Calls, Idle
  <1>3. writes[w].ack.kind = "ok" => writes[w].ack \in Receipts
    BY <1>2 DEF Receipts, Refusals
  <1> QED BY <1>2, <1>3

\* A call that comes back: a receipt that is applied, or one that is not.
LEMMA ReceiveIs ==
  ASSUME WidgetTypes, NEW w \in Writes, Receive(w)
  PROVE  LET a == writes[w].ack
         IN  /\ writes[w].st = "acked" /\ writes' = [writes EXCEPT ![w] = Idle]
             /\ UNCHANGED <<store, truncated, mount, checks>>
             /\ walk' = walk \/ walk' = Triggered
             /\ \/ UNCHANGED <<items, version, total>>
                \/ /\ a \in Receipts /\ Position(a) > version
                   /\ items' \in Applied(a) /\ items' # None
                   /\ total' = NewTotal(a, items')
                   /\ \/ version' = version
                      \/ /\ version' = a.seq /\ a.seq > version
                         /\ a.prev # None /\ a.prev <= version /\ Pending = 1
  <1> DEFINE a == writes[w].ack
             d == Decide(a)
             advance == d = "apply" /\ Pending = 1
  <1>1. /\ writes[w].st = "acked" /\ UNCHANGED <<store, truncated, mount, checks>>
        /\ writes' = [writes EXCEPT ![w] = Idle]
        /\ walk' = walk \/ walk' = Triggered
    <2>1. ASSUME NEW b, EndCall(w, b) PROVE writes' = [writes EXCEPT ![w] = Idle] /\ (walk' = walk \/ walk' = Triggered)
      BY <2>1 DEF EndCall
    <2>2. \E b : EndCall(w, b)
      BY Zenon DEF Receive
    <2> QED BY <2>1, <2>2 DEF Receive
  <1>2. CASE d \notin {"apply", "apply-refresh"}
    BY <1>1, <1>2 DEF Receive
  <1>3. CASE d \in {"apply", "apply-refresh"}
    <2>1. a.kind # "error" /\ a.kind # "conflict" /\ ~ (Position(a) <= version)
      BY <1>3 DEF Decide
    <2>2. a \in Receipts
      BY <1>1, <2>1, AckTyped DEF Receipts, Refusals
    <2>3. Position(a) \in Nat /\ version \in Nat /\ a.seq \in Nat
      BY <2>2 DEF Position, Receipts, RowShape, WidgetTypes, PaintTypes
    <2>4. Position(a) > version
      BY <2>1, <2>3
    <2>5. d = "apply" => a.prev # None /\ a.prev <= version
      BY <2>1 DEF Decide
    <2>6. PICK rows \in Applied(a) :
            IF rows # None
            THEN /\ items' = rows
                 /\ version' = IF advance /\ a.seq > version THEN a.seq ELSE version
                 /\ total' = NewTotal(a, rows)
            ELSE UNCHANGED <<items, shown, version, total>>
      BY <1>3 DEF Receive
    <2>7. CASE rows = None
      BY <1>1, <2>6, <2>7
    <2>8. CASE rows # None
      BY <1>1, <2>2, <2>4, <2>5, <2>6, <2>8
    <2> QED BY <2>7, <2>8
  <1> QED BY <1>2, <1>3
\* Whatever is applied is a set of rows again.
LEMMA AppliedTyped ==
  ASSUME PaintTypes, NEW a \in Receipts, NEW rows \in Applied(a), rows # None
  PROVE  rows \in SUBSET RowShape /\ IsFiniteSet(rows)
  <1>1. items \in SUBSET RowShape /\ IsFiniteSet(items)
    BY DEF PaintTypes
  <1>2. CASE rows = items
    BY <1>1, <1>2
  <1>3. CASE rows # items
    <2>0. \E rest \in Without(a.id) : rows = rest \/ (a.item # None /\ rows = rest \cup {a.item})
      <3>1. \E rest \in Without(a.id) :
              /\ \A r \in items \ rest : r.ver <= Position(a)
              /\ \/ a.deleted /\ rows = rest
                 \/ ~a.deleted /\ a.item # None /\ rows = rest \cup {a.item}
        BY <1>1, <1>3, AppliedIs, Zenon
      <3> QED BY <3>1, Zenon
    <2>1. PICK rest \in Without(a.id) : rows = rest \/ (a.item # None /\ rows = rest \cup {a.item})
      BY <2>0
    <2>2. rest \subseteq items /\ IsFiniteSet(rest)
      <3>1. rest \subseteq items
        BY DEF Without
      <3> QED BY <1>1, <3>1, FS_Subset
    <2>3. a.item # None => a.item \in RowShape /\ IsFiniteSet(rest \cup {a.item})
      BY <2>2, FS_AddElement DEF Receipts
    <2> QED BY <1>1, <2>1, <2>2, <2>3
  <1> QED BY <1>2, <1>3

LEMMA LogTyped ==
  ASSUME StoreTypes, NEW i \in Ids, NEW p \in Positions \cup {None}, Log(i, p)
  PROVE  StoreTypes'
  BY DEF Log, StoreTypes

LEMMA WritesTyped ==
  ASSUME writes \in [Writes -> Calls], NEW w, NEW v \in Calls, writes' = [writes EXCEPT ![w] = v]
  PROVE  writes' \in [Writes -> Calls]
  OBVIOUS

LEMMA ChecksTyped ==
  ASSUME checks \in [Checks -> Chains], NEW c, NEW v \in Chains, checks' = [checks EXCEPT ![c] = v]
  PROVE  checks' \in [Checks -> Chains]
  OBVIOUS

LEMMA AckIsCall ==
  ASSUME NEW a \in Receipts \cup Refusals
  PROVE  [st |-> "acked", ack |-> a] \in Calls
  BY DEF Calls

LEMMA ReceiptTyped ==
  ASSUME StoreTypes, NEW i \in Ids, NEW p \in Positions \cup {None}
  PROVE  Receipt(i, p) \in Receipts
  <1> DEFINE it == IF p = None THEN None ELSE [id |-> i, pos |-> p, ver |-> seq + 1]
  <1>1. it \in RowShape \cup {None}
    BY DEF RowShape, StoreTypes
  <1>2. Receipt(i, p) = [kind |-> "ok", id |-> i, deleted |-> p = None, seq |-> seq + 1, prev |-> collSeq, item |-> it]
    BY DEF Receipt
  <1> HIDE DEF it
  <1> QED BY <1>1, <1>2 DEF Receipts, StoreTypes

\* The receipt of a replay.
Again(a) == [a EXCEPT !.prev = None, !.item = IF a.deleted \/ table[a.id] = None THEN None ELSE RowOf(a.id)]

LEMMA ReplayIs ==
  ASSUME WidgetTypes, NEW w \in Writes, Replay(w)
  PROVE  LET a == writes[w].ack
         IN  /\ a \in Receipts /\ writes[w].st = "acked" /\ a.kind = "ok" /\ Again(a) \in Receipts
             /\ writes' = [writes EXCEPT ![w] = [st |-> "acked", ack |-> Again(a)]]
             /\ Again(a).prev = None /\ Again(a).seq = a.seq /\ Again(a).id = a.id /\ Again(a).kind = "ok"
             /\ Again(a).item # None => Again(a).item = RowOf(a.id) /\ table[a.id] # None
  <1> DEFINE a == writes[w].ack
             it == IF a.deleted \/ table[a.id] = None THEN None ELSE RowOf(a.id)
  <1>1. writes[w].st = "acked" /\ a.kind = "ok"
    BY DEF Replay
  <1>2. a \in Receipts /\ writes[w] = [st |-> "acked", ack |-> a]
    BY <1>1, AckTyped
  <1>3. a.id \in Ids
    BY <1>2 DEF Receipts
  <1>4. it \in RowShape \cup {None}
    BY <1>3, RowTypes DEF WidgetTypes
  <1>5. Again(a) = [a EXCEPT !.prev = None, !.item = it]
    BY DEF Again
  <1>6. writes' = [writes EXCEPT ![w].ack = Again(a)]
    BY DEF Replay, Again
  <1>7. writes' = [writes EXCEPT ![w] = [st |-> "acked", ack |-> Again(a)]]
    <2>1. [writes[w] EXCEPT !.ack = Again(a)] = [st |-> "acked", ack |-> Again(a)]
      BY <1>2
    <2> QED BY <1>6, <2>1
  <1>8. it # None => it = RowOf(a.id) /\ table[a.id] # None
    OBVIOUS
  <1> HIDE DEF it, a
  <1>9. /\ Again(a) \in Receipts /\ Again(a).prev = None /\ Again(a).seq = a.seq /\ Again(a).id = a.id
        /\ Again(a).kind = "ok" /\ Again(a).item = it
    BY <1>2, <1>4, <1>5 DEF Receipts
  <1> QED BY <1>1, <1>2, <1>7, <1>8, <1>9 DEF a

EndWrites(w) == writes' = [writes EXCEPT ![w] = Idle] /\ (walk' = walk \/ walk' = Triggered)

LEMMA EndCallIs == ASSUME NEW w, NEW b, EndCall(w, b) PROVE EndWrites(w)
  BY DEF EndCall, EndWrites

LEMMA TriggerTyped ==
  ASSUME WalkTypes, walk' = walk \/ walk' = Triggered
  PROVE  WalkTypes'
  <1>1. Walks(Triggered)
    BY AgainTyped
  <1> QED BY <1>1 DEF WalkTypes
----------------------------------------------------------------------------
(* The count.                                                              *)

Counted == WidgetTypes /\ TotalIsHonest

LEMMA CountInit == Init => Counted
  <1> SUFFICES ASSUME Init PROVE Counted
    OBVIOUS
  <1>1. Cardinality(Ids) \in Nat
    BY IdsAssumption, FS_CardinalityType
  <1>2. \A i \in Ids : Cardinality({j \in Ids : j <= i}) \in Nat
    <2>1. \A i \in Ids : IsFiniteSet({j \in Ids : j <= i})
      BY IdsAssumption, FS_Subset
    <2> QED BY <2>1, FS_CardinalityType
  <1>3. StoreTypes
    BY <1>1, <1>2 DEF Init, StoreTypes
  <1>4. PaintTypes /\ TotalIsHonest
    <2>1. items = {} /\ version = 0 /\ total = 0 /\ truncated = FALSE
      BY DEF Init
    <2>2. IsFiniteSet(items) /\ Cardinality(items) = 0
      BY <2>1, FS_EmptySet
    <2>3. version \in Nat /\ total \in Int /\ truncated \in BOOLEAN /\ items \in SUBSET RowShape
      <3>1. version \in Nat /\ total \in Int
        BY <2>1
      <3>2. truncated \in BOOLEAN
        BY <2>1, Zenon
      <3>3. items \in SUBSET RowShape
        BY <2>1, Zenon
      <3> QED BY <3>1, <3>2, <3>3
    <2>4. TotalIsHonest
      BY <2>1, <2>2 DEF TotalIsHonest
    <2> QED BY <2>2, <2>3, <2>4 DEF PaintTypes
  <1>5. WalkTypes
    BY FreshTyped DEF Init, WalkTypes
  <1>6. writes \in [Writes -> Calls] /\ checks \in [Checks -> Chains]
    BY DEF Init, Calls, Chains
  <1> QED BY <1>3, <1>4, <1>5, <1>6 DEF Counted, WidgetTypes

LEMMA CountStep == Counted /\ [Next]_vars => Counted'
  <1> SUFFICES ASSUME Counted, [Next]_vars PROVE Counted'
    OBVIOUS
  <1> USE DEF Counted, WidgetTypes
  <1>idle. Idle \in Calls /\ Idle \in Chains
    BY DEF Calls, Chains
  <1>paint. ASSUME UNCHANGED <<items, version, total, truncated>> PROVE PaintTypes' /\ TotalIsHonest'
    BY <1>paint DEF PaintTypes, TotalIsHonest
  <1>store. ASSUME UNCHANGED store PROVE StoreTypes'
    BY <1>store DEF store, StoreTypes
  <1>walk. ASSUME UNCHANGED walk PROVE WalkTypes'
    BY <1>walk DEF WalkTypes
  <1>1. ASSUME NEW i \in Ids, NEW p \in Positions \cup {None}, Foreign(i, p) PROVE Counted'
    <2>1. StoreTypes'
      BY <1>1, LogTyped DEF Foreign
    <2> QED BY <1>1, <1>paint, <1>walk, <2>1 DEF Foreign, paint
  <1>2. ASSUME NEW i \in Ids, NEW p \in Positions \cup {None}, NEW w \in Writes, Execute(w, i, p) PROVE Counted'
    <2>1. StoreTypes' /\ [st |-> "acked", ack |-> Receipt(i, p)] \in Calls
      BY <1>2, LogTyped, ReceiptTyped, AckIsCall DEF Execute
    <2>2. writes' = [writes EXCEPT ![w] = [st |-> "acked", ack |-> Receipt(i, p)]]
          /\ UNCHANGED <<paint, mount, walk, burst, checks, faults>>
      BY <1>2 DEF Execute
    <2> QED BY <1>paint, <1>walk, <2>1, <2>2, WritesTyped DEF paint
  <1>3. ASSUME Cleared PROVE Counted'
    <2>1. StoreTypes'
      BY <1>3 DEF Cleared, StoreTypes
    <2> QED BY <1>3, <1>paint, <1>walk, <2>1 DEF Cleared, paint
  <1>4. ASSUME Elsewhere PROVE Counted'
    <2>1. StoreTypes'
      BY <1>4 DEF Elsewhere, StoreTypes
    <2> QED BY <1>4, <1>paint, <1>walk, <2>1 DEF Elsewhere, paint
  <1>5. ASSUME FetchPage PROVE Counted'
    <2>1. WalkTypes'
      BY <1>5, FetchIs DEF WalkTypes
    <2>2. UNCHANGED <<store, paint, mount, writes, burst, checks, faults>>
      BY <1>5 DEF FetchPage
    <2> QED BY <1>paint, <1>store, <2>1, <2>2 DEF paint
  <1>6. ASSUME FinishWalk PROVE Counted'
    <2>1. WalkTypes' /\ UNCHANGED <<store, writes, checks>>
      BY <1>6, AgainTyped DEF FinishWalk
    <2>2. CASE CanAdopt(walk)
      <3>1. walk \in WalkShape /\ IsFiniteSet(walk.rows)
        BY <1>6 DEF FinishWalk, WalkTypes, Walks
      <3>2. items' = walk.rows /\ version' = walk.stamp /\ total' = walk.total /\ truncated' = walk.truncated
        BY <1>6, <2>2 DEF FinishWalk
      <3>3. walk.stamp >= version /\ (walk.truncated \/ Cardinality(walk.rows) = walk.total)
        BY <2>2 DEF CanAdopt
      <3>4. walk.stamp \in Nat
        BY <3>1, <1>6 DEF FinishWalk, WalkTypes, Walks, WalkShape
      <3>5. PaintTypes'
        BY <3>1, <3>2, <3>4 DEF PaintTypes, WalkShape
      <3>6. TotalIsHonest'
        BY <3>2, <3>3 DEF TotalIsHonest
      <3> QED BY <1>store, <2>1, <3>5, <3>6
    <2>3. CASE ~CanAdopt(walk)
      <3>1. UNCHANGED paint
        BY <1>6, <2>3 DEF FinishWalk
      <3> QED BY <1>paint, <1>store, <2>1, <3>1 DEF paint
    <2> QED BY <2>2, <2>3
  <1>7. ASSUME WalkFails PROVE Counted'
    <2>1. WalkTypes' /\ UNCHANGED <<store, paint, writes, checks>>
      BY <1>7, AgainTyped DEF WalkFails
    <2> QED BY <1>paint, <1>store, <2>1 DEF paint
  <1>8. ASSUME Flush PROVE Counted'
    BY <1>8, <1>paint, <1>store, <1>walk DEF Flush
  <1>9. ASSUME Refresh \/ Recover PROVE Counted'
    <2>1. walk' = Triggered /\ UNCHANGED <<store, paint, writes, checks>>
      BY <1>9 DEF Refresh, Recover
    <2>2. WalkTypes'
      BY <2>1, TriggerTyped
    <2> QED BY <1>paint, <1>store, <2>1, <2>2 DEF paint
  <1>10. ASSUME NEW w \in Writes, Send(w) PROVE Counted'
    <2>1. writes' = [writes EXCEPT ![w] = [st |-> "sent"]] /\ [st |-> "sent"] \in Calls
      BY <1>10 DEF Send, Calls
    <2>2. UNCHANGED <<store, paint, mount, walk, burst, checks, faults>>
      BY <1>10 DEF Send
    <2> QED BY <1>paint, <1>store, <1>walk, <2>1, <2>2, WritesTyped DEF paint
  <1>11. ASSUME NEW w \in Writes, NEW kind \in {"conflict", "error"}, Refuse(w, kind) PROVE Counted'
    <2>1. [st |-> "acked", ack |-> [kind |-> kind]] \in Calls
      BY AckIsCall DEF Refusals
    <2>2. /\ writes' = [writes EXCEPT ![w] = [st |-> "acked", ack |-> [kind |-> kind]]]
          /\ UNCHANGED <<store, paint, mount, walk, burst, checks, faults>>
      BY <1>11 DEF Refuse
    <2> QED BY <1>paint, <1>store, <1>walk, <2>1, <2>2, WritesTyped DEF paint
  <1>12. ASSUME NEW w \in Writes, Replay(w) PROVE Counted'
    <2>1. writes' \in [Writes -> Calls]
      BY <1>12, ReplayIs, AckIsCall, WritesTyped
    <2>2. UNCHANGED <<store, paint, mount, walk, burst, checks, faults>>
      BY <1>12 DEF Replay
    <2> QED BY <1>paint, <1>store, <1>walk, <2>1, <2>2 DEF paint
  <1>13. ASSUME NEW w \in Writes, Receive(w) PROVE Counted'
    <2> DEFINE a == writes[w].ack
    <2>1. /\ writes' = [writes EXCEPT ![w] = Idle] /\ UNCHANGED <<store, truncated, mount, checks>>
          /\ walk' = walk \/ walk' = Triggered
      BY <1>13, ReceiveIs
    <2>2. writes' \in [Writes -> Calls] /\ WalkTypes'
      BY <1>idle, <2>1, WritesTyped, TriggerTyped
    <2>3. CASE UNCHANGED <<items, version, total>>
      BY <1>paint, <1>store, <2>1, <2>2, <2>3
    <2>4. CASE ~UNCHANGED <<items, version, total>>
      <3>1. /\ a \in Receipts /\ items' \in Applied(a) /\ items' # None /\ total' = NewTotal(a, items')
            /\ version' = version \/ version' = a.seq
        BY <1>13, <2>4, ReceiveIs
      <3>2. items' \in SUBSET RowShape /\ IsFiniteSet(items')
        BY <3>1, AppliedTyped
      <3>3. Cardinality(items') \in Nat /\ Cardinality(items) \in Nat
        BY <3>2, FS_CardinalityType DEF PaintTypes
      <3>4. total' = total + Cardinality(items') - Cardinality(items)
        BY <3>1 DEF NewTotal
      <3>5. version' \in Nat
        BY <3>1 DEF Receipts, PaintTypes
      <3>6. PaintTypes' /\ TotalIsHonest'
        BY <2>1, <3>2, <3>3, <3>4, <3>5 DEF PaintTypes, TotalIsHonest
      <3> QED BY <1>store, <2>1, <2>2, <3>6
    <2> QED BY <2>3, <2>4
  <1>14. ASSUME NEW w \in Writes, Drop(w) PROVE Counted'
    <2>1. EndWrites(w) /\ UNCHANGED <<store, paint, mount, checks>>
      BY <1>14, EndCallIs DEF Drop
    <2>2. writes' \in [Writes -> Calls] /\ WalkTypes'
      BY <1>idle, <2>1, WritesTyped, TriggerTyped DEF EndWrites
    <2> QED BY <1>paint, <1>store, <2>1, <2>2 DEF paint
  <1>15. ASSUME NEW c \in Checks, Probe(c) \/ Heed(c) \/ Answer(c) \/ Resume(c) \/ CheckFails(c) PROVE Counted'
    <2>1. UNCHANGED <<store, paint, walk, writes>>
      BY <1>15 DEF Probe, Heed, Answer, Resume, CheckFails
    <2>2. \E v \in Chains : checks' = [checks EXCEPT ![c] = v]
      <3>1. [st |-> "probed", seq |-> seq] \in Chains /\ [st |-> "asked", since |-> version] \in Chains
        BY DEF Chains, StoreTypes, PaintTypes
      <3>2. [st |-> "told", moved |-> collSeq > checks[c].since, latest |-> seq] \in Chains
        BY DEF Chains, StoreTypes
      <3> QED BY <1>15, <1>idle, <3>1, <3>2 DEF Probe, Heed, Answer, Resume, CheckFails
    <2>3. checks' \in [Checks -> Chains]
      BY <2>2, ChecksTyped
    <2> QED BY <1>paint, <1>store, <1>walk, <2>1, <2>3 DEF paint
  <1>16. ASSUME NEW c \in Checks, Hear(c) PROVE Counted'
    <2>1. checks[c] \in Chains /\ checks[c].st = "told"
      BY <1>16 DEF Hear
    <2>2. checks[c].latest \in Nat
      BY <2>1 DEF Chains, Idle
    <2>3. [st |-> "walking"] \in Chains
      BY DEF Chains
    <2>4. UNCHANGED <<store, items, total, truncated, writes>>
      BY <1>16 DEF Hear
    <2>5. checks' \in [Checks -> Chains] /\ WalkTypes' /\ version' \in Nat
      <3>1. CASE checks[c].moved
        BY <1>16, <2>3, <3>1, ChecksTyped, TriggerTyped DEF Hear, PaintTypes
      <3>2. CASE ~checks[c].moved
        BY <1>16, <1>idle, <1>walk, <2>2, <3>2, ChecksTyped DEF Hear
      <3> QED BY <3>1, <3>2
    <2> QED BY <1>store, <2>4, <2>5 DEF PaintTypes, TotalIsHonest
  <1>17. ASSUME UNCHANGED vars PROVE Counted'
    BY <1>17, <1>paint, <1>store, <1>walk DEF vars, paint
  <1> QED BY <1>1, <1>2, <1>3, <1>4, <1>5, <1>6, <1>7, <1>8, <1>9, <1>10, <1>11, <1>12, <1>13, <1>14, <1>15,
             <1>16, <1>17 DEF Next
----------------------------------------------------------------------------
(* The account: E, the events of the collection, and P, the rows they left. *)

Ledger(E, P) ==
  /\ collSeq \in E /\ collSeq <= seq /\ \A e \in E : e <= collSeq
  /\ \A i \in Ids : last[i] \in E
  /\ Rows \subseteq P
  /\ \A r \in P : /\ r.ver \in E /\ r.ver <= last[r.id]
                  /\ \A j \in Ids : last[j] = r.ver => table[j] # None /\ r = RowOf(j)
  /\ \A r, s \in P : r.ver = s.ver => r = s

\* A receipt tells the truth, and one that names its predecessor says that no event lies between.
Truthful(a, E, P) ==
  /\ a.seq \in E /\ a.seq <= last[a.id]
  /\ a.item # None => a.item \in P /\ a.item.id = a.id
  /\ a.prev # None =>
       /\ a.prev \in E /\ a.prev < a.seq /\ \A e \in E : e <= a.prev \/ e >= a.seq
       /\ \A i \in Ids : last[i] = a.seq => i = a.id
       /\ a.deleted => a.item = None /\ \A r \in P : r.ver # a.seq
       /\ ~a.deleted => a.item # None /\ a.item.ver = a.seq

Acked(w) == writes[w].st = "acked" /\ writes[w].ack.kind = "ok"
Acks(E, P) == \A w \in Writes : Acked(w) => Truthful(writes[w].ack, E, P)

\* Of two copies of a row, at most one is as old as v, and it stands first.
OldFirst(rows, v) ==
  \A r, s \in rows : r.id = s.id /\ r # s /\ r.ver <= v => s.ver > v /\ r.pos < s.pos

\* What a walk has gathered since its stamp: of the rows no event touched since, all it has passed.
Passed(w, i) == (w.done /\ ~w.truncated) \/ (w.cursor # None /\ ~Before(w.cursor, RowOf(i)))
CountOf(w) == \E S \in SUBSET Ids : w.total = Cardinality(S) /\ \A j \in S : last[j] <= w.stamp => table[j] # None
Seen(w) ==
  /\ w.stamp <= seq
  /\ \A r \in w.rows : last[r.id] <= w.stamp => table[r.id] # None /\ r = RowOf(r.id)
  /\ OldFirst(w.rows, w.stamp)
  /\ \A i \in Ids : table[i] # None /\ last[i] <= w.stamp /\ Passed(w, i) => RowOf(i) \in w.rows
  /\ CountOf(w)

Walked(w, P) ==
  /\ w.rows \subseteq P
  /\ w.stamp = None => w.rows = {} /\ w.cursor = None
  /\ w.cursor = None => w.rows = {}
  /\ \A r \in w.rows : r = w.cursor \/ Before(r, w.cursor)
  /\ w.stamp # None => Seen(w)

\* The rows on screen: each once, or some twice and then no receipt can carry the watermark past
\* the collection's last event, or none can carry it at all.
Direct(a) == a.prev # None /\ a.prev <= version /\ version < a.seq
Single == \A r, s \in items : r.id = s.id => r = s
Twice ==
  /\ OldFirst(items, version) /\ collSeq > version
  /\ \A w \in Writes : Acked(w) /\ Direct(writes[w].ack) => collSeq > writes[w].ack.seq
Blocked ==
  /\ collSeq > version
  /\ \A w \in Writes : Acked(w) => writes[w].ack.prev = None \/ writes[w].ack.prev > version
OneOld == \A r, s \in items : r.id = s.id /\ r.ver <= version /\ s.ver <= version => r = s

Painted(P) ==
  /\ items \subseteq P /\ version <= seq
  /\ HonestWatermark
  /\ ~truncated => OneOld /\ (Single \/ Twice \/ Blocked)

\* A check that is told "nothing moved" may step to where the ledger was: no event lies between.
Checked(E) ==
  \A c \in Checks :
    /\ checks[c].st = "asked" => checks[c].since <= version
    /\ checks[c].st = "told" =>
         /\ checks[c].latest <= seq
         /\ checks[c].moved \/ \A e \in E : e <= version \/ e > checks[c].latest

Account(E, P) ==
  /\ Ledger(E, P) /\ Acks(E, P) /\ (walk # None => Walked(walk, P)) /\ Painted(P) /\ Checked(E)

SyncInv == Counted /\ \E E \in SUBSET Nat, P \in SUBSET RowShape : Account(E, P)

----------------------------------------------------------------------------
(* The writers.                                                            *)

LEMMA RowCopies ==
  ASSUME NEW i \in Ids
  PROVE  /\ Copies(Rows, i) = IF table[i] # None THEN {RowOf(i)} ELSE {}
         /\ Copies(Rows, i)' = IF table'[i] # None THEN {RowOf(i)'} ELSE {}
  BY DEF Copies, Rows, RowOf

\* An event of the collection: each row is as it was or bears the event, and one bears it at most.
Event ==
  /\ seq' = seq + 1 /\ collSeq' = seq + 1
  /\ \A i \in Ids : (table'[i] = table[i] /\ last'[i] = last[i]) \/ last'[i] = seq + 1
  /\ \A i, j \in Ids : table'[i] # None /\ last'[i] = seq + 1 /\ last'[j] = seq + 1 => i = j

LEMMA LogIsEvent ==
  ASSUME StoreTypes, NEW i \in Ids, NEW p \in Positions \cup {None}, Log(i, p),
         \A j \in Ids : last[j] <= seq
  PROVE  Event
  <1>1. /\ seq' = seq + 1 /\ collSeq' = seq + 1
        /\ table' = [table EXCEPT ![i] = p] /\ last' = [last EXCEPT ![i] = seq + 1]
    BY DEF Log
  <1>2. \A j \in Ids : j # i => table'[j] = table[j] /\ last'[j] = last[j] /\ last'[j] # seq + 1
    BY <1>1 DEF StoreTypes
  <1>3. last'[i] = seq + 1
    BY <1>1 DEF StoreTypes
  <1> QED BY <1>1, <1>2, <1>3 DEF Event

LEMMA ClearedIsEvent ==
  ASSUME StoreTypes, Cleared
  PROVE  Event
  <1>1. \A i \in Ids : table'[i] = None /\ last'[i] = IF table[i] = None THEN last[i] ELSE seq + 1
    BY DEF Cleared
  <1> QED BY <1>1 DEF Cleared, Event

\* What an event leaves alone.
LEMMA EventKeeps ==
  ASSUME StoreTypes, Event, NEW i \in Ids, NEW v, v <= seq, v \in Nat, StoreTypes'
  PROVE  /\ last'[i] <= v => /\ last[i] = last'[i] /\ table[i] = table'[i] /\ RowOf(i)' = RowOf(i)
                             /\ Copies(Rows, i)' = Copies(Rows, i)
         /\ last[i] <= seq => last[i] <= last'[i]
  <1>1. last'[i] <= v => last[i] = last'[i] /\ table[i] = table'[i]
    BY DEF Event, StoreTypes
  <1>2. last'[i] <= v => RowOf(i)' = RowOf(i)
    BY <1>1 DEF RowOf
  <1>3. last'[i] <= v => Copies(Rows, i)' = Copies(Rows, i)
    BY <1>1, <1>2, RowCopies
  <1> QED BY <1>1, <1>2, <1>3 DEF Event, StoreTypes
\* Every event is the collection's, and no row is newer than the last.
LEMMA LedgerBounds ==
  ASSUME StoreTypes, NEW E \in SUBSET Nat, NEW P, Ledger(E, P)
  PROVE  /\ \A e \in E : e \in Nat /\ e <= seq
         /\ \A i \in Ids : last[i] \in Nat /\ last[i] <= seq /\ last[i] <= collSeq
         /\ \A r \in P : r.ver \in Nat /\ r.ver <= seq
  <1>1. \A e \in E : e \in Nat /\ e <= seq /\ e <= collSeq
    BY DEF Ledger, StoreTypes
  <1>2. (\A i \in Ids : last[i] \in E) /\ (\A r \in P : r.ver \in E)
    BY DEF Ledger
  <1> QED BY <1>1, <1>2

LEMMA EventLedger ==
  ASSUME StoreTypes, StoreTypes', Event, NEW E \in SUBSET Nat, NEW P \in SUBSET RowShape, Ledger(E, P),
         NEW E2, E2 = E \cup {seq + 1}, NEW P2, P2 = P \cup Rows'
  PROVE  Ledger(E2, P2)'
  <1>1. /\ \A e \in E : e \in Nat /\ e <= seq
        /\ \A i \in Ids : last[i] \in Nat /\ last[i] <= seq
        /\ \A r \in P : r.ver \in Nat /\ r.ver <= seq
    BY LedgerBounds
  <1>2. seq \in Nat /\ seq' = seq + 1 /\ collSeq' = seq + 1
    BY DEF StoreTypes, Event
  <1>3. ASSUME NEW i \in Ids, last'[i] <= seq
        PROVE  last[i] = last'[i] /\ table[i] = table'[i] /\ RowOf(i)' = RowOf(i)
    BY <1>2, <1>3, EventKeeps
  <1>4. ASSUME NEW i \in Ids
        PROVE  last[i] <= last'[i] /\ last'[i] \in E2 /\ (last'[i] <= seq \/ last'[i] = seq + 1)
    BY <1>1, <1>2 DEF Event, Ledger
  <1>5. ASSUME NEW r \in P2
        PROVE  /\ r.ver \in E2 /\ r.ver <= last'[r.id]
               /\ \A j \in Ids : last'[j] = r.ver => table'[j] # None /\ r = RowOf(j)'
    <2>1. CASE r \in P
      <3>1. r.id \in Ids /\ r.ver \in Nat /\ r.ver <= seq /\ r.ver \in E /\ r.ver <= last[r.id]
        BY <1>1, <2>1 DEF RowShape, Ledger
      <3>2. r.ver <= last'[r.id]
        <4>1. last[r.id] <= last'[r.id] /\ last[r.id] \in Nat /\ last'[r.id] \in Nat
          BY <1>1, <1>4, <3>1 DEF StoreTypes
        <4> QED BY <3>1, <4>1
      <3>3. ASSUME NEW j \in Ids, last'[j] = r.ver PROVE table'[j] # None /\ r = RowOf(j)'
        <4>1. last'[j] <= seq
          BY <3>1, <3>3
        <4>2. last[j] = r.ver /\ table[j] = table'[j] /\ RowOf(j)' = RowOf(j)
          BY <1>3, <3>3, <4>1
        <4> QED BY <2>1, <4>2 DEF Ledger
      <3> QED BY <3>1, <3>2, <3>3
    <2>2. CASE r \in Rows'
      <3>1. PICK i \in Ids : table'[i] # None /\ r = RowOf(i)'
        BY <2>2 DEF Rows
      <3>2. r.id = i /\ r.ver = last'[i]
        BY <3>1 DEF RowOf
      <3>3. ASSUME NEW j \in Ids, last'[j] = last'[i] PROVE table'[j] # None /\ r = RowOf(j)'
        <4>1. CASE last'[i] <= seq
          <5>1. /\ RowOf(i)' = RowOf(i) /\ table[i] # None /\ last[i] = last'[i]
                /\ RowOf(j)' = RowOf(j) /\ table[j] = table'[j] /\ last[j] = last'[j]
            BY <1>3, <3>1, <3>3, <4>1
          <5>2. RowOf(i) \in P
            BY <5>1 DEF Rows, Ledger
          <5>3. RowOf(i).ver = last[j]
            BY <3>3, <5>1 DEF RowOf
          <5> QED BY <3>1, <5>1, <5>2, <5>3 DEF Ledger
        <4>2. CASE last'[i] = seq + 1
          BY <3>1, <3>3, <4>2 DEF Event
        <4> QED BY <1>4, <4>1, <4>2
      <3>4. last'[i] \in E2 /\ last'[i] <= last'[i]
        BY <1>4 DEF StoreTypes
      <3> QED BY <3>2, <3>3, <3>4
    <2> QED BY <2>1, <2>2
  <1>6. ASSUME NEW r \in P2, NEW s \in P2, r.ver = s.ver PROVE r = s
    <2>1. CASE r \in P /\ s \in P
      BY <1>6, <2>1 DEF Ledger
    <2>2. ASSUME NEW x \in Rows', NEW y \in P2, x.ver = y.ver PROVE x = y
      <3>1. PICK i \in Ids : table'[i] # None /\ x = RowOf(i)'
        BY <2>2 DEF Rows
      <3>2. last'[i] = y.ver
        BY <2>2, <3>1 DEF RowOf
      <3> QED BY <1>5, <3>1, <3>2
    <2>3. CASE r \in Rows'
      BY <1>6, <2>2, <2>3
    <2>4. CASE s \in Rows'
      BY <1>6, <2>2, <2>4
    <2> QED BY <2>1, <2>3, <2>4
  <1>7. collSeq' \in E2 /\ collSeq' <= seq' /\ \A e \in E2 : e <= collSeq'
    BY <1>1, <1>2
  <1>8. Rows' \subseteq P2
    OBVIOUS
  <1> QED BY <1>4, <1>5, <1>6, <1>7, <1>8 DEF Ledger

LEMMA EventTruthful ==
  ASSUME StoreTypes, StoreTypes', Event, NEW E \in SUBSET Nat, NEW P \in SUBSET RowShape, Ledger(E, P),
         NEW E2, E2 = E \cup {seq + 1}, NEW P2, P2 = P \cup Rows',
         NEW a \in Receipts, Truthful(a, E, P)
  PROVE  Truthful(a, E2, P2)'
  <1>1. /\ \A e \in E : e \in Nat /\ e <= seq
        /\ \A i \in Ids : last[i] \in Nat /\ last[i] <= seq
        /\ \A r \in P : r.ver \in Nat /\ r.ver <= seq
    BY LedgerBounds
  <1>2. seq \in Nat /\ a.seq \in Nat /\ a.seq <= seq /\ a.id \in Ids
    BY <1>1 DEF StoreTypes, Receipts, Truthful
  <1>3. \A i \in Ids : (last'[i] = last[i] /\ table'[i] = table[i]) \/ last'[i] = seq + 1
    BY DEF Event
  <1>4. a.seq \in E2 /\ a.seq <= last'[a.id]
    BY <1>1, <1>2, <1>3 DEF Truthful
  <1>5. a.item # None => a.item \in P2 /\ a.item.id = a.id
    BY DEF Truthful
  <1>6. ASSUME a.prev # None
        PROVE  /\ a.prev \in E2 /\ a.prev < a.seq /\ \A e \in E2 : e <= a.prev \/ e >= a.seq
               /\ \A i \in Ids : last'[i] = a.seq => i = a.id
               /\ a.deleted => a.item = None /\ \A r \in P2 : r.ver # a.seq
               /\ ~a.deleted => a.item # None /\ a.item.ver = a.seq
    <2>1. a.prev \in E2 /\ a.prev < a.seq /\ \A e \in E2 : e <= a.prev \/ e >= a.seq
      BY <1>2, <1>6 DEF Truthful
    <2>2. \A i \in Ids : last'[i] = a.seq => i = a.id
      BY <1>2, <1>3, <1>6 DEF Truthful
    <2>3. ASSUME a.deleted PROVE a.item = None /\ \A r \in P2 : r.ver # a.seq
      <3>1. a.item = None /\ \A r \in P : r.ver # a.seq
        BY <1>6, <2>3 DEF Truthful
      <3>2. ASSUME NEW r \in Rows', r.ver = a.seq PROVE FALSE
        <4>1. PICK i \in Ids : table'[i] # None /\ r = RowOf(i)'
          BY <3>2 DEF Rows
        <4>2. last'[i] = a.seq
          BY <3>2, <4>1 DEF RowOf
        <4>3. last[i] = last'[i] /\ table[i] = table'[i]
          BY <1>2, <1>3, <4>2
        <4>4. RowOf(i) \in P /\ RowOf(i).ver = a.seq
          BY <4>1, <4>2, <4>3 DEF Ledger, Rows, RowOf
        <4> QED BY <3>1, <4>4
      <3> QED BY <3>1, <3>2
    <2>4. ~a.deleted => a.item # None /\ a.item.ver = a.seq
      BY <1>6 DEF Truthful
    <2> QED BY <2>1, <2>2, <2>3, <2>4
  <1> QED BY <1>4, <1>5, <1>6 DEF Truthful

LEMMA EventWalked ==
  ASSUME StoreTypes, StoreTypes', Event, NEW E \in SUBSET Nat, NEW P \in SUBSET RowShape, Ledger(E, P),
         NEW P2, P2 = P \cup Rows', NEW w \in WalkShape, Walked(w, P)
  PROVE  Walked(w, P2)'
  <1>1. \A i \in Ids : last[i] \in Nat /\ last[i] <= seq
    BY LedgerBounds
  <1>2. seq \in Nat /\ seq' = seq + 1
    BY DEF StoreTypes, Event
  <1>3. ASSUME w.stamp # None PROVE Seen(w)'
    <2>1. w.stamp \in Nat /\ w.stamp <= seq /\ Seen(w)
      BY <1>3 DEF WalkShape, Walked, Seen
    <2>2. ASSUME NEW i \in Ids, last'[i] <= w.stamp
          PROVE  last[i] = last'[i] /\ table[i] = table'[i] /\ RowOf(i)' = RowOf(i)
      BY <2>1, <2>2, EventKeeps
    <2>3. \A r \in w.rows : r.id \in Ids
      BY DEF WalkShape, RowShape
    <2>4. \A r \in w.rows : last'[r.id] <= w.stamp => table'[r.id] # None /\ r = RowOf(r.id)'
      BY <2>1, <2>2, <2>3 DEF Seen
    <2>5. \A i \in Ids : table'[i] # None /\ last'[i] <= w.stamp /\ Passed(w, i)' => RowOf(i)' \in w.rows
      <3>1. SUFFICES ASSUME NEW i \in Ids, table'[i] # None, last'[i] <= w.stamp, Passed(w, i)'
                     PROVE  RowOf(i)' \in w.rows
        OBVIOUS
      <3>2. last[i] = last'[i] /\ table[i] = table'[i] /\ RowOf(i)' = RowOf(i)
        BY <2>2, <3>1
      <3>3. Passed(w, i)
        BY <3>1, <3>2 DEF Passed
      <3> QED BY <2>1, <3>1, <3>2, <3>3 DEF Seen
    <2>6. CountOf(w)'
      <3>1. PICK S \in SUBSET Ids : w.total = Cardinality(S) /\ \A j \in S : last[j] <= w.stamp => table[j] # None
        BY <2>1 DEF Seen, CountOf
      <3>2. \A j \in S : last'[j] <= w.stamp => table'[j] # None
        BY <2>2, <3>1
      <3> QED BY <3>1, <3>2 DEF CountOf
    <2>7. OldFirst(w.rows, w.stamp)' /\ w.stamp <= seq'
      BY <1>2, <2>1 DEF Seen, OldFirst
    <2> QED BY <2>4, <2>5, <2>6, <2>7 DEF Seen
  <1> QED BY <1>3 DEF Walked, Before

LEMMA EventChecked ==
  ASSUME StoreTypes, Event, NEW E \in SUBSET Nat, Checked(E), NEW E2, E2 = E \cup {seq + 1},
         UNCHANGED <<version, checks>>, checks \in [Checks -> Chains]
  PROVE  Checked(E2)'
  <1>1. seq \in Nat /\ seq' = seq + 1
    BY DEF StoreTypes, Event
  <1>2. SUFFICES ASSUME NEW c \in Checks, checks[c].st = "told"
                 PROVE  /\ checks[c].latest <= seq'
                        /\ checks[c].moved \/ \A e \in E2 : e <= version \/ e > checks[c].latest
    BY DEF Checked
  <1>3. checks[c] \in Chains
    OBVIOUS
  <1>4. checks[c].latest \in Nat
    BY <1>2, <1>3 DEF Chains, Idle
  <1> QED BY <1>1, <1>2, <1>4 DEF Checked
LEMMA EventPainted ==
  ASSUME StoreTypes, StoreTypes', PaintTypes, Event, NEW E \in SUBSET Nat, NEW P \in SUBSET RowShape,
         Ledger(E, P), Acks(E, P), Painted(P), NEW P2, P2 = P \cup Rows',
         UNCHANGED <<items, version, truncated>>,
         \A w \in Writes : Acked(w)' => \/ Acked(w) /\ writes'[w].ack = writes[w].ack
                                        \/ writes'[w].ack.prev = collSeq
  PROVE  Painted(P2)'
  <1>1. /\ \A e \in E : e \in Nat /\ e <= seq
        /\ \A i \in Ids : last[i] \in Nat /\ last[i] <= seq
    BY LedgerBounds
  <1>2. seq \in Nat /\ seq' = seq + 1 /\ collSeq' = seq + 1 /\ version \in Nat /\ version <= seq /\ collSeq \in Nat
    BY DEF StoreTypes, Event, PaintTypes, Painted
  <1>3. HonestWatermark'
    <2>1. SUFFICES ASSUME ~truncated, NEW i \in Ids, last'[i] <= version
                   PROVE  Copies(items, i)' = Copies(Rows, i)'
      BY DEF HonestWatermark
    <2>2. last[i] = last'[i] /\ Copies(Rows, i)' = Copies(Rows, i)
      BY <1>2, <2>1, EventKeeps
    <2>3. Copies(items, i) = Copies(Rows, i)
      BY <2>1, <2>2 DEF Painted, HonestWatermark
    <2> QED BY <2>2, <2>3 DEF Copies
  <1>4. ASSUME ~truncated PROVE OneOld' /\ (Single' \/ Twice' \/ Blocked')
    <2>1. OneOld'
      BY <1>4 DEF Painted, OneOld
    <2>2. CASE Single
      BY <2>1, <2>2 DEF Single
    <2>3. CASE Twice
      <3>1. ASSUME NEW w \in Writes, Acked(w)', Direct(writes[w].ack)' PROVE collSeq' > writes'[w].ack.seq
        <4>1. CASE Acked(w) /\ writes'[w].ack = writes[w].ack
          <5>1. writes[w].ack.seq \in E
            BY <4>1 DEF Acks, Truthful
          <5>2. PICK e \in E : e = writes[w].ack.seq
            BY <5>1
          <5>3. e \in Nat /\ e <= seq
            BY <1>1
          <5>4. collSeq' > e
            BY <1>2, <5>3
          <5> QED BY <4>1, <5>2, <5>4
        <4>2. CASE writes'[w].ack.prev = collSeq
          BY <1>2, <2>3, <3>1, <4>2 DEF Twice, Direct
        <4> QED BY <3>1, <4>1, <4>2
      <3>2. OldFirst(items, version)' /\ collSeq' > version'
        BY <1>2, <2>3 DEF Twice, OldFirst
      <3> QED BY <2>1, <3>1, <3>2 DEF Twice
    <2>4. CASE Blocked
      <3>1. ASSUME NEW w \in Writes, Acked(w)' PROVE writes'[w].ack.prev = None \/ writes'[w].ack.prev > version
        BY <1>2, <2>4, <3>1 DEF Blocked
      <3>2. collSeq' > version'
        BY <1>2
      <3> QED BY <2>1, <3>1, <3>2 DEF Blocked
    <2> QED BY <1>4, <2>2, <2>3, <2>4 DEF Painted
  <1> QED BY <1>2, <1>3, <1>4 DEF Painted

\* The receipt of an event, when the event is the widget's own.
LEMMA NewReceipt ==
  ASSUME StoreTypes, StoreTypes', NEW E \in SUBSET Nat, NEW P \in SUBSET RowShape, Ledger(E, P),
         NEW E2, E2 = E \cup {seq + 1}, NEW P2, P2 = P \cup Rows',
         NEW i \in Ids, NEW p \in Positions \cup {None}, Log(i, p), NEW a, a = Receipt(i, p)
  PROVE  Truthful(a, E2, P2)' /\ a.prev = collSeq
  <1>1. /\ \A e \in E : e \in Nat /\ e <= seq /\ e <= collSeq
        /\ \A j \in Ids : last[j] \in Nat /\ last[j] <= seq
        /\ \A r \in P : r.ver \in Nat /\ r.ver <= seq
    <2>1. collSeq \in E /\ \A e \in E : e <= collSeq
      BY DEF Ledger
    <2> QED BY <2>1, LedgerBounds
  <1>2. seq \in Nat /\ collSeq \in Nat /\ collSeq \in E /\ collSeq <= seq
    BY DEF StoreTypes, Ledger
  <1>3. /\ a.id = i /\ a.seq = seq + 1 /\ a.prev = collSeq /\ a.deleted = (p = None)
        /\ a.item = IF p = None THEN None ELSE [id |-> i, pos |-> p, ver |-> seq + 1]
    BY DEF Receipt
  <1>4. /\ table' = [table EXCEPT ![i] = p] /\ last' = [last EXCEPT ![i] = seq + 1]
    BY DEF Log
  <1>5. last'[i] = seq + 1 /\ table'[i] = p /\ \A j \in Ids : j # i => last'[j] = last[j] /\ table'[j] = table[j]
    BY <1>4 DEF StoreTypes
  <1>6. a.seq \in E2 /\ a.seq <= last'[a.id]
    BY <1>2, <1>3, <1>5
  <1>7. a.item # None => a.item \in P2 /\ a.item.id = a.id /\ a.item.ver = a.seq
    <2>1. SUFFICES ASSUME a.item # None PROVE a.item \in P2 /\ a.item.id = a.id /\ a.item.ver = a.seq
      OBVIOUS
    <2>2. p # None /\ a.item = [id |-> i, pos |-> p, ver |-> seq + 1]
      BY <1>3, <2>1
    <2>3. a.item = RowOf(i)' /\ table'[i] # None
      BY <1>5, <2>2 DEF RowOf
    <2>4. a.item \in Rows'
      BY <2>3 DEF Rows
    <2> QED BY <1>3, <2>2, <2>4
  <1>8. a.prev \in E2 /\ a.prev < a.seq /\ \A e \in E2 : e <= a.prev \/ e >= a.seq
    BY <1>1, <1>2, <1>3
  <1>9. \A j \in Ids : last'[j] = a.seq => j = a.id
    BY <1>1, <1>2, <1>3, <1>5
  <1>10. ASSUME a.deleted PROVE a.item = None /\ \A r \in P2 : r.ver # a.seq
    <2>1. p = None
      BY <1>3, <1>10
    <2>2. ASSUME NEW r \in Rows', r.ver = a.seq PROVE FALSE
      <3>1. PICK j \in Ids : table'[j] # None /\ r = RowOf(j)'
        BY <2>2 DEF Rows
      <3>2. last'[j] = a.seq
        BY <2>2, <3>1 DEF RowOf
      <3> QED BY <1>3, <1>5, <1>9, <2>1, <3>1, <3>2
    <2>3. \A r \in P : r.ver # a.seq
      BY <1>1, <1>2, <1>3
    <2> QED BY <1>3, <2>1, <2>2, <2>3
  <1>11. ~a.deleted => a.item # None
    <2>1. SUFFICES ASSUME p # None PROVE a.item # None
      BY <1>3
    <2>2. p \in Positions /\ a.item = [id |-> i, pos |-> p, ver |-> seq + 1]
      BY <1>3, <2>1
    <2>3. a.item \in RowShape
      BY <1>2, <2>2 DEF RowShape
    <2> QED BY <2>3, NoneAssumption DEF RowShape
  <1> QED BY <1>3, <1>6, <1>7, <1>8, <1>9, <1>10, <1>11 DEF Truthful

\* Every writer keeps the account, with one more event and the rows it leaves.
LEMMA WriterStep ==
  ASSUME WidgetTypes, StoreTypes', Event, NEW E \in SUBSET Nat, NEW P \in SUBSET RowShape, Account(E, P),
         UNCHANGED <<paint, walk, checks>>,
         \A w \in Writes : Acked(w)' =>
           \/ Acked(w) /\ writes'[w].ack = writes[w].ack
           \/ \E i \in Ids, p \in Positions \cup {None} : Log(i, p) /\ writes'[w].ack = Receipt(i, p)
  PROVE  \E E2 \in SUBSET Nat, P2 \in SUBSET RowShape : Account(E2, P2)'
  <1> USE DEF WidgetTypes
  <1>1. PICK E2 : E2 = E \cup {seq + 1}
    OBVIOUS
  <1>2. PICK P2 : P2 = P \cup Rows'
    OBVIOUS
  <1>3. E2 \in SUBSET Nat
    <2>1. seq + 1 \in Nat
      BY DEF StoreTypes
    <2> QED BY <1>1, <2>1
  <1>4. P2 \in SUBSET RowShape
    <2>1. Rows' \subseteq RowShape
      BY DEF StoreTypes, Rows, RowOf, RowShape
    <2> QED BY <1>2, <2>1
  <1>5. Ledger(E, P) /\ Acks(E, P) /\ (walk # None => Walked(walk, P)) /\ Painted(P) /\ Checked(E)
    BY DEF Account
  <1>6. Ledger(E2, P2)'
    BY <1>1, <1>2, <1>5, EventLedger
  <1>7. Checked(E2)'
    BY <1>1, <1>5, EventChecked DEF paint
  <1>8. (walk # None => Walked(walk, P2))'
    <2>1. SUFFICES ASSUME walk # None PROVE Walked(walk, P2)'
      OBVIOUS
    <2>2. PICK w : w = walk
      OBVIOUS
    <2>3. Walked(w, P2)'
      BY <1>2, <1>5, <2>1, <2>2, EventWalked DEF WalkTypes, Walks
    <2>4. walk' = w
      BY <2>2
    <2> QED BY <2>3, <2>4 DEF Walked, Seen, Passed, CountOf, OldFirst, Before
  <1>9. ASSUME NEW w \in Writes, Acked(w)'
        PROVE  /\ Truthful(writes[w].ack, E2, P2)'
               /\ \/ Acked(w) /\ writes'[w].ack = writes[w].ack
                  \/ writes'[w].ack.prev = collSeq
    <2>1. CASE Acked(w) /\ writes'[w].ack = writes[w].ack
      <3>1. PICK a : a = writes[w].ack
        OBVIOUS
      <3>2. a \in Receipts /\ Truthful(a, E, P)
        BY <1>5, <2>1, <3>1, AckTyped DEF Acks, Acked
      <3>3. Truthful(a, E2, P2)'
        BY <1>1, <1>2, <1>5, <3>2, EventTruthful
      <3>4. writes'[w].ack = a
        BY <2>1, <3>1
      <3> QED BY <2>1, <3>3, <3>4 DEF Truthful
    <2>2. ASSUME NEW i \in Ids, NEW p \in Positions \cup {None}, Log(i, p), writes'[w].ack = Receipt(i, p)
          PROVE  Truthful(writes[w].ack, E2, P2)' /\ writes'[w].ack.prev = collSeq
      <3>1. PICK a : a = Receipt(i, p)
        OBVIOUS
      <3>2. Truthful(a, E2, P2)' /\ a.prev = collSeq
        <4>1. StoreTypes /\ Ledger(E, P) /\ Log(i, p)
          BY <1>5, <2>2
        <4> QED BY <1>1, <1>2, <3>1, <4>1, NewReceipt
      <3>3. writes'[w].ack = a
        BY <2>2, <3>1
      <3> QED BY <3>2, <3>3 DEF Truthful
    <2> QED BY <1>9, <2>1, <2>2
  <1>10. Acks(E2, P2)'
    BY <1>9 DEF Acks
  <1>11. Painted(P2)'
    <2>1. \A w \in Writes : Acked(w)' => \/ Acked(w) /\ writes'[w].ack = writes[w].ack
                                         \/ writes'[w].ack.prev = collSeq
      BY <1>9
    <2> QED BY <1>2, <1>5, <2>1, EventPainted DEF paint
  <1>12. Account(E2, P2)'
    BY <1>6, <1>7, <1>8, <1>10, <1>11 DEF Account
  <1> QED BY <1>3, <1>4, <1>12
----------------------------------------------------------------------------
(* The walk.                                                               *)

LEMMA WalkedStays ==
  ASSUME UNCHANGED store, NEW P, NEW w, Walked(w, P)
  PROVE  Walked(w, P)'
  BY DEF store, Walked, Seen, Passed, CountOf, OldFirst, Before, RowOf

LEMMA FreshWalked == ASSUME NEW P PROVE Walked(Fresh, P)
  BY DEF Walked, Fresh

LEMMA TriggerWalked ==
  ASSUME WalkTypes, UNCHANGED store, NEW P, walk # None => Walked(walk, P), walk' = walk \/ walk' = Triggered
  PROVE  (walk # None => Walked(walk, P))'
  <1>1. PICK w : w = walk'
    OBVIOUS
  <1>2. SUFFICES ASSUME w # None PROVE Walked(w, P)'
    BY <1>1
  <1>3. Walked(w, P)
    <2>1. CASE walk = None
      <3>1. w = Fresh
        BY <1>1, <1>2, <2>1 DEF Triggered
      <3> QED BY <3>1, FreshWalked
    <2>2. CASE walk # None
      <3>1. walk \in WalkShape /\ Walked(walk, P)
        BY <2>2 DEF WalkTypes, Walks
      <3>2. w = walk \/ w = [walk EXCEPT !.again = TRUE]
        BY <1>1, <2>2 DEF Triggered
      <3>3. /\ w.rows = walk.rows /\ w.stamp = walk.stamp /\ w.cursor = walk.cursor /\ w.total = walk.total
            /\ w.done = walk.done /\ w.truncated = walk.truncated
        BY <3>1, <3>2 DEF WalkShape
      <3> QED BY <3>1, <3>3 DEF Walked, Seen, Passed, CountOf
    <2> QED BY <2>1, <2>2
  <1> QED BY <1>3, WalkedStays

LEMMA AfterWalked ==
  ASSUME AfterWalk, UNCHANGED store, NEW P
  PROVE  (walk # None => Walked(walk, P))'
  <1>1. PICK w : w = Fresh
    OBVIOUS
  <1>2. Walked(w, P)'
    BY <1>1, FreshWalked, WalkedStays
  <1>3. walk' = w \/ walk' = None
    BY <1>1 DEF AfterWalk
  <1> QED BY <1>2, <1>3 DEF Walked, Seen, Passed, CountOf

LEMMA BeforeOrder ==
  ASSUME NEW r \in RowShape, NEW s \in RowShape, NEW t \in RowShape
  PROVE  /\ Before(r, s) /\ Before(s, t) => Before(r, t)
         /\ ~Before(r, r)
         /\ Before(r, s) /\ r.id = s.id => r.pos < s.pos
         /\ ~(Before(r, s) /\ Before(s, r))
  <1>1. /\ r.pos \in Nat /\ s.pos \in Nat /\ t.pos \in Nat
        /\ r.id \in Nat /\ s.id \in Nat /\ t.id \in Nat
    BY LimitsAssumption, IdsAssumption DEF RowShape
  <1> QED BY <1>1 DEF Before

LEMMA PageWalked ==
  ASSUME StoreTypes, walk \in WalkShape, ~walk.done, NEW E \in SUBSET Nat, NEW P \in SUBSET RowShape, Ledger(E, P),
         Walked(walk, P), Page(Least(Rest), Rest # Least(Rest)), NEW w \in WalkShape, w = walk'
  PROVE  Walked(w, P)
  <1> DEFINE got == Least(Rest)
  <1>1. /\ w.stamp = Stamp(walk)
        /\ w.total = IF walk.stamp = None THEN Cardinality(Rows) ELSE walk.total
        /\ w.rows = walk.rows \cup got
        /\ w.cursor = IF got = {} THEN walk.cursor ELSE CHOOSE r \in got : TRUE
        /\ w.done /\ ~w.truncated => Rest = got
    BY DEF Page
  <1>2. w.stamp \in Nat /\ w.stamp <= seq /\ (walk.stamp # None => w.stamp = walk.stamp) /\ seq \in Nat
    BY <1>1 DEF Stamp, StoreTypes, WalkShape, Walked, Seen
  <1>3. Rest \subseteq Rows /\ Rows \subseteq P /\ Rows \subseteq RowShape
    BY RowTypes DEF Rest, Ledger
  <1>4. got = {} \/ \E g \in Rest : got = {g} /\ \A s \in Rest : g = s \/ Before(g, s)
    BY <1>3, LeastIsOne
  <1>5. got \subseteq Rest
    BY DEF Least
  <1> HIDE DEF got
  <1>6. \A r \in got : r.id \in Ids /\ table[r.id] # None /\ r = RowOf(r.id) /\ r.ver = last[r.id]
    <2>1. \A r \in Rows : r.id \in Ids /\ table[r.id] # None /\ r = RowOf(r.id) /\ r.ver = last[r.id]
      BY DEF Rows, RowOf
    <2> QED BY <1>3, <1>5, <2>1
  <1>7. got = {} => w.cursor = walk.cursor /\ w.rows = walk.rows
    BY <1>1
  <1>8. ASSUME NEW g \in got PROVE got = {g} /\ w.cursor = g /\ g \in Rest /\ g \in RowShape /\ w.cursor # None
    <2>1. got = {g} /\ g \in Rest
      BY <1>4
    <2>2. w.cursor = g
      BY <1>1, <2>1
    <2>3. g \in RowShape
      BY <1>3, <2>1
    <2> QED BY <2>1, <2>2, <2>3, NoneAssumption DEF RowShape
  <1>9. walk.rows \subseteq RowShape /\ (walk.cursor = None => walk.rows = {})
        /\ \A r \in walk.rows : r = walk.cursor \/ Before(r, walk.cursor)
    BY DEF WalkShape, Walked
  \* The rows gathered stand before the row just fetched.
  <1>10. ASSUME NEW g \in got, NEW r \in walk.rows PROVE Before(r, g) /\ r # g
    <2>1. walk.cursor # None /\ walk.cursor \in RowShape /\ r \in RowShape
      BY <1>9 DEF WalkShape
    <2>2. Before(walk.cursor, g) /\ g \in RowShape
      BY <1>8, <2>1 DEF Rest
    <2> QED BY <1>9, <2>1, <2>2, BeforeOrder
  <1>11. \A r \in w.rows : r = w.cursor \/ Before(r, w.cursor)
    BY <1>1, <1>7, <1>8, <1>9, <1>10
  <1>12. w.cursor = None => w.rows = {}
    BY <1>7, <1>8, <1>9
  <1>13. w.rows \subseteq P
    BY <1>1, <1>3, <1>5 DEF Walked
  <1>14. ASSUME NEW r \in walk.rows, last[r.id] <= w.stamp PROVE table[r.id] # None /\ r = RowOf(r.id)
    <2>1. walk.stamp # None
      BY DEF Walked
    <2> QED BY <1>2, <1>14, <2>1 DEF Walked, Seen
  <1>15. \A r \in w.rows : last[r.id] <= w.stamp => table[r.id] # None /\ r = RowOf(r.id)
    BY <1>1, <1>6, <1>14
  <1>16. OldFirst(w.rows, w.stamp)
    <2>1. SUFFICES ASSUME NEW r \in w.rows, NEW s \in w.rows, r.id = s.id, r # s, r.ver <= w.stamp
                   PROVE  s.ver > w.stamp /\ r.pos < s.pos
      BY DEF OldFirst
    <2>2. CASE r \in walk.rows /\ s \in walk.rows
      <3>1. walk.stamp # None
        BY <2>2 DEF Walked
      <3> QED BY <1>2, <2>1, <2>2, <3>1 DEF Walked, Seen, OldFirst
    <2>3. CASE r \in got
      <3>1. s \in walk.rows
        BY <1>1, <1>8, <2>1, <2>3
      <3>2. r.ver = last[r.id] /\ r = RowOf(r.id)
        BY <1>6, <2>3
      <3>3. s = RowOf(s.id)
        BY <1>14, <2>1, <3>1, <3>2
      <3> QED BY <2>1, <3>2, <3>3
    <2>4. CASE r \in walk.rows /\ s \in got
      <3>1. Before(r, s) /\ r \in RowShape /\ s \in RowShape
        BY <1>8, <1>9, <1>10, <2>4
      <3>2. r.pos < s.pos
        BY <2>1, <3>1, BeforeOrder
      <3>3. s.ver = last[s.id] /\ s = RowOf(s.id)
        BY <1>6, <2>4
      <3>4. ASSUME s.ver <= w.stamp PROVE FALSE
        BY <1>14, <2>1, <2>4, <3>3, <3>4
      <3>5. s.ver \in Nat
        BY <3>1 DEF RowShape
      <3> QED BY <1>2, <3>2, <3>4, <3>5
    <2> QED BY <1>1, <2>2, <2>3, <2>4
  <1>17. ASSUME NEW i \in Ids, table[i] # None, last[i] <= w.stamp, Passed(w, i) PROVE RowOf(i) \in w.rows
    <2>1. RowOf(i) \in Rows
      BY <1>17 DEF Rows
    <2>2. CASE RowOf(i) \in Rest
      <3>1. CASE RowOf(i) \in got
        BY <1>1, <3>1
      <3>2. CASE RowOf(i) \notin got
        <4>1. ~ (w.done /\ ~w.truncated)
          BY <1>1, <2>2, <3>2
        <4>2. w.cursor # None /\ ~Before(w.cursor, RowOf(i))
          BY <1>17, <4>1 DEF Passed
        <4>3. PICK g \in got : TRUE
          BY <1>7, <2>2, <4>2 DEF Rest
        <4>4. RowOf(i) = g \/ Before(g, RowOf(i))
          <5>1. \A s \in Rest : g = s \/ Before(g, s)
            BY <1>4, <4>3
          <5> QED BY <2>2, <5>1
        <4> QED BY <1>8, <3>2, <4>2, <4>3, <4>4
      <3> QED BY <3>1, <3>2
    <2>3. CASE RowOf(i) \notin Rest
      <3>1. walk.cursor # None /\ ~Before(walk.cursor, RowOf(i))
        BY <2>1, <2>3 DEF Rest
      <3>2. walk.stamp # None
        BY <3>1 DEF Walked
      <3> QED BY <1>1, <1>2, <1>17, <3>1, <3>2 DEF Walked, Seen, Passed
    <2> QED BY <2>2, <2>3
  <1>18. CountOf(w)
    <2>1. CASE walk.stamp = None
      <3>1. w.total = Cardinality({j \in Ids : table[j] # None})
        BY <1>1, <2>1, RowTypes
      <3> QED BY <3>1 DEF CountOf
    <2>2. CASE walk.stamp # None
      BY <1>1, <1>2, <2>2 DEF Walked, Seen, CountOf
    <2> QED BY <2>1, <2>2
  <1>19. w.stamp # None
    BY <1>2, NoneAssumption
  <1> QED BY <1>2, <1>11, <1>12, <1>13, <1>15, <1>16, <1>17, <1>18, <1>19 DEF Walked, Seen
LEMMA FetchWalked ==
  ASSUME StoreTypes, WalkTypes, NEW E \in SUBSET Nat, NEW P \in SUBSET RowShape, Ledger(E, P),
         Walked(walk, P), FetchPage, UNCHANGED store
  PROVE  (walk # None => Walked(walk, P))'
  <1>1. PICK w : w = walk'
    OBVIOUS
  <1>2. /\ walk \in WalkShape /\ ~walk.done /\ Walks(w)
        /\ w = Restarted(walk) \/ Page(Least(Rest), Rest # Least(Rest))
    BY <1>1, FetchIs
  <1>3. Walked(w, P)
    <2>1. CASE w = Restarted(walk)
      <3>1. w.rows = {} /\ w.stamp = None /\ w.cursor = None
        BY <2>1 DEF Restarted, Fresh
      <3> QED BY <3>1 DEF Walked
    <2>2. CASE Page(Least(Rest), Rest # Least(Rest))
      BY <1>1, <1>2, <2>2, PageWalked DEF Walks
    <2> QED BY <1>2, <2>1, <2>2
  <1>4. Walked(w, P)'
    BY <1>3, WalkedStays
  <1> QED BY <1>1, <1>4 DEF Walked, Seen, Passed, CountOf, OldFirst, Before

----------------------------------------------------------------------------
(* Painting.                                                               *)

LEMMA LedgerStays ==
  ASSUME UNCHANGED store, NEW E, NEW P
  PROVE  /\ Ledger(E, P) => Ledger(E, P)'
         /\ \A a \in Receipts : Truthful(a, E, P) => Truthful(a, E, P)'
         /\ \A i \in Ids : Copies(Rows, i)' = Copies(Rows, i)
  BY DEF store, Ledger, Truthful, Rows, RowOf, Copies

\* No new receipt: the ones that are left are the old ones, or replays.
Fewer == \A w \in Writes : Acked(w)' => Acked(w) /\ (writes'[w].ack = writes[w].ack \/ writes'[w].ack.prev = None)

LEMMA PaintedStays ==
  ASSUME UNCHANGED <<store, items, version, truncated>>, Fewer, NEW P, Painted(P)
  PROVE  Painted(P)'
  <1>1. collSeq' = collSeq /\ seq' = seq /\ last' = last
    BY DEF store
  <1>2. HonestWatermark'
    BY <1>1, LedgerStays DEF Painted, HonestWatermark, Copies
  <1>3. ASSUME ~truncated PROVE OneOld' /\ (Single' \/ Twice' \/ Blocked')
    <2>1. OneOld'
      BY <1>3 DEF Painted, OneOld
    <2>2. CASE Single
      BY <2>1, <2>2 DEF Single
    <2>3. CASE Twice
      <3>1. \A w \in Writes : Acked(w)' /\ Direct(writes[w].ack)' => Acked(w) /\ Direct(writes[w].ack) /\ writes'[w].ack = writes[w].ack
        BY DEF Fewer, Direct
      <3>2. \A w \in Writes : Acked(w)' /\ Direct(writes[w].ack)' => collSeq' > writes'[w].ack.seq
        BY <1>1, <2>3, <3>1 DEF Twice
      <3>3. OldFirst(items, version)' /\ collSeq' > version'
        BY <1>1, <2>3 DEF Twice, OldFirst
      <3> QED BY <2>1, <3>2, <3>3 DEF Twice
    <2>4. CASE Blocked
      BY <1>1, <2>1, <2>4 DEF Blocked, Fewer
    <2> QED BY <1>3, <2>2, <2>3, <2>4 DEF Painted
  <1> QED BY <1>1, <1>2, <1>3 DEF Painted

\* As many rows as ids to hold them, and a row for each: no row is there twice.
LEMMA Counting ==
  ASSUME NEW S \in SUBSET Ids, NEW rows, IsFiniteSet(rows), Cardinality(S) = Cardinality(rows),
         NEW f \in [S -> rows], \A x \in S : f[x].id = x
  PROVE  \A r, s \in rows : r.id = s.id => r = s
  <1>1. IsFiniteSet(S)
    BY IdsAssumption, FS_Subset
  <1>2. f \in Injection(S, rows)
    BY DEF Injection, IsInjective
  <1>3. \A r \in rows : \E x \in S : f[x] = r
    <2> DEFINE image == {f[x] : x \in S}
    <2>1. image \subseteq rows
      OBVIOUS
    <2>2. f \in Bijection(S, image)
      BY DEF Injection, Bijection, Surjection, IsInjective
    <2>3. Cardinality(image) = Cardinality(S)
      BY <1>1, <2>2, FS_Bijection DEF ExistsBijection
    <2> HIDE DEF image
    <2>4. image = rows
      BY <2>1, <2>3, FS_Subset
    <2> QED BY <2>4 DEF image
  <1> QED BY <1>3

LEMMA AdoptPainted ==
  ASSUME StoreTypes, PaintTypes, UNCHANGED store, NEW E \in SUBSET Nat, NEW P \in SUBSET RowShape,
         Ledger(E, P), Acks(E, P), WidgetTypes, UNCHANGED writes,
         NEW w, Walks(w), Walked(w, P), w.done, CanAdopt(w),
         items' = w.rows, version' = w.stamp, truncated' = w.truncated
  PROVE  Painted(P)'
  <1> DEFINE st == w.stamp
  <1>1. /\ \A e \in E : e \in Nat /\ e <= seq /\ e <= collSeq
        /\ \A i \in Ids : last[i] \in Nat /\ last[i] \in E /\ last[i] <= collSeq
        /\ \A r \in P : r.ver \in Nat /\ r.ver \in E
    <2>1. /\ \A i \in Ids : last[i] \in E
          /\ \A r \in P : r.ver \in E
          /\ \A e \in E : e <= collSeq
      BY DEF Ledger
    <2> QED BY <2>1, LedgerBounds
  <1>2. w \in WalkShape /\ IsFiniteSet(w.rows) /\ st \in Nat /\ st <= seq /\ Seen(w) /\ collSeq \in Nat
    BY DEF Walks, WalkShape, Walked, Seen, StoreTypes
  <1> HIDE DEF st
  <1>3. w.rows \subseteq P /\ w.rows \subseteq RowShape
    BY DEF Walked, Walks, WalkShape
  <1>4. collSeq' = collSeq /\ seq' = seq /\ last' = last /\ table' = table
    BY DEF store
  <1>5. ASSUME ~w.truncated, NEW i \in Ids, last[i] <= st PROVE Copies(w.rows, i) = Copies(Rows, i)
    <2>1. \A r \in w.rows : r.id = i => table[i] # None /\ r = RowOf(i)
      BY <1>2, <1>5 DEF Seen, st
    <2>2. table[i] # None => RowOf(i) \in w.rows
      BY <1>2, <1>5 DEF Seen, Passed, st
    <2>3. RowOf(i).id = i
      BY DEF RowOf
    <2>4. Copies(w.rows, i) = IF table[i] # None THEN {RowOf(i)} ELSE {}
      BY <2>1, <2>2, <2>3 DEF Copies
    <2> QED BY <2>4, RowCopies
  <1>6. HonestWatermark'
    <2>1. SUFFICES ASSUME ~w.truncated, NEW i \in Ids, last[i] <= st
                   PROVE  Copies(items, i)' = Copies(Rows, i)'
      BY <1>4 DEF HonestWatermark, st
    <2>2. Copies(items, i)' = Copies(w.rows, i)
      BY DEF Copies
    <2> QED BY <1>5, <2>1, <2>2, LedgerStays
  <1>7. \A r, s \in w.rows : r.id = s.id /\ r # s /\ r.ver <= st => s.ver > st /\ r.pos < s.pos
    BY <1>2 DEF Seen, OldFirst, st
  <1>8. OneOld' /\ OldFirst(items, version)'
    <2>1. \A r \in w.rows : r.ver \in Nat
      BY <1>1, <1>3
    <2>2. \A r, s \in w.rows : r.id = s.id /\ r.ver <= st /\ s.ver <= st => r = s
      BY <1>2, <1>7, <2>1
    <2> QED BY <1>7, <2>2 DEF OneOld, OldFirst, st
  <1>9. ASSUME ~w.truncated, ~Single' PROVE Twice'
    <2>1. PICK S \in SUBSET Ids : w.total = Cardinality(S) /\ \A j \in S : last[j] <= st => table[j] # None
      BY <1>2 DEF Seen, CountOf, st
    <2>2. Cardinality(w.rows) = Cardinality(S)
      BY <1>9, <2>1 DEF CanAdopt
    <2>3. PICK r \in w.rows, s \in w.rows : r.id = s.id /\ r # s
      BY <1>9 DEF Single
    <2>4. ASSUME NEW f \in [S -> w.rows], \A x \in S : f[x].id = x PROVE FALSE
      BY <1>2, <2>2, <2>3, <2>4, Counting
    <2>5. \A j \in S : last[j] <= st => RowOf(j) \in w.rows /\ RowOf(j).id = j
      BY <1>2, <1>9, <2>1 DEF Seen, Passed, RowOf, st
    <2>6. PICK j \in S : ~ (last[j] <= st)
      <3>1. SUFFICES ASSUME \A j \in S : last[j] <= st PROVE FALSE
        OBVIOUS
      <3>2. [j \in S |-> RowOf(j)] \in [S -> w.rows]
        BY <2>5, <3>1
      <3>3. \A x \in S : [j \in S |-> RowOf(j)][x].id = x
        BY <2>5, <3>1
      <3> QED BY <2>4, <3>2, <3>3
    <2>7. j \in Ids /\ last[j] > st /\ collSeq > st
      BY <1>1, <1>2, <2>6
    <2>8. ASSUME NEW v \in Writes, Acked(v), Direct(writes[v].ack)', ~ (collSeq > writes[v].ack.seq) PROVE FALSE
      <3>1. PICK a : a = writes[v].ack
        OBVIOUS
      <3>2. a \in Receipts /\ Truthful(a, E, P)
        BY <2>8, <3>1, AckTyped DEF Acks, Acked
      <3>3. a.prev # None /\ a.prev <= st /\ st < a.seq
        BY <2>8, <3>1 DEF Direct, st
      <3>4. a.seq \in E /\ a.seq \in Nat /\ a.prev \in E /\ a.prev \in Nat
        BY <1>1, <3>2, <3>3 DEF Truthful
      <3>5. a.seq = collSeq
        BY <1>1, <1>2, <2>8, <3>1, <3>4
      <3>6. \A e \in E : e > st => e = a.seq
        <4>1. \A e \in E : e <= a.prev \/ e >= a.seq
          BY <3>2, <3>3 DEF Truthful
        <4> QED BY <1>1, <1>2, <3>3, <3>4, <3>5, <4>1
      \* Only the row of the receipt has moved on.
      <3>7. \A i \in Ids : last[i] > st => i = a.id
        <4>1. \A i \in Ids : last[i] = a.seq => i = a.id
          BY <3>2, <3>3 DEF Truthful
        <4> QED BY <1>1, <3>6, <4>1
      <3>8. PICK n \in w.rows : n.id = r.id /\ n.ver > st
        BY <1>1, <1>2, <1>3, <1>7, <2>3
      <3>9. n.ver = a.seq /\ n \in P
        BY <1>1, <1>3, <3>6, <3>8
      <3>10. n = a.item /\ n.id = a.id
        <4>1. ~a.deleted /\ a.item # None /\ a.item.ver = a.seq /\ a.item \in P /\ a.item.id = a.id
          BY <3>2, <3>3, <3>9 DEF Truthful, Receipts
        <4> QED BY <3>9, <4>1 DEF Ledger
      <3> DEFINE f == [x \in S |-> IF last[x] <= st THEN RowOf(x) ELSE n]
      <3>11. f \in [S -> w.rows]
        BY <2>5, <3>8
      <3>12. \A x \in S : f[x].id = x
        BY <1>1, <1>2, <2>5, <3>7, <3>10
      <3> HIDE DEF f
      <3> QED BY <2>4, <3>11, <3>12
    <2>9. collSeq' > version' /\ \A v \in Writes : Acked(v)' /\ Direct(writes[v].ack)' => collSeq' > writes'[v].ack.seq
      BY <1>4, <2>7, <2>8 DEF Acked, st
    <2> QED BY <1>8, <2>9 DEF Twice
  <1>10. items' \subseteq P /\ version' <= seq'
    BY <1>2, <1>3, <1>4 DEF st
  <1> QED BY <1>6, <1>8, <1>9, <1>10 DEF Painted
\* What a receipt leaves on screen.
LEMMA ReceiptRows ==
  ASSUME items \in SUBSET RowShape, NEW a \in Receipts, NEW rows \in Applied(a), rows # None,
         a.item # None => a.item.id = a.id
  PROVE  /\ \A i \in Ids : i # a.id => Copies(rows, i) = Copies(items, i)
         /\ \A r \in rows : r \in items \/ (r = a.item /\ a.item # None)
         /\ \/ rows = items /\ \E f \in FirstCopies(a.id) : f.ver > Position(a)
            \/ /\ a.item # None => a.item \in rows \/ a.deleted
               /\ a.deleted \/ a.item # None
               /\ a.deleted => \A r \in rows : r \in items
               /\ \A r \in rows : r \in items /\ r.id = a.id /\ ~ (r = a.item /\ a.item # None) =>
                    \E f \in FirstCopies(a.id) : f # r /\ f.ver <= Position(a)
  <1>1. CASE rows = items /\ \E r \in FirstCopies(a.id) : r.ver > Position(a)
    BY <1>1
  <1>2. CASE \E rest \in Without(a.id) :
              /\ \A r \in items \ rest : r.ver <= Position(a)
              /\ \/ a.deleted /\ rows = rest
                 \/ ~a.deleted /\ a.item # None /\ rows = rest \cup {a.item}
    <2>1. PICK rest \in Without(a.id) :
              /\ \A r \in items \ rest : r.ver <= Position(a)
              /\ \/ a.deleted /\ rows = rest
                 \/ ~a.deleted /\ a.item # None /\ rows = rest \cup {a.item}
      BY <1>2
    <2>2. \/ rest = items /\ Copies(items, a.id) = {}
          \/ \E f \in FirstCopies(a.id) : rest = items \ {f}
      BY DEF Without
    <2>3. \A f \in FirstCopies(a.id) : f \in items /\ f.id = a.id
      BY DEF FirstCopies, Copies
    <2>4. rest \subseteq items /\ \A r \in items \ rest : r.id = a.id
      BY <2>2, <2>3
    <2>5. \A r \in rest : r.id = a.id => \E f \in FirstCopies(a.id) : f # r /\ f.ver <= Position(a)
      BY <2>1, <2>2, <2>3 DEF Copies
    <2>6. \A i \in Ids : i # a.id => Copies(rows, i) = Copies(items, i)
      BY <2>1, <2>4 DEF Copies
    <2>7. \A r \in rows : r \in items \/ (r = a.item /\ a.item # None)
      BY <2>1, <2>4
    <2>8. /\ a.item # None => a.item \in rows \/ a.deleted
          /\ a.deleted \/ a.item # None
          /\ a.deleted => \A r \in rows : r \in items
      BY <2>1, <2>4
    <2>9. \A r \in rows : r \in items /\ r.id = a.id /\ ~ (r = a.item /\ a.item # None) =>
            \E f \in FirstCopies(a.id) : f # r /\ f.ver <= Position(a)
      <3>1. \A r \in rows : ~ (r = a.item /\ a.item # None) => r \in rest
        BY <2>1
      <3> QED BY <2>5, <3>1
    <2> QED BY <2>6, <2>7, <2>8, <2>9
  <1> QED BY <1>1, <1>2, AppliedIs

\* A call that comes back last finds the others idle.
LEMMA LastOne ==
  ASSUME NEW w \in Writes, writes[w].st = "acked", Pending = 1
  PROVE  \A v \in Writes : v # w => writes[v] = Idle
  <1> DEFINE busy == {v \in Writes : writes[v] # Idle}
  <1>1. IsFiniteSet(busy) /\ Cardinality(busy) = 1
    <2>1. IsFiniteSet(busy)
      BY WritesAssumption, FS_Subset
    <2> QED BY <2>1 DEF Pending
  <1>2. w \in busy
    BY DEF Idle
  <1>3. PICK x : busy = {x}
    BY <1>1, FS_Singleton
  <1> QED BY <1>2, <1>3

LEMMA ReceivePainted ==
  ASSUME WidgetTypes, NEW E \in SUBSET Nat, NEW P \in SUBSET RowShape, Account(E, P), NEW w \in Writes, Receive(w)
  PROVE  Painted(P)' /\ version' >= version
  <1> DEFINE a == writes[w].ack
  <1> USE DEF WidgetTypes
  <1>1. /\ writes[w].st = "acked" /\ writes' = [writes EXCEPT ![w] = Idle]
        /\ UNCHANGED <<store, truncated, mount, checks>>
    BY ReceiveIs
  <1>2. Fewer /\ ~Acked(w)'
    <2>1. writes'[w] = Idle /\ \A v \in Writes : v # w => writes'[v] = writes[v]
      BY <1>1
    <2> QED BY <2>1 DEF Fewer, Acked, Idle
  <1>3. Ledger(E, P) /\ Acks(E, P) /\ Painted(P)
    BY DEF Account
  <1>4. CASE UNCHANGED <<items, version, total>>
    BY <1>1, <1>2, <1>3, <1>4, PaintedStays DEF PaintTypes
  <1>5. CASE ~UNCHANGED <<items, version, total>>
    <2>1. /\ a \in Receipts /\ Position(a) > version /\ items' \in Applied(a) /\ items' # None
          /\ \/ version' = version
             \/ /\ version' = a.seq /\ a.seq > version
                /\ a.prev # None /\ a.prev <= version /\ Pending = 1
      BY <1>5, ReceiveIs
    <2>2. Acked(w) /\ Truthful(a, E, P)
      BY <1>1, <1>3, <2>1 DEF Acks, Acked, Receipts
    <2> HIDE DEF a
    <2>3. /\ \A e \in E : e \in Nat /\ e <= seq /\ e <= collSeq
          /\ \A i \in Ids : last[i] \in Nat /\ last[i] \in E /\ last[i] <= seq
          /\ \A r \in P : r.ver \in Nat /\ r.ver \in E /\ r.id \in Ids /\ r.pos \in Nat
      <3>1. /\ \A i \in Ids : last[i] \in E
            /\ \A r \in P : r.ver \in E /\ r.id \in Ids /\ r.pos \in Nat
            /\ \A e \in E : e <= collSeq
        BY <1>3, LimitsAssumption DEF Ledger, RowShape
      <3> QED BY <1>3, <3>1, LedgerBounds
    <2>4. /\ version \in Nat /\ seq \in Nat /\ collSeq \in Nat /\ version <= seq /\ items \subseteq P
          /\ a.id \in Ids /\ a.seq \in Nat /\ a.seq \in E /\ a.seq <= last[a.id]
      BY <1>3, <2>1, <2>2 DEF PaintTypes, StoreTypes, Painted, Receipts, Truthful
    <2>5. a.item # None => a.item \in P /\ a.item.id = a.id /\ a.item.ver = Position(a)
      BY <2>2 DEF Truthful, Position
    <2>6. Position(a) \in Nat /\ Position(a) <= last[a.id]
      <3>1. CASE a.item # None
        BY <1>3, <2>3, <2>5, <3>1 DEF Ledger
      <3>2. CASE a.item = None
        BY <2>4, <3>2 DEF Position
      <3> QED BY <3>1, <3>2
    <2>7. /\ \A i \in Ids : i # a.id => Copies(items', i) = Copies(items, i)
          /\ \A r \in items' : r \in items \/ (r = a.item /\ a.item # None)
          /\ \/ items' = items /\ \E f \in FirstCopies(a.id) : f.ver > Position(a)
             \/ /\ a.item # None => a.item \in items' \/ a.deleted
                /\ a.deleted \/ a.item # None
                /\ a.deleted => \A r \in items' : r \in items
                /\ \A r \in items' : r \in items /\ r.id = a.id /\ ~ (r = a.item /\ a.item # None) =>
                     \E f \in FirstCopies(a.id) : f # r /\ f.ver <= Position(a)
      BY <2>1, <2>5, ReceiptRows DEF PaintTypes
    <2>8. items' \subseteq P
      BY <2>4, <2>5, <2>7
    <2>9. version' <= seq' /\ version' >= version
      BY <1>1, <2>1, <2>3, <2>4 DEF store
    <2>10. /\ collSeq' = collSeq /\ seq' = seq /\ last' = last /\ truncated' = truncated
           /\ \A i \in Ids : Copies(Rows, i)' = Copies(Rows, i) /\ Copies(items, i)' = Copies(items', i)
      BY <1>1, LedgerStays DEF store, Copies
    <2>11. \A f \in FirstCopies(a.id) : f \in items /\ f.id = a.id /\ \A s \in items : s.id = a.id => f.pos <= s.pos
      BY DEF FirstCopies, Copies
    <2>12. CASE truncated
      BY <2>8, <2>9, <2>10, <2>12 DEF Painted, HonestWatermark
    <2>13. CASE ~truncated
      <3>1. /\ \A i \in Ids : last[i] <= version => Copies(items, i) = Copies(Rows, i)
            /\ OneOld /\ (Single \/ Twice \/ Blocked)
        BY <1>3, <2>13 DEF Painted, HonestWatermark
      \* An old copy behind the first one: the watermark is blocked.
      <3>2. ASSUME NEW r \in items, NEW f \in FirstCopies(a.id), r.id = a.id, f # r, r.ver <= version
            PROVE  ~Single /\ ~Twice
        <4>1. f \in items /\ f.id = a.id /\ f.pos <= r.pos /\ f.pos \in Nat /\ r.pos \in Nat
          BY <2>3, <2>4, <2>11, <3>2
        <4> QED BY <3>2, <4>1 DEF Single, Twice, OldFirst
      <3>3. Single => Single'
        <4>1. SUFFICES ASSUME Single, NEW r \in items', NEW s \in items', r.id = s.id PROVE r = s
          BY DEF Single
        <4>2. ASSUME NEW x \in items', x \in items, x.id = a.id, a.item # None, a.item \notin items, a.item \in items'
              PROVE  FALSE
          <5>1. PICK f \in FirstCopies(a.id) : f # x
            BY <2>7, <4>2
          <5> QED BY <2>11, <4>1, <4>2, <5>1 DEF Single
        <4> QED BY <2>5, <2>7, <4>1, <4>2 DEF Single
      <3>4. \A i \in Ids : last[i] <= version => i # a.id /\ Copies(items', i) = Copies(Rows, i)
        BY <2>1, <2>3, <2>4, <2>6, <2>7, <3>1
      <3>5. \A r \in items' : r.ver <= version => r \in items
        BY <2>1, <2>4, <2>5, <2>6, <2>7
      <3>6. CASE version' = version
        <4>1. HonestWatermark'
          BY <2>10, <3>4, <3>6 DEF HonestWatermark
        <4>2. OneOld'
          BY <3>1, <3>5, <3>6 DEF OneOld
        <4>3. ASSUME Twice PROVE Twice'
          <5>1. ASSUME NEW r \in items', NEW s \in items', r.id = s.id, r # s, r.ver <= version
                PROVE  s.ver > version /\ r.pos < s.pos
            <6>1. r \in items
              BY <3>5, <5>1
            <6>2. CASE s \in items
              BY <4>3, <5>1, <6>1, <6>2 DEF Twice, OldFirst
            <6>3. CASE s \notin items
              <7>1. s = a.item /\ a.item # None /\ r.id = a.id /\ items' # items
                BY <2>5, <2>7, <5>1, <6>3
              <7>2. PICK f \in FirstCopies(a.id) : f # r
                BY <2>7, <5>1, <6>1, <7>1
              <7> QED BY <3>2, <4>3, <5>1, <6>1, <7>1, <7>2
            <6> QED BY <6>2, <6>3
          <5>2. OldFirst(items, version)'
            BY <3>6, <5>1 DEF OldFirst
          <5>3. ASSUME NEW v \in Writes, Acked(v)', Direct(writes[v].ack)' PROVE collSeq' > writes'[v].ack.seq
            <6>1. Acked(v) /\ (writes'[v].ack = writes[v].ack \/ writes'[v].ack.prev = None)
              BY <1>2, <5>3 DEF Fewer
            <6>2. writes'[v].ack = writes[v].ack /\ Direct(writes[v].ack)
              BY <3>6, <5>3, <6>1 DEF Direct
            <6> QED BY <2>10, <4>3, <6>1, <6>2 DEF Twice
          <5>4. collSeq' > version'
            BY <2>10, <3>6, <4>3 DEF Twice
          <5> QED BY <5>2, <5>3, <5>4 DEF Twice
        <4>4. ASSUME Blocked PROVE Blocked'
          <5>1. ASSUME NEW v \in Writes, Acked(v)' PROVE writes'[v].ack.prev = None \/ writes'[v].ack.prev > version
            BY <1>2, <4>4, <5>1 DEF Fewer, Blocked
          <5> QED BY <2>10, <3>6, <4>4, <5>1 DEF Blocked
        <4>5. Single' \/ Twice' \/ Blocked'
          BY <3>1, <3>3, <4>3, <4>4
        <4> QED BY <2>8, <2>9, <4>1, <4>2, <4>5 DEF Painted
      <3>7. CASE version' # version
        <4>1. version' = a.seq /\ a.seq > version /\ a.prev # None /\ a.prev <= version /\ Pending = 1
          BY <2>1, <3>7
        <4>2. ~Blocked /\ Direct(a)
          <5>1. ~Blocked
            <6>1. Blocked => a.prev = None \/ a.prev > version
              BY <2>2 DEF Blocked, a
            <6>2. a.prev \in Nat
              BY <2>1, <4>1 DEF Receipts
            <6> QED BY <2>4, <4>1, <6>1, <6>2
          <5> QED BY <4>1, <5>1 DEF Direct
        <4>3. \A e \in E : e <= a.seq => e <= version \/ e = a.seq
          <5>1. a.prev \in Nat /\ \A e \in E : e <= a.prev \/ e >= a.seq
            BY <2>1, <2>2, <4>1 DEF Truthful, Receipts
          <5> QED BY <2>3, <2>4, <4>1, <5>1
        <4>4. /\ \A i \in Ids : last[i] = a.seq => i = a.id
              /\ a.deleted => a.item = None /\ \A r \in P : r.ver # a.seq
              /\ ~a.deleted => a.item # None /\ a.item.ver = a.seq
          BY <2>2, <4>1 DEF Truthful
        <4>5. Position(a) = a.seq
          BY <2>1, <4>4 DEF Position, Receipts
        <4>6. \A r \in P : r.ver = a.seq => ~a.deleted /\ a.item # None /\ r = a.item
          <5>1. \A r, s \in P : r.ver = s.ver => r = s
            BY <1>3 DEF Ledger
          <5> QED BY <2>5, <4>4, <5>1
        \* Nothing old is left of the row the receipt is about.
        <4>7. ASSUME NEW r \in items', r.ver <= version, r.id = a.id PROVE FALSE
          <5>1. r \in items /\ r \in P
            BY <2>8, <3>5, <4>7
          <5>2. CASE items' = items /\ \E f \in FirstCopies(a.id) : f.ver > Position(a)
            <6>1. PICK f \in FirstCopies(a.id) : f.ver > Position(a)
              BY <5>2
            <6>2. f \in P /\ f # r
              BY <2>1, <2>3, <2>4, <2>6, <2>11, <4>7, <5>1, <6>1
            <6> QED BY <3>1, <3>2, <4>2, <4>7, <5>1, <6>2
          <5>3. CASE ~ (items' = items /\ \E f \in FirstCopies(a.id) : f.ver > Position(a))
            <6>1. ~ (r = a.item /\ a.item # None)
              BY <2>1, <2>4, <2>5, <2>6, <4>7
            <6>2. PICK f \in FirstCopies(a.id) : f # r
              BY <2>7, <4>7, <5>1, <5>3, <6>1
            <6> QED BY <3>1, <3>2, <4>2, <4>7, <5>1, <6>2
          <5> QED BY <5>2, <5>3
        <4>8. HonestWatermark'
          <5>1. SUFFICES ASSUME NEW i \in Ids, last[i] <= a.seq PROVE Copies(items', i) = Copies(Rows, i)
            BY <2>10, <4>1 DEF HonestWatermark
          <5>2. last[i] <= version \/ last[i] = a.seq
            BY <2>3, <4>3, <5>1
          <5>3. CASE last[i] = a.seq
            <6>1. i = a.id
              BY <4>4, <5>3
            <6>2. \A r \in items' : r.id = i => r.ver = a.seq
              <7>1. ASSUME NEW r \in items', r.id = i PROVE r.ver = a.seq
                <8>1. r \in P /\ r.ver \in E /\ r.ver <= a.seq
                  <9>1. r \in P
                    BY <2>8, <7>1
                  <9> QED BY <1>3, <5>3, <7>1, <9>1 DEF Ledger
                <8>2. r.ver <= version => FALSE
                  BY <4>7, <6>1, <7>1
                <8>3. r.ver <= version \/ r.ver = a.seq
                  BY <4>3, <8>1
                <8> QED BY <8>2, <8>3
              <7> QED BY <7>1
            <6>3. CASE a.deleted
              <7>1. Copies(items', i) = {}
                BY <2>8, <4>4, <6>2, <6>3 DEF Copies
              <7>2. table[i] = None
                <8>1. table[i] # None => RowOf(i) \in P /\ RowOf(i).ver = a.seq
                  BY <1>3, <5>3 DEF Ledger, Rows, RowOf
                <8> QED BY <4>4, <6>3, <8>1
              <7> QED BY <7>1, <7>2, RowCopies
            <6>4. CASE ~a.deleted
              <7>1. a.item # None /\ a.item \in P /\ a.item.ver = a.seq /\ a.item.id = i
                BY <2>5, <4>4, <6>1, <6>4
              <7>2. table[i] # None /\ a.item = RowOf(i)
                BY <1>3, <5>3, <7>1 DEF Ledger
              <7>3. a.item \in items'
                <8>1. \A f \in FirstCopies(a.id) : f.ver <= Position(a)
                  BY <1>3, <2>4, <2>11, <4>5, <5>3, <6>1 DEF Ledger
                <8>2. \A f \in FirstCopies(a.id) : f.ver \in Nat
                  BY <2>3, <2>4, <2>11
                <8> QED BY <2>6, <2>7, <6>4, <7>1, <8>1, <8>2
              <7>4. Copies(items', i) = {a.item}
                BY <2>8, <4>6, <6>2, <7>1, <7>3 DEF Copies
              <7> QED BY <7>2, <7>4, RowCopies
            <6> QED BY <6>3, <6>4
          <5> QED BY <3>4, <5>2, <5>3
        <4>9. OneOld'
          <5>1. SUFFICES ASSUME NEW r \in items', NEW s \in items', r.id = s.id, r.ver <= a.seq, s.ver <= a.seq
                         PROVE  r = s
            BY <4>1 DEF OneOld
          <5>2. r \in P /\ s \in P /\ (r.ver <= version \/ r.ver = a.seq) /\ (s.ver <= version \/ s.ver = a.seq)
            BY <2>3, <2>8, <4>3, <5>1
          <5>3. ASSUME NEW x \in items', NEW y \in items', x.id = y.id, x.ver <= version, y.ver = a.seq PROVE FALSE
            <6>1. y = a.item /\ a.item # None
              BY <2>8, <4>6, <5>3
            <6> QED BY <2>5, <4>7, <5>3, <6>1
          <5>4. CASE r.ver <= version /\ s.ver <= version
            BY <3>1, <3>5, <5>1, <5>4 DEF OneOld
          <5>5. CASE r.ver = a.seq /\ s.ver = a.seq
            BY <4>6, <5>2, <5>5
          <5> QED BY <5>1, <5>2, <5>3, <5>4, <5>5
        <4>10. \A v \in Writes : ~Acked(v)'
          <5>1. \A v \in Writes : v # w => writes[v] = Idle
            BY <1>1, <4>1, LastOne
          <5> QED BY <1>1, <1>2, <5>1 DEF Acked, Idle
        <4>11. Twice => Blocked'
          <5>1. Twice => collSeq > a.seq
            BY <2>2, <4>2 DEF Twice, a
          <5> QED BY <2>10, <4>1, <4>10, <5>1 DEF Blocked
        <4>12. Single' \/ Twice' \/ Blocked'
          BY <3>1, <3>3, <4>2, <4>11
        <4> QED BY <2>8, <2>9, <4>8, <4>9, <4>12 DEF Painted
      <3> QED BY <2>9, <3>6, <3>7
    <2> QED BY <2>9, <2>12, <2>13
  <1> QED BY <1>4, <1>5
----------------------------------------------------------------------------
(* The other steps, and the theorems.                                      *)

SameAcks == \A w \in Writes : Acked(w)' => Acked(w) /\ writes'[w].ack = writes[w].ack

LEMMA AcksStay ==
  ASSUME WidgetTypes, UNCHANGED store, NEW E, NEW P, Acks(E, P), SameAcks
  PROVE  Acks(E, P)' /\ Fewer
  <1>1. Fewer
    BY DEF Fewer, SameAcks
  <1>2. ASSUME NEW w \in Writes, Acked(w)' PROVE Truthful(writes[w].ack, E, P)'
    <2>1. PICK a : a = writes[w].ack
      OBVIOUS
    <2>2. a \in Receipts /\ Truthful(a, E, P) /\ writes'[w].ack = a
      BY <1>2, <2>1, AckTyped DEF Acks, Acked, SameAcks
    <2>3. Truthful(a, E, P)'
      BY <2>2, LedgerStays
    <2> QED BY <2>2, <2>3 DEF Truthful
  <1> QED BY <1>1, <1>2 DEF Acks

LEMMA CheckedStays ==
  ASSUME WidgetTypes, UNCHANGED <<seq, checks>>, version' \in Nat, version' >= version,
         NEW E \in SUBSET Nat, Checked(E)
  PROVE  Checked(E)'
  <1>1. SUFFICES ASSUME NEW c \in Checks
                 PROVE  /\ checks[c].st = "asked" => checks[c].since <= version'
                        /\ checks[c].st = "told" =>
                             /\ checks[c].latest <= seq
                             /\ checks[c].moved \/ \A e \in E : e <= version' \/ e > checks[c].latest
    BY DEF Checked
  <1>2. checks[c] \in Chains /\ version \in Nat
    BY DEF WidgetTypes, PaintTypes
  <1>3. checks[c].st = "asked" => checks[c].since \in Nat
    BY <1>2 DEF Chains, Idle
  <1>4. \A e \in E : e <= version => e <= version'
    BY <1>2
  <1> QED BY <1>2, <1>3, <1>4 DEF Checked

\* A step that leaves the store, the rows on screen and the chains alone.
LEMMA QuietStep ==
  ASSUME WidgetTypes, NEW E \in SUBSET Nat, NEW P \in SUBSET RowShape, Account(E, P),
         UNCHANGED <<store, items, version, truncated, checks>>, SameAcks,
         (walk # None => Walked(walk, P))'
  PROVE  Account(E, P)'
  <1>1. Ledger(E, P)'
    BY LedgerStays DEF Account
  <1>2. Acks(E, P)' /\ Fewer
    BY AcksStay DEF Account
  <1>3. Painted(P)'
    BY <1>2, PaintedStays DEF Account
  <1>4. Checked(E)'
    <2>1. version' \in Nat /\ version' >= version /\ seq' = seq
      BY DEF WidgetTypes, PaintTypes, store
    <2> QED BY <2>1, CheckedStays DEF Account
  <1> QED BY <1>1, <1>2, <1>3, <1>4 DEF Account

LEMMA WalkStays ==
  ASSUME UNCHANGED <<store, walk>>, NEW P, walk # None => Walked(walk, P)
  PROVE  (walk # None => Walked(walk, P))'
  <1>1. PICK w : w = walk
    OBVIOUS
  <1>2. w # None => Walked(w, P)'
    BY <1>1, WalkedStays
  <1> QED BY <1>1, <1>2 DEF Walked, Seen, Passed, CountOf, OldFirst, Before

LEMMA ElsewhereStep ==
  ASSUME WidgetTypes, NEW E \in SUBSET Nat, NEW P \in SUBSET RowShape, Account(E, P), Elsewhere
  PROVE  Account(E, P)'
  <1>1. seq \in Nat /\ seq' = seq + 1 /\ collSeq \in Nat /\ version \in Nat
        /\ UNCHANGED <<collSeq, table, last, paint, mount, walk, writes, burst, checks, faults>>
    BY DEF Elsewhere, WidgetTypes, StoreTypes, PaintTypes
  <1>2. Ledger(E, P)'
    BY <1>1 DEF Account, Ledger, Rows, RowOf
  <1>3. Acks(E, P)'
    BY <1>1 DEF Account, Acks, Acked, Truthful
  <1>4. (walk # None => Walked(walk, P))'
    <2>1. SUFFICES ASSUME walk # None PROVE Walked(walk, P)'
      BY <1>1
    <2>2. Walked(walk, P) /\ walk \in WalkShape
      BY <2>1 DEF Account, WidgetTypes, WalkTypes, Walks
    <2>3. walk.stamp # None => walk.stamp \in Nat
      BY <2>2 DEF WalkShape
    <2>4. walk.stamp # None => walk.stamp <= seq'
      BY <1>1, <2>2, <2>3 DEF Walked, Seen
    <2> QED BY <1>1, <2>2, <2>4 DEF Walked, Seen, Passed, CountOf, OldFirst, Before, RowOf
  <1>5. Painted(P)'
    <2>1. version' <= seq'
      BY <1>1 DEF Account, Painted, paint
    <2>2. HonestWatermark'
      BY <1>1 DEF Account, Painted, HonestWatermark, Copies, Rows, RowOf, paint
    <2>3. OneOld' = OneOld /\ Single' = Single /\ Blocked' = Blocked /\ Twice' = Twice
      BY <1>1 DEF OneOld, Single, Blocked, Twice, OldFirst, Direct, Acked, paint
    <2> QED BY <1>1, <2>1, <2>2, <2>3 DEF Account, Painted, paint
  <1>6. Checked(E)'
    <2>1. ASSUME NEW c \in Checks, checks[c].st = "told" PROVE checks[c].latest <= seq'
      <3>1. checks[c] \in Chains
        BY DEF WidgetTypes
      <3>2. checks[c].latest \in Nat
        BY <2>1, <3>1 DEF Chains, Idle
      <3> QED BY <1>1, <2>1, <3>2 DEF Account, Checked
    <2> QED BY <1>1, <2>1 DEF Account, Checked, paint
  <1> QED BY <1>2, <1>3, <1>4, <1>5, <1>6 DEF Account

LEMMA FinishStep ==
  ASSUME WidgetTypes, WidgetTypes', NEW E \in SUBSET Nat, NEW P \in SUBSET RowShape, Account(E, P), FinishWalk
  PROVE  Account(E, P)'
  <1>1. walk # None /\ walk.done /\ UNCHANGED <<store, rungs, writes, burst, checks, faults>> /\ AfterWalk
    BY DEF FinishWalk
  <1>2. SameAcks
    BY <1>1 DEF SameAcks, Acked
  <1>3. (walk # None => Walked(walk, P))'
    BY <1>1, AfterWalked
  <1>4. CASE CanAdopt(walk)
    <2>1. items' = walk.rows /\ version' = walk.stamp /\ truncated' = walk.truncated
      BY <1>4 DEF FinishWalk
    <2>2. PICK w : w = walk
      OBVIOUS
    <2>3. Walks(w) /\ Walked(w, P) /\ w.done /\ CanAdopt(w)
      BY <1>1, <1>4, <2>2 DEF Account, WidgetTypes, WalkTypes
    <2>4. Painted(P)'
      <3>1. Ledger(E, P) /\ Acks(E, P) /\ StoreTypes /\ PaintTypes
        BY DEF Account, WidgetTypes
      <3> QED BY <1>1, <2>1, <2>2, <2>3, <3>1, AdoptPainted
    <2>5. version' \in Nat /\ version' >= version
      BY <2>1, <1>4 DEF CanAdopt, WidgetTypes, PaintTypes
    <2>6. Checked(E)'
      BY <1>1, <2>5, CheckedStays DEF Account, store
    <2>7. Ledger(E, P)' /\ Acks(E, P)'
      BY <1>1, <1>2, LedgerStays, AcksStay DEF Account
    <2> QED BY <1>3, <2>4, <2>6, <2>7 DEF Account
  <1>5. CASE ~CanAdopt(walk)
    <2>1. UNCHANGED paint
      BY <1>5 DEF FinishWalk
    <2> QED BY <1>1, <1>2, <1>3, <2>1, QuietStep DEF paint
  <1> QED BY <1>4, <1>5

LEMMA ReceiveStep ==
  ASSUME WidgetTypes, WidgetTypes', NEW E \in SUBSET Nat, NEW P \in SUBSET RowShape, Account(E, P),
         NEW w \in Writes, Receive(w)
  PROVE  Account(E, P)'
  <1>1. /\ writes' = [writes EXCEPT ![w] = Idle] /\ UNCHANGED <<store, truncated, mount, checks>>
        /\ walk' = walk \/ walk' = Triggered
    BY ReceiveIs
  <1>2. SameAcks
    <2>1. \A v \in Writes : writes'[v] = Idle \/ writes'[v] = writes[v]
      BY <1>1 DEF WidgetTypes
    <2> QED BY <2>1 DEF SameAcks, Acked, Idle
  <1>3. (walk # None => Walked(walk, P))'
    BY <1>1, TriggerWalked DEF Account, WidgetTypes
  <1>4. Painted(P)' /\ version' >= version /\ version' \in Nat
    BY ReceivePainted DEF WidgetTypes, PaintTypes
  <1>5. Checked(E)'
    BY <1>1, <1>4, CheckedStays DEF Account, store
  <1>6. Ledger(E, P)' /\ Acks(E, P)'
    BY <1>1, <1>2, LedgerStays, AcksStay DEF Account
  <1> QED BY <1>3, <1>4, <1>5, <1>6 DEF Account

LEMMA ReplayStep ==
  ASSUME WidgetTypes, NEW E \in SUBSET Nat, NEW P \in SUBSET RowShape, Account(E, P), NEW w \in Writes, Replay(w)
  PROVE  Account(E, P)'
  <1> DEFINE a == writes[w].ack
  <1>1. /\ a \in Receipts /\ writes[w].st = "acked" /\ a.kind = "ok"
        /\ writes' = [writes EXCEPT ![w] = [st |-> "acked", ack |-> Again(a)]]
        /\ Again(a).prev = None /\ Again(a).seq = a.seq /\ Again(a).id = a.id /\ Again(a).kind = "ok"
        /\ Again(a).item # None => Again(a).item = RowOf(a.id) /\ table[a.id] # None
    BY ReplayIs
  <1>2. UNCHANGED <<store, paint, mount, walk, burst, checks, faults>>
    BY DEF Replay
  <1>3. PICK b : b = Again(a)
    OBVIOUS
  <1>4. /\ \A v \in Writes : v # w => writes'[v] = writes[v]
        /\ writes'[w] = [st |-> "acked", ack |-> b]
    BY <1>1, <1>3 DEF WidgetTypes
  <1>5. Truthful(b, E, P)'
    <2>1. Truthful(a, E, P)
      BY <1>1 DEF Account, Acks, Acked
    <2>2. a.id \in Ids
      BY <1>1 DEF Receipts
    <2>3. b.seq \in E /\ b.seq <= last[b.id] /\ b.prev = None
      BY <1>1, <1>3, <2>1 DEF Truthful
    <2>4. b.item # None => b.item \in P /\ b.item.id = b.id
      <3>1. b.item # None => b.item = RowOf(a.id) /\ table[a.id] # None
        BY <1>1, <1>3
      <3>2. b.item # None => b.item \in Rows /\ b.item.id = a.id
        BY <2>2, <3>1 DEF Rows, RowOf
      <3> QED BY <1>1, <1>3, <3>2 DEF Account, Ledger
    <2> QED BY <1>2, <2>3, <2>4 DEF Truthful, store
  <1>6. Acks(E, P)'
    <2>1. ASSUME NEW v \in Writes, Acked(v)', v # w PROVE Truthful(writes[v].ack, E, P)'
      <3>1. PICK c : c = writes[v].ack
        OBVIOUS
      <3>2. c \in Receipts /\ Truthful(c, E, P) /\ writes'[v].ack = c
        BY <1>4, <2>1, <3>1, AckTyped DEF Account, Acks, Acked
      <3>3. Truthful(c, E, P)'
        BY <1>2, <3>2, LedgerStays
      <3> QED BY <3>2, <3>3 DEF Truthful
    <2>2. Truthful(writes[w].ack, E, P)'
      BY <1>4, <1>5 DEF Truthful
    <2> QED BY <2>1, <2>2 DEF Acks
  <1>7. Fewer
    <2>1. Acked(w) /\ writes'[w].ack.prev = None
      BY <1>1, <1>3, <1>4 DEF Acked
    <2> QED BY <1>4, <2>1 DEF Fewer, Acked
  <1>8. Painted(P)'
    BY <1>2, <1>7, PaintedStays DEF Account, paint
  <1>9. Checked(E)'
    BY <1>2, CheckedStays DEF Account, store, paint, WidgetTypes, PaintTypes
  <1>10. (walk # None => Walked(walk, P))'
    BY <1>2, WalkStays DEF Account
  <1>11. Ledger(E, P)'
    BY <1>2, LedgerStays DEF Account
  <1> QED BY <1>6, <1>8, <1>9, <1>10, <1>11 DEF Account
LEMMA ChainStep ==
  ASSUME WidgetTypes, NEW E \in SUBSET Nat, NEW P \in SUBSET RowShape, Account(E, P), NEW c \in Checks,
         Probe(c) \/ Heed(c) \/ Answer(c) \/ Resume(c) \/ CheckFails(c)
  PROVE  Account(E, P)'
  <1>1. UNCHANGED <<store, paint, walk, writes>> /\ \A d \in Checks : d # c => checks'[d] = checks[d]
    BY DEF Probe, Heed, Answer, Resume, CheckFails, WidgetTypes
  <1>2. /\ seq \in Nat /\ version \in Nat /\ collSeq \in Nat /\ checks[c] \in Chains
        /\ collSeq <= seq /\ \A e \in E : e \in Nat /\ e <= collSeq
    BY DEF WidgetTypes, StoreTypes, PaintTypes, Account, Ledger
  <1>3. /\ checks'[c].st = "asked" => checks'[c].since <= version
        /\ checks'[c].st = "told" =>
             checks'[c].latest <= seq /\ (checks'[c].moved \/ \A e \in E : e <= version \/ e > checks'[c].latest)
    <2>1. CASE Probe(c)
      <3>1. checks'[c].st = "probed"
        BY <2>1 DEF Probe, WidgetTypes
      <3> QED BY <3>1
    <2>2. CASE Heed(c)
      <3>1. checks'[c] = [st |-> "asked", since |-> version] \/ checks'[c] = Idle
        BY <2>2 DEF Heed, WidgetTypes
      <3> QED BY <1>2, <3>1 DEF Idle
    <2>3. CASE Answer(c)
      <3>1. checks'[c] = [st |-> "told", moved |-> collSeq > checks[c].since, latest |-> seq] /\ checks[c].st = "asked"
        BY <2>3 DEF Answer, WidgetTypes
      <3>2. checks[c].since <= version
        BY <3>1 DEF Account, Checked
      <3>3. checks[c].since \in Nat
        BY <1>2, <3>1 DEF Chains, Idle
      <3>4. checks'[c].moved \/ \A e \in E : e <= version
        <4>1. CASE collSeq > checks[c].since
          <5>1. checks'[c].moved = (collSeq > checks[c].since)
            BY <3>1
          <5> QED BY <4>1, <5>1
        <4>2. CASE ~ (collSeq > checks[c].since)
          BY <1>2, <3>2, <3>3, <4>2
        <4> QED BY <4>1, <4>2
      <3>5. checks'[c].st = "told" /\ checks'[c].latest = seq
        BY <3>1
      <3>6. seq <= seq
        BY <1>2
      <3> QED BY <3>4, <3>5, <3>6, Zenon
    <2>4. CASE Resume(c) \/ CheckFails(c)
      <3>1. checks'[c] = Idle
        BY <2>4 DEF Resume, CheckFails, WidgetTypes
      <3> QED BY <3>1 DEF Idle
    <2> QED BY <2>1, <2>2, <2>3, <2>4
  <1>4. Checked(E)'
    <2>1. version' = version /\ seq' = seq
      BY <1>1 DEF store, paint
    <2> QED BY <1>1, <1>3, <2>1 DEF Account, Checked
  <1>5. SameAcks
    BY <1>1 DEF SameAcks, Acked
  <1>6. Acks(E, P)' /\ Fewer
    BY <1>1, <1>5, AcksStay DEF Account
  <1>7. Painted(P)'
    BY <1>1, <1>6, PaintedStays DEF Account, paint
  <1>8. (walk # None => Walked(walk, P))' /\ Ledger(E, P)'
    BY <1>1, WalkStays, LedgerStays DEF Account
  <1> QED BY <1>4, <1>6, <1>7, <1>8 DEF Account

\* The watermark steps to where the ledger was: no event of the collection lies between.
LEMMA SteppedPainted ==
  ASSUME WidgetTypes, NEW E \in SUBSET Nat, NEW P \in SUBSET RowShape, Ledger(E, P), Acks(E, P), Painted(P),
         UNCHANGED <<store, items, truncated, writes>>, version' \in Nat, version' <= seq,
         \A e \in E : e <= version \/ e > version'
  PROVE  Painted(P)'
  <1>1. /\ \A e \in E : e \in Nat /\ e <= collSeq
        /\ \A i \in Ids : last[i] \in E
        /\ \A r \in P : r.ver \in E
        /\ collSeq \in E /\ version \in Nat
    BY DEF Ledger, WidgetTypes, PaintTypes
  <1>2. collSeq' = collSeq /\ seq' = seq /\ last' = last
    BY DEF store
  <1>3. \A e \in E : e <= version' => e <= version
    BY <1>1
  <1>4. HonestWatermark'
    BY <1>1, <1>2, <1>3, LedgerStays DEF Painted, HonestWatermark, Copies
  <1>5. ASSUME ~truncated PROVE OneOld' /\ (Single' \/ Twice' \/ Blocked')
    <2>1. \A r \in items : r.ver \in E
      BY <1>1 DEF Painted
    <2>2. OneOld'
      BY <1>3, <1>5, <2>1 DEF Painted, OneOld
    <2>3. collSeq > version => collSeq' > version'
      BY <1>1, <1>2
    <2>4. CASE Single
      BY <2>2, <2>4 DEF Single
    <2>5. CASE Twice
      <3>1. OldFirst(items, version)'
        <4>1. SUFFICES ASSUME NEW r \in items, NEW s \in items, r.id = s.id, r # s, r.ver <= version'
                       PROVE  s.ver > version' /\ r.pos < s.pos
          BY DEF OldFirst
        <4>2. s.ver > version /\ r.pos < s.pos
          BY <1>3, <2>1, <2>5, <4>1 DEF Twice, OldFirst
        <4>3. s.ver > version'
          <5>1. PICK e \in E : e = s.ver
            BY <2>1
          <5>2. e \in Nat /\ e > version
            BY <1>1, <4>2, <5>1
          <5> QED BY <1>1, <5>1, <5>2
        <4> QED BY <4>2, <4>3
      <3>2. ASSUME NEW w \in Writes, Acked(w)', Direct(writes[w].ack)' PROVE collSeq' > writes'[w].ack.seq
        <4>1. PICK a : a = writes[w].ack
          OBVIOUS
        <4>2. Acked(w) /\ writes'[w].ack = a
          BY <3>2, <4>1 DEF Acked
        <4>3. a \in Receipts /\ Truthful(a, E, P)
          BY <4>1, <4>2, AckTyped DEF Acks, Acked
        <4>4. a.prev # None /\ a.prev <= version' /\ version' < a.seq
          BY <3>2, <4>2 DEF Direct
        <4>5. a.seq \in E /\ a.seq \in Nat /\ a.prev \in E /\ a.prev \in Nat
          BY <1>1, <4>3, <4>4 DEF Truthful
        <4>6. a.prev <= version
          BY <1>3, <4>4, <4>5
        <4>7. CASE version < a.seq
          <5>1. collSeq > a.seq
            BY <2>5, <4>1, <4>2, <4>4, <4>6, <4>7 DEF Twice, Direct
          <5> QED BY <1>2, <4>2, <5>1
        <4>8. CASE a.seq <= version
          <5>1. collSeq > version
            BY <2>5 DEF Twice
          <5> QED BY <1>1, <1>2, <4>2, <4>5, <4>8, <5>1
        <4> QED BY <1>1, <4>5, <4>7, <4>8
      <3>3. collSeq' > version'
        BY <2>3, <2>5 DEF Twice
      <3> QED BY <2>2, <3>1, <3>2, <3>3 DEF Twice
    <2>6. CASE Blocked
      <3>1. ASSUME NEW w \in Writes, Acked(w)' PROVE writes'[w].ack.prev = None \/ writes'[w].ack.prev > version'
        <4>1. PICK a : a = writes[w].ack
          OBVIOUS
        <4>2. Acked(w) /\ writes'[w].ack = a
          BY <3>1, <4>1 DEF Acked
        <4>3. a \in Receipts /\ Truthful(a, E, P)
          BY <4>1, <4>2, AckTyped DEF Acks, Acked
        <4>4. a.prev = None \/ a.prev > version
          BY <2>6, <4>1, <4>2 DEF Blocked
        <4>5. a.prev # None => a.prev \in E /\ a.prev \in Nat
          BY <1>1, <4>3 DEF Truthful
        <4> QED BY <1>1, <4>2, <4>4, <4>5
      <3> QED BY <2>2, <2>3, <2>6, <3>1 DEF Blocked
    <2> QED BY <1>5, <2>4, <2>5, <2>6 DEF Painted
  <1> QED BY <1>2, <1>4, <1>5 DEF Painted

LEMMA HearStep ==
  ASSUME WidgetTypes, NEW E \in SUBSET Nat, NEW P \in SUBSET RowShape, Account(E, P), NEW c \in Checks,
         \A d \in Checks : d = c, Hear(c)
  PROVE  Account(E, P)'
  <1>1. /\ checks[c].st = "told" /\ UNCHANGED <<store, items, total, truncated, shown, mount, writes, burst, faults>>
        /\ checks[c] \in Chains
    BY DEF Hear, WidgetTypes
  <1>2. SameAcks
    BY <1>1 DEF SameAcks, Acked
  <1>3. checks' \in [Checks -> Chains] /\ checks'[c].st \in {"walking", "idle"}
    BY DEF Hear, WidgetTypes, Idle, Chains
  <1>4. Checked(E)'
    <2>1. \A d \in Checks : checks'[d].st \notin {"asked", "told"}
      BY <1>3
    <2> QED BY <2>1 DEF Checked
  <1>5. Ledger(E, P)' /\ Acks(E, P)' /\ Fewer
    BY <1>1, <1>2, LedgerStays, AcksStay DEF Account
  <1>6. CASE checks[c].moved
    <2>1. walk' = Triggered /\ UNCHANGED version
      BY <1>6 DEF Hear
    <2>2. (walk # None => Walked(walk, P))'
      BY <1>1, <2>1, TriggerWalked DEF Account, WidgetTypes
    <2>3. Painted(P)'
      BY <1>1, <1>5, <2>1, PaintedStays DEF Account
    <2> QED BY <1>4, <1>5, <2>2, <2>3 DEF Account
  <1>7. CASE ~checks[c].moved
    <2>1. version' = checks[c].latest /\ UNCHANGED walk
      BY <1>7 DEF Hear
    <2>2. version' \in Nat
      BY <1>1, <2>1 DEF Chains, Idle
    <2>3. version' <= seq /\ \A e \in E : e <= version \/ e > version'
      BY <1>1, <1>7, <2>1 DEF Account, Checked
    <2>4. Painted(P)'
      BY <1>1, <2>2, <2>3, SteppedPainted DEF Account
    <2>5. (walk # None => Walked(walk, P))'
      BY <1>1, <2>1, WalkStays DEF Account
    <2> QED BY <1>4, <1>5, <2>4, <2>5 DEF Account
  <1> QED BY <1>6, <1>7
LEMMA SyncInit == Init => SyncInv
  <1> SUFFICES ASSUME Init PROVE SyncInv
    OBVIOUS
  <1>1. Counted
    BY CountInit
  <1>2. StoreTypes /\ PaintTypes /\ WidgetTypes
    BY <1>1 DEF Counted, WidgetTypes
  <1> DEFINE upTo(i) == {j \in Ids : j <= i}
             n == Cardinality(Ids)
  <1>3. n \in Nat /\ \A i \in Ids : IsFiniteSet(upTo(i)) /\ Cardinality(upTo(i)) \in 1 .. n
    <2>1. IsFiniteSet(Ids) /\ n \in Nat
      BY IdsAssumption, FS_CardinalityType
    <2>2. ASSUME NEW i \in Ids PROVE IsFiniteSet(upTo(i)) /\ Cardinality(upTo(i)) \in 1 .. n
      <3>1. IsFiniteSet(upTo(i)) /\ Cardinality(upTo(i)) <= n /\ Cardinality(upTo(i)) \in Nat
        BY <2>1, FS_Subset, FS_CardinalityType
      <3>2. i \in upTo(i)
        BY IdsAssumption
      <3>3. Cardinality(upTo(i)) # 0
        BY <3>1, <3>2, FS_EmptySet
      <3> QED BY <2>1, <3>1, <3>3
    <2> QED BY <2>1, <2>2
  <1>4. /\ seq = n /\ collSeq = n /\ table \in [Ids -> Positions] /\ last = [i \in Ids |-> Cardinality(upTo(i))]
        /\ items = {} /\ version = 0 /\ walk = Fresh
        /\ writes = [w \in Writes |-> Idle] /\ checks = [c \in Checks |-> Idle]
    BY DEF Init
  <1>5. \A i \in Ids : last[i] = Cardinality(upTo(i)) /\ table[i] # None
    <2>1. \A i \in Ids : table[i] \in Nat
      BY <1>4, LimitsAssumption
    <2> QED BY <1>4, <2>1, NoneAssumption
  \* Each row has an event of its own.
  <1>6. ASSUME NEW i \in Ids, NEW j \in Ids, last[i] = last[j] PROVE i = j
    <2>1. ASSUME NEW x \in Ids, NEW y \in Ids, x < y PROVE Cardinality(upTo(x)) # Cardinality(upTo(y))
      <3>1. x \in Nat /\ y \in Nat /\ Ids \subseteq Nat
        BY IdsAssumption
      <3>2. upTo(x) \subseteq upTo(y) /\ y \in upTo(y) /\ y \notin upTo(x)
        <4>1. \A k \in Ids : k <= x => k <= y
          BY <2>1, <3>1
        <4>2. y <= y /\ ~ (y <= x)
          BY <2>1, <3>1
        <4> QED BY <4>1, <4>2
      <3> HIDE DEF upTo
      <3> QED BY <1>3, <3>2, FS_Subset
    <2>2. i \in Nat /\ j \in Nat
      BY IdsAssumption
    <2>3. Cardinality(upTo(i)) = Cardinality(upTo(j))
      BY <1>5, <1>6
    <2> HIDE DEF upTo
    <2>4. ~ (i < j) /\ ~ (j < i)
      BY <2>1, <2>3
    <2> QED BY <2>2, <2>4
  <1> HIDE DEF upTo, n
  <1>7. PICK E : E = 0 .. n
    OBVIOUS
  <1>8. PICK P : P = Rows
    OBVIOUS
  <1>9. E \in SUBSET Nat /\ P \in SUBSET RowShape
    BY <1>2, <1>3, <1>7, <1>8, RowTypes
  <1>10. Ledger(E, P)
    <2>1. \A i \in Ids : last[i] \in E /\ last[i] \in Nat
      BY <1>3, <1>5, <1>7
    <2>2. ASSUME NEW r \in P
          PROVE  r.ver \in E /\ r.ver <= last[r.id] /\ \A j \in Ids : last[j] = r.ver => table[j] # None /\ r = RowOf(j)
      <3>1. PICK i \in Ids : r = RowOf(i)
        BY <1>8 DEF Rows
      <3>2. r.id = i /\ r.ver = last[i]
        BY <3>1 DEF RowOf
      <3>3. \A j \in Ids : last[j] = r.ver => table[j] # None /\ r = RowOf(j)
        BY <1>5, <1>6, <3>1, <3>2
      <3> QED BY <2>1, <3>2, <3>3
    <2>3. ASSUME NEW r \in P, NEW s \in P, r.ver = s.ver PROVE r = s
      <3>1. PICK i \in Ids : r = RowOf(i)
        BY <1>8 DEF Rows
      <3>2. last[i] = s.ver
        BY <2>3, <3>1 DEF RowOf
      <3> QED BY <2>2, <3>1, <3>2
    <2>4. collSeq \in E /\ collSeq <= seq /\ \A e \in E : e <= collSeq
      BY <1>3, <1>4, <1>7
    <2> QED BY <1>8, <2>1, <2>2, <2>3, <2>4 DEF Ledger
  <1>11. \A w \in Writes : ~Acked(w)
    BY <1>4 DEF Acked, Idle
  <1>12. Acks(E, P)
    BY <1>11 DEF Acks
  <1>13. walk # None => Walked(walk, P)
    BY <1>4, FreshWalked
  <1>14. Painted(P)
    <2>1. HonestWatermark
      BY <1>3, <1>4, <1>5 DEF HonestWatermark
    <2>2. OneOld /\ Single
      BY <1>4 DEF OneOld, Single
    <2>3. items \subseteq P /\ version <= seq
      BY <1>3, <1>4
    <2> QED BY <2>1, <2>2, <2>3 DEF Painted
  <1>15. Checked(E)
    BY <1>4 DEF Checked, Idle
  <1> QED BY <1>1, <1>9, <1>10, <1>12, <1>13, <1>14, <1>15 DEF SyncInv, Account

LEMMA SyncStep ==
  ASSUME \A c, d \in Checks : c = d
  PROVE  SyncInv /\ [Next]_vars => SyncInv'
  <1> SUFFICES ASSUME SyncInv, [Next]_vars PROVE SyncInv'
    OBVIOUS
  <1>1. Counted /\ Counted'
    BY CountStep DEF SyncInv
  <1>2. WidgetTypes /\ WidgetTypes' /\ StoreTypes /\ StoreTypes'
    BY <1>1 DEF Counted, WidgetTypes
  <1>3. PICK E \in SUBSET Nat, P \in SUBSET RowShape : Account(E, P)
    BY DEF SyncInv
  <1>4. SUFFICES \E E2 \in SUBSET Nat, P2 \in SUBSET RowShape : Account(E2, P2)'
    BY <1>1 DEF SyncInv
  <1>5. \A i \in Ids : last[i] <= seq
    BY <1>2, <1>3, LedgerBounds DEF Account
  <1>6. ASSUME NEW i \in Ids, NEW p \in Positions \cup {None}, Foreign(i, p) PROVE <1>4!1
    <2>1. Log(i, p) /\ UNCHANGED <<paint, mount, walk, writes, burst, checks, faults>>
      BY <1>6 DEF Foreign
    <2>2. Event
      BY <1>2, <1>5, <2>1, LogIsEvent
    <2>3. \A w \in Writes : Acked(w)' => Acked(w) /\ writes'[w].ack = writes[w].ack
      BY <2>1 DEF Acked
    <2> QED BY <1>2, <1>3, <2>1, <2>2, <2>3, WriterStep
  <1>7. ASSUME NEW i \in Ids, NEW p \in Positions \cup {None}, NEW w \in Writes, Execute(w, i, p) PROVE <1>4!1
    <2>1. Log(i, p) /\ UNCHANGED <<paint, mount, walk, burst, checks, faults>>
          /\ writes' = [writes EXCEPT ![w] = [st |-> "acked", ack |-> Receipt(i, p)]]
      BY <1>7 DEF Execute
    <2>2. Event
      BY <1>2, <1>5, <2>1, LogIsEvent
    <2>3. ASSUME NEW v \in Writes, Acked(v)'
          PROVE  \/ Acked(v) /\ writes'[v].ack = writes[v].ack
                 \/ \E x \in Ids, y \in Positions \cup {None} : Log(x, y) /\ writes'[v].ack = Receipt(x, y)
      <3>1. CASE v = w
        <4>1. writes'[v].ack = Receipt(i, p)
          BY <1>2, <2>1, <3>1 DEF WidgetTypes
        <4> QED BY <2>1, <4>1
      <3>2. CASE v # w
        BY <1>2, <2>1, <2>3, <3>2 DEF WidgetTypes, Acked
      <3> QED BY <3>1, <3>2
    <2> QED BY <1>2, <1>3, <2>1, <2>2, <2>3, WriterStep
  <1>8. ASSUME Cleared PROVE <1>4!1
    <2>1. UNCHANGED <<paint, mount, walk, writes, burst, checks, faults>>
      BY <1>8 DEF Cleared
    <2>2. Event
      BY <1>2, <1>8, ClearedIsEvent
    <2>3. \A w \in Writes : Acked(w)' => Acked(w) /\ writes'[w].ack = writes[w].ack
      BY <2>1 DEF Acked
    <2> QED BY <1>2, <1>3, <2>1, <2>2, <2>3, WriterStep
  <1>9. ASSUME Account(E, P)' PROVE <1>4!1
    BY <1>9
  \* The steps that leave the account as it is.
  <1>10. ASSUME UNCHANGED <<store, items, version, truncated, checks>>, SameAcks, (walk # None => Walked(walk, P))'
         PROVE  Account(E, P)'
    BY <1>2, <1>3, <1>10, QuietStep
  <1>11. ASSUME FetchPage PROVE Account(E, P)'
    <2>1. UNCHANGED <<store, paint, mount, writes, burst, checks, faults>> /\ walk # None
      BY <1>11 DEF FetchPage
    <2>2. (walk # None => Walked(walk, P))'
      BY <1>2, <1>3, <1>11, <2>1, FetchWalked DEF Account, WidgetTypes
    <2>3. SameAcks
      BY <2>1 DEF SameAcks, Acked
    <2> QED BY <1>10, <2>1, <2>2, <2>3 DEF paint
  <1>12. ASSUME WalkFails PROVE Account(E, P)'
    <2>1. AfterWalk /\ UNCHANGED <<store, paint, mount, writes, burst, checks>>
      BY <1>12 DEF WalkFails
    <2>2. (walk # None => Walked(walk, P))'
      BY <2>1, AfterWalked
    <2>3. SameAcks
      BY <2>1 DEF SameAcks, Acked
    <2> QED BY <1>10, <2>1, <2>2, <2>3 DEF paint
  <1>13. ASSUME UNCHANGED <<store, items, version, truncated, checks>>, SameAcks, walk' = walk \/ walk' = Triggered
         PROVE  Account(E, P)'
    <2>1. (walk # None => Walked(walk, P))'
      BY <1>2, <1>3, <1>13, TriggerWalked DEF Account, WidgetTypes
    <2> QED BY <1>10, <1>13, <2>1
  <1>14. ASSUME Flush \/ Refresh \/ Recover \/ UNCHANGED vars PROVE Account(E, P)'
    <2>1. UNCHANGED <<store, items, version, truncated, checks, writes>> /\ (walk' = walk \/ walk' = Triggered)
      BY <1>14 DEF Flush, Refresh, Recover, vars, paint
    <2>2. SameAcks
      BY <2>1 DEF SameAcks, Acked
    <2> QED BY <1>13, <2>1, <2>2
  <1>15. ASSUME NEW w \in Writes, NEW v, writes' = [writes EXCEPT ![w] = v], v.st # "acked" \/ v.ack.kind # "ok"
         PROVE  SameAcks
    <2>1. \A x \in Writes : x # w => writes'[x] = writes[x]
      BY <1>2, <1>15 DEF WidgetTypes
    <2>2. writes'[w] = v
      BY <1>2, <1>15 DEF WidgetTypes
    <2> QED BY <1>15, <2>1, <2>2 DEF SameAcks, Acked
  <1>16. ASSUME NEW w \in Writes, Send(w) \/ Drop(w) \/ \E kind \in {"conflict", "error"} : Refuse(w, kind)
         PROVE  Account(E, P)'
    <2>1. /\ UNCHANGED <<store, items, version, truncated, checks>>
          /\ walk' = walk \/ walk' = Triggered
      BY <1>16, EndCallIs DEF Send, Drop, Refuse, EndWrites, paint
    <2>2. SameAcks
      <3>1. CASE Send(w)
        <4>1. writes' = [writes EXCEPT ![w] = [st |-> "sent"]]
          BY <3>1 DEF Send
        <4> QED BY <1>15, <4>1
      <3>2. CASE Drop(w)
        <4>1. writes' = [writes EXCEPT ![w] = Idle]
          BY <3>2, EndCallIs DEF Drop, EndWrites
        <4> QED BY <1>15, <4>1 DEF Idle
      <3>3. ASSUME NEW kind \in {"conflict", "error"}, Refuse(w, kind) PROVE SameAcks
        <4>1. writes' = [writes EXCEPT ![w] = [st |-> "acked", ack |-> [kind |-> kind]]]
          BY <3>3 DEF Refuse
        <4> QED BY <1>15, <4>1
      <3> QED BY <1>16, <3>1, <3>2, <3>3
    <2> QED BY <1>13, <2>1, <2>2
  <1>17. ASSUME NEW c \in Checks, Hear(c) PROVE Account(E, P)'
    BY <1>2, <1>3, <1>17, HearStep
  <1>18. ASSUME NEW c \in Checks, Probe(c) \/ Heed(c) \/ Answer(c) \/ Resume(c) \/ CheckFails(c)
         PROVE  Account(E, P)'
    BY <1>2, <1>3, <1>18, ChainStep
  <1>19. ASSUME Elsewhere PROVE Account(E, P)'
    BY <1>2, <1>3, <1>19, ElsewhereStep
  <1>20. ASSUME FinishWalk PROVE Account(E, P)'
    BY <1>2, <1>3, <1>20, FinishStep
  <1>21. ASSUME NEW w \in Writes, Receive(w) PROVE Account(E, P)'
    BY <1>2, <1>3, <1>21, ReceiveStep
  <1>22. ASSUME NEW w \in Writes, Replay(w) PROVE Account(E, P)'
    BY <1>2, <1>3, <1>22, ReplayStep
  <1> QED BY <1>6, <1>7, <1>8, <1>9, <1>11, <1>12, <1>14, <1>16, <1>17, <1>18, <1>19, <1>20, <1>21, <1>22 DEF Next

\* TotalIsHonest, for any rows, writes in flight and chains: unless the projection says that it
\* is cut off, the count the widget shows is the number of rows it has painted (adopt, applyAck).
THEOREM TotalIsTrue == Spec => []TotalIsHonest
  <1>1. Counted => TotalIsHonest
    BY DEF Counted
  <1> QED BY <1>1, CountInit, CountStep, PTL DEF Spec

\* The account is kept: where one chain at a time asks after the writes of others, there are a set
\* of events and a set of rows that explain the store, every receipt, the walk in flight, the rows
\* on screen and what the chain was told.
THEOREM AccountInvariance ==
  ASSUME \A c, d \in Checks : c = d
  PROVE  Spec => []SyncInv
  BY SyncInit, SyncStep, PTL DEF Spec

\* HonestWatermark, for any rows, positions, pages, restarts and writes in flight, in a widget with
\* one chain of checks: of every row whose last event is within `version` it shows what the store
\* holds (decideAck, applyAck, canAdopt, decideChanges).  Two chains break it: see widget_viewer.
THEOREM WatermarkIsHonest ==
  ASSUME \A c, d \in Checks : c = d
  PROVE  Spec => []HonestWatermark
  <1>1. SyncInv => HonestWatermark
    BY DEF SyncInv, Account, Painted
  <1> QED BY <1>1, AccountInvariance, PTL
=============================================================================
