-------------------------- MODULE ItemStoreProofs --------------------------
(***************************************************************************)
(* Proofs about ItemStore for every value of its constants.  Every action  *)
(* is first classified by what it does to the rows and the ledger (Logs,   *)
(* Clears, Saves, Rollback, Begins, or nothing); each invariant is then    *)
(* preserved once per class instead of once per action.                    *)
(***************************************************************************)
EXTENDS ItemStore, SequenceTheorems, TLAPS

LOCAL WF == INSTANCE WellFoundedInduction

\* What undo reads back from an event has the type of a row's parts.
Shaped(e) ==
  /\ e.type = "item_deleted" => e.coll \in Collections /\ e.grp \in Groups
  /\ e.type = "item_moved" => e.fromGrp \in Groups
LedgerShaped == \A n \in 1..Len(ledger) : Shaped(ledger[n])

\* The payload of an event tells what its row b was, as far as undo needs it.
Records(e, b) ==
  /\ e.type = "item_added" => b = None
  /\ e.type = "item_updated" => b # None /\ e.was = PreImage(b.fields, e.fields)
  /\ e.type = "item_moved" => b # None /\ e.fromGrp = b.grp /\ e.fromPos = b.pos
  /\ e.type = "item_deleted" =>
       /\ b # None
       /\ e.coll = b.coll /\ e.grp = b.grp /\ e.pos = b.pos /\ e.was = b.fields

\* A row that replaces b breaks no part of the manifest that b kept.
NoWorse(row, b) ==
  row # None => Violations(row.coll, row.fields) \subseteq
                  IF b = None THEN {} ELSE Violations(b.coll, b.fields)

\* One row write: an event about item i, and the row it leaves at the event's seq.
Logs(i) ==
  \E e \in EventType, row \in Row \cup {None} :
    /\ Write(e, i, row)
    /\ row = After(rows[i], e, Version)
    /\ Records(e, rows[i])
    /\ NoWorse(row, rows[i])
    /\ e.id = i
    /\ Shaped(e)
    /\ Unseen(e.cmd)
    /\ IF row = None THEN e.type = "item_deleted"
       ELSE e.type # "item_deleted" /\ row.version = Version
    /\ e.type # "rows_cleared"
    /\ e.by # None => /\ rows[i] # None
                      /\ e.by \in tokens
                      /\ e.by.target = i
                      /\ e.by.version = rows[i].version
                      /\ e.was = rows[i].fields

\* The rows present, and the ids absent, are what the first k events say.
RowsFollow(R, L, k) ==
  \A i \in Ids :
    R[i] # None =>
      /\ R[i].version \in 1..k
      /\ L[R[i].version].id = i
      /\ L[R[i].version].type # "item_deleted"
      /\ \A n \in 1..k : L[n].id = i => n <= R[i].version

GoneFollows(R, L, k) ==
  \A i \in Ids :
    R[i] = None =>
      \A n \in 1..k :
        L[n].id = i /\ (\A m \in 1..k : L[m].id = i => m <= n) =>
          \/ L[n].type = "item_deleted"
          \/ \E m \in 1..k : m > n /\ L[m].type = "rows_cleared"

\* A confirmed delete is the first event about its item since the version it pinned.
Pinned ==
  \A n \in 1..Len(ledger) :
    ledger[n].by # None =>
      /\ ledger[n].by.target = ledger[n].id
      /\ ledger[n].by.version < n
      /\ \A m \in 1..(n - 1) : ledger[m].id = ledger[n].id => m <= ledger[n].by.version

\* Inside a batch the rows it has not touched are those it began with.
SnapshotInv ==
  Open =>
    /\ RowsFollow(txn.rows, ledger, txn.len)
    /\ GoneFollows(txn.rows, ledger, txn.len)
    /\ \A i \in Ids : rows[i] # None /\ rows[i].version <= txn.len => rows[i] = txn.rows[i]

\* A settled reading is of a committed version, and that version still means what it said.
Names(R, h) == R[h.id] # None /\ R[h.id].version = h.row.version => R[h.id] = h.row

HeldInv ==
  \A r \in Readers :
    held[r] # None /\ held[r].settled =>
      /\ held[r].row.version <= IF Open THEN txn.len ELSE Len(ledger)
      /\ Names(rows, held[r])
      /\ Open => Names(txn.rows, held[r])

\* The ledger accounts for the rows, and its first events for those a batch began with.
Explained ==
  /\ LedgerExplainsRows
  /\ Open => \A i \in Ids : txn.rows[i] = RowAt(i, SubSeq(ledger, 1, txn.len))

\* Each event recorded the row that the events before it had left.
Recorded ==
  \A n \in 1..Len(ledger) :
    Records(ledger[n], RowAt(ledger[n].id, SubSeq(ledger, 1, n - 1)))

\* A settled confirmation is for a committed version, whose fields are the ones shown.
Shows(R, t) ==
  R[t.target] # None /\ R[t.target].version = t.version => R[t.target].fields = t.shown

TokenInv ==
  \A t \in tokens :
    t.settled =>
      /\ t.version <= IF Open THEN txn.len ELSE Len(ledger)
      /\ Shows(rows, t)
      /\ Open => Shows(txn.rows, t)

IInv ==
  /\ TypeOK
  /\ LedgerShaped
  /\ RowsFollow(rows, ledger, Len(ledger))
  /\ GoneFollows(rows, ledger, Len(ledger))
  /\ SnapshotInv
  /\ OneEffectPerCommand
  /\ Pinned
  /\ HeldInv
  /\ Explained
  /\ Recorded
  /\ TokenInv
  /\ ShownIsDeleted

----------------------------------------------------------------------------
(* Replaying a ledger.  RowAt is a recursive function over its prefixes;    *)
(* what holds of it for every length is shown by least counterexample.      *)

\* A non-empty set of naturals has a least element.
LEMMA LeastNat ==
  ASSUME NEW T, T \subseteq Nat, T # {}
  PROVE  \E k \in T : \A j \in T : k <= j
<1> DEFINE R == {xy \in Nat \X Nat : xy[1] < xy[2]}
<1>1. WF!IsWellFoundedOn(R, Nat)
  BY WF!NatLessThanWellFounded, Zenon DEF WF!OpToRel
<1>2. \E x \in T : \A y \in T : ~(<<y, x>> \in R)
  <2> HIDE DEF R
  <2> QED BY <1>1, WF!WFMin
<1>3. PICK x \in T : \A y \in T : ~(<<y, x>> \in R)
  BY <1>2
<1>4. \A y \in T : ~(y < x)
  BY <1>3
<1> QED BY <1>4

\* What event e, the n-th, makes of the row b of item i.
Replayed(b, e, i, n) ==
  IF e.type = "rows_cleared" THEN IF b # None /\ b.coll = e.coll THEN None ELSE b
  ELSE IF e.id = i THEN After(b, e, n) ELSE b

IsReplay(f, i, L, k) ==
  f = [n \in 0..k |-> IF n = 0 THEN None ELSE Replayed(f[n - 1], L[n], i, n)]

\* What a replay is at each length.
LEMMA ReplaySteps ==
  ASSUME NEW f, NEW i, NEW L, NEW k \in Nat, IsReplay(f, i, L, k)
  PROVE  /\ f[0] = None
         /\ \A n \in 1..k : f[n] = Replayed(f[n - 1], L[n], i, n)
<1> DEFINE At(n) == IF n = 0 THEN None ELSE Replayed(f[n - 1], L[n], i, n)
<1>1. f = [n \in 0..k |-> At(n)]
  BY Zenon DEF IsReplay
<1> HIDE DEF At
<1>2. \A n \in 0..k : f[n] = At(n)
  BY <1>1
<1>3. f[0] = At(0) /\ \A n \in 1..k : f[n] = At(n) /\ n # 0
  BY <1>2
<1> QED BY <1>3, Zenon DEF At

\* A ledger can be replayed to every length.
LEMMA ReplayExists ==
  ASSUME NEW i, NEW L, NEW k \in Nat
  PROVE  \E f : IsReplay(f, i, L, k)
<1> DEFINE T == {n \in Nat : ~\E f : IsReplay(f, i, L, n)}
<1> SUFFICES ASSUME T # {} PROVE FALSE
  OBVIOUS
<1>1. PICK n \in T : \A j \in T : n <= j
  <2> HIDE DEF T
  <2>1. T \subseteq Nat
    BY DEF T
  <2> QED BY <2>1, LeastNat
<1>2. CASE n = 0
  <2> DEFINE f == [m \in 0..0 |-> None]
  <2>1. f = [m \in 0..0 |-> IF m = 0 THEN None ELSE Replayed(f[m - 1], L[m], i, m)]
    OBVIOUS
  <2>2. IsReplay(f, i, L, 0)
    BY <2>1, Zenon DEF IsReplay
  <2> QED BY <1>2, <2>2
<1>3. CASE n # 0
  <2>1. n - 1 \in Nat /\ n - 1 \notin T
    BY <1>1, <1>3
  <2>2. PICK f : IsReplay(f, i, L, n - 1)
    BY <2>1
  <2> DEFINE g == [m \in 0..n |-> IF m = n THEN Replayed(f[n - 1], L[n], i, n) ELSE f[m]]
  <2>3. /\ f[0] = None
        /\ \A m \in 1..(n - 1) : f[m] = Replayed(f[m - 1], L[m], i, m)
    BY <2>1, <2>2, ReplaySteps
  <2>4. ASSUME NEW m \in 0..n
        PROVE  g[m] = IF m = 0 THEN None ELSE Replayed(g[m - 1], L[m], i, m)
    <3>1. CASE m = 0
      BY <1>3, <2>3, <3>1
    <3>2. CASE m = n
      <4>1. g[m] = Replayed(f[n - 1], L[n], i, n) /\ g[n - 1] = f[n - 1]
        BY <1>3, <3>2, <2>1
      <4> QED BY <1>3, <3>2, <4>1
    <3>3. CASE m # 0 /\ m # n
      <4>1. m \in 1..(n - 1) /\ g[m] = f[m] /\ g[m - 1] = f[m - 1]
        BY <3>3
      <4> QED BY <2>3, <3>3, <4>1
    <3> QED BY <3>1, <3>2, <3>3
  <2>5. g = [m \in 0..n |-> IF m = 0 THEN None ELSE Replayed(g[m - 1], L[m], i, m)]
    <3>1. g = [m \in 0..n |-> g[m]]
      OBVIOUS
    <3> HIDE DEF g
    <3> QED BY <2>4, <3>1
  <2>6. IsReplay(g, i, L, n)
    <3> HIDE DEF g
    <3> QED BY <2>5, Zenon DEF IsReplay
  <2> QED BY <2>6
<1> QED BY <1>2, <1>3

\* Two ledgers that begin with the same events replay the same that far.
LEMMA ReplayUnique ==
  ASSUME NEW i, NEW f, NEW L, NEW k \in Nat, IsReplay(f, i, L, k),
         NEW g, NEW M, NEW j \in 0..k, IsReplay(g, i, M, j), \A n \in 1..j : M[n] = L[n]
  PROVE  \A n \in 0..j : g[n] = f[n]
<1> DEFINE T == {n \in 0..j : g[n] # f[n]}
<1> SUFFICES ASSUME T # {} PROVE FALSE
  OBVIOUS
<1>1. PICK n \in T : \A m \in T : n <= m
  <2> HIDE DEF T
  <2>1. T \subseteq Nat
    BY DEF T
  <2> QED BY <2>1, LeastNat
<1>2. /\ f[0] = None /\ g[0] = None
      /\ \A m \in 1..k : f[m] = Replayed(f[m - 1], L[m], i, m)
      /\ \A m \in 1..j : g[m] = Replayed(g[m - 1], M[m], i, m)
  BY ReplaySteps
<1>3. n # 0
  BY <1>1, <1>2
<1>4. n - 1 \in 0..j /\ n - 1 \notin T
  BY <1>1, <1>3
<1>5. g[n - 1] = f[n - 1] /\ n \in 1..j /\ n \in 1..k
  BY <1>1, <1>3, <1>4
<1>6. g[n] = f[n]
  BY <1>2, <1>5
<1> QED BY <1>1, <1>6

\* RowAt is the end of a replay.
LEMMA RowAtReplays ==
  ASSUME NEW i, NEW L, Len(L) \in Nat
  PROVE  \E f : IsReplay(f, i, L, Len(L)) /\ RowAt(i, L) = f[Len(L)]
<1> DEFINE at == CHOOSE f : IsReplay(f, i, L, Len(L))
<1>1. IsReplay(at, i, L, Len(L))
  BY ReplayExists
<1>2. RowAt(i, L) = at[Len(L)]
  BY Zenon DEF RowAt, IsReplay, Replayed
<1> QED BY <1>1, <1>2

\* The row of an empty ledger, and of a ledger that goes on for one more event.
LEMMA RowAtEmpty ==
  ASSUME NEW i
  PROVE  RowAt(i, << >>) = None
<1>1. PICK f : IsReplay(f, i, << >>, Len(<< >>)) /\ RowAt(i, << >>) = f[Len(<< >>)]
  BY RowAtReplays
<1> QED BY <1>1, ReplaySteps

LEMMA RowAtNext ==
  ASSUME NEW i, NEW L \in Seq(EventType), NEW M \in Seq(EventType), Len(M) = Len(L) + 1,
         \A n \in 1..Len(L) : M[n] = L[n]
  PROVE  RowAt(i, M) = Replayed(RowAt(i, L), M[Len(M)], i, Len(M))
<1>1. PICK f : IsReplay(f, i, L, Len(L)) /\ RowAt(i, L) = f[Len(L)]
  BY RowAtReplays
<1>2. PICK g : IsReplay(g, i, M, Len(M)) /\ RowAt(i, M) = g[Len(M)]
  BY RowAtReplays
<1>3. Len(L) \in 0..Len(M) /\ Len(M) \in 1..Len(M) /\ Len(M) - 1 = Len(L)
  OBVIOUS
<1>4. f[Len(L)] = g[Len(L)]
  BY <1>1, <1>2, <1>3, ReplayUnique
<1>5. g[Len(M)] = Replayed(g[Len(L)], M[Len(M)], i, Len(M))
  BY <1>2, <1>3, ReplaySteps
<1> QED BY <1>1, <1>2, <1>4, <1>5

\* After the last event about an item its row stays, unless a cascade takes it.
LEMMA RowAtLast ==
  ASSUME NEW i, NEW L \in Seq(EventType), NEW s \in 1..Len(L),
         \A n \in (s + 1)..Len(L) : L[n].id # i
  PROVE  RowAt(i, L) \in {RowAt(i, SubSeq(L, 1, s)), None}
<1> DEFINE P == SubSeq(L, 1, s)
<1>1. P \in Seq(EventType) /\ Len(P) = s /\ \A n \in 1..s : P[n] = L[n]
  OBVIOUS
<1> HIDE DEF P
<1>2. PICK f : IsReplay(f, i, L, Len(L)) /\ RowAt(i, L) = f[Len(L)]
  BY RowAtReplays
<1>3. PICK g : IsReplay(g, i, P, s) /\ RowAt(i, P) = g[s]
  BY <1>1, RowAtReplays
<1>4. g[s] = f[s]
  BY <1>1, <1>2, <1>3, ReplayUnique
<1> DEFINE T == {n \in s..Len(L) : f[n] \notin {f[s], None}}
<1>5. ASSUME T # {} PROVE FALSE
  <2>1. PICK n \in T : \A m \in T : n <= m
    <3> HIDE DEF T
    <3>1. T \subseteq Nat
      BY DEF T
    <3> QED BY <1>5, <3>1, LeastNat
  <2>2. n # s /\ n - 1 \in s..Len(L) /\ n - 1 \notin T /\ n \in (s + 1)..Len(L)
    BY <2>1
  <2>3. f[n - 1] \in {f[s], None}
    BY <2>2
  <2>4. f[n] = Replayed(f[n - 1], L[n], i, n)
    BY <1>2, <2>2, ReplaySteps
  <2>5. f[n] \in {f[n - 1], None}
    BY <2>2, <2>4 DEF Replayed
  <2> QED BY <2>1, <2>3, <2>5
<1>6. f[Len(L)] \in {f[s], None}
  <2>1. Len(L) \in s..Len(L)
    OBVIOUS
  <2> QED BY <1>5, <2>1
<1> QED BY <1>2, <1>3, <1>4, <1>6 DEF P

----------------------------------------------------------------------------
(* Types.                                                                  *)

\* Merging a patch and taking its pre-image stay within the fields.
LEMMA FieldsClosed ==
  ASSUME NEW f \in Fields, NEW patch \in Fields
  PROVE  Merged(f, patch) \in Fields /\ PreImage(f, patch) \in Fields /\ NoFields \in Fields
BY DEF Fields, Merged, PreImage, NoFields

\* A blank event has the type of an event.
LEMMA EventTyped ==
  ASSUME NEW type \in {"item_added", "item_updated", "item_moved", "item_deleted",
                       "rows_cleared", "component_saved"},
         NEW i \in Ids \cup {None}, NEW c \in Commands \cup {Random},
         NEW col \in Collections \cup {None}
  PROVE  /\ Event(type, i, c, col) \in EventType
         /\ Event(type, i, c, col).type = type
         /\ Event(type, i, c, col).id = i
         /\ Event(type, i, c, col).cmd = c
         /\ Event(type, i, c, col).coll = col
         /\ Event(type, i, c, col).by = None
<1>1. NoFields \in Fields
  BY DEF Fields, NoFields
<1> QED BY <1>1 DEF Event, EventType

----------------------------------------------------------------------------
(* Each of the four row writes is a Logs step.                             *)

\* Adding a row logs it.
LEMMA InsertLogs ==
  ASSUME TypeOK, NEW i \in Ids, NEW c \in Commands \cup {Random}, Unseen(c),
         NEW col \in Collections, NEW g \in Groups, NEW pos \in Nat, NEW f \in Fields,
         InsertRow(c, i, col, g, pos, f)
  PROVE  Logs(i)
<1> DEFINE base == Event("item_added", i, c, col)
           e == [base EXCEPT !.fields = f, !.grp = g, !.pos = pos]
           row == [coll |-> col, grp |-> g, pos |-> pos, fields |-> f, version |-> Version]
<1>e. /\ base \in EventType /\ base.id = i /\ base.cmd = c
      /\ base.type = "item_added" /\ base.coll = col /\ base.by = None
  BY EventTyped
<1> HIDE DEF base
<1>1. /\ e \in EventType /\ e.id = i /\ e.cmd = c /\ Shaped(e)
      /\ e.type = "item_added" /\ e.by = None
  BY <1>e DEF EventType, Shaped
<1>2. row \in Row /\ row.version = Version
  BY DEF Row, Version, TypeOK
<1>3. row # None
  BY <1>2, RowAssumption
<1>4. Write(e, i, row) /\ rows[i] = None /\ Violations(col, f) = {}
  BY DEF InsertRow, base
<1>f. e.coll = col /\ e.grp = g /\ e.pos = pos /\ e.fields = f
  BY <1>e DEF EventType
<1>5. row = After(rows[i], e, Version)
  BY <1>1, <1>f DEF After
<1>6. Records(e, rows[i])
  BY <1>1, <1>4 DEF Records
<1>7. NoWorse(row, rows[i])
  BY <1>4 DEF NoWorse
<1> HIDE DEF e, row
<1> QED BY <1>1, <1>2, <1>3, <1>4, <1>5, <1>6, <1>7 DEF Logs

\* Patching a row logs it.
LEMMA PatchLogs ==
  ASSUME TypeOK, NEW i \in Ids, NEW c \in Commands \cup {Random}, Unseen(c),
         rows[i] # None, NEW patch \in Fields, PatchRow(c, i, patch)
  PROVE  Logs(i)
<1> DEFINE new == Merged(rows[i].fields, patch)
           base == Event("item_updated", i, c, rows[i].coll)
           e == [base EXCEPT
                   !.fields = patch, !.was = PreImage(rows[i].fields, patch)]
           row == [rows[i] EXCEPT !.fields = new, !.version = Version]
<1>0. rows[i] \in Row
  BY DEF TypeOK
<1>a. rows[i].fields \in Fields /\ rows[i].coll \in Collections
  BY <1>0 DEF Row
<1>b. new \in Fields /\ PreImage(rows[i].fields, patch) \in Fields
  BY <1>a, FieldsClosed
<1>e. /\ base \in EventType /\ base.id = i /\ base.cmd = c
      /\ base.type = "item_updated" /\ base.by = None
  BY <1>a, <1>b, EventTyped
<1> HIDE DEF base
<1>1. /\ e \in EventType /\ e.id = i /\ e.cmd = c /\ Shaped(e)
      /\ e.type = "item_updated" /\ e.by = None
  BY <1>a, <1>b, <1>e DEF EventType, Shaped
<1>c. Version \in Nat \ {0}
  BY DEF Version, TypeOK
<1>d. new = Merged(rows[i].fields, patch)
  OBVIOUS
<1> HIDE DEF new
<1>2. /\ row \in Row /\ row.version = Version
      /\ row.coll = rows[i].coll /\ row.fields = new
  BY <1>0, <1>b, <1>c DEF Row
<1>3. row # None
  BY <1>2, RowAssumption
<1>4. /\ Write(e, i, row)
      /\ Violations(rows[i].coll, new) \subseteq Violations(rows[i].coll, rows[i].fields)
  BY DEF PatchRow, new, base
<1>f. e.fields = patch /\ e.was = PreImage(rows[i].fields, patch)
  BY <1>e DEF EventType
<1>5. row = After(rows[i], e, Version)
  BY <1>1, <1>d, <1>f DEF After
<1>6. Records(e, rows[i])
  BY <1>1, <1>f DEF Records
<1>7. NoWorse(row, rows[i])
  BY <1>2, <1>4 DEF NoWorse
<1> HIDE DEF e, row
<1> QED BY <1>1, <1>2, <1>3, <1>4, <1>5, <1>6, <1>7 DEF Logs

\* Moving a row logs it.
LEMMA PlaceLogs ==
  ASSUME TypeOK, NEW i \in Ids, NEW c \in Commands \cup {Random}, Unseen(c),
         rows[i] # None, NEW g \in Groups, NEW pos \in Nat, PlaceRow(c, i, g, pos)
  PROVE  Logs(i)
<1> DEFINE base == Event("item_moved", i, c, rows[i].coll)
           e == [base EXCEPT
                   !.grp = g, !.pos = pos, !.fromGrp = rows[i].grp, !.fromPos = rows[i].pos]
           row == [rows[i] EXCEPT !.grp = g, !.pos = pos, !.version = Version]
<1>0. rows[i] \in Row
  BY DEF TypeOK
<1>a. rows[i].grp \in Groups /\ rows[i].coll \in Collections /\ rows[i].pos \in Nat
  BY <1>0 DEF Row
<1>e. /\ base \in EventType /\ base.id = i /\ base.cmd = c
      /\ base.type = "item_moved" /\ base.by = None
  BY <1>a, EventTyped
<1> HIDE DEF base
<1>1. /\ e \in EventType /\ e.id = i /\ e.cmd = c /\ Shaped(e)
      /\ e.type = "item_moved" /\ e.by = None
  BY <1>a, <1>e DEF EventType, Shaped
<1>c. Version \in Nat \ {0}
  BY DEF Version, TypeOK
<1>2. /\ row \in Row /\ row.version = Version
      /\ row.coll = rows[i].coll /\ row.fields = rows[i].fields
  BY <1>0, <1>c DEF Row
<1>3. row # None
  BY <1>2, RowAssumption
<1>4. Write(e, i, row)
  BY DEF PlaceRow, base
<1>f. /\ e.grp = g /\ e.pos = pos
      /\ e.fromGrp = rows[i].grp /\ e.fromPos = rows[i].pos
  BY <1>e DEF EventType
<1>5. row = After(rows[i], e, Version)
  BY <1>1, <1>f DEF After
<1>6. Records(e, rows[i])
  BY <1>1, <1>f DEF Records
<1>7. NoWorse(row, rows[i])
  BY <1>2 DEF NoWorse
<1> HIDE DEF e, row
<1> QED BY <1>1, <1>2, <1>3, <1>4, <1>5, <1>6, <1>7 DEF Logs

\* Removing a row logs it; a confirmation it consumed is about this row at this version.
LEMMA RemoveLogs ==
  ASSUME TypeOK, NEW i \in Ids, NEW c \in Commands \cup {Random}, Unseen(c),
         rows[i] # None, NEW by \in Token \cup {None}, RemoveRow(c, i, by),
         by # None => by \in tokens /\ by.target = i /\ by.version = rows[i].version
  PROVE  Logs(i)
<1> DEFINE base == Event("item_deleted", i, c, rows[i].coll)
           e == [base EXCEPT
                   !.was = rows[i].fields, !.grp = rows[i].grp, !.pos = rows[i].pos, !.by = by]
<1>0. rows[i] \in Row
  BY DEF TypeOK
<1>a. /\ rows[i].grp \in Groups /\ rows[i].coll \in Collections /\ rows[i].pos \in Nat
      /\ rows[i].fields \in Fields
  BY <1>0 DEF Row
<1>e. /\ base \in EventType /\ base.id = i /\ base.cmd = c
      /\ base.type = "item_deleted" /\ base.coll = rows[i].coll /\ base.by = None
  BY <1>a, EventTyped
<1> HIDE DEF base
<1>1. /\ e \in EventType /\ e.id = i /\ e.cmd = c /\ Shaped(e)
      /\ e.type = "item_deleted" /\ e.by = by
  BY <1>a, <1>e DEF EventType, Shaped
<1>4. Write(e, i, None)
  BY DEF RemoveRow, base
<1>f. /\ e.coll = rows[i].coll /\ e.grp = rows[i].grp /\ e.pos = rows[i].pos
      /\ e.was = rows[i].fields
  BY <1>e DEF EventType
<1>5. None = After(rows[i], e, Version)
  BY <1>1 DEF After
<1>6. Records(e, rows[i])
  BY <1>1, <1>f DEF Records
<1> HIDE DEF e
<1> QED BY <1>1, <1>4, <1>f, <1>5, <1>6 DEF Logs, NoWorse

----------------------------------------------------------------------------
(* The classes of steps.                                                   *)

\* A confirmation demanded in this step is about a row as it stands, and knows whether
\* readers outside the batch see that row too.
Demanded(t) ==
  /\ t \in Token
  /\ rows[t.target] # None
  /\ t.version = rows[t.target].version
  /\ t.shown = rows[t.target].fields
  /\ t.settled => t.version <= Len(Committed)

Demands == \A t \in tokens' : t \in tokens \/ Demanded(t)

LogStep == (\E i \in Ids : Logs(i)) /\ Succeeds /\ UNCHANGED <<tokens, strict, held>>
RollStep == Rollback /\ Demands /\ UNCHANGED <<strict, held>>
QuietStep == Demands /\ UNCHANGED <<rows, ledger, txn, strict, held>>

\* Tokens that come in by a demand are typed.
LEMMA DemandsTyped ==
  ASSUME TypeOK, Demands
  PROVE  tokens' \subseteq Token
BY DEF TypeOK, Demands, Demanded

\* Undoing the last event of an item is one row write.
LEMMA UndoLogs ==
  ASSUME TypeOK, LedgerShaped, NEW i \in Ids, NEW s \in 1..MaxSeq, UndoLast(i, s)
  PROVE  LogStep
<1> DEFINE e == ledger[s]
<1>1. s \in 1..Len(ledger) /\ Unseen(Random) /\ Succeeds /\ UNCHANGED <<tokens, strict, held>>
  BY DEF UndoLast, Command, LastOf, EventsOf, TypeOK, Unseen
<1>2. e \in EventType /\ Shaped(e)
  BY <1>1 DEF TypeOK, LedgerShaped
<1>3. e.was \in Fields /\ e.fromPos \in Nat /\ e.pos \in Nat
  BY <1>2 DEF EventType
<1>4. Reverse(i, e)
  BY DEF UndoLast
<1> HIDE DEF e
<1>5. CASE e.type = "item_added" /\ rows[i] # None /\ RemoveRow(Random, i, None)
  BY <1>1, <1>5, RemoveLogs DEF LogStep
<1>6. CASE e.type = "item_updated" /\ rows[i] # None /\ PatchRow(Random, i, e.was)
  BY <1>1, <1>3, <1>6, PatchLogs DEF LogStep
<1>7. CASE e.type = "item_moved" /\ rows[i] # None /\ PlaceRow(Random, i, e.fromGrp, e.fromPos)
  BY <1>1, <1>2, <1>3, <1>7, PlaceLogs DEF LogStep, Shaped
<1>8. CASE e.type = "item_deleted" /\ InsertRow(Random, i, e.coll, e.grp, e.pos, e.was)
  BY <1>1, <1>2, <1>3, <1>8, InsertLogs DEF LogStep, Shaped
<1> QED BY <1>4, <1>5, <1>6, <1>7, <1>8 DEF Reverse

\* Every step falls into one of nine classes.
LEMMA StepClasses ==
  ASSUME TypeOK, LedgerShaped, Next
  PROVE  \/ LogStep
         \/ RollStep
         \/ QuietStep
         \/ \E col \in Collections : ClearRows(col)
         \/ \E col \in Collections : SaveManifest(col)
         \/ \E n \in 1..MaxBatch : BeginBatch(n)
         \/ \E c \in Commands : ReplayInBatch(c)
         \/ \E r \in Readers, i \in Ids, v \in Versions \ {0} : BatchConflicts(r, i, v)
         \/ \E r \in Readers, i \in Ids : ReadItem(r, i)
<1> USE BoundsAssumption
<1>1. ASSUME NEW c \in Commands \cup {Random}, NEW i \in Ids, NEW col \in Collections,
             NEW g \in Groups, NEW pos \in 0..MaxSeq, NEW f \in Additions,
             AddItem(c, i, col, g, pos, f)
      PROVE  LogStep
  <2>1. f \in Fields /\ pos \in Nat
    BY AddedAssumption DEF Additions, Fields
  <2> QED BY <1>1, <2>1, InsertLogs DEF AddItem, Command, LogStep
<1>2. ASSUME NEW c \in Commands \cup {Random}, NEW i \in Ids, NEW v \in Versions,
             NEW patch \in Patches, UpdateItem(c, i, v, patch)
      PROVE  LogStep
  BY <1>2, PatchLogs DEF UpdateItem, Finds, Found, Command, LogStep, Patches
<1>3. ASSUME NEW c \in Commands \cup {Random}, NEW i \in Ids, NEW v \in Versions,
             NEW g \in Groups, NEW pos \in 0..MaxSeq, MoveItem(c, i, v, g, pos)
      PROVE  LogStep
  BY <1>3, PlaceLogs DEF MoveItem, Finds, Found, Command, LogStep
<1>4. ASSUME NEW c \in Commands \cup {Random}, NEW i \in Ids, NEW v \in Versions,
             DeleteItem(c, i, v)
      PROVE  LogStep
  BY <1>4, RemoveLogs DEF DeleteItem, Finds, Found, Command, LogStep
<1>5. ASSUME NEW c \in Commands \cup {Random}, NEW i \in Ids, NEW v \in Versions,
             NEW caller \in Callers, NEW t \in tokens, DeleteConfirmed(c, i, v, caller, t)
      PROVE  LogStep
  <2>1. t \in Token
    BY DEF TypeOK
  <2>2. t \in tokens /\ t.target = i /\ t.version = rows[i].version /\ rows[i] # None
    BY <1>5 DEF DeleteConfirmed, Verifies, Finds, Found
  <2>3. RemoveRow(c, i, t) /\ Unseen(c) /\ Succeeds /\ UNCHANGED <<tokens, strict, held>>
    BY <1>5 DEF DeleteConfirmed, Command
  <2> QED BY <2>1, <2>2, <2>3, RemoveLogs DEF LogStep
<1>6. ASSUME NEW caller \in Callers, NEW i \in Ids, NEW v \in Versions,
             DemandConfirmation(caller, i, v)
      PROVE  RollStep \/ QuietStep
  <2> DEFINE t == [caller |-> caller, target |-> i, version |-> rows[i].version,
                   shown |-> rows[i].fields, settled |-> rows[i].version <= Len(Committed)]
  <2>1. tokens' = tokens \cup {t} /\ rows[i] # None
    BY <1>6 DEF DemandConfirmation, Finds, Found
  <2>2. rows[i].version \in Nat \ {0} /\ rows[i].fields \in Fields
    BY <2>1 DEF TypeOK, Row
  <2>3. t \in Token
    BY <2>2 DEF Token
  <2>4. Demanded(t)
    <3>1. t.settled => rows[i].version <= Len(Committed)
      OBVIOUS
    <3>2. t.target = i /\ t.version = rows[i].version /\ t.shown = rows[i].fields
      OBVIOUS
    <3> HIDE DEF t
    <3> QED BY <2>1, <2>3, <3>1, <3>2 DEF Demanded
  <2>5. Demands
    <3> HIDE DEF t
    <3> QED BY <2>1, <2>4 DEF Demands
  <2> QED BY <1>6, <2>5 DEF DemandConfirmation, RollStep, QuietStep
<1>7. ASSUME NEW t \in tokens, Expire(t)
      PROVE  QuietStep
  BY <1>7 DEF Expire, QuietStep, Demands
<1>8. BatchFails => RollStep
  BY DEF BatchFails, RollStep, Demands
<1>9. ASSUME NEW i \in Ids, NEW s \in 1..MaxSeq, UndoLast(i, s)
      PROVE  LogStep
  BY <1>9, UndoLogs
<1>10. Refused => QuietStep
  BY DEF Refused, QuietStep, vars, Demands
<1> QED BY <1>1, <1>2, <1>3, <1>4, <1>5, <1>6, <1>7, <1>8, <1>9, <1>10 DEF Next

----------------------------------------------------------------------------
(* What one class of steps does to each part of the invariant.              *)

\* The counter of an open batch stays positive.
LEMMA SucceedsTyped ==
  ASSUME TypeOK, Succeeds, Len(ledger) \in Nat, Len(ledger') \in Nat, Len(ledger) <= Len(ledger')
  PROVE  /\ txn' \in [left : Nat \ {0}, rows : [Ids -> Row \cup {None}], len : Nat] \cup {None}
         /\ txn' # None => /\ txn # None /\ txn'.len = txn.len /\ txn'.rows = txn.rows
                           /\ txn'.len <= Len(ledger')
<1>1. CASE ~Open \/ txn.left = 1
  BY <1>1 DEF Succeeds
<1>2. CASE Open /\ txn.left # 1
  <2>1. txn \in [left : Nat \ {0}, rows : [Ids -> Row \cup {None}], len : Nat]
    BY <1>2 DEF TypeOK, Open
  <2>2. txn' = [txn EXCEPT !.left = @ - 1]
    BY <1>2 DEF Succeeds
  <2>3. txn.left - 1 \in Nat \ {0} /\ txn.len \in Nat
    BY <1>2, <2>1
  <2>4. txn.len <= Len(ledger)
    BY <1>2 DEF TypeOK
  <2> QED BY <1>2, <2>1, <2>2, <2>3, <2>4 DEF Open
<1> QED BY <1>1, <1>2

\* A row write keeps the types.
LEMMA LogTyped ==
  ASSUME TypeOK, LedgerShaped, LogStep
  PROVE  TypeOK' /\ LedgerShaped'
<1>1. PICK i \in Ids : Logs(i)
  BY DEF LogStep
<1>2. PICK e \in EventType, row \in Row \cup {None} : Write(e, i, row) /\ Shaped(e)
  BY <1>1 DEF Logs
<1>3. ledger' = Append(ledger, e) /\ rows' = [rows EXCEPT ![i] = row]
  BY <1>2 DEF Write
<1>4. ledger \in Seq(EventType)
  BY DEF TypeOK
<1>5. /\ ledger' \in Seq(EventType)
      /\ Len(ledger') = Len(ledger) + 1 /\ Len(ledger) \in Nat
      /\ \A n \in 1..Len(ledger) : ledger'[n] = ledger[n]
      /\ ledger'[Len(ledger) + 1] = e
  BY <1>3, <1>4
<1>6. rows' \in [Ids -> Row \cup {None}]
  BY <1>3 DEF TypeOK
<1>7. /\ txn' \in [left : Nat \ {0}, rows : [Ids -> Row \cup {None}], len : Nat] \cup {None}
      /\ Open' => txn'.len <= Len(ledger')
  BY <1>5, SucceedsTyped DEF LogStep, Open
<1>8. TypeOK'
  BY <1>5, <1>6, <1>7 DEF TypeOK, LogStep
<1>9. LedgerShaped'
  <2> SUFFICES ASSUME NEW n \in 1..Len(ledger') PROVE Shaped(ledger'[n])
    BY DEF LedgerShaped, Shaped
  <2>1. CASE n \in 1..Len(ledger)
    BY <1>5, <2>1 DEF LedgerShaped
  <2>2. CASE n = Len(ledger) + 1
    BY <1>2, <1>5, <2>2
  <2> QED BY <1>5, <2>1, <2>2
<1> QED BY <1>8, <1>9

\* An event of another plane keeps the types.
LEMMA MarkTyped ==
  ASSUME TypeOK, LedgerShaped, NEW col \in Collections, ClearRows(col) \/ SaveManifest(col)
  PROVE  TypeOK' /\ LedgerShaped'
<1> DEFINE e == IF ClearRows(col) THEN Event("rows_cleared", None, Random, col)
                ELSE Event("component_saved", None, Random, None)
<1>1. e \in EventType /\ Shaped(e)
  BY EventTyped DEF Shaped
<1>2. ledger' = Append(ledger, e)
  BY DEF ClearRows, SaveManifest
<1>3. ledger \in Seq(EventType)
  BY DEF TypeOK
<1> HIDE DEF e
<1>4. /\ ledger' \in Seq(EventType)
      /\ Len(ledger') = Len(ledger) + 1 /\ Len(ledger) \in Nat
      /\ \A n \in 1..Len(ledger) : ledger'[n] = ledger[n]
      /\ ledger'[Len(ledger) + 1] = e
  BY <1>1, <1>2, <1>3
<1>5. rows' \in [Ids -> Row \cup {None}]
  BY DEF ClearRows, SaveManifest, TypeOK
<1>6. txn' = txn /\ tokens' = tokens /\ held' = held /\ ~Open
  BY DEF ClearRows, SaveManifest
<1>7. strict' \subseteq Collections
  BY DEF ClearRows, SaveManifest, TypeOK
<1>8. TypeOK'
  BY <1>4, <1>5, <1>6, <1>7 DEF TypeOK, Open
<1>9. LedgerShaped'
  <2> SUFFICES ASSUME NEW n \in 1..Len(ledger') PROVE Shaped(ledger'[n])
    BY DEF LedgerShaped, Shaped
  <2>1. CASE n \in 1..Len(ledger)
    BY <1>4, <2>1 DEF LedgerShaped
  <2>2. CASE n = Len(ledger) + 1
    BY <1>1, <1>4, <2>2
  <2> QED BY <1>4, <2>1, <2>2
<1> QED BY <1>8, <1>9

\* A rollback cuts the ledger back to where the batch began, and restores its rows.
LEMMA RollbackCuts ==
  ASSUME TypeOK, Rollback
  PROVE  /\ txn \in [left : Nat \ {0}, rows : [Ids -> Row \cup {None}], len : Nat]
         /\ ledger' \in Seq(EventType)
         /\ Len(ledger') = txn.len /\ txn.len <= Len(ledger)
         /\ \A n \in 1..txn.len : ledger'[n] = ledger[n]
         /\ rows' = txn.rows /\ txn' = None /\ Open
<1>1. txn \in [left : Nat \ {0}, rows : [Ids -> Row \cup {None}], len : Nat]
  BY DEF TypeOK, Rollback, Open
<1>2. ledger \in Seq(EventType) /\ txn.len \in Nat /\ txn.len <= Len(ledger)
  BY <1>1 DEF TypeOK, Rollback
<1>3. ledger' = SubSeq(ledger, 1, txn.len)
  BY DEF Rollback
<1>4. /\ ledger' \in Seq(EventType)
      /\ Len(ledger') = txn.len
      /\ \A n \in 1..txn.len : ledger'[n] = ledger[n]
  BY <1>2, <1>3
<1> QED BY <1>1, <1>2, <1>4 DEF Rollback

\* A rollback keeps the types.
LEMMA RollbackTyped ==
  ASSUME TypeOK, LedgerShaped, Rollback, tokens' \subseteq Token, strict' = strict,
         held' \in [Readers -> Held \cup {None}]
  PROVE  TypeOK' /\ LedgerShaped'
<1>1. TypeOK'
  BY RollbackCuts DEF TypeOK, Open
<1>2. LedgerShaped'
  BY RollbackCuts DEF LedgerShaped, Shaped, TypeOK
<1> QED BY <1>1, <1>2

\* The types are an invariant of every step.
LEMMA TypeNext ==
  ASSUME TypeOK, LedgerShaped, [Next]_vars
  PROVE  TypeOK' /\ LedgerShaped'
<1> USE BoundsAssumption
<1>1. CASE LogStep
  BY <1>1, LogTyped
<1>2. CASE RollStep
  BY <1>2, DemandsTyped, RollbackTyped DEF RollStep, TypeOK
<1>3. CASE QuietStep
  BY <1>3, DemandsTyped DEF QuietStep, TypeOK, LedgerShaped, Open
<1>4. ASSUME NEW col \in Collections, ClearRows(col) \/ SaveManifest(col)
      PROVE  TypeOK' /\ LedgerShaped'
  BY <1>4, MarkTyped
<1>5. ASSUME NEW n \in 1..MaxBatch, BeginBatch(n)
      PROVE  TypeOK' /\ LedgerShaped'
  <2>1. txn' \in [left : Nat \ {0}, rows : [Ids -> Row \cup {None}], len : Nat]
        /\ txn'.len = Len(ledger)
    BY <1>5 DEF BeginBatch, TypeOK
  <2> QED BY <1>5, <2>1 DEF BeginBatch, TypeOK, LedgerShaped, Open
<1>6. ASSUME NEW c \in Commands, ReplayInBatch(c)
      PROVE  TypeOK' /\ LedgerShaped'
  <2>1. Succeeds /\ UNCHANGED <<rows, ledger, tokens, strict, held>>
    BY <1>6 DEF ReplayInBatch
  <2>2. /\ txn' \in [left : Nat \ {0}, rows : [Ids -> Row \cup {None}], len : Nat] \cup {None}
        /\ Open' => txn'.len <= Len(ledger')
    BY <2>1, SucceedsTyped DEF TypeOK, Open
  <2> QED BY <2>1, <2>2 DEF TypeOK, LedgerShaped
<1>7. ASSUME NEW r \in Readers, NEW i \in Ids, NEW v \in Versions, BatchConflicts(r, i, v)
      PROVE  TypeOK' /\ LedgerShaped'
  <2>1. rows[i] \in Row /\ Rollback /\ tokens' = tokens /\ strict' = strict
    BY <1>7 DEF BatchConflicts, Found, TypeOK
  <2>2. [id |-> i, row |-> rows[i], settled |-> rows[i].version <= txn.len] \in Held
    BY <2>1 DEF Held
  <2>3. held' \in [Readers -> Held \cup {None}]
    BY <1>7, <2>2 DEF BatchConflicts, TypeOK
  <2> QED BY <2>1, <2>3, RollbackTyped DEF TypeOK
<1>8. ASSUME NEW r \in Readers, NEW i \in Ids, ReadItem(r, i)
      PROVE  TypeOK' /\ LedgerShaped'
  <2>1. Visible[i] \in Row
    BY <1>8 DEF ReadItem, Visible, TypeOK, Open
  <2>2. held' \in [Readers -> Held \cup {None}]
    BY <1>8, <2>1 DEF ReadItem, TypeOK, Held
  <2> QED BY <1>8, <2>2 DEF ReadItem, TypeOK, LedgerShaped, Open
<1>9. CASE UNCHANGED vars
  BY <1>9 DEF vars, TypeOK, LedgerShaped, Open
<1> QED BY <1>1, <1>2, <1>3, <1>4, <1>5, <1>6, <1>7, <1>8, <1>9, StepClasses

----------------------------------------------------------------------------
(* Rows and ledger.                                                        *)

\* What a row write does, spelled out position by position.
LEMMA LogFacts ==
  ASSUME TypeOK, LogStep
  PROVE  \E i \in Ids, e \in EventType, row \in Row \cup {None} :
           /\ Len(ledger) \in Nat /\ Len(ledger') = Len(ledger) + 1
           /\ \A n \in 1..Len(ledger) : ledger'[n] = ledger[n]
           /\ ledger'[Len(ledger) + 1] = e
           /\ rows'[i] = row
           /\ \A j \in Ids : j # i => rows'[j] = rows[j]
           /\ e.id = i
           /\ Unseen(e.cmd)
           /\ IF row = None THEN e.type = "item_deleted"
              ELSE e.type # "item_deleted" /\ row.version = Len(ledger) + 1
           /\ e.by # None => /\ rows[i] # None
                             /\ e.by.target = i
                             /\ e.by.version = rows[i].version
<1>1. PICK i \in Ids : Logs(i)
  BY DEF LogStep
<1>2. PICK e \in EventType, row \in Row \cup {None} :
        /\ Write(e, i, row)
        /\ e.id = i
        /\ Unseen(e.cmd)
        /\ IF row = None THEN e.type = "item_deleted"
           ELSE e.type # "item_deleted" /\ row.version = Version
        /\ e.by # None => /\ rows[i] # None
                          /\ e.by.target = i
                          /\ e.by.version = rows[i].version
  BY <1>1 DEF Logs
<1>3. ledger' = Append(ledger, e) /\ rows' = [rows EXCEPT ![i] = row]
  BY <1>2 DEF Write
<1>4. ledger \in Seq(EventType) /\ rows \in [Ids -> Row \cup {None}]
  BY DEF TypeOK
<1>5. /\ Len(ledger') = Len(ledger) + 1 /\ Len(ledger) \in Nat
      /\ \A n \in 1..Len(ledger) : ledger'[n] = ledger[n]
      /\ ledger'[Len(ledger) + 1] = e
  BY <1>3, <1>4
<1>6. rows'[i] = row /\ \A j \in Ids : j # i => rows'[j] = rows[j]
  BY <1>3, <1>4
<1> WITNESS i \in Ids, e \in EventType, row \in Row \cup {None}
<1> QED BY <1>2, <1>5, <1>6 DEF Version

\* Rows that follow from the first k events follow from any ledger that begins the same.
LEMMA SamePrefix ==
  ASSUME NEW R, NEW L, NEW M, NEW k \in Nat, \A n \in 1..k : M[n] = L[n],
         RowsFollow(R, L, k), GoneFollows(R, L, k)
  PROVE  RowsFollow(R, M, k) /\ GoneFollows(R, M, k)
BY DEF RowsFollow, GoneFollows

\* A row write keeps rows and ledger consistent.
LEMMA LogFollows ==
  ASSUME TypeOK, LogStep,
         RowsFollow(rows, ledger, Len(ledger)), GoneFollows(rows, ledger, Len(ledger))
  PROVE  RowsFollow(rows', ledger', Len(ledger')) /\ GoneFollows(rows', ledger', Len(ledger'))
<1> DEFINE len == Len(ledger)
<1>1. PICK i \in Ids, e \in EventType, row \in Row \cup {None} :
        /\ len \in Nat /\ Len(ledger') = len + 1
        /\ \A n \in 1..len : ledger'[n] = ledger[n]
        /\ ledger'[len + 1] = e
        /\ rows'[i] = row
        /\ \A j \in Ids : j # i => rows'[j] = rows[j]
        /\ e.id = i
        /\ IF row = None THEN e.type = "item_deleted"
           ELSE e.type # "item_deleted" /\ row.version = len + 1
  BY LogFacts
<1> HIDE DEF len
<1>2. RowsFollow(rows, ledger, len) /\ GoneFollows(rows, ledger, len)
  BY DEF len
<1>3. RowsFollow(rows', ledger', len + 1)
  <2> SUFFICES ASSUME NEW j \in Ids, rows'[j] # None
               PROVE  /\ rows'[j].version \in 1..(len + 1)
                      /\ ledger'[rows'[j].version].id = j
                      /\ ledger'[rows'[j].version].type # "item_deleted"
                      /\ \A n \in 1..(len + 1) : ledger'[n].id = j => n <= rows'[j].version
    BY DEF RowsFollow
  <2>1. CASE j = i
    BY <1>1, <2>1
  <2>2. CASE j # i
    BY <1>1, <1>2, <2>2 DEF RowsFollow
  <2> QED BY <2>1, <2>2
<1>4. GoneFollows(rows', ledger', len + 1)
  <2> SUFFICES ASSUME NEW j \in Ids, rows'[j] = None, NEW n \in 1..(len + 1), ledger'[n].id = j,
                      \A m \in 1..(len + 1) : ledger'[m].id = j => m <= n
               PROVE  \/ ledger'[n].type = "item_deleted"
                      \/ \E m \in 1..(len + 1) : m > n /\ ledger'[m].type = "rows_cleared"
    BY DEF GoneFollows
  <2>1. CASE j = i
    BY <1>1, <2>1
  <2>2. CASE j # i
    <3>1. rows[j] = None /\ n \in 1..len /\ ledger[n].id = j
      BY <1>1, <2>2
    <3>2. \A m \in 1..len : ledger[m].id = j => m <= n
      BY <1>1
    <3>3. \/ ledger[n].type = "item_deleted"
          \/ \E m \in 1..len : m > n /\ ledger[m].type = "rows_cleared"
      BY <1>2, <3>1, <3>2 DEF GoneFollows
    <3> QED BY <1>1, <3>1, <3>3
  <2> QED BY <2>1, <2>2
<1> QED BY <1>1, <1>3, <1>4

\* So does a cascade, and the event of another plane.
LEMMA MarkFollows ==
  ASSUME TypeOK, NEW col \in Collections, ClearRows(col) \/ SaveManifest(col),
         RowsFollow(rows, ledger, Len(ledger)), GoneFollows(rows, ledger, Len(ledger))
  PROVE  /\ RowsFollow(rows', ledger', Len(ledger'))
         /\ GoneFollows(rows', ledger', Len(ledger'))
         /\ Len(ledger) \in Nat /\ Len(ledger') = Len(ledger) + 1
         /\ \A n \in 1..Len(ledger) : ledger'[n] = ledger[n]
         /\ ledger'[Len(ledger) + 1].by = None
         /\ ledger'[Len(ledger) + 1].cmd = Random
<1> DEFINE len == Len(ledger)
<1>1. PICK e \in EventType :
        /\ ledger' = Append(ledger, e)
        /\ e.id = None /\ e.by = None /\ e.cmd = Random
        /\ ClearRows(col) => e.type = "rows_cleared"
  <2>1. CASE ClearRows(col)
    <3>1. ledger' = Append(ledger, Event("rows_cleared", None, Random, col))
      BY <2>1 DEF ClearRows
    <3>2. /\ Event("rows_cleared", None, Random, col) \in EventType
          /\ Event("rows_cleared", None, Random, col).id = None
          /\ Event("rows_cleared", None, Random, col).by = None
          /\ Event("rows_cleared", None, Random, col).cmd = Random
          /\ Event("rows_cleared", None, Random, col).type = "rows_cleared"
      BY EventTyped
    <3> QED BY <3>1, <3>2
  <2>2. CASE SaveManifest(col) /\ ~ClearRows(col)
    <3>1. ledger' = Append(ledger, Event("component_saved", None, Random, None))
      BY <2>2 DEF SaveManifest
    <3>2. /\ Event("component_saved", None, Random, None) \in EventType
          /\ Event("component_saved", None, Random, None).id = None
          /\ Event("component_saved", None, Random, None).by = None
          /\ Event("component_saved", None, Random, None).cmd = Random
          /\ Event("component_saved", None, Random, None).type = "component_saved"
      BY EventTyped
    <3> QED BY <2>2, <3>1, <3>2
  <2> QED BY <2>1, <2>2
<1>4. ledger \in Seq(EventType) /\ rows \in [Ids -> Row \cup {None}]
  BY DEF TypeOK
<1>5. /\ Len(ledger') = len + 1 /\ len \in Nat
      /\ \A n \in 1..len : ledger'[n] = ledger[n]
      /\ ledger'[len + 1] = e
  BY <1>1, <1>4
<1>6. \A j \in Ids : rows'[j] = rows[j] \/ (rows'[j] = None /\ ClearRows(col))
  BY <1>4 DEF ClearRows, SaveManifest
<1>7. RowsFollow(rows, ledger, len) /\ GoneFollows(rows, ledger, len)
  OBVIOUS
<1> HIDE DEF len
<1>8. RowsFollow(rows', ledger', len + 1)
  BY <1>1, <1>5, <1>6, <1>7, SentinelAssumption DEF RowsFollow
<1>9. GoneFollows(rows', ledger', len + 1)
  <2> SUFFICES ASSUME NEW j \in Ids, rows'[j] = None, NEW n \in 1..(len + 1), ledger'[n].id = j,
                      \A m \in 1..(len + 1) : ledger'[m].id = j => m <= n
               PROVE  \/ ledger'[n].type = "item_deleted"
                      \/ \E m \in 1..(len + 1) : m > n /\ ledger'[m].type = "rows_cleared"
    BY DEF GoneFollows
  <2>1. n \in 1..len /\ ledger[n].id = j
    BY <1>1, <1>5, SentinelAssumption
  <2>2. CASE ClearRows(col)
    BY <1>1, <1>5, <2>1, <2>2
  <2>3. CASE rows[j] = None
    <3>1. \/ ledger[n].type = "item_deleted"
          \/ \E m \in 1..len : m > n /\ ledger[m].type = "rows_cleared"
      BY <1>5, <1>7, <2>1, <2>3 DEF GoneFollows
    <3> QED BY <1>5, <2>1, <3>1
  <2> QED BY <1>6, <2>2, <2>3
<1> QED BY <1>1, <1>5, <1>8, <1>9 DEF len

\* Rows and ledger stay consistent, in the open and in the snapshot of a batch.
LEMMA FollowsNext ==
  ASSUME IInv, [Next]_vars
  PROVE  /\ RowsFollow(rows', ledger', Len(ledger'))
         /\ GoneFollows(rows', ledger', Len(ledger'))
         /\ SnapshotInv'
<1> DEFINE Goal == /\ RowsFollow(rows', ledger', Len(ledger'))
                   /\ GoneFollows(rows', ledger', Len(ledger'))
                   /\ SnapshotInv'
<1> USE DEF IInv
<1>1. CASE LogStep
  <2>1. RowsFollow(rows', ledger', Len(ledger')) /\ GoneFollows(rows', ledger', Len(ledger'))
    BY <1>1, LogFollows
  <2>2. ASSUME Open' PROVE SnapshotInv'
    <3>1. /\ Open /\ txn'.len = txn.len /\ txn'.rows = txn.rows
          /\ txn.len \in Nat /\ txn.len <= Len(ledger)
      BY <1>1, <2>2 DEF LogStep, Succeeds, Open, TypeOK
    <3>2. PICK i \in Ids, row \in Row \cup {None} :
            /\ Len(ledger) \in Nat
            /\ \A n \in 1..Len(ledger) : ledger'[n] = ledger[n]
            /\ rows'[i] = row
            /\ \A j \in Ids : j # i => rows'[j] = rows[j]
            /\ row # None => row.version = Len(ledger) + 1
      BY <1>1, LogFacts
    <3>3. RowsFollow(txn.rows, ledger', txn.len) /\ GoneFollows(txn.rows, ledger', txn.len)
      <4>1. \A n \in 1..txn.len : ledger'[n] = ledger[n]
        BY <3>1, <3>2
      <4> QED BY <3>1, <4>1, SamePrefix DEF SnapshotInv
    <3>4. \A j \in Ids : rows'[j] # None /\ rows'[j].version <= txn.len => rows'[j] = txn.rows[j]
      BY <3>1, <3>2 DEF SnapshotInv
    <3> QED BY <3>1, <3>3, <3>4 DEF SnapshotInv
  <2> QED BY <2>1, <2>2 DEF SnapshotInv
<1>2. ASSUME Rollback PROVE Goal
  <2>1. /\ txn.len \in Nat /\ Len(ledger') = txn.len /\ rows' = txn.rows /\ Open
        /\ \A n \in 1..txn.len : ledger'[n] = ledger[n]
    BY <1>2, RollbackCuts
  <2>2. RowsFollow(txn.rows, ledger', txn.len) /\ GoneFollows(txn.rows, ledger', txn.len)
    BY <2>1, SamePrefix DEF SnapshotInv
  <2> QED BY <1>2, <2>1, <2>2 DEF SnapshotInv, Rollback, Open
<1>3. ASSUME UNCHANGED <<rows, ledger, txn>> PROVE Goal
  BY <1>3 DEF SnapshotInv, Open
<1>4. ASSUME NEW col \in Collections, ClearRows(col) \/ SaveManifest(col)
      PROVE  Goal
  <2>1. ~Open'
    BY <1>4 DEF ClearRows, SaveManifest, Open
  <2> QED BY <1>4, <2>1, MarkFollows DEF SnapshotInv
<1>5. ASSUME NEW n \in 1..MaxBatch, BeginBatch(n)
      PROVE  Goal
  <2>1. txn'.rows = rows /\ txn'.len = Len(ledger) /\ UNCHANGED <<rows, ledger>>
    BY <1>5 DEF BeginBatch
  <2> QED BY <2>1 DEF SnapshotInv
<1>6. ASSUME NEW c \in Commands, ReplayInBatch(c)
      PROVE  Goal
  <2>1. UNCHANGED <<rows, ledger>> /\ Open /\ (txn' = None \/ txn' = [txn EXCEPT !.left = @ - 1])
    BY <1>6 DEF ReplayInBatch, Succeeds
  <2>2. Open' => txn'.rows = txn.rows /\ txn'.len = txn.len
    BY <2>1 DEF Open, TypeOK
  <2> QED BY <2>1, <2>2 DEF SnapshotInv
<1> HIDE DEF Goal
<1>7. RollStep => Goal
  BY <1>2 DEF RollStep
<1>8. QuietStep => Goal
  BY <1>3 DEF QuietStep
<1>9. ASSUME NEW r \in Readers, NEW i \in Ids, NEW v \in Versions, BatchConflicts(r, i, v)
      PROVE  Goal
  BY <1>2, <1>9 DEF BatchConflicts
<1>10. ASSUME NEW r \in Readers, NEW i \in Ids, ReadItem(r, i)
       PROVE  Goal
  BY <1>3, <1>10 DEF ReadItem
<1>11. UNCHANGED vars => Goal
  BY <1>3 DEF vars
<1>12. LogStep => Goal
  BY <1>1 DEF Goal
<1>13. Goal
  BY <1>4, <1>5, <1>6, <1>7, <1>8, <1>9, <1>10, <1>11, <1>12, StepClasses
<1> QED BY <1>13 DEF Goal

----------------------------------------------------------------------------
(* Command ids and confirmations.                                          *)

\* A new event's command id is one the ledger has not seen, or a random one.
LEMMA OneEffectNext ==
  ASSUME IInv, [Next]_vars
  PROVE  OneEffectPerCommand'
<1> DEFINE Once(L) == \A m, n \in 1..Len(L) : L[m].cmd = L[n].cmd /\ L[m].cmd # Random => m = n
<1> USE DEF IInv
<1>0. ledger \in Seq(EventType) /\ ledger' \in Seq(EventType)
  BY TypeNext DEF TypeOK
<1>a. (OneEffectPerCommand <=> Once(ledger)) /\ (OneEffectPerCommand' <=> Once(ledger'))
  BY <1>0 DEF OneEffectPerCommand
<1>b. Len(ledger) \in Nat /\ Len(ledger') \in Nat
  BY <1>0
<1>1. ASSUME Len(ledger') = Len(ledger) + 1, \A n \in 1..Len(ledger) : ledger'[n] = ledger[n],
             Unseen(ledger'[Len(ledger) + 1].cmd)
      PROVE  Once(ledger')
  <2>1. \/ ledger'[Len(ledger) + 1].cmd = Random
        \/ \A n \in 1..Len(ledger) : ledger[n].cmd # ledger'[Len(ledger) + 1].cmd
    BY <1>0, <1>1 DEF Unseen
  <2> QED BY <1>1, <1>a, <1>b, <2>1
<1>2. ASSUME Rollback PROVE Once(ledger')
  <2>1. /\ txn.len \in Nat /\ Len(ledger') = txn.len /\ txn.len <= Len(ledger)
        /\ \A n \in 1..txn.len : ledger'[n] = ledger[n]
    BY <1>2, RollbackCuts
  <2> QED BY <1>a, <1>b, <2>1
<1>3. ledger' = ledger => Once(ledger')
  BY <1>a
<1> HIDE DEF Once
<1>4. LogStep => Once(ledger')
  BY <1>1, LogFacts
<1>5. ASSUME NEW col \in Collections, ClearRows(col) \/ SaveManifest(col)
      PROVE  Once(ledger')
  BY <1>1, <1>5, MarkFollows DEF Unseen
<1>6. RollStep \/ (\E r \in Readers, i \in Ids, v \in Versions : BatchConflicts(r, i, v))
        => Once(ledger')
  BY <1>2 DEF RollStep, BatchConflicts
<1>7. \/ QuietStep \/ UNCHANGED vars
      \/ \E n \in 1..MaxBatch : BeginBatch(n)
      \/ \E c \in Commands : ReplayInBatch(c)
      \/ \E r \in Readers, i \in Ids : ReadItem(r, i)
      => Once(ledger')
  BY <1>3 DEF QuietStep, vars, BeginBatch, ReplayInBatch, ReadItem
<1> QED BY <1>4, <1>5, <1>6, <1>7, <1>a, StepClasses

\* A confirmed delete pins the row's version, which is the last event before it.
LEMMA PinnedNext ==
  ASSUME IInv, [Next]_vars
  PROVE  Pinned'
<1> DEFINE Pin(L, n) == L[n].by # None =>
                          /\ L[n].by.target = L[n].id
                          /\ L[n].by.version < n
                          /\ \A m \in 1..(n - 1) : L[m].id = L[n].id => m <= L[n].by.version
<1> USE DEF IInv
<1>0. ledger \in Seq(EventType) /\ ledger' \in Seq(EventType)
  BY TypeNext DEF TypeOK
<1>b. Len(ledger) \in Nat /\ Len(ledger') \in Nat
  BY <1>0
<1>a. \A n \in 1..Len(ledger) : Pin(ledger, n)
  BY DEF Pinned
<1>1. ASSUME NEW k \in 0..Len(ledger), \A n \in 1..k : ledger'[n] = ledger[n]
      PROVE  \A n \in 1..k : Pin(ledger', n)
  BY <1>1, <1>a, <1>b
<1>2. ASSUME Rollback PROVE Pinned'
  <2>1. /\ txn.len \in Nat /\ Len(ledger') = txn.len /\ txn.len <= Len(ledger)
        /\ \A n \in 1..txn.len : ledger'[n] = ledger[n]
    BY <1>2, RollbackCuts
  <2> QED BY <1>1, <1>b, <2>1 DEF Pinned
<1>3. ledger' = ledger => Pinned'
  BY DEF Pinned
<1>4. CASE LogStep
  <2>1. PICK i \in Ids, e \in EventType :
          /\ Len(ledger') = Len(ledger) + 1
          /\ \A n \in 1..Len(ledger) : ledger'[n] = ledger[n]
          /\ ledger'[Len(ledger) + 1] = e
          /\ e.id = i
          /\ e.by # None => /\ rows[i] # None
                            /\ e.by.target = i
                            /\ e.by.version = rows[i].version
    BY <1>4, LogFacts
  <2>2. Pin(ledger', Len(ledger) + 1)
    BY <1>b, <2>1 DEF RowsFollow
  <2>3. \A n \in 1..Len(ledger) : Pin(ledger', n)
    BY <1>1, <1>b, <2>1
  <2>4. \A n \in 1..Len(ledger') : Pin(ledger', n)
    BY <1>b, <2>1, <2>2, <2>3
  <2> QED BY <2>4 DEF Pinned
<1>5. ASSUME NEW col \in Collections, ClearRows(col) \/ SaveManifest(col)
      PROVE  Pinned'
  <2>1. /\ Len(ledger') = Len(ledger) + 1
        /\ \A n \in 1..Len(ledger) : ledger'[n] = ledger[n]
        /\ ledger'[Len(ledger) + 1].by = None
    BY <1>5, MarkFollows
  <2>2. \A n \in 1..Len(ledger) : Pin(ledger', n)
    BY <1>1, <1>b, <2>1
  <2>3. \A n \in 1..Len(ledger') : Pin(ledger', n)
    BY <1>b, <2>1, <2>2
  <2> QED BY <2>3 DEF Pinned
<1>6. RollStep \/ (\E r \in Readers, i \in Ids, v \in Versions : BatchConflicts(r, i, v)) => Pinned'
  BY <1>2 DEF RollStep, BatchConflicts
<1>7. \/ QuietStep \/ UNCHANGED vars
      \/ \E n \in 1..MaxBatch : BeginBatch(n)
      \/ \E c \in Commands : ReplayInBatch(c)
      \/ \E r \in Readers, i \in Ids : ReadItem(r, i)
      => Pinned'
  BY <1>3 DEF QuietStep, vars, BeginBatch, ReplayInBatch, ReadItem
<1> QED BY <1>4, <1>5, <1>6, <1>7, StepClasses

----------------------------------------------------------------------------
(* What readers hold.                                                      *)

\* A version a reader saw committed is never given to other contents.
LEMMA HeldNext ==
  ASSUME IInv, [Next]_vars
  PROVE  HeldInv'
<1> DEFINE Floor == IF Open THEN txn.len ELSE Len(ledger)
<1> USE DEF IInv
<1>0. Len(ledger) \in Nat /\ (Open => txn.len \in Nat /\ txn.len <= Len(ledger))
  BY DEF TypeOK, Open
<1>h. \A r \in Readers : held[r] # None => held[r].id \in Ids /\ held[r].row.version \in Nat
  BY DEF TypeOK, Held, Row
<1>1. CASE LogStep
  <2>1. PICK i \in Ids, row \in Row \cup {None} :
          /\ Len(ledger') = Len(ledger) + 1
          /\ rows'[i] = row
          /\ \A j \in Ids : j # i => rows'[j] = rows[j]
          /\ row # None => row.version = Len(ledger) + 1
    BY <1>1, LogFacts
  <2>2. held' = held
    BY <1>1 DEF LogStep
  <2>3. Open' => Open /\ txn'.len = txn.len /\ txn'.rows = txn.rows
    BY <1>1 DEF LogStep, Succeeds, Open, TypeOK
  <2>4. \A r \in Readers : held[r] # None /\ held[r].settled =>
          /\ held[r].row.version <= Len(ledger)
          /\ Names(rows', held[r])
    BY <1>0, <1>h, <2>1 DEF HeldInv, Names
  <2>5. ASSUME NEW r \in Readers, held'[r] # None, held'[r].settled
        PROVE  /\ held'[r].row.version <= IF Open' THEN txn'.len ELSE Len(ledger')
               /\ Names(rows', held'[r])
               /\ Open' => Names(txn'.rows, held'[r])
    <3>1. CASE Open'
      BY <2>2, <2>3, <2>4, <2>5, <3>1 DEF HeldInv
    <3>2. CASE ~Open'
      BY <1>0, <1>h, <2>1, <2>2, <2>4, <2>5, <3>2
    <3> QED BY <3>1, <3>2
  <2> QED BY <2>5 DEF HeldInv, Names
<1>2. ASSUME Rollback, NEW r \in Readers, held[r] # None, held[r].settled
      PROVE  held[r].row.version <= Len(ledger') /\ Names(rows', held[r])
  BY <1>2, RollbackCuts DEF HeldInv
<1>3. CASE RollStep
  BY <1>2, <1>3 DEF RollStep, HeldInv, Names, Rollback, Open
<1>4. ASSUME NEW q \in Readers, NEW i \in Ids, NEW v \in Versions, BatchConflicts(q, i, v)
      PROVE  HeldInv'
  <2>1. /\ Rollback /\ rows[i] # None /\ rows[i] \in Row
        /\ held' = [held EXCEPT ![q] = [id |-> i, row |-> rows[i],
                                        settled |-> rows[i].version <= txn.len]]
    BY <1>4 DEF BatchConflicts, Found, TypeOK
  <2>2. txn.len = Len(ledger') /\ rows' = txn.rows /\ Open /\ ~Open'
    BY <2>1, RollbackCuts DEF Open
  <2>3. ASSUME NEW r \in Readers, held'[r] # None, held'[r].settled
        PROVE  held'[r].row.version <= Len(ledger') /\ Names(rows', held'[r])
    <3>1. CASE r = q
      <4>1. held'[r].id = i /\ held'[r].row = rows[i] /\ rows[i].version <= txn.len
        BY <2>1, <2>3, <3>1 DEF TypeOK
      <4>2. rows[i] = txn.rows[i]
        BY <2>1, <2>2, <4>1 DEF SnapshotInv
      <4> QED BY <2>2, <4>1, <4>2 DEF Names
    <3>2. CASE r # q
      BY <1>2, <2>1, <2>3, <3>2 DEF TypeOK
    <3> QED BY <3>1, <3>2
  <2> QED BY <2>2, <2>3 DEF HeldInv, Names
<1>5. ASSUME NEW col \in Collections, ClearRows(col) \/ SaveManifest(col)
      PROVE  HeldInv'
  <2>1. Len(ledger') = Len(ledger) + 1
    BY <1>5, MarkFollows
  <2>2. /\ held' = held /\ ~Open /\ ~Open'
        /\ \A j \in Ids : rows'[j] = rows[j] \/ rows'[j] = None
    BY <1>5 DEF ClearRows, SaveManifest, Open, TypeOK
  <2> QED BY <1>0, <1>h, <2>1, <2>2 DEF HeldInv, Names
<1>6. ASSUME NEW q \in Readers, NEW i \in Ids, ReadItem(q, i)
      PROVE  HeldInv'
  <2>1. /\ UNCHANGED <<rows, ledger, txn>> /\ Visible[i] # None
        /\ held' = [held EXCEPT ![q] = [id |-> i, row |-> Visible[i], settled |-> TRUE]]
    BY <1>6 DEF ReadItem
  <2>2. Visible[i].version <= Floor
    BY <1>0, <2>1 DEF Visible, RowsFollow, SnapshotInv
  <2>3. rows[i] # None /\ rows[i].version = Visible[i].version => rows[i] = Visible[i]
    BY <2>2 DEF Visible, SnapshotInv
  <2>4. ASSUME NEW r \in Readers, held'[r] # None, held'[r].settled
        PROVE  /\ held'[r].row.version <= Floor
               /\ Names(rows, held'[r])
               /\ Open => Names(txn.rows, held'[r])
    <3>1. CASE r = q
      <4>1. held'[r].id = i /\ held'[r].row = Visible[i]
        BY <2>1, <3>1 DEF TypeOK
      <4> QED BY <2>2, <2>3, <4>1 DEF Names, Visible
    <3>2. CASE r # q
      BY <2>1, <2>4, <3>2 DEF HeldInv, TypeOK
    <3> QED BY <3>1, <3>2
  <2> QED BY <2>1, <2>4 DEF HeldInv, Names, Open
<1>7. ASSUME UNCHANGED <<rows, ledger, held>>,
             Open' => Open /\ txn'.len = txn.len /\ txn'.rows = txn.rows
      PROVE  HeldInv'
  BY <1>0, <1>h, <1>7 DEF HeldInv, Names
<1>8. QuietStep \/ UNCHANGED vars => HeldInv'
  BY <1>7 DEF QuietStep, vars, Open
<1>9. ASSUME NEW c \in Commands, ReplayInBatch(c)
      PROVE  HeldInv'
  BY <1>7, <1>9 DEF ReplayInBatch, Succeeds, Open, TypeOK
<1>10. ASSUME NEW n \in 1..MaxBatch, BeginBatch(n)
       PROVE  HeldInv'
  <2>1. /\ ~Open /\ UNCHANGED <<rows, ledger, held>>
        /\ txn'.rows = rows /\ txn'.len = Len(ledger)
    BY <1>10 DEF BeginBatch
  <2> QED BY <2>1 DEF HeldInv, Names
<1> QED BY <1>1, <1>3, <1>4, <1>5, <1>6, <1>8, <1>9, <1>10, StepClasses

----------------------------------------------------------------------------
(* The ledger as a full account of the rows.                               *)

\* A row write with everything its event records.
LEMMA LogRecords ==
  ASSUME TypeOK, LogStep
  PROVE  \E i \in Ids, e \in EventType, row \in Row \cup {None} :
           /\ ledger' = Append(ledger, e)
           /\ rows'[i] = row /\ \A j \in Ids : j # i => rows'[j] = rows[j]
           /\ e.id = i /\ e.type # "rows_cleared"
           /\ row = After(rows[i], e, Len(ledger) + 1)
           /\ Records(e, rows[i]) /\ NoWorse(row, rows[i])
           /\ e.by # None => /\ rows[i] # None /\ e.by \in tokens /\ e.by.target = i
                             /\ e.by.version = rows[i].version /\ e.was = rows[i].fields
<1>1. PICK i \in Ids : Logs(i)
  BY DEF LogStep
<1>2. PICK e \in EventType, row \in Row \cup {None} :
        /\ Write(e, i, row)
        /\ row = After(rows[i], e, Version)
        /\ Records(e, rows[i]) /\ NoWorse(row, rows[i])
        /\ e.id = i /\ e.type # "rows_cleared"
        /\ e.by # None => /\ rows[i] # None /\ e.by \in tokens /\ e.by.target = i
                          /\ e.by.version = rows[i].version /\ e.was = rows[i].fields
  BY <1>1 DEF Logs
<1>3. ledger' = Append(ledger, e) /\ rows' = [rows EXCEPT ![i] = row]
  BY <1>2 DEF Write
<1>4. rows'[i] = row /\ \A j \in Ids : j # i => rows'[j] = rows[j]
  BY <1>3 DEF TypeOK
<1> WITNESS i \in Ids, e \in EventType, row \in Row \cup {None}
<1> QED BY <1>2, <1>3, <1>4 DEF Version

\* An event of another plane does to every row what a replay makes of it.
LEMMA MarkReplays ==
  ASSUME TypeOK, NEW col \in Collections, ClearRows(col) \/ SaveManifest(col)
  PROVE  \E e \in EventType :
           /\ ledger' = Append(ledger, e) /\ e.by = None
           /\ e.type \in {"rows_cleared", "component_saved"}
           /\ \A j \in Ids : rows'[j] = Replayed(rows[j], e, j, Len(ledger) + 1)
<1>1. CASE ClearRows(col)
  <2> DEFINE e == Event("rows_cleared", None, Random, col)
  <2>1. /\ e \in EventType /\ e.type = "rows_cleared" /\ e.coll = col
        /\ e.by = None
    BY EventTyped
  <2>2. ledger' = Append(ledger, e)
    BY <1>1 DEF ClearRows
  <2> HIDE DEF e
  <2>3. \A j \in Ids : rows'[j] = Replayed(rows[j], e, j, Len(ledger) + 1)
    BY <1>1, <2>1 DEF ClearRows, Replayed, TypeOK
  <2> QED BY <2>1, <2>2, <2>3
<1>2. CASE SaveManifest(col)
  <2> DEFINE e == Event("component_saved", None, Random, None)
  <2>1. e \in EventType /\ e.type = "component_saved" /\ e.by = None /\ e.id = None
    BY EventTyped
  <2>2. ledger' = Append(ledger, e) /\ rows' = rows
    BY <1>2 DEF SaveManifest
  <2> HIDE DEF e
  <2>3. \A j \in Ids : rows'[j] = Replayed(rows[j], e, j, Len(ledger) + 1)
    BY <2>1, <2>2, SentinelAssumption DEF Replayed
  <2> QED BY <2>1, <2>2, <2>3
<1> QED BY <1>1, <1>2

\* Prefixes of ledgers that begin the same.
LEMMA SameCut ==
  ASSUME NEW L \in Seq(EventType), NEW M \in Seq(EventType), NEW k \in 0..Len(L), k <= Len(M),
         \A n \in 1..k : M[n] = L[n]
  PROVE  SubSeq(M, 1, k) = SubSeq(L, 1, k)
<1>1. /\ SubSeq(M, 1, k) \in Seq(EventType) /\ SubSeq(L, 1, k) \in Seq(EventType)
      /\ Len(SubSeq(M, 1, k)) = k /\ Len(SubSeq(L, 1, k)) = k
      /\ \A n \in 1..k : SubSeq(M, 1, k)[n] = SubSeq(L, 1, k)[n]
  OBVIOUS
<1> QED BY <1>1, SeqEqual

LEMMA WholeCut ==
  ASSUME NEW L \in Seq(EventType)
  PROVE  SubSeq(L, 1, Len(L)) = L
<1>1. /\ SubSeq(L, 1, Len(L)) \in Seq(EventType) /\ Len(SubSeq(L, 1, Len(L))) = Len(L)
      /\ \A n \in 1..Len(L) : SubSeq(L, 1, Len(L))[n] = L[n]
  OBVIOUS
<1> QED BY <1>1, SeqEqual

\* One more event: the account goes on if each row does what a replay makes of it.
LEMMA OneMoreEvent ==
  ASSUME IInv, NEW e \in EventType, ledger' = Append(ledger, e),
         \A j \in Ids : rows'[j] = Replayed(rows[j], e, j, Len(ledger) + 1),
         \/ e.id \in Ids /\ Records(e, rows[e.id])
         \/ e.type \in {"rows_cleared", "component_saved"},
         Open' => Open /\ txn'.len = txn.len /\ txn'.rows = txn.rows
  PROVE  Explained' /\ Recorded'
<1> DEFINE len == Len(ledger)
<1>1. /\ ledger \in Seq(EventType) /\ ledger' \in Seq(EventType) /\ len \in Nat
      /\ Len(ledger') = len + 1
      /\ \A n \in 1..len : ledger'[n] = ledger[n]
      /\ ledger'[len + 1] = e
  BY DEF IInv, TypeOK
<1>2. \A j \in Ids : rows'[j] = RowAt(j, ledger')
  <2>1. ASSUME NEW j \in Ids
        PROVE  RowAt(j, ledger') = Replayed(RowAt(j, ledger), e, j, len + 1)
    <3>1. RowAt(j, ledger') = Replayed(RowAt(j, ledger), ledger'[Len(ledger')], j, Len(ledger'))
      BY <1>1, RowAtNext
    <3> QED BY <1>1, <3>1
  <2>2. \A j \in Ids : rows[j] = RowAt(j, ledger)
    BY DEF IInv, Explained, LedgerExplainsRows
  <2> QED BY <2>1, <2>2
<1>3. ASSUME NEW n \in 1..(len + 1)
      PROVE  Records(ledger'[n], RowAt(ledger'[n].id, SubSeq(ledger', 1, n - 1)))
  <2>1. SubSeq(ledger', 1, n - 1) = SubSeq(ledger, 1, n - 1)
    BY <1>1, SameCut
  <2>2. CASE n \in 1..len
    BY <1>1, <2>1, <2>2 DEF IInv, Recorded
  <2>3. CASE n = len + 1
    <3>1. SubSeq(ledger', 1, n - 1) = ledger
      BY <1>1, <2>1, <2>3, WholeCut
    <3>2. CASE e.id \in Ids /\ Records(e, rows[e.id])
      <4>1. rows[e.id] = RowAt(e.id, ledger)
        BY <3>2 DEF IInv, Explained, LedgerExplainsRows
      <4> QED BY <1>1, <2>3, <3>1, <3>2, <4>1
    <3>3. CASE e.type \in {"rows_cleared", "component_saved"}
      BY <1>1, <2>3, <3>3 DEF Records
    <3> QED BY <3>2, <3>3
  <2> QED BY <2>2, <2>3
<1>4. ASSUME Open' PROVE \A j \in Ids : txn'.rows[j] = RowAt(j, SubSeq(ledger', 1, txn'.len))
  <2>1. Open /\ txn'.len = txn.len /\ txn'.rows = txn.rows /\ txn.len \in 0..len
    BY <1>1, <1>4 DEF IInv, TypeOK, Open
  <2>2. SubSeq(ledger', 1, txn.len) = SubSeq(ledger, 1, txn.len)
    BY <1>1, <2>1, SameCut
  <2> QED BY <2>1, <2>2 DEF IInv, Explained
<1> QED BY <1>1, <1>2, <1>3, <1>4 DEF Explained, LedgerExplainsRows, Recorded

\* The account survives every step.
LEMMA AccountNext ==
  ASSUME IInv, [Next]_vars
  PROVE  Explained' /\ Recorded'
<1> DEFINE Goal == Explained' /\ Recorded'
<1>0. ledger \in Seq(EventType) /\ Len(ledger) \in Nat
  BY DEF IInv, TypeOK
<1>1. CASE LogStep
  <2>1. PICK i \in Ids, e \in EventType, row \in Row \cup {None} :
          /\ ledger' = Append(ledger, e)
          /\ rows'[i] = row /\ \A j \in Ids : j # i => rows'[j] = rows[j]
          /\ e.id = i /\ e.type # "rows_cleared"
          /\ row = After(rows[i], e, Len(ledger) + 1)
          /\ Records(e, rows[i])
    BY <1>1, LogRecords DEF IInv
  <2>2. \A j \in Ids : rows'[j] = Replayed(rows[j], e, j, Len(ledger) + 1)
    BY <2>1 DEF Replayed
  <2>3. Open' => Open /\ txn'.len = txn.len /\ txn'.rows = txn.rows
    BY <1>1 DEF LogStep, Succeeds, Open, IInv, TypeOK
  <2> QED BY <2>1, <2>2, <2>3, OneMoreEvent
<1>2. ASSUME NEW col \in Collections, ClearRows(col) \/ SaveManifest(col)
      PROVE  Goal
  <2>1. ~Open'
    BY <1>2 DEF ClearRows, SaveManifest, Open
  <2>2. PICK e \in EventType :
          /\ ledger' = Append(ledger, e)
          /\ e.type \in {"rows_cleared", "component_saved"}
          /\ \A j \in Ids : rows'[j] = Replayed(rows[j], e, j, Len(ledger) + 1)
    BY <1>2, MarkReplays DEF IInv
  <2> QED BY <2>1, <2>2, OneMoreEvent
<1>3. ASSUME Rollback PROVE Goal
  <2>1. /\ txn.len \in 0..Len(ledger) /\ Open /\ rows' = txn.rows /\ ~Open'
        /\ ledger' \in Seq(EventType) /\ Len(ledger') = txn.len
        /\ \A n \in 1..txn.len : ledger'[n] = ledger[n]
    BY <1>0, <1>3, RollbackCuts DEF IInv, Open
  <2>2. ledger' = SubSeq(ledger, 1, txn.len)
    BY <1>3 DEF Rollback
  <2>3. ASSUME NEW n \in 1..Len(ledger')
        PROVE  SubSeq(ledger', 1, n - 1) = SubSeq(ledger, 1, n - 1) /\ ledger'[n] = ledger[n]
    BY <1>0, <2>1, SameCut
  <2>4. ASSUME NEW n \in 1..Len(ledger')
        PROVE  Records(ledger'[n], RowAt(ledger'[n].id, SubSeq(ledger', 1, n - 1)))
    <3>1. n \in 1..Len(ledger)
      BY <1>0, <2>1
    <3>2. Records(ledger[n], RowAt(ledger[n].id, SubSeq(ledger, 1, n - 1)))
      BY <3>1 DEF IInv, Recorded
    <3> QED BY <2>3, <3>2
  <2> QED BY <2>1, <2>2, <2>4 DEF Explained, LedgerExplainsRows, Recorded, IInv
<1>4. ASSUME UNCHANGED <<rows, ledger>>,
             Open' => Open /\ txn'.len = txn.len /\ txn'.rows = txn.rows
      PROVE  Goal
  BY <1>4 DEF Explained, LedgerExplainsRows, Recorded, IInv
<1>5. ASSUME NEW n \in 1..MaxBatch, BeginBatch(n)
      PROVE  Goal
  <2>1. txn'.rows = rows /\ txn'.len = Len(ledger) /\ UNCHANGED <<rows, ledger>>
    BY <1>5 DEF BeginBatch
  <2>2. SubSeq(ledger', 1, txn'.len) = ledger
    BY <1>0, <2>1, WholeCut
  <2> QED BY <2>1, <2>2 DEF Explained, LedgerExplainsRows, Recorded, IInv
<1>6. ASSUME NEW c \in Commands, ReplayInBatch(c)
      PROVE  Goal
  <2>1. Open' => Open /\ txn'.len = txn.len /\ txn'.rows = txn.rows
    BY <1>6 DEF ReplayInBatch, Succeeds, Open, IInv, TypeOK
  <2> QED BY <1>4, <1>6, <2>1 DEF ReplayInBatch
<1> HIDE DEF Goal
<1>7. RollStep \/ (\E r \in Readers, i \in Ids, v \in Versions : BatchConflicts(r, i, v)) => Goal
  BY <1>3 DEF RollStep, BatchConflicts
<1>8. QuietStep \/ UNCHANGED vars \/ (\E r \in Readers, i \in Ids : ReadItem(r, i)) => Goal
  BY <1>4 DEF QuietStep, vars, ReadItem, Open
<1>9. LogStep => Goal
  BY <1>1 DEF Goal
<1>10. Goal
  BY <1>2, <1>5, <1>6, <1>7, <1>8, <1>9, StepClasses DEF IInv
<1> QED BY <1>10 DEF Goal

----------------------------------------------------------------------------
(* What the user was shown.                                                *)

\* A settled confirmation keeps naming the fields it showed, as long as its version lives.
LEMMA TokenNext ==
  ASSUME IInv, [Next]_vars
  PROVE  TokenInv'
<1> USE DEF IInv
<1>0. /\ Len(ledger) \in Nat /\ (Open => txn.len \in Nat /\ txn.len <= Len(ledger))
      /\ Len(Committed) = IF Open THEN txn.len ELSE Len(ledger)
  BY DEF TypeOK, Open, Committed
<1>t. \A t \in Token : t.target \in Ids /\ t.version \in Nat
  BY DEF Token
<1>h. \A t \in tokens : t \in Token
  BY DEF TypeOK
<1>1. CASE LogStep
  <2>1. PICK i \in Ids, row \in Row \cup {None} :
          /\ Len(ledger') = Len(ledger) + 1
          /\ rows'[i] = row
          /\ \A j \in Ids : j # i => rows'[j] = rows[j]
          /\ row # None => row.version = Len(ledger) + 1
    BY <1>1, LogFacts
  <2>2. tokens' = tokens
    BY <1>1 DEF LogStep
  <2>3. Open' => Open /\ txn'.len = txn.len /\ txn'.rows = txn.rows
    BY <1>1 DEF LogStep, Succeeds, Open, TypeOK
  <2>4. ASSUME NEW t \in tokens, t.settled
        PROVE  t.version <= Len(ledger) /\ Shows(rows', t)
    <3>1. t.version <= Len(ledger) /\ Shows(rows, t) /\ t.target \in Ids /\ t.version \in Nat
      BY <1>0, <1>t, <1>h, <2>4 DEF TokenInv
    <3> QED BY <1>0, <2>1, <3>1 DEF Shows
  <2>5. ASSUME NEW t \in tokens, t.settled
        PROVE  /\ t.version <= IF Open' THEN txn'.len ELSE Len(ledger')
               /\ Open' => Shows(txn'.rows, t)
    <3>1. CASE Open'
      BY <2>3, <2>5, <3>1 DEF TokenInv
    <3>2. CASE ~Open'
      <4>1. t.version <= Len(ledger) /\ t.version \in Nat
        BY <1>t, <1>h, <2>4, <2>5
      <4> QED BY <1>0, <2>1, <3>2, <4>1
    <3> QED BY <3>1, <3>2
  <2> QED BY <2>2, <2>4, <2>5 DEF TokenInv, Shows
<1>2. ASSUME NEW t, t \in tokens \/ Demanded(t), t.settled
      PROVE  /\ t.version <= IF Open THEN txn.len ELSE Len(ledger)
             /\ Shows(rows, t)
             /\ Open => Shows(txn.rows, t)
  <2>1. CASE t \in tokens
    BY <1>2, <2>1 DEF TokenInv
  <2>2. CASE Demanded(t)
    <3>1. /\ t.target \in Ids /\ rows[t.target] # None
          /\ t.version = rows[t.target].version /\ t.shown = rows[t.target].fields
          /\ t.version <= Len(Committed)
      BY <1>2, <1>t, <2>2 DEF Demanded
    <3>2. Open => rows[t.target] = txn.rows[t.target]
      BY <1>0, <3>1 DEF SnapshotInv
    <3> QED BY <1>0, <3>1, <3>2 DEF Shows
  <2> QED BY <1>2, <2>1, <2>2
<1>3. ASSUME Rollback, NEW t, t \in tokens \/ Demanded(t), t.settled
      PROVE  t.version <= Len(ledger') /\ Shows(rows', t)
  <2>1. Open /\ Len(ledger') = txn.len /\ rows' = txn.rows
    BY <1>3, RollbackCuts
  <2> QED BY <1>2, <1>3, <2>1
<1>4. CASE RollStep
  <2>1. Rollback /\ ~Open' /\ \A t \in tokens' : t \in tokens \/ Demanded(t)
    BY <1>4 DEF RollStep, Rollback, Demands, Open
  <2> QED BY <1>3, <2>1 DEF TokenInv, Shows
<1>5. ASSUME NEW r \in Readers, NEW i \in Ids, NEW v \in Versions, BatchConflicts(r, i, v)
      PROVE  TokenInv'
  <2>1. Rollback /\ ~Open' /\ tokens' = tokens
    BY <1>5, TypeNext DEF BatchConflicts, Rollback, Open
  <2> QED BY <1>3, <2>1 DEF TokenInv, Shows
<1>6. ASSUME NEW col \in Collections, ClearRows(col) \/ SaveManifest(col)
      PROVE  TokenInv'
  <2>1. Len(ledger') = Len(ledger) + 1
    BY <1>6, MarkFollows
  <2>2. /\ tokens' = tokens /\ ~Open /\ ~Open'
        /\ \A j \in Ids : rows'[j] = rows[j] \/ rows'[j] = None
    BY <1>6 DEF ClearRows, SaveManifest, Open, TypeOK
  <2>3. ASSUME NEW t \in tokens, t.settled
        PROVE  t.version <= Len(ledger') /\ Shows(rows', t)
    <3>1. t.version <= Len(ledger) /\ Shows(rows, t) /\ t.target \in Ids /\ t.version \in Nat
      BY <1>0, <1>t, <1>h, <2>2, <2>3 DEF TokenInv
    <3> QED BY <1>0, <2>1, <2>2, <3>1 DEF Shows
  <2> QED BY <2>2, <2>3 DEF TokenInv, Shows
<1>7. ASSUME UNCHANGED <<rows, ledger>>, \A t \in tokens' : t \in tokens \/ Demanded(t),
             Open' => Open /\ txn'.len = txn.len /\ txn'.rows = txn.rows
      PROVE  TokenInv'
  <2>1. ASSUME NEW t \in tokens', t.settled
        PROVE  /\ t.version <= IF Open' THEN txn'.len ELSE Len(ledger')
               /\ Shows(rows', t)
               /\ Open' => Shows(txn'.rows, t)
    <3>0. t \in Token
      BY <1>h, <1>7 DEF Demanded
    <3>1. /\ t.version <= IF Open THEN txn.len ELSE Len(ledger)
          /\ Shows(rows, t) /\ (Open => Shows(txn.rows, t)) /\ t.version \in Nat
      BY <1>2, <1>7, <1>t, <2>1, <3>0
    <3> QED BY <1>0, <1>7, <3>1
  <2> QED BY <2>1 DEF TokenInv, Shows
<1>8. QuietStep => TokenInv'
  BY <1>7 DEF QuietStep, Demands, Open
<1>9. UNCHANGED vars \/ (\E r \in Readers, i \in Ids : ReadItem(r, i)) => TokenInv'
  BY <1>7 DEF vars, ReadItem, Open
<1>10. ASSUME NEW c \in Commands, ReplayInBatch(c)
       PROVE  TokenInv'
  BY <1>7, <1>10 DEF ReplayInBatch, Succeeds, Open, TypeOK
<1>11. ASSUME NEW n \in 1..MaxBatch, BeginBatch(n)
       PROVE  TokenInv'
  <2>1. /\ ~Open /\ UNCHANGED <<rows, ledger, tokens>>
        /\ txn'.rows = rows /\ txn'.len = Len(ledger)
    BY <1>11 DEF BeginBatch
  <2> QED BY <2>1 DEF TokenInv, Shows
<1> QED BY <1>1, <1>4, <1>5, <1>6, <1>8, <1>9, <1>10, <1>11, StepClasses

\* A delete that consumes a settled confirmation finds the fields it showed.
LEMMA ShownNext ==
  ASSUME IInv, [Next]_vars
  PROVE  ShownIsDeleted'
<1> DEFINE Ok(e) == e.by # None /\ e.by.settled => ShownIsDeletedBy(e)
<1> USE DEF IInv
<1>0. ledger \in Seq(EventType) /\ ledger' \in Seq(EventType)
  BY TypeNext DEF TypeOK
<1>a. \A n \in 1..Len(ledger) : Ok(ledger[n])
  BY <1>0 DEF ShownIsDeleted
<1>b. (\A n \in 1..Len(ledger') : Ok(ledger'[n])) => ShownIsDeleted'
  BY <1>0 DEF ShownIsDeleted, ShownIsDeletedBy
<1>1. ASSUME NEW e \in EventType, ledger' = Append(ledger, e), Ok(e)
      PROVE  ShownIsDeleted'
  <2>1. \A n \in 1..Len(ledger') :
          (n \in 1..Len(ledger) /\ ledger'[n] = ledger[n]) \/ ledger'[n] = e
    BY <1>0, <1>1
  <2> HIDE DEF Ok
  <2> QED BY <1>1, <1>a, <1>b, <2>1
<1>2. LogStep => ShownIsDeleted'
  <2> SUFFICES ASSUME LogStep PROVE ShownIsDeleted'
    OBVIOUS
  <2>1. PICK i \in Ids, e \in EventType :
          /\ ledger' = Append(ledger, e)
          /\ e.by # None => /\ rows[i] # None /\ e.by \in tokens /\ e.by.target = i
                            /\ e.by.version = rows[i].version /\ e.was = rows[i].fields
    BY LogRecords
  <2>2. Ok(e)
    BY <2>1 DEF TokenInv, Shows, ShownIsDeletedBy
  <2> QED BY <1>1, <2>1, <2>2
<1>3. ASSUME NEW col \in Collections, ClearRows(col) \/ SaveManifest(col)
      PROVE  ShownIsDeleted'
  BY <1>1, <1>3, MarkReplays
<1>4. Rollback => ShownIsDeleted'
  <2> SUFFICES ASSUME Rollback PROVE ShownIsDeleted'
    OBVIOUS
  <2>1. /\ txn.len \in Nat /\ Len(ledger') = txn.len /\ txn.len <= Len(ledger)
        /\ \A n \in 1..txn.len : ledger'[n] = ledger[n]
    BY RollbackCuts
  <2> HIDE DEF Ok
  <2> QED BY <1>0, <1>a, <1>b, <2>1
<1>5. ledger' = ledger => ShownIsDeleted'
  BY DEF ShownIsDeleted, ShownIsDeletedBy
<1>6. RollStep \/ (\E r \in Readers, i \in Ids, v \in Versions : BatchConflicts(r, i, v))
        => ShownIsDeleted'
  BY <1>4 DEF RollStep, BatchConflicts
<1>7. \/ QuietStep \/ UNCHANGED vars
      \/ \E n \in 1..MaxBatch : BeginBatch(n)
      \/ \E c \in Commands : ReplayInBatch(c)
      \/ \E r \in Readers, i \in Ids : ReadItem(r, i)
      => ShownIsDeleted'
  BY <1>5 DEF QuietStep, vars, BeginBatch, ReplayInBatch, ReadItem
<1> QED BY <1>2, <1>3, <1>6, <1>7, StepClasses

----------------------------------------------------------------------------
(* The theorems.                                                           *)

\* The invariant holds at the start.
LEMMA InitInv ==
  ASSUME Init
  PROVE  IInv
<1>1. TypeOK /\ LedgerShaped /\ Len(ledger) = 0
  BY DEF Init, TypeOK, LedgerShaped, Open
<1>2. RowsFollow(rows, ledger, Len(ledger)) /\ GoneFollows(rows, ledger, Len(ledger))
  BY <1>1 DEF Init, RowsFollow, GoneFollows
<1>3. SnapshotInv /\ OneEffectPerCommand /\ Pinned /\ HeldInv
  BY <1>1 DEF Init, SnapshotInv, OneEffectPerCommand, Pinned, HeldInv, Open
<1>4. \A i : RowAt(i, << >>) = None
  BY RowAtEmpty
<1>5. Explained /\ Recorded /\ TokenInv /\ ShownIsDeleted
  BY <1>1, <1>4 DEF Init, Explained, LedgerExplainsRows, Recorded, TokenInv, ShownIsDeleted, Open
<1> QED BY <1>1, <1>2, <1>3, <1>5 DEF IInv

\* Every step keeps it.
LEMMA NextInv ==
  ASSUME IInv, [Next]_vars
  PROVE  IInv'
<1>1. TypeOK' /\ LedgerShaped'
  BY TypeNext DEF IInv
<1> QED BY <1>1, FollowsNext, OneEffectNext, PinnedNext, HeldNext, AccountNext, TokenNext,
           ShownNext DEF IInv

\* The inductive invariant: versions, command ids, confirmations and readings at once.
THEOREM Invariance == Spec => []IInv
<1>1. Init => IInv
  BY InitInv
<1>2. IInv /\ [Next]_vars => IInv'
  BY NextInv
<1> QED BY <1>1, <1>2, PTL DEF Spec

\* Every variable keeps its type, and a batch never loses its place in the ledger.
THEOREM TypeCorrect == Spec => []TypeOK
<1>1. IInv => TypeOK
  BY DEF IInv
<1> QED BY <1>1, Invariance, PTL

\* A row's version is the seq of the last event about it, through batches, rollbacks,
\* undo and cascades: the one ordinal axis that OCC and confirmations stand on.
THEOREM VersionsFollowTheLedger == Spec => []VersionIsLastEvent
<1>1. IInv => VersionIsLastEvent
  <2> SUFFICES ASSUME IInv PROVE VersionIsLastEvent
    OBVIOUS
  <2>1. DOMAIN ledger = 1..Len(ledger) /\ Len(ledger) \in Nat
    BY DEF IInv, TypeOK
  <2>2. RowsFollow(rows, ledger, Len(ledger)) /\ GoneFollows(rows, ledger, Len(ledger))
    BY DEF IInv
  <2>3. ASSUME NEW i \in Ids, rows[i] # None
        PROVE  /\ LastOf(i, rows[i].version)
               /\ ledger[rows[i].version].type # "item_deleted"
    BY <2>1, <2>2, <2>3 DEF RowsFollow, LastOf, EventsOf
  <2>4. ASSUME NEW i \in Ids, rows[i] = None, NEW n \in EventsOf(i), LastOf(i, n)
        PROVE  \/ ledger[n].type = "item_deleted"
               \/ \E m \in DOMAIN ledger : m > n /\ ledger[m].type = "rows_cleared"
    BY <2>1, <2>2, <2>4 DEF GoneFollows, LastOf, EventsOf
  <2> QED BY <2>3, <2>4 DEF VersionIsLastEvent
<1> QED BY <1>1, Invariance, PTL

\* A command id writes at most one event, whoever sends it again and however often.
THEOREM CommandsAreIdempotent == Spec => []OneEffectPerCommand
<1>1. IInv => OneEffectPerCommand
  BY DEF IInv
<1> QED BY <1>1, Invariance, PTL

\* One request state lets at most one delete through, even when undo brings the id back.
THEOREM ConfirmationsAreSingleUse == Spec => []ConfirmedOnce
<1>1. ASSUME IInv, NEW m \in 1..Len(ledger), NEW n \in 1..Len(ledger),
             ledger[m].by = ledger[n].by, ledger[m].by # None, m < n
      PROVE  FALSE
  <2>1. ledger \in Seq(EventType)
    BY <1>1 DEF IInv, TypeOK
  <2>a. ledger[m] \in EventType
    BY <2>1
  <2>b. ledger[m].by \in Token
    BY <1>1, <2>a DEF EventType
  <2>2. ledger[m].by.version \in Nat
    BY <2>b DEF Token
  <2>3. ledger[m].id = ledger[n].id /\ ledger[m].by.version < m
    BY <1>1 DEF IInv, Pinned
  <2>4. m <= ledger[m].by.version
    BY <1>1, <2>1, <2>3 DEF IInv, Pinned
  <2> QED BY <2>1, <2>2, <2>3, <2>4
<1>2. IInv => ConfirmedOnce
  <2> SUFFICES ASSUME IInv, NEW m \in DOMAIN ledger, NEW n \in DOMAIN ledger,
                      ledger[m].by = ledger[n].by, ledger[m].by # None
               PROVE  m = n
    BY DEF ConfirmedOnce
  <2>1. m \in 1..Len(ledger) /\ n \in 1..Len(ledger) /\ Len(ledger) \in Nat
    BY DEF IInv, TypeOK
  <2>2. ~(m < n) /\ ~(n < m)
    BY <1>1, <2>1
  <2> QED BY <2>1, <2>2
<1> QED BY <1>2, Invariance, PTL

\* A committed version a reader holds still names the contents it read, so a write that
\* passes it as expected_version loses no update.
THEOREM UpdatesAreNotLost == Spec => []NoLostUpdate
<1>1. IInv => NoLostUpdate
  BY DEF IInv, HeldInv, NoLostUpdate, Names
<1> QED BY <1>1, Invariance, PTL

\* The ledger is a full account of the items: replaying its events rebuilds every row, so
\* the change feed and undo, which read nothing else, can trust it.
THEOREM LedgerIsAFullAccount == Spec => []LedgerExplainsRows
<1>1. IInv => LedgerExplainsRows
  BY DEF IInv, Explained
<1> QED BY <1>1, Invariance, PTL

\* A confirmed delete whose demand was about a committed row removes the very fields the
\* user was shown, whatever was edited, moved, undone or rolled back in between.
THEOREM WhatWasShownIsDeleted == Spec => []ShownIsDeleted
<1>1. IInv => ShownIsDeleted
  BY DEF IInv
<1> QED BY <1>1, Invariance, PTL

\* No write, undo included, makes a row break its manifest where it did not before.
THEOREM ManifestsAreKept == Spec => NoNewViolations
<1> DEFINE Kept ==
      \A i \in Ids :
        rows'[i] # None /\ rows'[i] # rows[i] /\ ~(Open /\ txn' = None /\ rows' = txn.rows) =>
          Violations(rows'[i].coll, rows'[i].fields) \subseteq
            IF rows[i] = None THEN {} ELSE Violations(rows[i].coll, rows[i].fields)
<1>1. IInv /\ [Next]_vars => [Kept]_vars
  <2> SUFFICES ASSUME IInv, Next PROVE Kept
    OBVIOUS
  <2>1. CASE LogStep
    <3>1. PICK i \in Ids : NoWorse(rows'[i], rows[i]) /\ \A j \in Ids : j # i => rows'[j] = rows[j]
      BY <2>1, LogRecords DEF IInv
    <3> QED BY <3>1 DEF NoWorse
  <2>2. CASE Rollback
    BY <2>2 DEF Rollback
  <2>3. CASE \A i \in Ids : rows'[i] = rows[i] \/ rows'[i] = None
    BY <2>3
  <2>4. ASSUME NEW col \in Collections, ClearRows(col) \/ SaveManifest(col)
        PROVE  \A i \in Ids : rows'[i] = rows[i] \/ rows'[i] = None
    BY <2>4 DEF ClearRows, SaveManifest
  <2>5. \/ QuietStep
        \/ \E n \in 1..MaxBatch : BeginBatch(n)
        \/ \E c \in Commands : ReplayInBatch(c)
        \/ \E r \in Readers, i \in Ids : ReadItem(r, i)
        => rows' = rows
    BY DEF QuietStep, BeginBatch, ReplayInBatch, ReadItem
  <2>6. RollStep \/ (\E r \in Readers, i \in Ids, v \in Versions \ {0} : BatchConflicts(r, i, v))
          => Rollback
    BY DEF RollStep, BatchConflicts
  <2> HIDE DEF Kept
  <2> QED BY <2>1, <2>2, <2>3, <2>4, <2>5, <2>6, StepClasses DEF IInv
<1> QED BY <1>1, Invariance, PTL DEF NoNewViolations, Spec

----------------------------------------------------------------------------
(* Undo.                                                                   *)

\* Patching, then patching with the pre-image, reads as if nothing had been patched.
LEMMA PreImageReverses ==
  ASSUME NEW f, NEW patch, NEW k \in Keys
  PROVE  Reading(Merged(Merged(f, patch), PreImage(f, patch))[k]) = Reading(f[k])
<1> DEFINE new == Merged(f, patch)
           was == PreImage(f, patch)
           put == IF patch[k] = Absent THEN f[k] ELSE patch[k]
           back == IF was[k] = Absent THEN new[k] ELSE was[k]
<1>1. new[k] = IF put = Null THEN Absent ELSE put
  BY DEF Merged
<1>2. was[k] = IF patch[k] = Absent THEN Absent ELSE IF f[k] = Absent THEN Null ELSE f[k]
  BY DEF PreImage
<1>3. Merged(new, was)[k] = IF back = Null THEN Absent ELSE back
  <2> HIDE DEF new, was
  <2> QED BY DEF Merged
<1> HIDE DEF new, was
<1>4. Reading(Merged(new, was)[k]) = Reading(f[k])
  BY <1>1, <1>2, <1>3, SentinelAssumption DEF Reading
<1> QED BY <1>4 DEF new, was

\* Reversing the last event of an item gives back the row before it, a null field reading
\* as a missing one.
LEMMA UndoReverses ==
  ASSUME IInv, NEW i \in Ids, NEW s \in 1..MaxSeq, UndoLast(i, s)
  PROVE  Undone(i, s, Reading)
<1> DEFINE e == ledger[s]
           before == RowAt(i, SubSeq(ledger, 1, s - 1))
           Img(row) == IF row = None THEN None
                       ELSE <<row.coll, row.grp, row.pos, [k \in Keys |-> Reading(row.fields[k])]>>
<1>1. ledger \in Seq(EventType) /\ rows \in [Ids -> Row \cup {None}]
  BY DEF IInv, TypeOK
<1>2. s \in 1..Len(ledger) /\ e.id = i /\ (\A n \in (s + 1)..Len(ledger) : ledger[n].id # i)
  BY <1>1 DEF UndoLast, LastOf, EventsOf
<1>3. Records(e, before)
  BY <1>2 DEF IInv, Recorded
<1>4. rows[i] # None => rows[i] = Replayed(before, e, i, s)
  <2>1. rows[i] = RowAt(i, ledger)
    BY DEF IInv, Explained, LedgerExplainsRows
  <2>2. rows[i] \in {RowAt(i, SubSeq(ledger, 1, s)), None}
    BY <1>1, <1>2, <2>1, RowAtLast
  <2> DEFINE L == SubSeq(ledger, 1, s - 1)
             M == SubSeq(ledger, 1, s)
  <2>3. /\ L \in Seq(EventType) /\ M \in Seq(EventType) /\ Len(M) = s /\ Len(L) = s - 1
        /\ M[s] = e /\ \A n \in 1..(s - 1) : M[n] = L[n]
    BY <1>1, <1>2
  <2>4. RowAt(i, M) = Replayed(RowAt(i, L), e, i, s)
    <3> HIDE DEF L, M
    <3>1. RowAt(i, M) = Replayed(RowAt(i, L), M[Len(M)], i, Len(M))
      BY <2>3, RowAtNext
    <3> QED BY <2>3, <3>1
  <2> QED BY <2>2, <2>4
<1>5. /\ Command(Random) /\ Reverse(i, e)
      /\ rows[i] # None => rows[i] \in Row
  BY <1>1 DEF UndoLast
<1>6. Undone(i, s, Reading) <=> Img(rows'[i]) = Img(before)
  BY Zenon DEF Undone, Image
<1>t. /\ e.was \in Fields /\ e.fromPos \in Nat /\ e.pos \in Nat /\ Shaped(e)
      /\ Version \in Nat \ {0}
  <2>1. e \in EventType
    BY <1>1, <1>2
  <2> QED BY <1>2, <2>1 DEF EventType, IInv, LedgerShaped, TypeOK, Version
<1> HIDE DEF e, before
<1>7. CASE e.type = "item_added" /\ rows[i] # None /\ RemoveRow(Random, i, None)
  <2>1. before = None
    BY <1>3, <1>7 DEF Records
  <2>2. rows'[i] = None
    BY <1>1, <1>7 DEF RemoveRow, Write
  <2> QED BY <1>6, <2>1, <2>2
<1>8. CASE e.type = "item_updated" /\ rows[i] # None /\ PatchRow(Random, i, e.was)
  <2>1. before # None /\ e.was = PreImage(before.fields, e.fields)
    BY <1>3, <1>8 DEF Records
  <2>2. rows[i] = [before EXCEPT !.fields = Merged(@, e.fields), !.version = s]
    BY <1>2, <1>4, <1>8 DEF Replayed, After
  <2>3. /\ rows[i].coll = before.coll /\ rows[i].grp = before.grp /\ rows[i].pos = before.pos
        /\ rows[i].fields = Merged(before.fields, e.fields)
    BY <1>5, <1>8, <2>2 DEF Row
  <2>4. /\ rows'[i] # None
        /\ rows'[i].coll = rows[i].coll /\ rows'[i].grp = rows[i].grp /\ rows'[i].pos = rows[i].pos
        /\ rows'[i].fields = Merged(rows[i].fields, e.was)
    <3> DEFINE new == Merged(rows[i].fields, e.was)
    <3>1. rows' = [rows EXCEPT ![i] = [rows[i] EXCEPT !.fields = new, !.version = Version]]
      BY <1>8 DEF PatchRow, Write
    <3> HIDE DEF new
    <3>2. rows'[i] = [rows[i] EXCEPT !.fields = new, !.version = Version]
      BY <1>1, <3>1
    <3>3. rows[i] \in Row
      BY <1>5, <1>8
    <3>4. /\ rows'[i].coll = rows[i].coll /\ rows'[i].grp = rows[i].grp
          /\ rows'[i].pos = rows[i].pos /\ rows'[i].fields = new
      BY <3>2, <3>3 DEF Row
    <3>5. new \in Fields
      BY <1>t, <3>3, FieldsClosed DEF Row, new
    <3>6. rows'[i] \in Row
      BY <1>t, <3>2, <3>3, <3>5 DEF Row
    <3> QED BY <3>4, <3>6, RowAssumption DEF new
  <2>5. \A k \in Keys : Reading(rows'[i].fields[k]) = Reading(before.fields[k])
    BY <2>1, <2>3, <2>4, PreImageReverses
  <2>6. [k \in Keys |-> Reading(rows'[i].fields[k])] = [k \in Keys |-> Reading(before.fields[k])]
    BY <2>5
  <2> QED BY <1>6, <2>1, <2>3, <2>4, <2>6
<1>9. CASE e.type = "item_moved" /\ rows[i] # None /\ PlaceRow(Random, i, e.fromGrp, e.fromPos)
  <2>1. before # None /\ e.fromGrp = before.grp /\ e.fromPos = before.pos
    BY <1>3, <1>9 DEF Records
  <2>2. rows[i] = [before EXCEPT !.grp = e.grp, !.pos = e.pos, !.version = s]
    BY <1>2, <1>4, <1>9 DEF Replayed, After
  <2>3. rows[i].coll = before.coll /\ rows[i].fields = before.fields
    BY <1>5, <1>9, <2>2 DEF Row
  <2>4. /\ rows'[i] # None
        /\ rows'[i].coll = rows[i].coll /\ rows'[i].grp = e.fromGrp /\ rows'[i].pos = e.fromPos
        /\ rows'[i].fields = rows[i].fields
    <3>1. /\ rows'[i] = [rows[i] EXCEPT !.grp = e.fromGrp, !.pos = e.fromPos, !.version = Version]
          /\ rows[i] \in Row /\ e.fromGrp \in Groups
      BY <1>1, <1>5, <1>9, <1>t DEF PlaceRow, Write, Shaped
    <3>2. rows'[i] \in Row
      BY <1>t, <3>1 DEF Row
    <3> QED BY <3>1, <3>2, RowAssumption DEF Row
  <2> QED BY <1>6, <2>1, <2>3, <2>4
<1>10. CASE e.type = "item_deleted" /\ InsertRow(Random, i, e.coll, e.grp, e.pos, e.was)
  <2>1. /\ before # None
        /\ e.coll = before.coll /\ e.grp = before.grp /\ e.pos = before.pos /\ e.was = before.fields
    BY <1>3, <1>10 DEF Records
  <2>2. /\ rows'[i] # None
        /\ rows'[i].coll = e.coll /\ rows'[i].grp = e.grp /\ rows'[i].pos = e.pos
        /\ rows'[i].fields = e.was
    <3>1. /\ rows'[i] = [coll |-> e.coll, grp |-> e.grp, pos |-> e.pos, fields |-> e.was,
                         version |-> Version]
          /\ e.coll \in Collections /\ e.grp \in Groups
      BY <1>1, <1>10, <1>t DEF InsertRow, Write, Shaped
    <3>2. rows'[i] \in Row
      BY <1>t, <3>1 DEF Row
    <3> QED BY <3>1, <3>2, RowAssumption
  <2> QED BY <1>6, <2>1, <2>2
<1> QED BY <1>5, <1>7, <1>8, <1>9, <1>10 DEF Reverse

\* Undo puts the item back to what it was before the event the user saw: place, group and
\* every field, a null reading as a missing one.
THEOREM UndoRestoresTheRow == Spec => UndoRestores
<1>1. IInv => \A i \in Ids, s \in 1..MaxSeq : UndoLast(i, s) => Undone(i, s, Reading)
  BY UndoReverses
<1> QED BY <1>1, Invariance, PTL DEF UndoRestores

----------------------------------------------------------------------------
(* The refinement.                                                         *)

\* Each step shows readers outside the batch one commit of a versioned table, or nothing.
LEMMA StepCommits ==
  ASSUME IInv, Next
  PROVE  Table!Commit \/ UNCHANGED <<Visible, Len(Committed)>>
<1> DEFINE Floor == IF Open THEN txn.len ELSE Len(ledger)
<1>0. IInv' /\ TypeOK /\ TypeOK'
  BY NextInv DEF IInv
<1>1. /\ Len(ledger) \in Nat /\ (Open => txn.len \in 0..Len(ledger))
      /\ Len(Committed) = Floor /\ ledger \in Seq(EventType)
  BY <1>0 DEF TypeOK, Open, Committed
<1>2. /\ Len(ledger') \in Nat /\ (Open' => txn'.len \in 0..Len(ledger'))
      /\ Len(Committed') = IF Open' THEN txn'.len ELSE Len(ledger')
  BY <1>0 DEF TypeOK, Open, Committed
<1>3. ASSUME NEW i \in Ids, rows[i] # None, rows[i].version <= Floor
      PROVE  Visible[i] = rows[i]
  BY <1>3 DEF Visible, IInv, SnapshotInv
<1>4. ASSUME ~Open', Len(ledger') > Floor,
             \A i \in Ids : rows'[i] = None \/ rows'[i].version > Floor \/ rows'[i] = Visible[i]
      PROVE  Table!Commit
  <2>1. RowsFollow(rows', ledger', Len(ledger')) /\ Visible' = rows'
    BY <1>0, <1>4 DEF IInv, Visible
  <2>2. \A i \in Ids : rows'[i] # None => rows'[i].version \in 1..Len(ledger') /\ ledger'[rows'[i].version].id = i
    BY <2>1 DEF RowsFollow
  <2>3. Floor \in Nat
    BY <1>1
  <2>4. \A i \in Ids : rows'[i] \in {Visible[i], None} \/ rows'[i].version \in (Floor + 1)..Len(ledger')
    BY <1>2, <1>4, <2>2, <2>3
  <2>5. \A i, j \in Ids : rows'[i] # None /\ rows'[j] # None /\ i # j =>
          rows'[i].version # rows'[j].version
    BY <2>2
  <2> QED BY <1>1, <1>2, <1>4, <2>1, <2>4, <2>5 DEF Table!Commit
<1>5. CASE LogStep
  <2>1. PICK i \in Ids, row \in Row \cup {None} :
          /\ Len(ledger') = Len(ledger) + 1
          /\ rows'[i] = row
          /\ \A j \in Ids : j # i => rows'[j] = rows[j]
          /\ row # None => row.version = Len(ledger) + 1
    BY <1>0, <1>5, LogFacts
  <2>2. \A j \in Ids : rows[j] # None => rows[j].version \in Nat
    BY <1>0 DEF TypeOK, Row
  <2>3. CASE ~Open'
    <3>1. \A j \in Ids : rows'[j] = None \/ rows'[j].version > Floor \/ rows'[j] = Visible[j]
      BY <1>1, <1>3, <2>1, <2>2
    <3> QED BY <1>1, <1>4, <2>1, <2>3, <3>1
  <2>4. CASE Open'
    <3>1. Open /\ txn'.len = txn.len /\ txn'.rows = txn.rows
      BY <1>0, <1>5, <2>4 DEF LogStep, Succeeds, Open, TypeOK
    <3> QED BY <1>1, <1>2, <2>4, <3>1 DEF Visible
  <2> QED BY <2>3, <2>4
<1>6. CASE Rollback
  <2>1. Open /\ Len(ledger') = txn.len /\ rows' = txn.rows /\ ~Open'
    BY <1>0, <1>6, RollbackCuts DEF Open
  <2> QED BY <1>1, <1>2, <2>1 DEF Visible
<1>7. ASSUME NEW col \in Collections, ClearRows(col) \/ SaveManifest(col)
      PROVE  Table!Commit
  <2>1. Len(ledger') = Len(ledger) + 1
    BY <1>7, MarkFollows DEF IInv
  <2>2. /\ ~Open /\ ~Open'
        /\ \A j \in Ids : rows'[j] = rows[j] \/ rows'[j] = None
    BY <1>0, <1>7 DEF ClearRows, SaveManifest, Open, TypeOK
  <2> QED BY <1>1, <1>4, <2>1, <2>2 DEF Visible
<1>8. ASSUME NEW c \in Commands, ReplayInBatch(c)
      PROVE  Table!Commit \/ UNCHANGED <<Visible, Len(Committed)>>
  <2>1. Open /\ UNCHANGED <<rows, ledger>> /\ (Open' => txn'.len = txn.len /\ txn'.rows = txn.rows)
    BY <1>0, <1>8 DEF ReplayInBatch, Succeeds, Open, TypeOK
  <2>2. CASE Open'
    BY <1>1, <1>2, <2>1, <2>2 DEF Visible
  <2>3. CASE ~Open' /\ Len(ledger) > txn.len
    <3>1. \A j \in Ids : rows[j] # None => rows[j].version \in Nat
      BY <1>0 DEF TypeOK, Row
    <3>2. \A j \in Ids : rows'[j] = None \/ rows'[j].version > Floor \/ rows'[j] = Visible[j]
      BY <1>1, <1>3, <2>1, <3>1
    <3> QED BY <1>4, <2>1, <2>3, <3>2
  <2>4. CASE ~Open' /\ Len(ledger) = txn.len
    <3>1. SubSeq(ledger, 1, txn.len) = ledger
      BY <1>1, <2>4, WholeCut
    <3>2. \A i \in Ids : rows[i] = txn.rows[i]
      BY <2>1, <3>1 DEF IInv, Explained, LedgerExplainsRows
    <3>3. rows = txn.rows
      <4>1. rows \in [Ids -> Row \cup {None}] /\ txn.rows \in [Ids -> Row \cup {None}]
        BY <1>0, <2>1 DEF TypeOK, Open
      <4> QED BY <3>2, <4>1
    <3> QED BY <1>1, <1>2, <2>1, <2>4, <3>3 DEF Visible
  <2> QED BY <1>1, <2>1, <2>2, <2>3, <2>4
<1>9. ASSUME NEW n \in 1..MaxBatch, BeginBatch(n)
      PROVE  UNCHANGED <<Visible, Len(Committed)>>
  <2>1. ~Open /\ txn'.rows = rows /\ txn'.len = Len(ledger) /\ UNCHANGED <<rows, ledger>>
    BY <1>9 DEF BeginBatch
  <2> QED BY <1>1, <1>2, <2>1 DEF Visible
<1>10. \/ QuietStep
       \/ \E r \in Readers, i \in Ids : ReadItem(r, i)
       => UNCHANGED <<Visible, Len(Committed)>>
  BY DEF QuietStep, ReadItem, Visible, Committed, Open
<1>11. RollStep \/ (\E r \in Readers, i \in Ids, v \in Versions \ {0} : BatchConflicts(r, i, v))
         => Rollback
  BY DEF RollStep, BatchConflicts
<1> QED BY <1>5, <1>6, <1>7, <1>8, <1>9, <1>10, <1>11, StepClasses DEF IInv

\* What readers outside a transaction see is a versioned table that changes in whole
\* commits, each giving the rows it changes versions above all that were ever seen.
THEOREM ItemsAreAVersionedTable == Spec => IsVersionedTable
<1>1. Init => Table!Init
  BY DEF Init, Table!Init, Visible, Committed, Open
<1>2. IInv /\ [Next]_vars => [Table!Commit]_<<Visible, Len(Committed)>>
  <2>1. CASE UNCHANGED vars
    BY <2>1 DEF vars, Visible, Committed, Open
  <2> QED BY <2>1, StepCommits
<1> QED BY <1>1, <1>2, Invariance, PTL DEF IsVersionedTable, Table!Spec, Spec
=============================================================================
