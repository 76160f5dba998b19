----------------------------- MODULE ItemStore -----------------------------
(***************************************************************************)
(* The items plane of the store (src/src/store.mjs): rows that carry a     *)
(* version, an append-only ledger, idempotent commands, optimistic         *)
(* concurrency, batches in one transaction, confirmed deletes, and undo.   *)
(*                                                                         *)
(* Every host process runs each command in one SQLite transaction, so a    *)
(* command is one atomic step and the processes interleave at commands.    *)
(* Only a batch is modelled step by step: its commands run one by one      *)
(* inside an open transaction that ends in a commit or a rollback.         *)
(***************************************************************************)
EXTENDS Integers, Sequences, FiniteSets

CONSTANTS
  Ids,          \* item ids
  Collections,  \* collection names
  Groups,       \* group names
  Keys,         \* field names
  Vals,         \* field values
  Added,        \* what add_item may put under a key: values, Null, Absent
  Unfit,        \* values (or Absent) that a manifest, once in force, refuses
  Commands,     \* the command ids callers choose
  Callers,      \* "actor|via" strings a confirmation is bound to
  Readers,      \* callers that hold a row they read earlier
  Positions,    \* positions a caller may name explicitly
  MaxSeq,       \* bound: events in the ledger
  MaxBatch,     \* bound: commands in a batch; 0 leaves batches out
  MaxTokens,    \* bound: confirmations outstanding
  None,         \* no row, no transaction, no group, no confirmation
  Absent,       \* a key that is not there
  Null,         \* JSON null
  Random        \* a random command id: nobody sends it again

ASSUME BoundsAssumption == MaxSeq \in Nat /\ MaxBatch \in Nat /\ MaxTokens \in Nat
ASSUME PositionsAssumption == Positions \subseteq Nat
ASSUME SentinelAssumption == Random \notin Commands /\ None \notin Ids /\ Null # Absent
ASSUME AddedAssumption == Added \subseteq Vals \cup {Absent, Null}

VARIABLES
  rows,    \* the item table: id -> row, or None
  ledger,  \* change_event: event n has seq n
  txn,     \* the open batch transaction, or None
  tokens,  \* request states issued and not yet expired
  strict,  \* collections whose declared fields are enforced by a saved manifest
  held     \* what each reader last read: an id and the row it saw, or None

vars == <<rows, ledger, txn, tokens, strict, held>>

Fields == [Keys -> Vals \cup {Absent, Null}]
Row == [coll : Collections, grp : Groups, pos : Nat, fields : Fields, version : Nat \ {0}]
ASSUME RowAssumption == None \notin Row
NoFields == [k \in Keys |-> Absent]
Open == txn # None
Version == Len(ledger) + 1

\* (bug) the readers of other connections see a batch half done.
VisibleUncommitted == rows

\* What a reader outside the transaction sees: SQLite shows only what is committed.
Visible == IF Open THEN txn.rows ELSE rows
Committed == IF Open THEN SubSeq(ledger, 1, txn.len) ELSE ledger

----------------------------------------------------------------------------
(* Fields: merge, pre-image and manifest violations.                       *)

\* A patch replaces the keys it names; afterwards every key that is null is deleted,
\* the ones the patch never named included.
Merged(f, patch) ==
  LET put == [k \in Keys |-> IF patch[k] = Absent THEN f[k] ELSE patch[k]]
  IN  [k \in Keys |-> IF put[k] = Null THEN Absent ELSE put[k]]

\* (bug) a key the update adds leaves no pre-image.
PreImageOfPresent(f, patch) == [k \in Keys |-> IF patch[k] = Absent THEN Absent ELSE f[k]]

\* `was`: the old value of each key the patch names, null for a key that was not there.
PreImage(f, patch) ==
  [k \in Keys |-> IF patch[k] = Absent THEN Absent
                  ELSE IF f[k] = Absent THEN Null ELSE f[k]]

Reading(v) == IF v = Null THEN Absent ELSE v

\* One entry per message of fieldViolations: the key, and whether it is missing or wrong.
Violations(col, f) ==
  IF col \in strict
  THEN {<<k, Reading(f[k]) = Absent>> : k \in {h \in Keys : Reading(f[h]) \in Unfit}}
  ELSE {}

----------------------------------------------------------------------------
(* The ledger.                                                             *)

Event(type, i, c, col) ==
  [type |-> type, id |-> i, cmd |-> c, coll |-> col, fields |-> NoFields, was |-> NoFields,
   grp |-> None, pos |-> 0, fromGrp |-> None, fromPos |-> 0, by |-> None]

\* emit and the row write are one step: the row's version is the event's seq.
Write(e, i, row) ==
  /\ ledger' = Append(ledger, e)
  /\ rows' = [rows EXCEPT ![i] = row]

EventsOf(i) == {n \in DOMAIN ledger : ledger[n].id = i}
LastOf(i, n) == n \in EventsOf(i) /\ \A m \in EventsOf(i) : m <= n

\* (bug) only the command that last wrote a row is remembered.
UnseenInRows(c) ==
  c = Random \/ \A i \in Ids : rows[i] # None => ledger[rows[i].version].cmd # c

\* A seen command id answers from the ledger (or refuses): it never writes again.
Unseen(c) == c = Random \/ \A n \in DOMAIN ledger : ledger[n].cmd # c

\* The default position is one below everything in the group.
BottomOf(col, g, pos) ==
  LET taken == {rows[i].pos : i \in {j \in Ids : /\ rows[j] # None
                                                 /\ rows[j].coll = col /\ rows[j].grp = g}}
  IN  (\A p \in taken : p < pos) /\ pos - 1 \in taken \cup {0}

----------------------------------------------------------------------------
(* The four row writes, as core() performs them for a command and for undo. *)

\* (bug) a row that comes back is not held against the manifest.
InsertRowUnchecked(c, i, col, g, pos, f) ==
  /\ rows[i] = None
  /\ Write([Event("item_added", i, c, col) EXCEPT !.fields = f, !.grp = g, !.pos = pos], i,
           [coll |-> col, grp |-> g, pos |-> pos, fields |-> f, version |-> Version])

InsertRow(c, i, col, g, pos, f) ==
  /\ rows[i] = None
  /\ Violations(col, f) = {}
  /\ Write([Event("item_added", i, c, col) EXCEPT !.fields = f, !.grp = g, !.pos = pos], i,
           [coll |-> col, grp |-> g, pos |-> pos, fields |-> f, version |-> Version])

PatchRow(c, i, patch) ==
  LET row == rows[i]
      new == Merged(row.fields, patch)
  IN  /\ Violations(row.coll, new) \subseteq Violations(row.coll, row.fields)
      /\ Write([Event("item_updated", i, c, row.coll) EXCEPT
                  !.fields = patch, !.was = PreImage(row.fields, patch)], i,
               [row EXCEPT !.fields = new, !.version = Version])

\* (bug) a move is placement only, so the version stays.
PlaceRowOldVersion(c, i, g, pos) ==
  LET row == rows[i]
  IN  Write([Event("item_moved", i, c, row.coll) EXCEPT
                  !.grp = g, !.pos = pos, !.fromGrp = row.grp, !.fromPos = row.pos], i,
               [row EXCEPT !.grp = g, !.pos = pos])

PlaceRow(c, i, g, pos) ==
  LET row == rows[i]
  IN  Write([Event("item_moved", i, c, row.coll) EXCEPT
                  !.grp = g, !.pos = pos, !.fromGrp = row.grp, !.fromPos = row.pos], i,
               [row EXCEPT !.grp = g, !.pos = pos, !.version = Version])

RemoveRow(c, i, by) ==
  LET row == rows[i]
  IN  Write([Event("item_deleted", i, c, row.coll) EXCEPT
                  !.was = row.fields, !.grp = row.grp, !.pos = row.pos, !.by = by], i, None)

----------------------------------------------------------------------------
(* Transactions.                                                           *)

\* A command that succeeds counts one off the open batch, and the last one commits it.
Succeeds == txn' = IF ~Open \/ txn.left = 1 THEN None ELSE [txn EXCEPT !.left = @ - 1]

\* (bug) the rows of a failed batch survive it.
RollbackLedgerOnly ==
  Open /\ ledger' = SubSeq(ledger, 1, txn.len) /\ txn' = None /\ UNCHANGED rows

Rollback ==
  /\ Open
  /\ rows' = txn.rows
  /\ ledger' = SubSeq(ledger, 1, txn.len)
  /\ txn' = None

Command(c) == Len(ledger) < MaxSeq /\ Unseen(c) /\ Succeeds /\ UNCHANGED strict

\* The row a command names.  A batch is written before it runs and new ids are random, so
\* it can only name rows that were there when it began.
Found(i) == rows[i] # None /\ (Open => txn.rows[i] # None)

\* not_found, then the version check: an omitted expected_version always passes.
Finds(i, v) == Found(i) /\ (v = 0 \/ v = rows[i].version)

----------------------------------------------------------------------------
(* Commands.  `v` is expected_version, 0 when the caller leaves it out.     *)

\* A batch may not name the id of a new row: it gets a random, unused one.
AddItem(c, i, col, g, pos, f) ==
  /\ Command(c)
  /\ Open => EventsOf(i) = {}
  /\ pos \in Positions \/ BottomOf(col, g, pos)
  /\ InsertRow(c, i, col, g, pos, f)
  /\ UNCHANGED <<tokens, held>>

UpdateItem(c, i, v, patch) ==
  /\ Command(c)
  /\ Finds(i, v)
  /\ PatchRow(c, i, patch)
  /\ UNCHANGED <<tokens, held>>

MoveItem(c, i, v, g, pos) ==
  /\ Command(c)
  /\ Finds(i, v)
  /\ pos \in Positions \/ BottomOf(rows[i].coll, g, pos)
  /\ PlaceRow(c, i, g, pos)
  /\ UNCHANGED <<tokens, held>>

\* An agent's delete, or a human's with nothing asking for confirmation.
DeleteItem(c, i, v) ==
  /\ Command(c)
  /\ Finds(i, v)
  /\ RemoveRow(c, i, None)
  /\ UNCHANGED <<tokens, held>>

\* The gate is up and no request_state came along: the answer is a demand that carries a
\* state bound to the caller, the row and its version, and a preview of the row. The demand
\* is not `ok`, so inside a batch it rolls the batch back, and leaves with the failure.
DemandConfirmation(caller, i, v) ==
  /\ Finds(i, v)
  /\ Cardinality(tokens) < MaxTokens
  /\ tokens' = tokens \cup {[caller |-> caller, target |-> i, version |-> rows[i].version,
                             shown |-> rows[i].fields,
                             settled |-> rows[i].version <= Len(Committed)]}
  /\ Rollback \/ (~Open /\ UNCHANGED <<rows, ledger, txn>>)
  /\ UNCHANGED <<strict, held>>

\* (bug) the request state is checked against the target alone.
VerifiesTarget(t, caller, i) == t.caller = caller /\ t.target = i

\* requestState.verify re-derives the binding from the current command and row.
Verifies(t, caller, i) ==
  t.caller = caller /\ t.target = i /\ t.version = rows[i].version

DeleteConfirmed(c, i, v, caller, t) ==
  /\ Command(c)
  /\ Finds(i, v)
  /\ Verifies(t, caller, i)
  /\ RemoveRow(c, i, t)
  /\ UNCHANGED <<tokens, held>>

\* A state is good for ten minutes.
Expire(t) == tokens' = tokens \ {t} /\ UNCHANGED <<rows, ledger, txn, strict, held>>

----------------------------------------------------------------------------
(* Batches.                                                                *)

BeginBatch(n) ==
  /\ ~Open
  /\ Len(ledger) + n <= MaxSeq
  /\ txn' = [left |-> n, rows |-> rows, len |-> Len(ledger)]
  /\ UNCHANGED <<rows, ledger, tokens, strict, held>>

\* A command the ledger has already seen answers ok from there and counts as done.
ReplayInBatch(c) ==
  /\ Open
  /\ ~Unseen(c)
  /\ Succeeds
  /\ UNCHANGED <<rows, ledger, tokens, strict, held>>

\* The first command that is refused, or a crash, undoes all of it.
BatchFails == Rollback /\ UNCHANGED <<tokens, strict, held>>

\* A version conflict hands the caller the row as it is, here as the batch has it.
BatchConflicts(r, i, v) ==
  /\ Found(i)
  /\ v # rows[i].version
  /\ Rollback
  /\ held' = [held EXCEPT ![r] = [id |-> i, row |-> rows[i],
                                  settled |-> rows[i].version <= txn.len]]
  /\ UNCHANGED <<tokens, strict>>

----------------------------------------------------------------------------
(* Undo: the last event of a target is reversed by a privileged command     *)
(* with a random command id, in one transaction with the read of it.        *)

Reverse(i, e) ==
  \/ e.type = "item_added"   /\ rows[i] # None /\ RemoveRow(Random, i, None)
  \/ e.type = "item_updated" /\ rows[i] # None /\ PatchRow(Random, i, e.was)
  \/ e.type = "item_moved"   /\ rows[i] # None /\ PlaceRow(Random, i, e.fromGrp, e.fromPos)
  \/ e.type = "item_deleted" /\ InsertRow(Random, i, e.coll, e.grp, e.pos, e.was)

\* `s` is the seq of the event the user saw beside the button (expectedSeq).
UndoLast(i, s) ==
  /\ ~Open
  /\ LastOf(i, s)
  /\ Command(Random)
  /\ Reverse(i, ledger[s])
  /\ UNCHANGED <<tokens, held>>

----------------------------------------------------------------------------
(* Readers, and the other planes as far as they touch the items.            *)

ReadItem(r, i) ==
  /\ Visible[i] # None
  /\ held' = [held EXCEPT ![r] = [id |-> i, row |-> Visible[i], settled |-> TRUE]]
  /\ UNCHANGED <<rows, ledger, txn, tokens, strict>>

\* delete_app with data:"cascade" clears the collections only that app owned: one
\* rows_cleared event for the collection, none for its rows.
ClearRows(col) ==
  /\ ~Open
  /\ Len(ledger) < MaxSeq
  /\ ledger' = Append(ledger, Event("rows_cleared", None, Random, col))
  /\ rows' = [i \in Ids |-> IF rows[i] # None /\ rows[i].coll = col THEN None ELSE rows[i]]
  /\ UNCHANGED <<txn, tokens, strict, held>>

\* save_app: a manifest that declares the collection comes into force, or goes.
SaveManifest(col) ==
  /\ ~Open
  /\ Len(ledger) < MaxSeq
  /\ ledger' = Append(ledger, Event("component_saved", None, Random, None))
  /\ strict' = IF col \in strict THEN strict \ {col} ELSE strict \cup {col}
  /\ UNCHANGED <<rows, txn, tokens, held>>

\* A command that is refused, or answered from the ledger, outside a batch.
Refused == ~Open /\ UNCHANGED vars

----------------------------------------------------------------------------
Init ==
  /\ rows = [i \in Ids |-> None]
  /\ ledger = << >>
  /\ txn = None
  /\ tokens = {}
  /\ strict = {}
  /\ held = [r \in Readers |-> None]

\* The versions a caller can name: none, or the one of a row it holds.
Versions == {0} \cup {held[r].row.version : r \in {q \in Readers : held[q] # None}}

Additions == [Keys -> Added]
Patches == Fields

Next ==
  \/ \E c \in Commands \cup {Random}, i \in Ids :
       \/ \E col \in Collections, g \in Groups, pos \in 0..MaxSeq, f \in Additions :
            AddItem(c, i, col, g, pos, f)
       \/ \E v \in Versions :
            \/ \E patch \in Patches : UpdateItem(c, i, v, patch)
            \/ \E g \in Groups, pos \in 0..MaxSeq : MoveItem(c, i, v, g, pos)
            \/ DeleteItem(c, i, v)
            \/ \E caller \in Callers : \E t \in tokens : DeleteConfirmed(c, i, v, caller, t)
  \/ \E caller \in Callers, i \in Ids, v \in Versions :
       DemandConfirmation(caller, i, v)
  \/ \E t \in tokens : Expire(t)
  \/ \E n \in 1..MaxBatch : BeginBatch(n)
  \/ \E c \in Commands : ReplayInBatch(c)
  \/ BatchFails
  \/ \E r \in Readers, i \in Ids, v \in Versions \ {0} : BatchConflicts(r, i, v)
  \/ \E i \in Ids, s \in 1..MaxSeq : UndoLast(i, s)
  \/ \E r \in Readers, i \in Ids : ReadItem(r, i)
  \/ \E col \in Collections : ClearRows(col) \/ SaveManifest(col)
  \/ Refused

Spec == Init /\ [][Next]_vars

----------------------------------------------------------------------------
(* Properties.                                                             *)

Token == [caller : Callers, target : Ids, version : Nat \ {0}, shown : Fields,
          settled : BOOLEAN]
EventType == [type : {"item_added", "item_updated", "item_moved", "item_deleted",
                      "rows_cleared", "component_saved"},
              id : Ids \cup {None}, cmd : Commands \cup {Random},
              coll : Collections \cup {None}, fields : Fields, was : Fields,
              grp : Groups \cup {None}, pos : Nat,
              fromGrp : Groups \cup {None}, fromPos : Nat, by : Token \cup {None}]
Held == [id : Ids, row : Row, settled : BOOLEAN]

\* The variables have their types, and an open transaction knows where it began.
TypeOK ==
  /\ rows \in [Ids -> Row \cup {None}]
  /\ ledger \in Seq(EventType)
  /\ txn \in [left : Nat \ {0}, rows : [Ids -> Row \cup {None}], len : Nat] \cup {None}
  /\ Open => txn.len <= Len(ledger)
  /\ tokens \subseteq Token
  /\ strict \subseteq Collections
  /\ held \in [Readers -> Held \cup {None}]

\* The row an event leaves behind, read off its payload alone.
After(row, e, n) ==
  CASE e.type = "item_added"   -> [coll |-> e.coll, grp |-> e.grp, pos |-> e.pos,
                                   fields |-> e.fields, version |-> n]
    [] e.type = "item_updated" -> [row EXCEPT !.fields = Merged(@, e.fields), !.version = n]
    [] e.type = "item_moved"   -> [row EXCEPT !.grp = e.grp, !.pos = e.pos, !.version = n]
    [] e.type = "item_deleted" -> None

\* What the first n events say of item i.
RowAt(i, L) ==
  LET at[n \in 0..Len(L)] ==
        IF n = 0 THEN None
        ELSE IF L[n].type = "rows_cleared"
             THEN IF at[n-1] # None /\ at[n-1].coll = L[n].coll THEN None ELSE at[n-1]
             ELSE IF L[n].id = i THEN After(at[n-1], L[n], n) ELSE at[n-1]
  IN  at[Len(L)]

\* The ledger is a full account: replaying its events rebuilds every row, through batches
\* that rolled back, undo and cascades (undo and the change feed read nothing else).
LedgerExplainsRows == \A i \in Ids : rows[i] = RowAt(i, ledger)

\* A row's version is the seq of the last event about it, and no later cascade took its
\* collection; an id with no row has never been added, or its last event took it away.
VersionIsLastEvent ==
  \A i \in Ids :
    IF rows[i] # None
    THEN /\ LastOf(i, rows[i].version)
         /\ ledger[rows[i].version].type # "item_deleted"
    ELSE \A n \in EventsOf(i) : LastOf(i, n) =>
           \/ ledger[n].type = "item_deleted"
           \/ \E m \in DOMAIN ledger : m > n /\ ledger[m].type = "rows_cleared"

\* A command id writes at most once, however often and wherever it is sent again.
OneEffectPerCommand ==
  \A m, n \in DOMAIN ledger : ledger[m].cmd = ledger[n].cmd /\ ledger[m].cmd # Random => m = n

\* One confirmation authorizes at most one successful delete, even if undo brings the same
\* id back: a version never recurs (confirmation.mjs on createRequestStateCodec).
ConfirmedOnce ==
  \A m, n \in DOMAIN ledger : ledger[m].by = ledger[n].by /\ ledger[m].by # None => m = n

ShownIsDeletedBy(e) == e.by # None => e.was = e.by.shown

\* A confirmed delete removes the very fields the user was shown, provided the demand was
\* about a committed row: any edit after it makes the request state fail.
ShownIsDeleted ==
  \A n \in DOMAIN ledger :
    ledger[n].by # None /\ ledger[n].by.settled => ShownIsDeletedBy(ledger[n])

\* The same for every demand, as confirmation.mjs states it on deletePreview.
EditKillsPreview == \A n \in DOMAIN ledger : ShownIsDeletedBy(ledger[n])

\* The version a caller read names one content: a write that passes expected_version
\* overwrites exactly the row its caller saw, so no update is lost.
NoLostUpdate ==
  \A r \in Readers :
    held[r] # None /\ held[r].settled =>
      LET now == rows[held[r].id]
      IN  now # None /\ now.version = held[r].row.version => now = held[r].row

\* A row breaks its collection's manifest only if it did before: no write, undo included,
\* adds a violation (the manifest may come into force over rows that already break it).
NoNewViolations ==
  [][\A i \in Ids : rows'[i] # None /\ rows'[i] # rows[i] /\ ~(Open /\ txn' = None /\ rows' = txn.rows) =>
       Violations(rows'[i].coll, rows'[i].fields) \subseteq
         IF rows[i] = None THEN {} ELSE Violations(rows[i].coll, rows[i].fields)]_vars

\* The rows a reader sees are a versioned table that changes in whole commits.
Table == INSTANCE VersionedTable WITH table <- Visible, seq <- Len(Committed)
IsVersionedTable == Table!Spec

Image(row, reading(_)) ==
  IF row = None THEN None
  ELSE <<row.coll, row.grp, row.pos, [k \in Keys |-> reading(row.fields[k])]>>

Undone(i, s, reading(_)) ==
  LET before == SubSeq(ledger, 1, s - 1)
  IN  Image(rows'[i], reading) = Image(RowAt(i, before), reading)

\* Undo puts the row back to what it was before the event the user saw, reading a null
\* field as a missing one: place, group, fields, and every key the event touched.
UndoRestores == [][\A i \in Ids, s \in 1..MaxSeq : UndoLast(i, s) => Undone(i, s, Reading)]_vars

Exactly(v) == v

\* The same with no allowance for null, as the comment in undoLast claims for an update.
UndoIsExact == [][\A i \in Ids, s \in 1..MaxSeq : UndoLast(i, s) => Undone(i, s, Exactly)]_vars
=============================================================================
