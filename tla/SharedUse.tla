----------------------------- MODULE SharedUse -----------------------------
(***************************************************************************)
(* Another account's app in the viewer's account: its widget, which runs   *)
(* behind the guard and writes to the owner's collections                  *)
(* (src/src/runner.mjs, src/src/tools/data.mjs, src/src/sharing.mjs), and  *)
(* the copies the viewer makes of it, app and rows (copy_app in            *)
(* src/src/tools/sharing.mjs).  The two meet in the row ids: a copy keeps  *)
(* them, so one id may name a row of the owner's and a row of the viewer's.*)
(*                                                                         *)
(* The owner's store may be written to from elsewhere between any two      *)
(* steps; of the viewer's store only what these tools and widgets do to    *)
(* it is modelled.  A copy reads pages and commits chunks and may die      *)
(* between; the same command is then sent again.                           *)
(***************************************************************************)
EXTENDS Integers, FiniteSets, Functions, Guard

CONSTANTS
  Rows,       \* ids of the owner's rows, naturals as they are compared
  Minted,     \* ids the viewer's store can mint
  Shelf,      \* handles of collections the owner's app may be about
  Home,       \* the one it opens on
  Own,        \* the collection of an app of the viewer's own
  Copies,     \* copy_app commands, each under a name of its own
  Spellings,  \* what a copy may call a collection: command -> handle -> names, tried in turn
  Requests,   \* calls the widget makes, of which the guard makes what it will
  PageSize, ChunkSize, MaxCopy

ASSUME UseShape ==
  /\ Rows \subseteq Nat /\ Rows \cup Minted \subseteq Ids /\ Rows \cap Minted = {}
  /\ Shelf \subseteq Collections /\ Home \in Shelf /\ Own \in Collections \ Shelf
  /\ PageSize \in Nat \ {0} /\ ChunkSize \in Nat \ {0} /\ MaxCopy \in Nat
  /\ Requests \subseteq Calls

Spelled == UNION {Range(Spellings[k][c]) : k \in Copies, c \in Shelf}

\* Nil stands for no row, no command and no mapping.
ASSUME NilIsNoCopy ==
  /\ Nil \notin Copies \X Shelf \X Rows
  /\ Nil \notin [coll : Spelled, by : {"copy"}, from : Copies \X Shelf \X Rows]
  /\ \A colls \in SUBSET Shelf : Nil \notin [colls -> Spelled]

VARIABLES
  shelf,    \* the owner's rows: id -> [coll, pos, by], or Nil
  bound,    \* the collections the shared app is about
  alive,    \* the grant stands
  role,
  mine,     \* the viewer's rows: id -> [coll, by, from], or Nil; from is history: what it is a copy of
  copied,   \* the ledger's receipts of a copy: command -> the mapping it recorded, or Nil
  receipts, \* and of its rows: <<command, collection, id>>
  job,      \* command -> [todo, coll, cursor, page: rows of it to copy, more], or Nil
  gone,     \* history variable: what the copies were of that the viewer has deleted
  stood,    \* history variable: command -> rows in scope and untouched since this attempt began
  guard,    \* the guard of the widget on the screen
  sent,     \* [by, req], on its way to the engine, or Nil
  budget    \* bound: [owner, copies, deaths, reads, calls]

owners == <<shelf, bound, alive, role>>
viewers == <<mine, copied, receipts>>
useHistory == <<gone, stood>>
useVars == <<owners, viewers, job, useHistory, guard, sent, budget>>

Spend(what) == budget[what] > 0 /\ budget' = [budget EXCEPT ![what] = @ - 1]

----------------------------------------------------------------------------
\* The owner's store.

RowsOf(c) == {i \in Rows : shelf[i] # Nil /\ shelf[i].coll = c}
Reached(c) == alive /\ c \in bound

\* Rows of collections still shared that nobody touched.
Touch(i) == stood' = [k \in Copies |-> {s \in stood[k] : s[2] # i}]
Hide(colls) == stood' = [k \in Copies |-> {s \in stood[k] : s[1] \notin colls}]

OwnerAdds(i, c, pos) ==
  /\ shelf[i] = Nil /\ shelf' = [shelf EXCEPT ![i] = [coll |-> c, pos |-> pos, by |-> "owner"]]
  /\ Touch(i) /\ UNCHANGED <<bound, alive, role>>

OwnerMoves(i) ==
  /\ shelf[i] # Nil /\ shelf' = [shelf EXCEPT ![i].pos = 1 - @]
  /\ Touch(i) /\ UNCHANGED <<bound, alive, role>>

OwnerDeletes(i) ==
  /\ shelf[i] # Nil /\ shelf' = [shelf EXCEPT ![i] = Nil]
  /\ Touch(i) /\ UNCHANGED <<bound, alive, role>>

\* The app's declarations change; it always opens on something.
Rebinds(colls) ==
  /\ Home \in colls /\ colls # bound /\ bound' = colls
  /\ Hide(bound \ colls) /\ UNCHANGED <<shelf, alive, role>>

Revokes == alive /\ alive' = FALSE /\ Hide(Shelf) /\ UNCHANGED <<shelf, bound, role>>
SetsRole == role' \in {"viewer", "editor"} \ {role} /\ UNCHANGED <<shelf, bound, alive, stood>>

OwnerActs ==
  /\ Spend("owner")
  /\ \/ \E i \in Rows : \/ OwnerMoves(i) \/ OwnerDeletes(i)
                        \/ \E c \in Shelf, pos \in {0, 1} : OwnerAdds(i, c, pos)
     \/ \E colls \in SUBSET Shelf : Rebinds(colls)
     \/ Revokes \/ SetsRole
  /\ UNCHANGED <<viewers, job, gone, guard, sent>>

----------------------------------------------------------------------------
\* copy_app.

\* (bug) only rows make a name taken.
TakenByRows(taken) == {mine[i].coll : i \in {j \in Ids : mine[j] # Nil}}

\* Apps that hold rows, and names the viewer's apps are about, the copy under way included.
Taken(picked) ==
  {mine[i].coll : i \in {j \in Ids : mine[j] # Nil}} \cup {Own} \cup picked
    \cup UNION {Range(copied[k]) : k \in {l \in Copies : copied[l] # Nil}}

FirstFree(name, names, picked) ==
  \E n \in DOMAIN names : /\ name = names[n] /\ name \notin Taken(picked)
                          /\ \A l \in 1..(n - 1) : names[l] \in Taken(picked)

\* One collection after the other, in whatever turn, each under the first of its names that is free.
FreeMappings(k) ==
  LET turns == {t \in [bound -> 1..Cardinality(bound)] : \A c, d \in bound : c # d => t[c] # t[d]}
      names == UNION {Range(Spellings[k][c]) : c \in bound}
  IN  {m \in [bound -> names] : \E t \in turns : \A c \in bound :
         FirstFree(m[c], Spellings[k][c], {m[d] : d \in {e \in bound : t[e] < t[c]}})}

\* A retry reads the mapping of its first run back off the ledger.
Mappings(k) == IF copied[k] # Nil THEN {copied[k]} ELSE FreeMappings(k)

Start == <<-1, 0>>

\* The app is found shared, named, counted and saved; a retry's save is a replay.
StartCopy(k) ==
  /\ job[k] = Nil /\ alive /\ Spend("copies")
  /\ Cardinality(UNION {RowsOf(c) : c \in bound}) <= MaxCopy
  /\ \E m \in Mappings(k) : copied' = [copied EXCEPT ![k] = m]
  /\ job' = [job EXCEPT ![k] = [todo |-> bound, coll |-> Nil, cursor |-> Start, page |-> {}, more |-> TRUE]]
  /\ stood' = [stood EXCEPT ![k] = UNION {{c} \X RowsOf(c) : c \in bound}]
  /\ UNCHANGED <<owners, mine, receipts, gone, guard, sent>>

Before(x, y) == x[1] < y[1] \/ (x[1] = y[1] /\ x[2] < y[2])
Key(i) == <<shelf[i].pos, i>>

\* The rows of a collection after a cursor.
After(c, cursor) == {i \in RowsOf(c) : Before(cursor, Key(i))}

\* The first of them, in the order of the read, and the last one of those.
IsPage(page, rest) ==
  /\ Cardinality(page) = IF Cardinality(rest) < PageSize THEN Cardinality(rest) ELSE PageSize
  /\ \A i \in page, j \in rest \ page : Before(Key(i), Key(j))

IsLast(i, page) == i \in page /\ \A j \in page \ {i} : Before(Key(j), Key(i))

\* The collection has no page to give: the wall refuses, or nothing is left.
NoMore(k, c) == job' = [job EXCEPT ![k].todo = @ \ {c}, ![k].coll = Nil]

\* The next page of collection c.
Page(k, c, cursor) ==
  LET rest == After(c, cursor)
  IN  IF ~ Reached(c) \/ rest = {} THEN NoMore(k, c)
      ELSE \E page \in SUBSET rest : \E last \in page :
             /\ IsPage(page, rest) /\ IsLast(last, page)
             /\ job' = [job EXCEPT ![k] = [todo |-> @.todo \ {c}, coll |-> c, cursor |-> Key(last),
                                           page |-> page, more |-> page # rest]]

\* The next page of the collection being copied, or the first of the next one.
ReadPage(k) ==
  /\ job[k] # Nil /\ job[k].page = {}
  /\ IF job[k].coll # Nil THEN Page(k, job[k].coll, job[k].cursor)
     ELSE \E c \in job[k].todo : Page(k, c, Start)
  /\ UNCHANGED <<owners, viewers, useHistory, guard, sent, budget>>

\* The command id of a row is derived from the copy's.
RowCommand(k, c, i) == <<k, c, i>>

\* (bug) a row whose id is taken is left out.
NotYetHere(k, c, chunk) ==
  {i \in chunk : RowCommand(k, c, i) \notin receipts /\ c \in DOMAIN copied[k] /\ mine[i] = Nil}

\* The rows an earlier attempt has not copied, if the copy has a name for the collection.
NotYetCopied(k, c, chunk) == {i \in chunk : RowCommand(k, c, i) \notin receipts /\ c \in DOMAIN copied[k]}

\* A row keeps its id unless it already lives here; which other it gets matters to nobody.
LocalIds(rows) ==
  {id \in [rows -> Ids] :
     /\ \A i \in rows : IF mine[i] = Nil THEN id[i] = i ELSE id[i] \in Minted /\ mine[id[i]] = Nil
     /\ \A i, j \in rows : i # j => id[i] # id[j]}

\* A chunk of the page, in one transaction, as long as Minted lasts.
CopyChunk(k) ==
  /\ job[k] # Nil /\ job[k].page # {}
  /\ \E chunk \in SUBSET job[k].page :
       LET j == job[k]
           rows == NotYetCopied(k, j.coll, chunk)
           id == CHOOSE f \in LocalIds(rows) : TRUE
       IN  /\ Cardinality(chunk) = IF Cardinality(j.page) < ChunkSize THEN Cardinality(j.page) ELSE ChunkSize
           /\ LocalIds(rows) # {}
           /\ mine' = [n \in Ids |->
                IF \E i \in rows : id[i] = n
                THEN LET i == CHOOSE x \in rows : id[x] = n
                     IN  [coll |-> copied[k][j.coll], by |-> "copy", from |-> RowCommand(k, j.coll, i)]
                ELSE mine[n]]
           /\ receipts' = receipts \cup {RowCommand(k, j.coll, i) : i \in rows}
           /\ job' = [job EXCEPT ![k].page = @ \ chunk,
                                 ![k].coll = IF chunk = j.page /\ ~ j.more THEN Nil ELSE @]
  /\ UNCHANGED <<owners, copied, useHistory, guard, sent, budget>>

\* Every collection was read to its end, or refused.
AnswerCopy(k) ==
  /\ job[k] # Nil /\ job[k].todo = {} /\ job[k].coll = Nil
  /\ job' = [job EXCEPT ![k] = Nil]
  /\ UNCHANGED <<owners, viewers, useHistory, guard, sent, budget>>

CopyDies(k) ==
  /\ job[k] # Nil /\ Spend("deaths") /\ job' = [job EXCEPT ![k] = Nil]
  /\ UNCHANGED <<owners, viewers, useHistory, guard, sent>>

----------------------------------------------------------------------------
\* The widget behind its guard.

RowsAt(c) ==
  IF c \in Shelf THEN IF Reached(c) THEN RowsOf(c) ELSE {} ELSE {i \in Ids : mine[i] # Nil /\ mine[i].coll = c}

\* remember: the rows of a read that was allowed; the bound collection's are the projection too.
WidgetReads(c) ==
  /\ Spend("reads")
  /\ LET at == ReadTarget(guard, c)
         rows == RowsAt(at)
     IN  guard' = [guard EXCEPT
                     !.shown = IF at = guard.coll /\ (at \in Shelf => Reached(at)) THEN rows ELSE @,
                     !.seen = [i \in Ids |-> IF Shared(guard) /\ i \in rows THEN at ELSE @[i]]]
  /\ UNCHANGED <<owners, viewers, job, useHistory, sent>>

\* A typed verb or a generic call, if the guard forwards it.
WidgetCalls(r) ==
  /\ sent = Nil /\ Spend("calls")
  /\ \E req \in {CallTool(guard, r)} \cup (IF r.tool \in DataWrites THEN {Typed(guard, r)} ELSE {}) :
       req # Nil /\ sent' = [by |-> "app", req |-> req]
  /\ UNCHANGED <<owners, viewers, job, useHistory, guard>>

\* The viewer's model writes to a row by its id alone.
ModelCalls(r) ==
  /\ sent = Nil /\ Spend("calls")
  /\ r.tool \in DataWrites \ {"data_add_item"}
  /\ sent' = [by |-> "ai", req |-> [r EXCEPT !.collection = Nil]]
  /\ UNCHANGED <<owners, viewers, job, useHistory, guard>>

\* writeTarget: a named collection decides; else the viewer's own row, else the one shared with the id.
Target(req) ==
  IF req.collection \in Shelf THEN "shared"
  ELSE IF req.collection # Nil THEN "own"
  ELSE IF mine[req.id] # Nil THEN "own"
  ELSE IF req.id \in Rows /\ shelf[req.id] # Nil /\ Reached(shelf[req.id].coll) THEN "shared" ELSE "own"

\* The wall: the row is where the call says, in a collection still shared, for an editor.
WallPasses(req) ==
  /\ role = "editor"
  /\ IF req.tool = "data_add_item" THEN Reached(req.collection)
     ELSE /\ req.id \in Rows /\ shelf[req.id] # Nil /\ Reached(shelf[req.id].coll)
          /\ req.collection \in {Nil, shelf[req.id].coll}

Written(row, req, by) == IF req.tool = "data_delete_item" THEN Nil ELSE [row EXCEPT !.by = by]

OnShared(req, by) ==
  /\ req.tool # "data_add_item" /\ Target(req) = "shared" /\ WallPasses(req)
  /\ \E pos \in IF req.tool = "data_move_item" THEN {0, 1} ELSE {shelf[req.id].pos} :
       shelf' = [shelf EXCEPT ![req.id] = Written([@ EXCEPT !.pos = pos], req, by)]
  /\ Touch(req.id) /\ UNCHANGED <<mine, gone>>

OnOwn(req, by) ==
  /\ req.tool # "data_add_item" /\ Target(req) = "own"
  /\ mine[req.id] # Nil /\ req.collection \in {Nil, mine[req.id].coll}
  /\ mine' = [mine EXCEPT ![req.id] = Written(@, req, by)]
  /\ gone' = IF mine'[req.id] = Nil THEN gone \cup {mine[req.id].from} ELSE gone
  /\ UNCHANGED <<shelf, stood>>

AddToShared(req, by) ==
  /\ req.tool = "data_add_item" /\ req.collection \in Shelf /\ WallPasses(req)
  /\ \E i \in Rows :
       /\ shelf[i] = Nil /\ mine[i] = Nil
       /\ shelf' = [shelf EXCEPT ![i] = [coll |-> req.collection, pos |-> 1, by |-> by]]
       /\ Touch(i)
  /\ UNCHANGED <<mine, gone>>

\* The engine gets the call: a row is written, or the call is refused, or it only reads.
Lands ==
  /\ sent # Nil /\ sent' = Nil
  /\ \/ /\ sent.req.tool \in DataWrites
        /\ \/ OnShared(sent.req, sent.by) \/ OnOwn(sent.req, sent.by) \/ AddToShared(sent.req, sent.by)
     \/ UNCHANGED <<shelf, mine, gone, stood>>
  /\ UNCHANGED <<bound, alive, role, copied, receipts, job, guard, budget>>

----------------------------------------------------------------------------
NewGuard(name, coll, caps, settings) ==
  [name |-> name, coll |-> coll, caps |-> caps, shown |-> {}, seen |-> [i \in Ids |-> Nil], settings |-> settings]

UseStarts(rows, colls, r, own, g, bounds) ==
  /\ shelf = rows /\ bound = colls /\ alive = TRUE /\ role = r
  /\ mine = [i \in Ids |-> IF i \in own THEN [coll |-> Own, by |-> "me", from |-> Nil] ELSE Nil]
  /\ copied = [k \in Copies |-> Nil] /\ receipts = {}
  /\ job = [k \in Copies |-> Nil] /\ stood = [k \in Copies |-> {}]
  /\ gone = {} /\ guard = g /\ sent = Nil /\ budget = bounds

UseNext ==
  \/ OwnerActs
  \/ \E k \in Copies : StartCopy(k) \/ ReadPage(k) \/ CopyChunk(k) \/ AnswerCopy(k) \/ CopyDies(k)
  \/ \E c \in Collections \cup {Nil} : WidgetReads(c)
  \/ \E r \in Requests : WidgetCalls(r) \/ ModelCalls(r)
  \/ Lands

----------------------------------------------------------------------------
(* Properties.                                                             *)

CopyOf(i) == IF mine[i] = Nil THEN Nil ELSE mine[i].from

\* A copy that answers has carried every row that stood, in a shared collection its mapping names,
\* from the start of that attempt: exactly one row of the viewer's, in the collection the answer
\* gives, whatever attempts died before it, whatever ids were taken here, and although the owner
\* may be moving and deleting other rows between the pages.
CopyIsWhole ==
  [][\A k \in Copies : AnswerCopy(k) =>
       \A s \in stood[k] : s[1] \in DOMAIN copied[k] =>
         \/ RowCommand(k, s[1], s[2]) \in gone
         \/ \E i \in Ids : /\ CopyOf(i) = RowCommand(k, s[1], s[2]) /\ mine[i].coll = copied[k][s[1]]
                           /\ \A j \in Ids \ {i} : CopyOf(j) # CopyOf(i)]_useVars

\* "Never a merge into the user's existing data": no two copies, and no copy and an app of the
\* viewer's own, are about one collection, also when the first copy holds no row yet.
CopiesStayApart ==
  \A k \in Copies : copied[k] # Nil =>
    /\ Own \notin Range(copied[k])
    /\ \A c, d \in DOMAIN copied[k] : c # d => copied[k][c] # copied[k][d]
    /\ \A l \in Copies \ {k} : copied[l] # Nil => Range(copied[k]) \cap Range(copied[l]) = {}

\* A shared app's widget never changes a row of the viewer's own, the copy of the very row included,
\* and changes the owner's rows only in collections it was opened over.
SharedCodeStaysShared ==
  [][Lands /\ sent.by = "app" /\ Shared(guard) =>
       /\ mine' = mine
       /\ \A i \in Rows : shelf'[i] # shelf[i] =>
            \A r \in {x \in {shelf[i], shelf'[i]} : x # Nil} : r.coll \in guard.caps.collections]_useVars

\* What leaves the guard of a child no policy has opened is confined to the child, whatever the
\* child asked, whatever it read before and however stale what it was shown is.
ChildIsConfined ==
  [][sent = Nil /\ sent' # Nil /\ sent'.by = "app" /\ Strict(guard) => Confined(guard, sent'.req)]_useVars
=============================================================================
