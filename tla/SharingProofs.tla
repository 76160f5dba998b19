--------------------------- MODULE SharingProofs ---------------------------
(***************************************************************************)
(* Two halves, for any apps, collections, commands, budgets and lengths of *)
(* a ledger.                                                               *)
(*                                                                         *)
(* First the app registry and the wall before it.  The registry's          *)
(* invariant says what its commands rely on when they read the ledger      *)
(* back: that a row has its revision at the head of its history, that      *)
(* revisions grow old from the oldest on, and that the ledger's account of *)
(* an app's lives is the account of its births.  The wall rests on that    *)
(* account: the birth a grant names is the life it was given in.  The      *)
(* budget rests on the wall's memory: what has landed in the window, or    *)
(* been let through, is remembered in it.                                  *)
(*                                                                         *)
(* Then the use of a shared app.  The guard confines: what it forwards for *)
(* a child that no policy has opened to other collections, whatever its    *)
(* other caps and whatever the child asks, stays with the child; and so    *)
(* over every sequence of reads and calls of its widget, whatever the      *)
(* owner and the copies do meanwhile, because a guard stays well-formed.   *)
(* What a call of a shared app's widget does when it lands: a write        *)
(* carries a collection of the share, which decides whose row it is about. *)
(* Last, the copies: each under names that were free when it was mapped,   *)
(* and whole when it ends, because a row that has stood since the attempt  *)
(* began is copied, or still to be read, or in hand, or after the cursor.  *)
(***************************************************************************)
EXTENDS ShareScope, SharedUse, FiniteSetTheorems, TLAPS

LOCAL WF == INSTANCE WellFoundedInduction

----------------------------------------------------------------------------
(* Greatest and least elements.                                            *)

LEMMA LeastNat ==
  ASSUME NEW T, T \subseteq Nat, T # {}
  PROVE  \E k \in T : \A j \in T : k <= j
  <1> DEFINE R == {xy \in Nat \X Nat : xy[1] < xy[2]}
  <1>1. WF!IsWellFoundedOn(R, Nat)
    BY WF!NatLessThanWellFounded, Zenon DEF WF!OpToRel
  <1>2. \E x \in T : \A y \in T : ~(<<y, x>> \in R)
    <2> HIDE DEF R
    <2> QED BY <1>1, WF!WFMin
  <1>3. PICK x \in T : \A y \in T : ~(<<y, x>> \in R)
    BY <1>2
  <1>4. \A y \in T : ~(y < x)
    BY <1>3
  <1> QED BY <1>4

LEMMA GreatestNat ==
  ASSUME NEW n \in Nat, NEW S, S \subseteq 0..n, S # {}
  PROVE  \E x \in S : \A y \in S : y <= x
  <1> DEFINE T == {k \in Nat : \E x \in S : k = n - x}
  <1>1. T \subseteq Nat /\ T # {}
    <2>1. PICK x \in S : TRUE
      OBVIOUS
    <2>2. n - x \in T
      BY <2>1
    <2> QED BY <2>2
  <1>2. PICK k \in T : \A j \in T : k <= j
    <2> HIDE DEF T
    <2> QED BY <1>1, LeastNat
  <1>3. PICK x \in S : k = n - x
    BY <1>2
  <1>4. ASSUME NEW y \in S PROVE y <= x
    <2>1. n - y \in T
      OBVIOUS
    <2> QED BY <1>2, <1>3, <2>1
  <1> QED BY <1>4

LEMMA LatestIs ==
  ASSUME NEW n \in Nat, NEW S, S \subseteq 0..n
  PROVE  /\ Latest(S) \in Nat /\ Latest(S) <= n
         /\ S # {} => Latest(S) \in S
         /\ S = {} => Latest(S) = 0
         /\ \A x \in S : x <= Latest(S)
  <1>1. CASE S = {}
    BY <1>1 DEF Latest
  <1>2. CASE S # {}
    <2>1. PICK m \in S : \A y \in S : m >= y
      BY <1>2, GreatestNat
    <2>2. Max(S) \in S /\ \A y \in S : Max(S) >= y
      BY <2>1 DEF Max
    <2>3. Latest(S) = Max(S)
      BY <1>2 DEF Latest
    <2> DEFINE k == Max(S)
    <2> HIDE DEF k
    <2>4. k \in S /\ k \in 0..n /\ \A y \in S : y \in 0..n /\ k >= y
      BY <2>2 DEF k
    <2>5. k \in Nat /\ k <= n /\ \A y \in S : y <= k
      BY <2>4
    <2> QED BY <1>2, <2>3, <2>4, <2>5 DEF k
  <1> QED BY <1>1, <1>2

LEMMA EarliestIs ==
  ASSUME NEW S, S \subseteq Nat
  PROVE  /\ Earliest(S) \in Nat
         /\ S # {} => Earliest(S) \in S /\ \A x \in S : Earliest(S) <= x
         /\ S = {} => Earliest(S) = 0
  <1>1. CASE S = {}
    BY <1>1 DEF Earliest
  <1>2. CASE S # {}
    <2>1. PICK m \in S : \A y \in S : m <= y
      BY <1>2, LeastNat
    <2>2. Min(S) \in S /\ \A y \in S : Min(S) <= y
      BY <2>1 DEF Min
    <2> QED BY <1>2, <2>2 DEF Earliest
  <1> QED BY <1>1, <1>2

\* A finite set, one element after the other, is all of it.
LEMMA InOrder ==
  ASSUME NEW S, IsFiniteSet(S)
  PROVE  SetToSeq(S) \in Seq(S) /\ \A x \in S : \E i \in DOMAIN SetToSeq(S) : SetToSeq(S)[i] = x
  <1> DEFINE n == Cardinality(S)
             f == SetToSeq(S)
  <1>1. n \in Nat /\ ExistsBijection(1..n, S)
    BY FS_CardinalityType
  <1>2. \E g \in [1..n -> S] : IsInjective(g)
    BY <1>1 DEF ExistsBijection, Bijection, Injection
  <1>3. f \in [1..n -> S] /\ IsInjective(f)
    BY <1>2 DEF SetToSeq
  <1>4. f \in Injection(1..n, S)
    BY <1>3 DEF Injection
  <1>5. Cardinality(1..n) = n
    BY <1>1, FS_Interval
  <1>6. f \in Surjection(1..n, S)
    BY <1>4, <1>5, FS_Injection
  <1>7. f \in Seq(S)
    BY <1>1, <1>3
  <1> QED BY <1>3, <1>6, <1>7 DEF Surjection

----------------------------------------------------------------------------
(* The registry's invariant.                                               *)

AppRevisions == [version : Nat, ui : Documents, manifest : Manifests, old : BOOLEAN]
AppEvents == [seq : Nat, kind : {"saved", "deleted"}, from : Nat \cup {None}]
CollRows == [born : Nat, last : Nat, rows : Nat, via : SUBSET Names]

RegistryTypes ==
  /\ seq \in Nat
  /\ app \in [Names -> AppRows \cup {None}]
  /\ history \in [Names -> SUBSET AppRevisions]
  /\ log \in [Names -> Seq(AppEvents)]
  /\ coll \in [Colls -> CollRows]
  /\ settings \in [last : Nat, groups : SUBSET Names]
  /\ lineage \in [Names -> Nat] /\ maker \in [Colls -> Nat]
  /\ preimage \in [Names -> [ui : Documents, manifest : Manifests] \cup {None}]

\* Nothing is dated after the last event.
Dated ==
  /\ \A n \in Names : /\ app[n] # None => app[n].version <= seq
                      /\ \A h \in history[n] : h.version <= seq
                      /\ Saved(n) \subseteq 1..seq /\ Deleted(n) \subseteq 1..seq
                      /\ lineage[n] <= seq
  /\ \A c \in Colls : coll[c].born <= seq /\ coll[c].last <= seq
  /\ settings.last <= seq /\ seq <= MaxSeq

\* A row and the head of its history; what is old, and what it is older than.
Heads ==
  \A n \in Names :
    /\ \A g, h \in history[n] : g.version = h.version => g = h
    /\ \A g, h \in history[n] : h.old /\ g.version <= h.version => g.old
    /\ app[n] # None =>
         /\ \E h \in history[n] : h.version = app[n].version /\ Slots(h) = Slots(app[n])
         /\ \A h \in history[n] : h.version <= app[n].version

\* Where the last event is a save of an app that was there, the revision below it is what it replaced.
PreImages ==
  \A n \in Names : log[n] # <<>> /\ Last(log[n]).kind = "saved" /\ preimage[n] # None =>
    \A h \in history[n] :
      /\ h.version < Last(log[n]).seq
      /\ \A g \in history[n] : g.version < Last(log[n]).seq => g.version <= h.version
      => Slots(h) = preimage[n]

\* An app of the App Store has the slots of one of its versions, also the one an install has read.
FromTheStore ==
  /\ \A n \in Names : app[n] # None /\ app[n].author = "library" =>
       \E e \in Entries : e.name = n /\ Slots(e) = Slots(app[n])
  /\ found # None =>
       /\ found.entry \in Entries
       /\ found.version # None =>
            /\ found.version \in Nat /\ found.version <= seq
            /\ app[found.entry.name] # None /\ app[found.entry.name].version = found.version =>
                 app[found.entry.name].author = "library"

\* The plan in the user's hands is of the moment it was asked for.
PlanIsDated ==
  plan # None =>
    /\ plan.at \in Nat
    /\ plan.world[1] <= plan.at /\ plan.world[3] <= plan.at
    /\ \A p \in plan.world[2] : p[2] <= plan.at

RegistryInv == RegistryTypes /\ Dated /\ Heads /\ PreImages /\ FromTheStore /\ PlanIsDated

LEMMA RegistryInitInv == Init => RegistryInv
  <1> SUFFICES ASSUME Init PROVE RegistryInv
    OBVIOUS
  <1>1. RegistryTypes
    BY DEF Init, RegistryTypes, CollRows
  <1>2. \A n \in Names : Saved(n) = {} /\ Deleted(n) = {}
    BY DEF Init, Saved, Deleted, Range
  <1>3. Dated
    BY <1>2, RegistryBounds DEF Init, Dated
  <1>4. Heads /\ PreImages /\ FromTheStore /\ PlanIsDated
    BY DEF Init, Heads, PreImages, FromTheStore, PlanIsDated
  <1> QED BY <1>1, <1>3, <1>4 DEF RegistryInv

\* What one more event of an app adds to the account of it.
LEMMA LogGrows ==
  ASSUME RegistryTypes, NEW n \in Names, NEW e \in AppEvents, log' = [log EXCEPT ![n] = Append(@, e)]
  PROVE  /\ log' \in [Names -> Seq(AppEvents)]
         /\ Last(log'[n]) = e /\ \A m \in Names : m # n => log'[m] = log[m]
         /\ Range(log'[n]) = Range(log[n]) \cup {e}
         /\ Saved(n)' = Saved(n) \cup (IF e.kind = "saved" THEN {e.seq} ELSE {})
         /\ Deleted(n)' = Deleted(n) \cup (IF e.kind = "deleted" THEN {e.seq} ELSE {})
         /\ \A m \in Names : m # n => Saved(m)' = Saved(m) /\ Deleted(m)' = Deleted(m)
  <1> DEFINE s == log[n]
             t == Append(s, e)
  <1>1. s \in Seq(AppEvents) /\ log \in [Names -> Seq(AppEvents)]
    BY DEF RegistryTypes
  <1>2. /\ t \in Seq(AppEvents) /\ Len(t) = Len(s) + 1 /\ t[Len(t)] = e /\ DOMAIN t = 1..Len(s) + 1
        /\ \A i \in 1..Len(s) : t[i] = s[i]
    BY <1>1
  <1>3. log'[n] = t /\ \A m \in Names : m # n => log'[m] = log[m]
    BY <1>1
  <1>4. Last(t) = e
    BY <1>2 DEF Last
  <1>5. Range(t) = Range(s) \cup {e}
    BY <1>1, <1>2 DEF Range
  <1>6. log' \in [Names -> Seq(AppEvents)]
    BY <1>1, <1>2
  <1> HIDE DEF s, t
  <1>7. Range(log'[n]) = Range(log[n]) \cup {e}
    BY <1>3, <1>5 DEF s
  <1>8. Saved(n)' = Saved(n) \cup (IF e.kind = "saved" THEN {e.seq} ELSE {})
    BY <1>7 DEF Saved
  <1>9. Deleted(n)' = Deleted(n) \cup (IF e.kind = "deleted" THEN {e.seq} ELSE {})
    BY <1>7 DEF Deleted
  <1>10. \A m \in Names : m # n => Saved(m)' = Saved(m) /\ Deleted(m)' = Deleted(m)
    BY <1>3 DEF Saved, Deleted
  <1> QED BY <1>3, <1>4, <1>6, <1>7, <1>8, <1>9, <1>10

LEMMA AccountStands == log' = log => \A n \in Names : Saved(n)' = Saved(n) /\ Deleted(n)' = Deleted(n)
  BY DEF Saved, Deleted
----------------------------------------------------------------------------
(* A save.                                                                 *)

Authors == {"agent", "human", "guest", "library"}

\* What a save writes: a row, its revision and its event, all of one number.
SaveWrites(n, actor, ui, manifest, from, row, r, e) ==
  /\ seq' = seq + 1 /\ seq' <= MaxSeq
  /\ row.version = seq + 1 /\ row.author = actor
  /\ ui # Omitted => row.ui = ui
  /\ manifest # Omitted => row.manifest = manifest
  /\ r.version = seq + 1 /\ r.ui = row.ui /\ r.manifest = row.manifest /\ r.old = FALSE
  /\ e.seq = seq + 1 /\ e.kind = "saved"
  /\ e.from = IF \E h \in history[n] : h.version = from THEN from ELSE None
  /\ app' = [app EXCEPT ![n] = row]
  /\ history' = [history EXCEPT ![n] = (history[n] \ Swept(n, actor)) \cup {r}]
  /\ log' = [log EXCEPT ![n] = Append(@, e)]
  /\ preimage' = [preimage EXCEPT ![n] = IF app[n] = None THEN None ELSE Slots(app[n])]
  /\ lineage' = [lineage EXCEPT ![n] = IF app[n] # None \/ e.from # None THEN lineage[n] ELSE seq + 1]
  /\ UNCHANGED <<coll, settings, plan, ages, maker>>

LEMMA SaveIs ==
  ASSUME RegistryInv, NEW n \in Names, NEW actor \in Authors, NEW expected,
         NEW ui \in Documents \cup {Omitted}, NEW manifest \in Manifests \cup {Omitted},
         NEW from \in Nat \cup {None}, SaveApp(n, actor, expected, ui, manifest, from)
  PROVE  \E row \in AppRows, r \in AppRevisions, e \in AppEvents :
           SaveWrites(n, actor, ui, manifest, from, row, r, e)
  <1> DEFINE slots == Resolved(n, ui, manifest)
             restored == IF \E h \in history[n] : h.version = from THEN from ELSE None
             row == [version |-> seq + 1, author |-> actor, ui |-> slots.ui, manifest |-> slots.manifest]
             r == [version |-> seq + 1, ui |-> slots.ui, manifest |-> slots.manifest, old |-> FALSE]
             e == [seq |-> seq + 1, kind |-> "saved", from |-> restored]
  <1>1. seq \in Nat /\ seq < MaxSeq /\ seq' = seq + 1 /\ app[n] \in AppRows \cup {None}
        /\ history[n] \subseteq AppRevisions
    BY DEF SaveApp, RegistryInv, RegistryTypes
  <1>2. IF app[n] = None THEN ui # Omitted ELSE ui # Omitted \/ manifest # Omitted
    BY DEF SaveApp
  <1>3. app[n] # None => HeadRevision(n) \in AppRevisions
    <2> SUFFICES ASSUME app[n] # None PROVE HeadRevision(n) \in AppRevisions
      OBVIOUS
    <2>1. PICK h \in history[n] : h.version = app[n].version
      BY DEF RegistryInv, Heads
    <2>2. \A g \in history[n] : g.version <= h.version
      BY <2>1 DEF RegistryInv, Heads
    <2> QED BY <1>1, <2>2 DEF HeadRevision
  <1>4. slots.ui \in Documents /\ (ui # Omitted => slots.ui = ui)
    BY <1>2, <1>3 DEF Resolved, AppRevisions
  <1>5. slots.manifest \in Manifests /\ (manifest # Omitted => slots.manifest = manifest)
    <2>1. None \in Manifests
      BY DEF Manifests
    <2> QED BY <1>3, <2>1 DEF Resolved, AppRevisions
  <1>6. restored \in Nat \cup {None}
    OBVIOUS
  <1>7. /\ app' = [app EXCEPT ![n] = row]
        /\ history' = [history EXCEPT ![n] = (history[n] \ Swept(n, actor)) \cup {r}]
        /\ log' = [log EXCEPT ![n] = Append(@, e)]
        /\ preimage' = [preimage EXCEPT ![n] = IF app[n] = None THEN None ELSE Slots(app[n])]
        /\ lineage' = [lineage EXCEPT ![n] = IF app[n] # None \/ restored # None THEN lineage[n] ELSE seq + 1]
        /\ UNCHANGED <<coll, settings, plan, ages, maker>>
    <2> HIDE DEF slots, restored
    <2> QED BY <1>1, Zenon DEF SaveApp, data, slots, restored
  <1> HIDE DEF slots, restored
  <1>8. /\ row \in AppRows /\ row.version = seq + 1 /\ row.author = actor
        /\ row.ui = slots.ui /\ row.manifest = slots.manifest
    BY <1>1, <1>4, <1>5 DEF AppRows, Authors
  <1>9. /\ r \in AppRevisions /\ r.version = seq + 1 /\ r.ui = slots.ui /\ r.manifest = slots.manifest /\ r.old = FALSE
    BY <1>1, <1>4, <1>5 DEF AppRevisions
  <1>10. e \in AppEvents /\ e.seq = seq + 1 /\ e.kind = "saved" /\ e.from = restored
    BY <1>1, <1>6 DEF AppEvents
  <1>11. seq' <= MaxSeq
    BY <1>1, RegistryBounds
  <1> HIDE DEF row, r, e
  <1>12. SaveWrites(n, actor, ui, manifest, from, row, r, e)
    BY <1>1, <1>4, <1>5, <1>7, <1>8, <1>9, <1>10, <1>11 DEF SaveWrites, restored
  <1> QED BY <1>8, <1>9, <1>10, <1>12

\* Sweeping an app's old revisions leaves it the one a save has just written, and those of a head that is young.
LEMMA SaveStep ==
  ASSUME RegistryInv, NEW n \in Names, NEW actor \in Authors,
         NEW ui, NEW manifest, NEW from, NEW row \in AppRows, NEW r \in AppRevisions, NEW e \in AppEvents,
         SaveWrites(n, actor, ui, manifest, from, row, r, e),
         actor = "library" => \E x \in Entries : x.name = n /\ x.ui = ui /\ x.manifest = manifest,
         actor = "library" => ui # Omitted /\ manifest # Omitted,
         found' = found \/ found' = None
  PROVE  RegistryInv'
  <1>1. /\ seq \in Nat /\ seq' = seq + 1 /\ seq' <= MaxSeq /\ UNCHANGED <<coll, settings, plan, maker>>
        /\ RegistryTypes
    BY DEF SaveWrites, RegistryInv, RegistryTypes
  <1>2. /\ app' \in [Names -> AppRows \cup {None}] /\ app'[n] = row
        /\ \A m \in Names : m # n => app'[m] = app[m]
    BY <1>1 DEF SaveWrites, RegistryTypes
  <1>3. /\ history' \in [Names -> SUBSET AppRevisions] /\ history'[n] = (history[n] \ Swept(n, actor)) \cup {r}
        /\ \A m \in Names : m # n => history'[m] = history[m]
    BY <1>1 DEF SaveWrites, RegistryTypes
  <1>4. /\ log' \in [Names -> Seq(AppEvents)] /\ Last(log'[n]) = e
        /\ \A m \in Names : m # n => log'[m] = log[m] /\ Saved(m)' = Saved(m) /\ Deleted(m)' = Deleted(m)
        /\ Saved(n)' = Saved(n) \cup {seq + 1} /\ Deleted(n)' = Deleted(n)
    <2>1. log' = [log EXCEPT ![n] = Append(@, e)] /\ e.kind = "saved" /\ e.seq = seq + 1 /\ "saved" # "deleted"
      BY DEF SaveWrites
    <2>2. /\ log' \in [Names -> Seq(AppEvents)] /\ Last(log'[n]) = e
          /\ \A m \in Names : m # n => log'[m] = log[m] /\ Saved(m)' = Saved(m) /\ Deleted(m)' = Deleted(m)
          /\ Saved(n)' = Saved(n) \cup (IF e.kind = "saved" THEN {e.seq} ELSE {})
          /\ Deleted(n)' = Deleted(n) \cup (IF e.kind = "deleted" THEN {e.seq} ELSE {})
      BY <1>1, <2>1, LogGrows
    <2>3. Saved(n)' = Saved(n) \cup {seq + 1} /\ Deleted(n)' = Deleted(n)
      BY <2>1, <2>2
    <2> QED BY <2>2, <2>3
  <1>5. lineage' \in [Names -> Nat] /\ \A m \in Names : lineage'[m] \in {lineage[m], seq + 1}
    <2>1. lineage \in [Names -> Nat] /\ seq + 1 \in Nat
      BY <1>1 DEF RegistryTypes
    <2> QED BY <2>1 DEF SaveWrites
  <1>6. /\ preimage' \in [Names -> [ui : Documents, manifest : Manifests] \cup {None}]
        /\ preimage'[n] = (IF app[n] = None THEN None ELSE Slots(app[n]))
        /\ \A m \in Names : m # n => preimage'[m] = preimage[m]
    <2>1. app[n] # None => Slots(app[n]) \in [ui : Documents, manifest : Manifests]
      BY <1>1 DEF RegistryTypes, Slots, AppRows
    <2> QED BY <1>1, <2>1 DEF SaveWrites, RegistryTypes
  <1>7. RegistryTypes'
    BY <1>1, <1>2, <1>3, <1>4, <1>5, <1>6 DEF RegistryTypes
  <1>8. /\ row.version = seq + 1 /\ r.version = seq + 1 /\ r.old = FALSE /\ Slots(r) = Slots(row)
        /\ \A h \in history[n] : h.version \in Nat /\ h.version <= seq
    BY <1>1 DEF SaveWrites, Slots, RegistryInv, Dated, RegistryTypes, AppRevisions
  <1>9. Dated'
    <2>1. ASSUME NEW m \in Names
          PROVE  /\ app'[m] # None => app'[m].version <= seq'
                 /\ \A h \in history'[m] : h.version <= seq'
                 /\ Saved(m)' \subseteq 1..seq' /\ Deleted(m)' \subseteq 1..seq'
                 /\ lineage'[m] <= seq'
      <3>1. /\ app[m] # None => app[m].version <= seq /\ app[m].version \in Nat
            /\ \A h \in history[m] : h.version <= seq /\ h.version \in Nat
            /\ Saved(m) \subseteq 1..seq /\ Deleted(m) \subseteq 1..seq /\ lineage[m] <= seq /\ lineage[m] \in Nat
        BY DEF RegistryInv, Dated, RegistryTypes, AppRows, AppRevisions
      <3>2. lineage'[m] <= seq'
        BY <1>1, <1>5, <3>1
      <3>3. CASE m = n
        <4>1. app'[m].version <= seq' /\ Saved(m)' \subseteq 1..seq' /\ Deleted(m)' \subseteq 1..seq'
          BY <1>1, <1>2, <1>4, <1>8, <3>1, <3>3
        <4>2. \A h \in history'[m] : h.version <= seq'
          BY <1>1, <1>3, <1>8, <3>3
        <4> QED BY <3>2, <4>1, <4>2
      <3>4. CASE m # n
        <4>1. /\ app'[m] = app[m] /\ history'[m] = history[m]
              /\ Saved(m)' = Saved(m) /\ Deleted(m)' = Deleted(m)
          BY <1>2, <1>3, <1>4, <3>4
        <4>2. \A k \in Nat : k <= seq => k <= seq'
          BY <1>1
        <4>3. 1..seq \subseteq 1..seq'
          BY <1>1
        <4> QED BY <3>1, <3>2, <4>1, <4>2, <4>3
      <3> QED BY <3>3, <3>4
    <2>2. \A c \in Colls : coll[c].born \in Nat /\ coll[c].last \in Nat
      BY <1>1 DEF RegistryTypes, CollRows
    <2> QED BY <1>1, <2>1, <2>2 DEF RegistryInv, Dated, RegistryTypes
  <1>10. Heads'
    <2> SUFFICES ASSUME NEW m \in Names
                 PROVE  /\ \A g, h \in history'[m] : g.version = h.version => g = h
                        /\ \A g, h \in history'[m] : h.old /\ g.version <= h.version => g.old
                        /\ app'[m] # None =>
                             /\ \E h \in history'[m] : h.version = app'[m].version /\ Slots(h) = Slots(app'[m])
                             /\ \A h \in history'[m] : h.version <= app'[m].version
      BY DEF Heads
    <2>1. CASE m = n
      <3>1. \A g, h \in history'[n] : g.version = h.version => g = h
        BY <1>1, <1>3, <1>8 DEF RegistryInv, Heads
      <3>2. \A g, h \in history'[n] : h.old /\ g.version <= h.version => g.old
        BY <1>1, <1>3, <1>8 DEF RegistryInv, Heads
      <3>3. r \in history'[n]
        BY <1>3
      <3>4. \A h \in history'[n] : h.version <= seq + 1
        BY <1>1, <1>3, <1>8
      <3> QED BY <1>2, <1>8, <2>1, <3>1, <3>2, <3>3, <3>4
    <2>2. CASE m # n
      BY <1>2, <1>3, <2>2 DEF RegistryInv, Heads
    <2> QED BY <2>1, <2>2
  <1>11. PreImages'
    <2> SUFFICES ASSUME NEW m \in Names, log'[m] # <<>>, Last(log'[m]).kind = "saved", preimage'[m] # None,
                        NEW h \in history'[m], h.version < Last(log'[m]).seq,
                        \A g \in history'[m] : g.version < Last(log'[m]).seq => g.version <= h.version
                 PROVE  Slots(h) = preimage'[m]
      BY DEF PreImages
    <2>1. CASE m = n
      <3>1. Last(log'[n]).seq = seq + 1
        BY <1>4 DEF SaveWrites
      <3>2. app[n] # None /\ preimage'[n] = Slots(app[n])
        BY <1>6, <2>1
      <3>3. PICK k \in history[n] : k.version = app[n].version /\ Slots(k) = Slots(app[n])
        BY <3>2 DEF RegistryInv, Heads
      <3>4. \A g \in history[n] : g.version <= k.version
        BY <3>2, <3>3 DEF RegistryInv, Heads
      <3>5. h \in history[n] /\ h \notin Swept(n, actor)
        BY <1>1, <1>3, <1>8, <2>1, <3>1
      <3>6. k \notin Swept(n, actor)
        BY <3>3, <3>4, <3>5 DEF Swept, RegistryInv, Heads
      <3>7. k \in history'[n] /\ k.version < seq + 1
        BY <1>1, <1>3, <1>8, <3>3, <3>6
      <3>8. k.version <= h.version
        BY <2>1, <3>1, <3>7
      <3>9. h.version <= k.version /\ h.version \in Nat /\ k.version \in Nat
        BY <1>8, <3>3, <3>4, <3>5
      <3>10. h = k
        <4>1. h.version = k.version
          BY <3>8, <3>9
        <4> QED BY <3>3, <3>5, <4>1 DEF RegistryInv, Heads
      <3> QED BY <2>1, <3>2, <3>3, <3>10
    <2>2. CASE m # n
      BY <1>3, <1>4, <1>6, <2>2 DEF RegistryInv, PreImages
    <2> QED BY <2>1, <2>2
  <1>12. FromTheStore'
    <2>1. ASSUME NEW m \in Names, app'[m] # None, app'[m].author = "library"
          PROVE  \E x \in Entries : x.name = m /\ Slots(x) = Slots(app'[m])
      <3>1. CASE m = n
        <4>1. actor = "library"
          BY <1>2, <2>1, <3>1 DEF SaveWrites
        <4>2. PICK x \in Entries : x.name = n /\ x.ui = ui /\ x.manifest = manifest
          BY <4>1
        <4>3. row.ui = ui /\ row.manifest = manifest
          BY <4>1 DEF SaveWrites
        <4> QED BY <1>2, <3>1, <4>2, <4>3 DEF Slots
      <3>2. CASE m # n
        BY <1>2, <2>1, <3>2 DEF RegistryInv, FromTheStore
      <3> QED BY <3>1, <3>2
    <2>2. ASSUME found' # None
          PROVE  /\ found'.entry \in Entries
                 /\ found'.version # None =>
                      /\ found'.version \in Nat /\ found'.version <= seq'
                      /\ app'[found'.entry.name] # None /\ app'[found'.entry.name].version = found'.version =>
                           app'[found'.entry.name].author = "library"
      <3>1. found' = found /\ found # None /\ found.entry \in Entries
        BY <2>2 DEF RegistryInv, FromTheStore
      <3>2. found.entry.name \in Names
        BY <3>1, EntriesShape
      <3>3. found.version # None => /\ found.version \in Nat /\ found.version <= seq
                                    /\ app[found.entry.name] # None /\ app[found.entry.name].version = found.version =>
                                         app[found.entry.name].author = "library"
        BY <3>1 DEF RegistryInv, FromTheStore
      <3> QED BY <1>1, <1>2, <1>8, <3>1, <3>2, <3>3
    <2> QED BY <2>1, <2>2 DEF FromTheStore
  <1>13. PlanIsDated'
    BY <1>1 DEF RegistryInv, PlanIsDated
  <1> QED BY <1>7, <1>9, <1>10, <1>11, <1>12, <1>13 DEF RegistryInv
\* What undo re-saves: the newest of the revisions below.
LEMMA RevisionBelowIs ==
  ASSUME RegistryInv, NEW n \in Names, NEW at, \E h \in history[n] : h.version < at
  PROVE  /\ RevisionBelow(n, at) \in history[n] /\ RevisionBelow(n, at).version < at
         /\ \A g \in history[n] : g.version < at => g.version <= RevisionBelow(n, at).version
  <1> DEFINE below == {h \in history[n] : h.version < at}
             versions == {h.version : h \in below}
  <1>1. seq \in Nat /\ \A h \in history[n] : h.version \in 0..seq
    BY DEF RegistryInv, RegistryTypes, Dated, AppRevisions
  <1>2. versions \subseteq 0..seq /\ versions # {}
    BY <1>1
  <1>3. PICK v \in versions : \A w \in versions : w <= v
    <2> HIDE DEF versions
    <2> QED BY <1>1, <1>2, GreatestNat
  <1>4. PICK h \in below : \A g \in below : g.version <= h.version
    BY <1>3
  <1>5. RevisionBelow(n, at) = CHOOSE x \in below : \A g \in below : g.version <= x.version
    BY DEF RevisionBelow
  <1>6. RevisionBelow(n, at) \in below /\ \A g \in below : g.version <= RevisionBelow(n, at).version
    <2> HIDE DEF below
    <2> QED BY <1>4, <1>5
  <1> QED BY <1>6

\* Every save there is: whose it is, and what it re-saves.
SomeSave(n) ==
  \E actor \in Authors, row \in AppRows, r \in AppRevisions, e \in AppEvents : \E ui, manifest, from :
    /\ SaveWrites(n, actor, ui, manifest, from, row, r, e)
    /\ actor = "library" => /\ \E x \in Entries : x.name = n /\ x.ui = ui /\ x.manifest = manifest
                            /\ ui # Omitted /\ manifest # Omitted
    /\ e.from # None => \E h \in Checkpoints(n) : h.version = e.from

LEMMA SavedUnder ==
  ASSUME RegistryInv, NEW n \in Names, NEW actor \in Authors, NEW expected,
         NEW ui \in Documents \cup {Omitted}, NEW manifest \in Manifests \cup {Omitted},
         NEW from \in Nat \cup {None}, SaveApp(n, actor, expected, ui, manifest, from),
         from # None => \E h \in Checkpoints(n) : h.version = from,
         actor = "library" => /\ \E x \in Entries : x.name = n /\ x.ui = ui /\ x.manifest = manifest
                              /\ ui # Omitted /\ manifest # Omitted
  PROVE  SomeSave(n)
  <1>1. PICK row \in AppRows, r \in AppRevisions, e \in AppEvents :
          SaveWrites(n, actor, ui, manifest, from, row, r, e)
    BY SaveIs
  <1>2. e.from # None => \E h \in Checkpoints(n) : h.version = e.from
    BY <1>1 DEF SaveWrites
  <1> QED BY <1>1, <1>2 DEF SomeSave

LEMMA UndoSaves ==
  ASSUME RegistryInv, NEW n \in Names, Undo(n)
  PROVE  LET h == RevisionBelow(n, Last(log[n]).seq) IN
           /\ SaveApp(n, "human", None, h.ui, h.manifest, None)
           /\ h \in history[n] /\ h.version < Last(log[n]).seq
           /\ \A g \in history[n] : g.version < Last(log[n]).seq => g.version <= h.version
           /\ h.ui \in Documents /\ h.manifest \in Manifests /\ h.ui # Omitted /\ h.manifest # Omitted
  <1> DEFINE at == Last(log[n]).seq
             h == RevisionBelow(n, at)
  <1>1. SaveApp(n, "human", None, h.ui, h.manifest, None)
    BY Zenon DEF Undo
  <1>2. \E g \in history[n] : g.version < at
    BY DEF Undo
  <1> HIDE DEF at
  <1>3. /\ h \in history[n] /\ h.version < at
        /\ \A g \in history[n] : g.version < at => g.version <= h.version
    BY <1>2, RevisionBelowIs
  <1> HIDE DEF h
  <1>4. h.ui \in Documents /\ h.manifest \in Manifests
    BY <1>3 DEF RegistryInv, RegistryTypes, AppRevisions
  <1> QED BY <1>1, <1>3, <1>4, SentinelsAreApart DEF h, at

LEMMA SaveIsOne ==
  ASSUME RegistryInv, Save
  PROVE  \E n \in Names : SomeSave(n)
  <1>1. PICK c \in Saves, expected \in {None} \cup 1 .. seq : SaveApp(c.name, c.actor, expected, c.ui, c.manifest, None)
    BY DEF Save
  <1>2. /\ c.name \in Names /\ c.actor \in Authors /\ c.actor # "library"
        /\ c.ui \in Documents \cup {Omitted} /\ c.manifest \in Manifests \cup {Omitted}
    BY SavesShape DEF Authors, Manifests
  <1> QED BY <1>1, <1>2, SavedUnder

LEMMA EditIsOne ==
  ASSUME RegistryInv, NEW n \in Names, EditApp(n) \/ Restore(n) \/ Undo(n)
  PROVE  SomeSave(n)
  <1>1. CASE EditApp(n)
    <2>1. PICK actor \in {"agent", "human"}, ui \in Documents : SaveApp(n, actor, app[n].version, ui, Omitted, None)
      BY <1>1 DEF EditApp
    <2>2. actor \in Authors /\ actor # "library"
      BY DEF Authors
    <2> QED BY <2>1, <2>2, SavedUnder
  <1>2. CASE Restore(n)
    <2>1. PICK h \in Checkpoints(n) :
            SaveApp(n, "agent", IF app[n] = None THEN None ELSE app[n].version, h.ui, h.manifest, h.version)
      BY <1>2 DEF Restore
    <2>2. h.ui \in Documents /\ h.manifest \in Manifests /\ h.version \in Nat
      BY DEF RegistryInv, RegistryTypes, AppRevisions, Checkpoints
    <2>3. "agent" \in Authors
      BY DEF Authors
    <2> QED BY <2>1, <2>2, <2>3, SavedUnder
  <1>3. CASE Undo(n)
    <2> DEFINE h == RevisionBelow(n, Last(log[n]).seq)
    <2>1. SaveApp(n, "human", None, h.ui, h.manifest, None) /\ h.ui \in Documents /\ h.manifest \in Manifests
      BY <1>3, UndoSaves
    <2> HIDE DEF h
    <2>2. "human" \in Authors
      BY DEF Authors
    <2> QED BY <2>1, <2>2, SavedUnder
  <1> QED BY <1>1, <1>2, <1>3

LEMMA InstallIsOne ==
  ASSUME RegistryInv, InstallFromStore
  PROVE  \/ \E n \in Names : SomeSave(n)
         \/ UNCHANGED <<seq, registry, data, plan, ages, ghosts>>
  <1> DEFINE x == found.entry
  <1>1. \/ SaveApp(x.name, "library", ExpectedByInstall, x.ui, x.manifest, None)
        \/ UNCHANGED <<seq, registry, data, plan, ages, ghosts>>
    BY DEF InstallFromStore
  <1>2. x \in Entries
    BY DEF InstallFromStore, RegistryInv, FromTheStore
  <1> HIDE DEF x
  <1>3. x.name \in Names /\ x.ui \in Documents /\ x.manifest \in Manifests /\ x.ui # Omitted /\ x.manifest # Omitted
    BY <1>2, EntriesShape, SentinelsAreApart
  <1>4. "library" \in Authors
    BY DEF Authors
  <1>5. CASE SaveApp(x.name, "library", ExpectedByInstall, x.ui, x.manifest, None)
    BY <1>2, <1>3, <1>4, <1>5, SavedUnder
  <1> QED BY <1>1, <1>5

LEMMA SomeSaveStep ==
  ASSUME RegistryInv, NEW n \in Names, SomeSave(n), found' = found \/ found' = None
  PROVE  RegistryInv'
  BY SaveStep DEF SomeSave

----------------------------------------------------------------------------
(* The other steps.                                                        *)

\* Deleting an app, with whatever goes with it.
LEMMA DeleteStep ==
  ASSUME RegistryInv, NEW n \in Names, NEW lost \in SUBSET Colls, NEW group \in BOOLEAN,
         DeleteApp(n, lost, group), found' = found, plan' \in {plan, None}
  PROVE  /\ RegistryInv'
         /\ seq' > seq /\ app'[n] = None /\ \A m \in Names : m # n => app'[m] = app[m] /\ log'[m] = log[m]
         /\ \E e \in AppEvents : e.seq = seq' /\ e.kind = "deleted" /\ log' = [log EXCEPT ![n] = Append(@, e)]
         /\ \A c \in Colls : coll'[c].born = coll[c].born
         /\ UNCHANGED <<history, ghosts>>
  <1> DEFINE cleared == {c \in lost : coll[c].rows > 0}
             order == SetToSeq(cleared)
             at == [c \in cleared |-> seq + (CHOOSE i \in DOMAIN order : order[i] = c)]
             grouped == IF group THEN 1 ELSE 0
             e == [seq |-> seq', kind |-> "deleted", from |-> None]
  <1>1. RegistryTypes /\ seq \in Nat
    BY DEF RegistryInv, RegistryTypes
  <1>2. /\ seq' = seq + Len(order) + grouped + 1 /\ seq' <= MaxSeq
        /\ coll' = [c \in Colls |-> IF c \in cleared THEN [coll[c] EXCEPT !.rows = 0, !.last = at[c]] ELSE coll[c]]
        /\ settings' = IF group THEN [last |-> seq' - 1, groups |-> settings.groups \ {n}] ELSE settings
        /\ app' = [app EXCEPT ![n] = None] /\ log' = [log EXCEPT ![n] = Append(@, e)]
        /\ UNCHANGED <<history, ages, lineage, maker, preimage>>
    BY Zenon DEF DeleteApp, ghosts
  <1>3. order \in Seq(cleared) /\ \A c \in cleared : \E i \in DOMAIN order : order[i] = c
    <2>1. IsFiniteSet(cleared)
      BY FiniteColls, FS_Subset
    <2> QED BY <2>1, InOrder
  <1> HIDE DEF order
  <1>4. Len(order) \in Nat /\ DOMAIN order = 1..Len(order)
    BY <1>3
  <1>5. seq' \in Nat /\ seq' > seq /\ seq + Len(order) < seq' /\ seq' - 1 \in Nat /\ seq' - 1 <= seq'
    <2>1. grouped \in Nat /\ seq' = seq + Len(order) + grouped + 1
      BY <1>2
    <2> HIDE DEF grouped
    <2> QED BY <1>1, <1>4, <2>1
  <1>6. \A c \in cleared : at[c] \in Nat /\ at[c] <= seq'
    <2> SUFFICES ASSUME NEW c \in cleared PROVE at[c] \in Nat /\ at[c] <= seq'
      OBVIOUS
    <2> DEFINE i == CHOOSE i \in DOMAIN order : order[i] = c
    <2>1. i \in 1..Len(order)
      BY <1>3, <1>4
    <2>2. at[c] = seq + i
      OBVIOUS
    <2> HIDE DEF i
    <2> QED BY <1>1, <1>4, <1>5, <2>1, <2>2
  <1> HIDE DEF at
  <1>7. \A c \in Colls : /\ coll[c] \in CollRows /\ coll'[c] \in CollRows /\ coll'[c].born = coll[c].born
                         /\ coll'[c].last <= seq'
    <2> SUFFICES ASSUME NEW c \in Colls
                 PROVE  /\ coll[c] \in CollRows /\ coll'[c] \in CollRows /\ coll'[c].born = coll[c].born
                        /\ coll'[c].last <= seq'
      OBVIOUS
    <2>1. coll[c] \in CollRows /\ coll[c].last <= seq /\ coll[c].last \in Nat
      BY DEF RegistryInv, RegistryTypes, Dated, CollRows
    <2>2. CASE c \in cleared
      <3> DEFINE w == [coll[c] EXCEPT !.rows = 0, !.last = at[c]]
      <3>1. w \in CollRows /\ w.born = coll[c].born /\ w.last = at[c]
        BY <1>6, <2>1, <2>2 DEF CollRows
      <3>2. coll'[c] = w
        BY <1>2, <2>2
      <3> HIDE DEF w
      <3> QED BY <1>6, <2>1, <2>2, <3>1, <3>2
    <2>3. CASE c \notin cleared
      <3>1. coll'[c] = coll[c]
        BY <1>2, <2>3
      <3> QED BY <1>1, <1>5, <2>1, <3>1
    <2> QED BY <2>2, <2>3
  <1> HIDE DEF cleared
  <1>8. e \in AppEvents /\ e.seq = seq' /\ e.kind = "deleted"
    BY <1>5 DEF AppEvents
  <1> HIDE DEF e
  <1>9. /\ log' \in [Names -> Seq(AppEvents)] /\ Last(log'[n]) = e /\ \A m \in Names : m # n => log'[m] = log[m]
        /\ Saved(n)' = Saved(n) /\ Deleted(n)' = Deleted(n) \cup {seq'}
        /\ \A m \in Names : m # n => Saved(m)' = Saved(m) /\ Deleted(m)' = Deleted(m)
    <2>1. "deleted" # "saved"
      OBVIOUS
    <2> QED BY <1>1, <1>2, <1>8, <2>1, LogGrows
  <1>10. settings' \in [last : Nat, groups : SUBSET Names] /\ settings'.last <= seq'
    <2>1. settings \in [last : Nat, groups : SUBSET Names] /\ settings.last <= seq
      BY DEF RegistryInv, RegistryTypes, Dated
    <2>2. settings' = IF group THEN [last |-> seq' - 1, groups |-> settings.groups \ {n}] ELSE settings
      BY <1>2
    <2>3. CASE group
      <3> DEFINE k == seq' - 1
      <3>1. k \in Nat /\ k <= seq'
        BY <1>5
      <3>2. settings' = [last |-> k, groups |-> settings.groups \ {n}]
        BY <2>2, <2>3
      <3> HIDE DEF k
      <3> QED BY <2>1, <3>1, <3>2
    <2>4. CASE ~ group
      <3>1. settings.last \in Nat
        BY <2>1
      <3> QED BY <1>1, <1>5, <2>1, <2>2, <2>4, <3>1
    <2> QED BY <2>3, <2>4
  <1>11. app' \in [Names -> AppRows \cup {None}] /\ app'[n] = None /\ \A m \in Names : m # n => app'[m] = app[m]
    BY <1>1, <1>2 DEF RegistryTypes
  <1>12. coll' \in [Colls -> CollRows]
    BY <1>2, <1>7
  <1>13. RegistryTypes'
    BY <1>1, <1>2, <1>5, <1>9, <1>10, <1>11, <1>12 DEF RegistryTypes
  <1>14. Dated'
    <2>1. ASSUME NEW m \in Names
          PROVE  /\ app'[m] # None => app'[m].version <= seq'
                 /\ \A h \in history'[m] : h.version <= seq'
                 /\ Saved(m)' \subseteq 1..seq' /\ Deleted(m)' \subseteq 1..seq'
                 /\ lineage'[m] <= seq'
      <3>1. /\ app[m] # None => app[m].version <= seq /\ app[m].version \in Nat
            /\ \A h \in history[m] : h.version <= seq /\ h.version \in Nat
            /\ Saved(m) \subseteq 1..seq /\ Deleted(m) \subseteq 1..seq /\ lineage[m] <= seq /\ lineage[m] \in Nat
        BY DEF RegistryInv, Dated, RegistryTypes, AppRows, AppRevisions
      <3>2. Saved(m)' = Saved(m) /\ Deleted(m)' \subseteq Deleted(m) \cup {seq'}
        BY <1>9
      <3>3. 1..seq \subseteq 1..seq' /\ seq' \in 1..seq'
        BY <1>1, <1>5
      <3>4. app'[m] # None => app'[m] = app[m]
        BY <1>11
      <3>5. Saved(m)' \subseteq 1..seq' /\ Deleted(m)' \subseteq 1..seq'
        BY <3>1, <3>2, <3>3
      <3>6. history' = history /\ lineage' = lineage
        BY <1>2
      <3>7. \A k \in Nat : k <= seq => k <= seq'
        BY <1>1, <1>5
      <3> QED BY <3>1, <3>4, <3>5, <3>6, <3>7
    <2>2. seq' <= MaxSeq
      BY <1>2
    <2>3. ASSUME NEW c \in Colls
          PROVE  coll'[c].born <= seq' /\ coll'[c].last <= seq'
      <3>1. coll[c].born \in Nat /\ coll[c].born <= seq
        BY <1>7 DEF RegistryInv, Dated, CollRows
      <3> QED BY <1>1, <1>5, <1>7, <3>1
    <2>4. settings'.last <= seq'
      BY <1>10
    <2> QED BY <2>1, <2>2, <2>3, <2>4 DEF Dated
  <1>15. Heads'
    <2>1. history' = history /\ \A m \in Names : app'[m] # None => app'[m] = app[m]
      BY <1>2, <1>11
    <2> QED BY <2>1 DEF RegistryInv, Heads
  <1>16. PreImages'
    <2> SUFFICES ASSUME NEW m \in Names, Last(log'[m]).kind = "saved" PROVE m # n
      BY <1>2, <1>9 DEF RegistryInv, PreImages
    <2> QED BY <1>8, <1>9
  <1>17. FromTheStore'
    <2>1. \A m \in Names : app'[m] # None => app'[m] = app[m]
      BY <1>11
    <2>2. found # None => found.entry.name \in Names
      BY EntriesShape DEF RegistryInv, FromTheStore
    <2> QED BY <1>1, <1>5, <2>1, <2>2 DEF RegistryInv, FromTheStore
  <1>18. PlanIsDated'
    BY DEF RegistryInv, PlanIsDated
  <1> QED BY <1>2, <1>5, <1>7, <1>8, <1>9, <1>11, <1>13, <1>14, <1>15, <1>16, <1>17, <1>18 DEF RegistryInv, ghosts
\* A step that leaves the apps alone.
LEMMA QuietStep ==
  ASSUME RegistryInv, UNCHANGED <<registry, lineage, preimage>>,
         seq' \in Nat, seq <= seq', seq' <= MaxSeq,
         coll' \in [Colls -> CollRows], \A c \in Colls : coll'[c].born <= seq' /\ coll'[c].last <= seq',
         settings' \in [last : Nat, groups : SUBSET Names], settings'.last <= seq',
         maker' \in [Colls -> Nat], FromTheStore', PlanIsDated'
  PROVE  RegistryInv'
  <1>1. /\ app' = app /\ history' = history /\ log' = log /\ lineage' = lineage /\ preimage' = preimage
        /\ RegistryTypes /\ Dated
    BY DEF registry, RegistryInv
  <1>2. \A n \in Names : Saved(n)' = Saved(n) /\ Deleted(n)' = Deleted(n)
    BY <1>1, AccountStands
  <1>3. RegistryTypes'
    BY <1>1 DEF RegistryTypes
  <1>4. Dated'
    <2>1. ASSUME NEW m \in Names
          PROVE  /\ app'[m] # None => app'[m].version <= seq'
                 /\ \A h \in history'[m] : h.version <= seq'
                 /\ Saved(m)' \subseteq 1..seq' /\ Deleted(m)' \subseteq 1..seq'
                 /\ lineage'[m] <= seq'
      <3>1. /\ app[m] # None => app[m].version <= seq /\ app[m].version \in Nat
            /\ \A h \in history[m] : h.version <= seq /\ h.version \in Nat
            /\ Saved(m) \subseteq 1..seq /\ Deleted(m) \subseteq 1..seq /\ lineage[m] <= seq /\ lineage[m] \in Nat
        BY <1>1 DEF Dated, RegistryTypes, AppRows, AppRevisions
      <3>2. seq \in Nat /\ 1..seq \subseteq 1..seq' /\ \A k \in Nat : k <= seq => k <= seq'
        BY <1>1 DEF RegistryTypes
      <3> QED BY <1>1, <1>2, <3>1, <3>2
    <2> QED BY <2>1 DEF Dated
  <1>5. Heads' /\ PreImages'
    <2>1. Heads /\ PreImages
      BY DEF RegistryInv
    <2> QED BY <1>1, <2>1 DEF Heads, PreImages
  <1> QED BY <1>3, <1>4, <1>5 DEF RegistryInv

\* What is known of the App Store's apps stays known while the apps are left alone.
LEMMA StoreStands ==
  ASSUME RegistryInv, app' = app, found' \in {found, None}, seq' \in Nat, seq <= seq'
  PROVE  FromTheStore'
  <1>1. seq \in Nat
    BY DEF RegistryInv, RegistryTypes
  <1> QED BY <1>1 DEF RegistryInv, FromTheStore

\* A write to a collection.
LEMMA WroteStep ==
  ASSUME RegistryInv, NEW c \in Colls, NEW via \in Names \cup {None}, NEW rows, Wrote(c, via, rows),
         found' = found
  PROVE  RegistryInv'
  <1> DEFINE w == [born |-> IF coll[c].born = 0 THEN seq + 1 ELSE coll[c].born, last |-> seq + 1, rows |-> rows,
                   via |-> IF via = None THEN coll[c].via ELSE coll[c].via \cup {via}]
  <1>1. /\ seq \in Nat /\ seq < MaxSeq /\ seq' = seq + 1 /\ rows \in 0..MaxRows
        /\ coll' = [coll EXCEPT ![c] = w]
        /\ UNCHANGED <<registry, settings, plan, ages, lineage, preimage>>
    BY DEF Wrote, RegistryInv, RegistryTypes
  <1>2. /\ coll \in [Colls -> CollRows] /\ settings \in [last : Nat, groups : SUBSET Names] /\ settings.last <= seq
        /\ \A d \in Colls : coll[d] \in CollRows /\ coll[d].born <= seq /\ coll[d].last <= seq
    BY DEF RegistryInv, RegistryTypes, Dated
  <1>3. w \in CollRows /\ w.born <= seq + 1 /\ w.last <= seq + 1
    <2>1. rows \in Nat
      BY <1>1, RegistryBounds
    <2> QED BY <1>1, <1>2, <2>1 DEF CollRows
  <1> HIDE DEF w
  <1>4. seq' \in Nat /\ seq <= seq' /\ seq' <= MaxSeq
    BY <1>1, RegistryBounds
  <1>5. coll' \in [Colls -> CollRows] /\ \A d \in Colls : coll'[d].born <= seq' /\ coll'[d].last <= seq'
    <2>1. coll' \in [Colls -> CollRows]
      BY <1>1, <1>2, <1>3
    <2>2. ASSUME NEW d \in Colls PROVE coll'[d].born <= seq' /\ coll'[d].last <= seq'
      <3>1. coll[d].born \in Nat /\ coll[d].last \in Nat
        BY <1>2 DEF CollRows
      <3> QED BY <1>1, <1>2, <1>3, <3>1
    <2> QED BY <2>1, <2>2
  <1>6. settings' \in [last : Nat, groups : SUBSET Names] /\ settings'.last <= seq'
    BY <1>1, <1>2, <1>4
  <1>7. maker' \in [Colls -> Nat]
    <2>1. maker \in [Colls -> Nat] /\ lineage \in [Names -> Nat]
      BY DEF RegistryInv, RegistryTypes
    <2>2. maker' = IF coll[c].born = 0 /\ c \in Names THEN [maker EXCEPT ![c] = lineage[c]] ELSE maker
      BY DEF Wrote
    <2> QED BY <2>1, <2>2
  <1>8. FromTheStore' /\ PlanIsDated'
    <2>1. FromTheStore'
      BY <1>1, <1>4, StoreStands DEF registry
    <2> QED BY <1>1, <2>1 DEF RegistryInv, PlanIsDated
  <1> QED BY <1>1, <1>4, <1>5, <1>6, <1>7, <1>8, QuietStep

LEMMA SettingStep ==
  ASSUME RegistryInv, NEW n \in Names, WriteSetting(n), found' = found
  PROVE  RegistryInv'
  <1>1. /\ seq \in Nat /\ seq < MaxSeq /\ seq' = seq + 1
        /\ settings' = [last |-> seq + 1, groups |-> settings.groups \cup {n}]
        /\ UNCHANGED <<registry, coll, plan, ages, lineage, maker, preimage>>
    BY DEF WriteSetting, ghosts, RegistryInv, RegistryTypes
  <1>2. /\ coll \in [Colls -> CollRows] /\ settings \in [last : Nat, groups : SUBSET Names]
        /\ maker \in [Colls -> Nat]
        /\ \A d \in Colls : coll[d] \in CollRows /\ coll[d].born <= seq /\ coll[d].last <= seq
    BY DEF RegistryInv, RegistryTypes, Dated
  <1>3. seq' \in Nat /\ seq <= seq' /\ seq' <= MaxSeq
    BY <1>1, RegistryBounds
  <1>4. settings' \in [last : Nat, groups : SUBSET Names] /\ settings'.last <= seq'
    BY <1>1, <1>2
  <1>5. \A d \in Colls : coll'[d].born <= seq' /\ coll'[d].last <= seq'
    BY <1>1, <1>2, <1>3 DEF CollRows
  <1>6. FromTheStore' /\ PlanIsDated'
    <2>1. FromTheStore'
      BY <1>1, <1>3, StoreStands DEF registry
    <2> QED BY <1>1, <2>1 DEF RegistryInv, PlanIsDated
  <1> QED BY <1>1, <1>2, <1>3, <1>4, <1>5, <1>6, QuietStep

\* A plan dates from the moment it is made.
LEMMA PlanStep ==
  ASSUME RegistryInv, NEW n \in Names, AskPurge(n), found' = found
  PROVE  RegistryInv'
  <1> DEFINE p == [name |-> n, world |-> World(n), shown |-> Exclusive(n), at |-> seq]
  <1>1. app[n] # None /\ plan' = p /\ UNCHANGED <<seq, registry, data, ages, ghosts>>
    BY DEF AskPurge
  <1>2. /\ seq \in Nat /\ coll \in [Colls -> CollRows] /\ settings \in [last : Nat, groups : SUBSET Names]
        /\ maker \in [Colls -> Nat] /\ seq <= MaxSeq /\ settings.last <= seq
        /\ app[n].version <= seq
        /\ \A d \in Colls : coll[d].born <= seq /\ coll[d].last <= seq
    BY <1>1 DEF RegistryInv, RegistryTypes, Dated
  <1>3. p.at = seq /\ p.world[1] <= seq /\ p.world[3] <= seq /\ \A q \in p.world[2] : q[2] <= seq
    BY <1>2 DEF World, Candidates
  <1>4. PlanIsDated'
    <2> HIDE DEF p
    <2> QED BY <1>1, <1>2, <1>3 DEF PlanIsDated
  <1>5. FromTheStore'
    BY <1>1, <1>2, StoreStands DEF registry
  <1> QED BY <1>1, <1>2, <1>4, <1>5, QuietStep DEF data, ghosts

LEMMA AgedIs ==
  ASSUME NEW h \in AppRevisions
  PROVE  LET g == [h EXCEPT !.old = TRUE]
         IN  /\ g \in AppRevisions /\ g.version = h.version /\ g.ui = h.ui /\ g.manifest = h.manifest
             /\ g.old = TRUE
  <1> DEFINE g == [h EXCEPT !.old = TRUE]
  <1>1. h \in [{"version", "ui", "manifest", "old"} -> UNION {Nat, Documents, Manifests, BOOLEAN}]
    BY SMT DEF AppRevisions
  <1>2. DOMAIN h = {"version", "ui", "manifest", "old"}
    BY <1>1
  <1>3. g.version = h.version /\ g.ui = h.ui /\ g.manifest = h.manifest
    BY <1>2
  <1>4. g.old = TRUE
    BY <1>2
  <1>5. h.version \in Nat /\ h.ui \in Documents /\ h.manifest \in Manifests
    BY DEF AppRevisions
  <1>6. \A b : [h EXCEPT !.old = b] = [version |-> h.version, ui |-> h.ui, manifest |-> h.manifest, old |-> b]
    BY <1>1, <1>2
  <1>7. g \in AppRevisions
    BY <1>5, <1>6 DEF AppRevisions
  <1> QED BY <1>3, <1>4, <1>7

\* Time passes: what is old stays the older part of a history.
LEMMA AgeStep ==
  ASSUME RegistryInv, Age, found' = found
  PROVE  RegistryInv'
  <1>1. /\ seq' = seq /\ app' = app /\ log' = log /\ coll' = coll /\ settings' = settings /\ plan' = None
        /\ lineage' = lineage /\ maker' = maker /\ preimage' = preimage
        /\ history' = [n \in Names |-> {[h EXCEPT !.old = TRUE] : h \in history[n]}]
    BY DEF Age, data, ghosts
  <1>2. /\ RegistryTypes /\ Dated /\ Heads /\ PreImages /\ FromTheStore
    BY DEF RegistryInv
  <1>3. ASSUME NEW n \in Names
        PROVE  \A g \in history'[n] : \E h \in history[n] :
                 g \in AppRevisions /\ g.version = h.version /\ g.ui = h.ui /\ g.manifest = h.manifest /\ g.old = TRUE
    <2>1. history[n] \subseteq AppRevisions /\ history'[n] = {[h EXCEPT !.old = TRUE] : h \in history[n]}
      BY <1>1, <1>2 DEF RegistryTypes
    <2> QED BY <2>1, AgedIs
  <1>4. ASSUME NEW n \in Names
        PROVE  \A h \in history[n] : \E g \in history'[n] :
                 g.version = h.version /\ g.ui = h.ui /\ g.manifest = h.manifest
    <2>1. history[n] \subseteq AppRevisions /\ history'[n] = {[h EXCEPT !.old = TRUE] : h \in history[n]}
      BY <1>1, <1>2 DEF RegistryTypes
    <2> QED BY <2>1, AgedIs
  <1>5. \A n \in Names : Saved(n)' = Saved(n) /\ Deleted(n)' = Deleted(n)
    BY <1>1, AccountStands
  <1>6. RegistryTypes'
    <2>1. history' \in [Names -> SUBSET AppRevisions]
      BY <1>1, <1>3
    <2> QED BY <1>1, <1>2, <2>1 DEF RegistryTypes
  <1>7. Dated'
    <2>1. ASSUME NEW m \in Names
          PROVE  /\ app'[m] # None => app'[m].version <= seq'
                 /\ \A h \in history'[m] : h.version <= seq'
                 /\ Saved(m)' \subseteq 1..seq' /\ Deleted(m)' \subseteq 1..seq'
                 /\ lineage'[m] <= seq'
      <3>1. \A h \in history'[m] : h.version <= seq'
        <4>1. \A h \in history[m] : h.version <= seq
          BY <1>2 DEF Dated
        <4> QED BY <1>1, <1>3, <4>1
      <3> QED BY <1>1, <1>2, <1>5, <3>1 DEF Dated
    <2> QED BY <1>1, <1>2, <2>1 DEF Dated
  <1>8. Heads'
    <2> SUFFICES ASSUME NEW n \in Names
                 PROVE  /\ \A g, h \in history'[n] : g.version = h.version => g = h
                        /\ \A g, h \in history'[n] : h.old /\ g.version <= h.version => g.old
                        /\ app'[n] # None =>
                             /\ \E h \in history'[n] : h.version = app'[n].version /\ Slots(h) = Slots(app'[n])
                             /\ \A h \in history'[n] : h.version <= app'[n].version
      BY DEF Heads
    <2>1. ASSUME NEW g \in history'[n], NEW h \in history'[n], g.version = h.version PROVE g = h
      <3>1. PICK x \in history[n] : g \in AppRevisions /\ g.version = x.version /\ g.ui = x.ui
                                     /\ g.manifest = x.manifest /\ g.old = TRUE
        BY <1>3
      <3>2. PICK y \in history[n] : h \in AppRevisions /\ h.version = y.version /\ h.ui = y.ui
                                     /\ h.manifest = y.manifest /\ h.old = TRUE
        BY <1>3
      <3>3. x = y
        BY <1>2, <2>1, <3>1, <3>2 DEF Heads
      <3> QED BY <3>1, <3>2, <3>3 DEF AppRevisions
    <2>2. \A g \in history'[n] : g.old
      BY <1>3
    <2>3. ASSUME app'[n] # None
          PROVE  /\ \E h \in history'[n] : h.version = app'[n].version /\ Slots(h) = Slots(app'[n])
                 /\ \A h \in history'[n] : h.version <= app'[n].version
      <3>1. PICK h \in history[n] : h.version = app[n].version /\ Slots(h) = Slots(app[n])
        BY <1>1, <1>2, <2>3 DEF Heads
      <3>2. PICK g \in history'[n] : g.version = h.version /\ g.ui = h.ui /\ g.manifest = h.manifest
        BY <1>4
      <3>3. Slots(g) = Slots(h)
        BY <3>2 DEF Slots
      <3>4. \A k \in history'[n] : k.version <= app'[n].version
        <4>1. app' = app /\ \A k \in history[n] : k.version <= app[n].version
          BY <1>1, <1>2, <2>3 DEF Heads
        <4> QED BY <1>3, <4>1
      <3> QED BY <1>1, <3>1, <3>2, <3>3, <3>4
    <2> QED BY <2>1, <2>2, <2>3
  <1>9. PreImages'
    <2> SUFFICES ASSUME NEW n \in Names, log'[n] # <<>>, Last(log'[n]).kind = "saved", preimage'[n] # None,
                        NEW h \in history'[n], h.version < Last(log'[n]).seq,
                        \A g \in history'[n] : g.version < Last(log'[n]).seq => g.version <= h.version
                 PROVE  Slots(h) = preimage'[n]
      BY DEF PreImages
    <2>1. PICK x \in history[n] : h.version = x.version /\ h.ui = x.ui /\ h.manifest = x.manifest
      BY <1>3
    <2>2. \A g \in history[n] : g.version < Last(log[n]).seq => g.version <= x.version
      BY <1>1, <1>4, <2>1
    <2>3. Slots(x) = preimage[n]
      BY <1>1, <1>2, <2>1, <2>2 DEF PreImages
    <2> QED BY <1>1, <2>1, <2>3 DEF Slots
  <1>10. FromTheStore'
    BY <1>1, <1>2, StoreStands DEF RegistryTypes
  <1>11. PlanIsDated'
    BY <1>1 DEF PlanIsDated
  <1> QED BY <1>6, <1>7, <1>8, <1>9, <1>10, <1>11 DEF RegistryInv

\* What an install has read is an app of the App Store of that version.
LEMMA FindStep ==
  ASSUME RegistryInv, NEW x \in Entries, FindForInstall(x)
  PROVE  RegistryInv'
  <1>1. /\ app[x.name] # None => app[x.name].author = "library"
        /\ found' = [entry |-> x, version |-> IF app[x.name] = None THEN None ELSE app[x.name].version]
        /\ UNCHANGED <<seq, registry, data, plan, ages, ghosts>>
    BY DEF FindForInstall
  <1>2. /\ seq \in Nat /\ coll \in [Colls -> CollRows] /\ settings \in [last : Nat, groups : SUBSET Names]
        /\ maker \in [Colls -> Nat] /\ seq <= MaxSeq /\ settings.last <= seq
        /\ \A d \in Colls : coll[d].born <= seq /\ coll[d].last <= seq
        /\ \A n \in Names : app[n] # None => app[n].version \in Nat /\ app[n].version <= seq
    BY DEF RegistryInv, RegistryTypes, Dated, AppRows
  <1>3. x.name \in Names
    BY EntriesShape
  <1>4. FromTheStore'
    <2>1. app' = app /\ seq' = seq
      BY <1>1 DEF registry
    <2>2. found'.entry = x /\ (found'.version # None => app[x.name] # None /\ found'.version = app[x.name].version)
      BY <1>1
    <2>3. found'.version # None => found'.version \in Nat /\ found'.version <= seq
      BY <1>2, <1>3, <2>2
    <2> QED BY <1>1, <2>1, <2>2, <2>3 DEF RegistryInv, FromTheStore
  <1>5. PlanIsDated'
    BY <1>1 DEF RegistryInv, PlanIsDated
  <1> QED BY <1>1, <1>2, <1>4, <1>5, QuietStep DEF data, ghosts
LEMMA DeletesKeep ==
  ASSUME RegistryInv, NEW n \in Names, Delete(n) \/ Purge(n), found' = found
  PROVE  \E lost \in SUBSET Colls, group \in BOOLEAN : DeleteApp(n, lost, group) /\ plan' \in {plan, None}
  <1>1. CASE Delete(n)
    BY <1>1 DEF Delete
  <1>2. CASE Purge(n)
    <2>1. Exclusive(n) \in SUBSET Colls
      BY DEF Exclusive, Candidates
    <2>2. DeleteApp(n, Exclusive(n), n \in settings.groups) /\ plan' = None
      BY <1>2 DEF Purge
    <2>3. ASSUME n \in settings.groups PROVE DeleteApp(n, Exclusive(n), TRUE)
      BY Zenon, <2>2, <2>3 DEF DeleteApp
    <2>4. ASSUME n \notin settings.groups PROVE DeleteApp(n, Exclusive(n), FALSE)
      BY Zenon, <2>2, <2>4 DEF DeleteApp
    <2> QED BY <2>1, <2>2, <2>3, <2>4
  <1> QED BY <1>1, <1>2

LEMMA StepKeeps ==
  ASSUME RegistryInv, [Next]_vars
  PROVE  RegistryInv'
  <1>1. ASSUME Save, found' = found PROVE RegistryInv'
    BY <1>1, SaveIsOne, SomeSaveStep
  <1>2. ASSUME NEW n \in Names, EditApp(n) \/ Restore(n) \/ Undo(n), found' = found PROVE RegistryInv'
    BY <1>2, EditIsOne, SomeSaveStep
  <1>3. ASSUME NEW n \in Names, Delete(n) \/ Purge(n), found' = found PROVE RegistryInv'
    BY <1>3, DeletesKeep, DeleteStep
  <1>4. ASSUME WriteItem, found' = found PROVE RegistryInv'
    <2>1. PICK c \in Colls, via \in {None} \cup {n \in Writers : log[n] # <<>>}, d \in {-1, 1} :
            Wrote(c, via, coll[c].rows + d)
      BY <1>4 DEF WriteItem
    <2>2. via \in Names \cup {None}
      BY ActorsAreApps
    <2> QED BY <1>4, <2>1, <2>2, WroteStep
  <1>5. CASE Step /\ UNCHANGED found
    BY <1>1, <1>2, <1>3, <1>4, <1>5, PlanStep, SettingStep, AgeStep DEF Step
  <1>6. CASE \E e \in Entries : FindForInstall(e)
    BY <1>6, FindStep
  <1>7. CASE InstallFromStore
    <2>1. found' = None
      BY <1>7 DEF InstallFromStore
    <2>2. CASE \E n \in Names : SomeSave(n)
      BY <2>1, <2>2, SomeSaveStep
    <2>3. CASE UNCHANGED <<seq, registry, data, plan, ages, ghosts>>
      <3>1. /\ seq' = seq /\ UNCHANGED <<registry, coll, settings, plan, lineage, maker, preimage>> /\ app' = app
        BY <2>3 DEF registry, data, ghosts
      <3>2. FromTheStore'
        BY <2>1, <3>1, StoreStands DEF RegistryInv, RegistryTypes
      <3>3. PlanIsDated'
        BY <3>1 DEF RegistryInv, PlanIsDated
      <3> QED BY <3>1, <3>2, <3>3, QuietStep DEF RegistryInv, RegistryTypes, Dated
    <2> QED BY <1>7, <2>2, <2>3, InstallIsOne
  <1>8. CASE UNCHANGED vars
    <2>1. /\ seq' = seq /\ UNCHANGED <<registry, coll, settings, plan, lineage, maker, preimage>> /\ app' = app
          /\ found' = found
      BY <1>8 DEF vars, registry, data, ghosts
    <2>2. FromTheStore'
      BY <2>1, StoreStands DEF RegistryInv, RegistryTypes
    <2>3. PlanIsDated'
      BY <2>1 DEF RegistryInv, PlanIsDated
    <2> QED BY <2>1, <2>2, <2>3, QuietStep DEF RegistryInv, RegistryTypes, Dated
  <1> QED BY <1>5, <1>6, <1>7, <1>8 DEF Next

\* The registry's invariant, whatever is saved, restored, undone, deleted, purged, written or installed.
THEOREM RegistryInvariance == Spec => []RegistryInv
  <1>1. Init => RegistryInv
    BY RegistryInitInv
  <1>2. RegistryInv /\ [Next]_vars => RegistryInv'
    BY StepKeeps
  <1> QED BY <1>1, <1>2, PTL DEF Spec

----------------------------------------------------------------------------
(* What a step may never do.                                               *)

\* A purge goes by the world the user was shown.
LEMMA PurgeGoesByThePlan ==
  ASSUME RegistryInv, NEW n \in Names, Purge(n)
  PROVE  /\ \A c \in Exclusive(n) : coll[c].last <= plan.at
         /\ n \in settings.groups => settings.last <= plan.at
         /\ app[n].version <= plan.at
  <1>1. plan # None /\ plan.world = World(n)
    BY DEF Purge
  <1>2. /\ plan.world[1] <= plan.at /\ plan.world[3] <= plan.at
        /\ \A p \in plan.world[2] : p[2] <= plan.at
    BY <1>1 DEF RegistryInv, PlanIsDated
  <1>3. /\ World(n)[1] = app[n].version /\ World(n)[3] = settings.last
        /\ World(n)[2] = {<<c, coll[c].last>> : c \in Candidates(n)}
    BY DEF World
  <1>4. Exclusive(n) \subseteq Candidates(n)
    BY DEF Exclusive
  <1>5. ASSUME NEW c \in Exclusive(n) PROVE coll[c].last <= plan.at
    <2>1. <<c, coll[c].last>> \in plan.world[2]
      BY <1>1, <1>3, <1>4
    <2> QED BY <1>2, <2>1
  <1> QED BY <1>1, <1>2, <1>3, <1>5

\* Nothing a purge destroys was written after the user was asked.
THEOREM NoUnseenLoss == Spec => NothingUnseenDestroyed
  <1>1. ASSUME RegistryInv, [Next]_vars
        PROVE  [\A n \in Names : Purge(n) =>
                  /\ \A c \in Exclusive(n) : coll[c].last <= plan.at
                  /\ n \in settings.groups => settings.last <= plan.at
                  /\ app[n].version <= plan.at]_vars
    BY <1>1, PurgeGoesByThePlan
  <1> QED BY <1>1, RegistryInvariance, PTL DEF Spec, NothingUnseenDestroyed

LEMMA UndoRestoresSlots ==
  ASSUME RegistryInv, NEW n \in Names, Undo(n), preimage[n] # None
  PROVE  Slots(app'[n]) = preimage[n]
  <1> DEFINE h == RevisionBelow(n, Last(log[n]).seq)
  <1>1. /\ SaveApp(n, "human", None, h.ui, h.manifest, None)
        /\ h \in history[n] /\ h.version < Last(log[n]).seq
        /\ \A g \in history[n] : g.version < Last(log[n]).seq => g.version <= h.version
        /\ h.ui \in Documents /\ h.manifest \in Manifests /\ h.ui # Omitted /\ h.manifest # Omitted
    BY UndoSaves
  <1>2. log[n] # <<>> /\ Last(log[n]).kind = "saved"
    BY DEF Undo
  <1> HIDE DEF h
  <1>3. Slots(h) = preimage[n]
    BY <1>1, <1>2 DEF RegistryInv, PreImages
  <1>4. "human" \in Authors
    BY DEF Authors
  <1>5. PICK row \in AppRows, r \in AppRevisions, e \in AppEvents :
          SaveWrites(n, "human", h.ui, h.manifest, None, row, r, e)
    BY <1>1, <1>4, SaveIs
  <1>6. app'[n] = row /\ row.ui = h.ui /\ row.manifest = h.manifest
    BY <1>1, <1>5 DEF SaveWrites, RegistryInv, RegistryTypes
  <1> QED BY <1>3, <1>6 DEF Slots

\* Undo of a save puts back every slot the save replaced, whatever was swept since.
THEOREM UndoIsExact == Spec => UndoGivesPreImage
  <1>1. ASSUME RegistryInv, [Next]_vars
        PROVE  [\A n \in Names : Undo(n) /\ preimage[n] # None => Slots(app'[n]) = preimage[n]]_vars
    BY <1>1, UndoRestoresSlots
  <1> QED BY <1>1, RegistryInvariance, PTL DEF Spec, UndoGivesPreImage

LEMMA UpdateReplacesItsOwn ==
  ASSUME RegistryInv, InstallFromStore, found.version # None, app' # app
  PROVE  \E e \in Entries : e.name = found.entry.name /\ Slots(app[e.name]) = Slots(e)
  <1> DEFINE x == found.entry
  <1>1. x \in Entries /\ x.name \in Names
    BY EntriesShape DEF InstallFromStore, RegistryInv, FromTheStore
  <1>2. SaveApp(x.name, "library", ExpectedByInstall, x.ui, x.manifest, None)
    BY DEF InstallFromStore, registry
  <1>3. app[x.name] # None /\ app[x.name].version = found.version
    BY <1>2 DEF SaveApp, MaySave, ExpectedByInstall
  <1>4. app[x.name].author = "library"
    BY <1>1, <1>3 DEF InstallFromStore, RegistryInv, FromTheStore
  <1>5. PICK e \in Entries : e.name = x.name /\ Slots(e) = Slots(app[x.name])
    BY <1>1, <1>3, <1>4 DEF RegistryInv, FromTheStore
  <1> QED BY <1>5

\* An App Store update replaces nothing but a document of the App Store.
THEOREM UpdatesSpareEdits == Spec => StoreUpdatesKeepEdits
  <1>1. ASSUME RegistryInv, [Next]_vars
        PROVE  [InstallFromStore /\ found.version # None /\ app' # app =>
                  \E e \in Entries : e.name = found.entry.name /\ Slots(app[e.name]) = Slots(e)]_vars
    BY <1>1, UpdateReplacesItsOwn
  <1> QED BY <1>1, RegistryInvariance, PTL DEF Spec, StoreUpdatesKeepEdits
----------------------------------------------------------------------------
(* The lives of an app, told from its events alone: R is the set of them.   *)

SavedIn(R) == {e.seq : e \in {x \in R : x.kind = "saved"}}
DeletedIn(R) == {e.seq : e \in {x \in R : x.kind = "deleted"}}
StartIn(R) == Latest({d \in DeletedIn(R) : \E s \in SavedIn(R) : s > d})
StartBefore(R, at) == Latest({d \in DeletedIn(R) : d < at /\ \E s \in SavedIn(R) : d < s /\ s < at})
FirstAfter(R, l) == Earliest({s \in SavedIn(R) : s > l})
FromIn(R, at) == LET e == {x \in R : x.seq = at} IN (CHOOSE x \in e : TRUE).from

\* A life that opened by restoring the one before.
Reopened(R, l) ==
  /\ l > 0 /\ FirstAfter(R, l) > 0 /\ FromIn(R, FirstAfter(R, l)) # None
  /\ FromIn(R, FirstAfter(R, l)) < l /\ FromIn(R, FirstAfter(R, l)) > StartBefore(R, l)

BornStep(R, b) ==
  [l \in 0 .. MaxSeq |->
    LET first == FirstAfter(R, l)
        from == IF first > 0 THEN FromIn(R, first) ELSE None
        prev == StartBefore(R, l)
    IN  IF l > 0 /\ first > 0 /\ from # None /\ from < l /\ from > prev THEN b[prev] ELSE first]

BornIn(R) == (CHOOSE b : b = BornStep(R, b))[StartIn(R)]

\* The events of one app in a ledger of k events.
Account(R, k) == k \in Nat /\ k <= MaxSeq /\ R \subseteq AppEvents /\ \A x \in R : x.seq \in 1..k

LEMMA TheAccount ==
  ASSUME NEW n \in Names
  PROVE  /\ Saved(n) = SavedIn(Range(log[n])) /\ Deleted(n) = DeletedIn(Range(log[n]))
         /\ LifeStart(n) = StartIn(Range(log[n])) /\ CompBorn(n) = BornIn(Range(log[n]))
         /\ AppBirth(n) = FirstAfter(Range(log[n]), StartIn(Range(log[n])))
  <1>1. Saved(n) = SavedIn(Range(log[n])) /\ Deleted(n) = DeletedIn(Range(log[n]))
    BY Zenon DEF Saved, Deleted, SavedIn, DeletedIn
  <1>2. LifeStart(n) = StartIn(Range(log[n]))
    BY Zenon DEF LifeStart, StartIn, Saved, Deleted, SavedIn, DeletedIn
  <1>3. AppBirth(n) = FirstAfter(Range(log[n]), StartIn(Range(log[n])))
    BY Zenon DEF AppBirth, FirstSaveAfter, FirstAfter, LifeStart, StartIn, Saved, Deleted, SavedIn, DeletedIn
  <1>4. CompBorn(n) = BornIn(Range(log[n]))
    BY Zenon DEF CompBorn, BornIn, BornStep, FirstSaveAfter, FirstAfter, LifeStart, StartIn, LifeStartBefore,
       StartBefore, RestoredFrom, FromIn, Saved, Deleted, SavedIn, DeletedIn
  <1> QED BY <1>1, <1>2, <1>3, <1>4

LEMMA AccountTypes ==
  ASSUME NEW R, NEW k, Account(R, k)
  PROVE  SavedIn(R) \subseteq 1..k /\ DeletedIn(R) \subseteq 1..k
  BY DEF Account, SavedIn, DeletedIn

LEMMA StartIs ==
  ASSUME NEW R, NEW k, Account(R, k)
  PROVE  /\ StartIn(R) \in 0..k
         /\ StartIn(R) # 0 => StartIn(R) \in DeletedIn(R)
         /\ SavedIn(R) # {} => \E s \in SavedIn(R) : s > StartIn(R)
         /\ \A d \in DeletedIn(R) : (\E s \in SavedIn(R) : s > d) => d <= StartIn(R)
  <1> DEFINE S == {d \in DeletedIn(R) : \E s \in SavedIn(R) : s > d}
  <1>1. k \in Nat /\ S \subseteq 0..k /\ SavedIn(R) \subseteq 1..k
    BY AccountTypes DEF Account
  <1>2. StartIn(R) = Latest(S)
    BY DEF StartIn
  <1>3. /\ Latest(S) \in Nat /\ Latest(S) <= k /\ (S # {} => Latest(S) \in S) /\ (S = {} => Latest(S) = 0)
        /\ \A x \in S : x <= Latest(S)
    <2> HIDE DEF S
    <2> QED BY <1>1, LatestIs
  <1> QED BY <1>1, <1>2, <1>3

LEMMA BeforeIs ==
  ASSUME NEW R, NEW k, Account(R, k), NEW l \in 0..MaxSeq
  PROVE  StartBefore(R, l) \in 0..MaxSeq /\ StartBefore(R, l) <= l /\ (l > 0 => StartBefore(R, l) < l)
  <1> DEFINE S == {d \in DeletedIn(R) : d < l /\ \E s \in SavedIn(R) : d < s /\ s < l}
  <1>1. k \in Nat /\ k <= MaxSeq /\ MaxSeq \in Nat /\ S \subseteq 0..k
    BY AccountTypes, RegistryBounds DEF Account
  <1>2. StartBefore(R, l) = Latest(S)
    BY DEF StartBefore
  <1>3. Latest(S) \in Nat /\ Latest(S) <= k /\ (S # {} => Latest(S) \in S) /\ (S = {} => Latest(S) = 0)
    <2> HIDE DEF S
    <2> QED BY <1>1, LatestIs
  <1> QED BY <1>1, <1>2, <1>3

LEMMA FirstIs ==
  ASSUME NEW R, NEW k, Account(R, k), NEW l \in Nat
  PROVE  /\ FirstAfter(R, l) \in Nat
         /\ (\E s \in SavedIn(R) : s > l) => FirstAfter(R, l) \in SavedIn(R) /\ FirstAfter(R, l) > l
         /\ \A s \in SavedIn(R) : s > l => FirstAfter(R, l) <= s
         /\ FirstAfter(R, l) # 0 => \E s \in SavedIn(R) : s > l
  <1> DEFINE S == {s \in SavedIn(R) : s > l}
  <1>1. S \subseteq Nat
    BY AccountTypes DEF Account
  <1>2. FirstAfter(R, l) = Earliest(S)
    BY DEF FirstAfter
  <1>3. /\ Earliest(S) \in Nat /\ (S # {} => Earliest(S) \in S /\ \A x \in S : Earliest(S) <= x)
        /\ (S = {} => Earliest(S) = 0)
    <2> HIDE DEF S
    <2> QED BY <1>1, EarliestIs
  <1> QED BY <1>2, <1>3

\* A recursion that only goes down has a solution.
GoesDown(m, S, P) == \A l \in 0..m : l \in S => P[l] < l
Solves(m, S, P, V, f) == \A l \in 0..m : f[l] = IF l \in S THEN f[P[l]] ELSE V[l]

LEMMA Downwards ==
  ASSUME NEW m \in Nat, NEW S \in SUBSET (0..m), NEW P \in [0..m -> 0..m], NEW V \in [0..m -> Nat],
         GoesDown(m, S, P)
  PROVE  \E f : Solves(m, S, P, V, f)
  <1> USE DEF GoesDown
  <1> DEFINE Upto(f, k) == \A l \in 0..m : l < k => f[l] = IF l \in S THEN f[P[l]] ELSE V[l]
             T == {k \in 0..m + 1 : ~ \E f : Upto(f, k)}
  <1>1. T = {}
    <2> SUFFICES ASSUME T # {} PROVE FALSE
      OBVIOUS
    <2>1. T \subseteq Nat
      OBVIOUS
    <2>2. PICK k \in T : \A j \in T : k <= j
      <3> HIDE DEF T
      <3> QED BY <2>1, LeastNat
    <2>3. k \in 0..m + 1 /\ ~ \E f : Upto(f, k)
      BY <2>2
    <2>4. k # 0
      <3>1. ASSUME k = 0 PROVE Upto(V, k)
        BY <3>1
      <3> QED BY <2>3, <3>1
    <2>5. k - 1 \in 0..m /\ k - 1 \in 0..m + 1
      BY <2>3, <2>4
    <2>6. k - 1 \notin T
      <3>1. ~ (k <= k - 1)
        BY <2>3
      <3> HIDE DEF T
      <3> QED BY <2>2, <3>1
    <2>7. PICK f : Upto(f, k - 1)
      BY <2>5, <2>6
    <2> DEFINE j == k - 1
               g == [l \in 0..m |-> IF l = j THEN IF j \in S THEN f[P[j]] ELSE V[j] ELSE f[l]]
    <2>8. Upto(g, k)
      <3> SUFFICES ASSUME NEW l \in 0..m, l < k PROVE g[l] = IF l \in S THEN g[P[l]] ELSE V[l]
        OBVIOUS
      <3>1. l \in S => P[l] \in 0..m /\ P[l] < l
        OBVIOUS
      <3>2. CASE l = j
        <4>1. l \in S => g[P[l]] = f[P[l]]
          BY <3>1, <3>2
        <4> QED BY <3>2, <4>1
      <3>3. CASE l # j
        <4>1. l < j
          <5> HIDE DEF Upto, g
          <5> QED BY <2>3, <3>3
        <4>2. f[l] = IF l \in S THEN f[P[l]] ELSE V[l]
          BY <2>7, <4>1
        <4>3. l \in S => g[P[l]] = f[P[l]]
          BY <3>1, <4>1, <2>5
        <4> QED BY <3>3, <4>2, <4>3
      <3> QED BY <3>2, <3>3
    <2> QED BY <2>3, <2>8
  <1>2. m + 1 \in 0..m + 1
    OBVIOUS
  <1>3. PICK f : Upto(f, m + 1)
    BY <1>1, <1>2
  <1>4. \A l \in 0..m : f[l] = IF l \in S THEN f[P[l]] ELSE V[l]
    BY <1>3
  <1> QED BY <1>4 DEF Solves

\* The birth, unfolded once.
Births(R, b) ==
  \A l \in 0..MaxSeq : b[l] = IF Reopened(R, l) THEN b[StartBefore(R, l)] ELSE FirstAfter(R, l)

LEMMA BornIs ==
  ASSUME NEW R, NEW k, Account(R, k)
  PROVE  \E b : BornIn(R) = b[StartIn(R)] /\ Births(R, b)
  <1> DEFINE S == {l \in 0..MaxSeq : Reopened(R, l)}
             P == [l \in 0..MaxSeq |-> StartBefore(R, l)]
             V == [l \in 0..MaxSeq |-> FirstAfter(R, l)]
  <1>1. MaxSeq \in Nat /\ P \in [0..MaxSeq -> 0..MaxSeq] /\ \A l \in 0..MaxSeq : l \in S => P[l] < l
    BY BeforeIs, RegistryBounds DEF Reopened
  <1>2. S \in SUBSET (0..MaxSeq) /\ V \in [0..MaxSeq -> Nat]
    BY FirstIs, RegistryBounds
  <1>3. PICK h : \A l \in 0..MaxSeq : h[l] = IF l \in S THEN h[P[l]] ELSE V[l]
    <2>1. GoesDown(MaxSeq, S, P)
      BY <1>1 DEF GoesDown
    <2> HIDE DEF S, P, V
    <2>2. \E h : Solves(MaxSeq, S, P, V, h)
      BY <1>1, <1>2, <2>1, Downwards
    <2> QED BY <2>2 DEF Solves
  <1> DEFINE f == [l \in 0..MaxSeq |-> h[l]]
  <1>4. ASSUME NEW g, NEW l \in 0..MaxSeq
        PROVE  (IF l \in S THEN g[P[l]] ELSE V[l]) = BornStep(R, g)[l]
    <2>1. P[l] = StartBefore(R, l) /\ V[l] = FirstAfter(R, l) /\ (l \in S <=> Reopened(R, l))
      OBVIOUS
    <2>2. (l \in S) <=>
            (l > 0 /\ FirstAfter(R, l) > 0 /\ FromIn(R, FirstAfter(R, l)) # None
               /\ FromIn(R, FirstAfter(R, l)) < l /\ FromIn(R, FirstAfter(R, l)) > StartBefore(R, l))
      BY DEF Reopened
    <2> HIDE DEF S, P, V
    <2> QED BY <2>1, <2>2 DEF BornStep
  <1>5. \A l \in 0..MaxSeq : h[l] = IF l \in S THEN f[P[l]] ELSE V[l]
    <2>1. \A l \in 0..MaxSeq : P[l] \in 0..MaxSeq
      BY <1>1
    <2> HIDE DEF S, P, V
    <2>2. \A l \in 0..MaxSeq : f[P[l]] = h[P[l]]
      BY <2>1
    <2> HIDE DEF f
    <2> QED BY <1>3, <2>2
  <1>6. f = BornStep(R, f)
    <2>1. \A l \in 0..MaxSeq : (IF l \in S THEN f[P[l]] ELSE V[l]) = BornStep(R, f)[l]
      BY <1>4
    <2>2. BornStep(R, f) = [l \in 0..MaxSeq |-> BornStep(R, f)[l]]
      BY DEF BornStep
    <2>3. f = [l \in 0..MaxSeq |-> h[l]]
      OBVIOUS
    <2> HIDE DEF S, P, V, f
    <2> QED BY <1>5, <2>1, <2>2, <2>3
  <1> DEFINE b == CHOOSE g : g = BornStep(R, g)
  <1>7. b = BornStep(R, b) /\ BornIn(R) = b[StartIn(R)]
    BY Zenon, <1>6 DEF BornIn
  <1> HIDE DEF b
  <1>8. ASSUME NEW l \in 0..MaxSeq
        PROVE  b[l] = IF Reopened(R, l) THEN b[StartBefore(R, l)] ELSE FirstAfter(R, l)
    BY <1>4, <1>7
  <1> QED BY <1>7, <1>8 DEF Births
\* One more event, after all the others.
Grows(R, k, e) == Account(R, k) /\ e \in AppEvents /\ k < e.seq /\ e.seq <= MaxSeq

LEMMA Grown ==
  ASSUME NEW R, NEW k, NEW e, Grows(R, k, e)
  PROVE  /\ Account(R \cup {e}, e.seq)
         /\ SavedIn(R \cup {e}) = SavedIn(R) \cup (IF e.kind = "saved" THEN {e.seq} ELSE {})
         /\ DeletedIn(R \cup {e}) = DeletedIn(R) \cup (IF e.kind = "deleted" THEN {e.seq} ELSE {})
         /\ \A at \in 1..k : FromIn(R \cup {e}, at) = FromIn(R, at)
         /\ FromIn(R \cup {e}, e.seq) = e.from
  <1>1. k \in Nat /\ e.seq \in Nat /\ e.seq \in 1..e.seq /\ \A x \in R : x.seq \in 1..k /\ x.seq \in 1..e.seq
    BY DEF Grows, Account, AppEvents
  <1>2. Account(R \cup {e}, e.seq)
    BY <1>1 DEF Grows, Account
  <1>3. SavedIn(R \cup {e}) = SavedIn(R) \cup (IF e.kind = "saved" THEN {e.seq} ELSE {})
    BY DEF SavedIn
  <1>4. DeletedIn(R \cup {e}) = DeletedIn(R) \cup (IF e.kind = "deleted" THEN {e.seq} ELSE {})
    BY DEF DeletedIn
  <1>5. ASSUME NEW at \in 1..k PROVE FromIn(R \cup {e}, at) = FromIn(R, at)
    <2>1. e.seq # at
      BY <1>1 DEF Grows
    <2>2. {x \in R \cup {e} : x.seq = at} = {x \in R : x.seq = at}
      BY <2>1
    <2> QED BY <2>2 DEF FromIn
  <1>6. FromIn(R \cup {e}, e.seq) = e.from
    <2>1. {x \in R \cup {e} : x.seq = e.seq} = {e}
      BY <1>1 DEF Grows
    <2>2. (CHOOSE x \in {e} : TRUE) = e
      OBVIOUS
    <2> QED BY <2>1, <2>2 DEF FromIn
  <1> QED BY <1>2, <1>3, <1>4, <1>5, <1>6

\* It tells nothing new of the lives before the last save.
LEMMA PastStands ==
  ASSUME NEW R, NEW k, NEW e, Grows(R, k, e), NEW l \in Nat, \E s \in SavedIn(R) : s > l
  PROVE  /\ FirstAfter(R \cup {e}, l) = FirstAfter(R, l) /\ FirstAfter(R, l) \in 1..k
         /\ StartBefore(R \cup {e}, l) = StartBefore(R, l)
         /\ Reopened(R \cup {e}, l) <=> Reopened(R, l)
  <1> DEFINE R2 == R \cup {e}
  <1>1. /\ Account(R, k) /\ Account(R2, e.seq) /\ k \in Nat /\ e.seq \in Nat /\ k < e.seq
        /\ SavedIn(R2) \subseteq SavedIn(R) \cup {e.seq} /\ SavedIn(R) \subseteq SavedIn(R2)
        /\ DeletedIn(R2) \subseteq DeletedIn(R) \cup {e.seq} /\ DeletedIn(R) \subseteq DeletedIn(R2)
        /\ SavedIn(R) \subseteq 1..k /\ DeletedIn(R) \subseteq 1..k
        /\ \A at \in 1..k : FromIn(R2, at) = FromIn(R, at)
    <2>1. Account(R, k) /\ k \in Nat /\ e.seq \in Nat /\ k < e.seq
      BY DEF Grows, Account, AppEvents
    <2>2. SavedIn(R) \subseteq 1..k /\ DeletedIn(R) \subseteq 1..k
      BY <2>1, AccountTypes
    <2>3. /\ Account(R2, e.seq)
          /\ SavedIn(R2) = SavedIn(R) \cup (IF e.kind = "saved" THEN {e.seq} ELSE {})
          /\ DeletedIn(R2) = DeletedIn(R) \cup (IF e.kind = "deleted" THEN {e.seq} ELSE {})
          /\ \A a \in 1..k : FromIn(R2, a) = FromIn(R, a)
          /\ FromIn(R2, e.seq) = e.from
      BY Grown
    <2> HIDE DEF R2
    <2> QED BY <2>1, <2>2, <2>3
  <1> HIDE DEF R2
  <1>2. PICK s \in SavedIn(R) : s > l
    OBVIOUS
  <1>3. FirstAfter(R, l) \in SavedIn(R) /\ FirstAfter(R, l) > l /\ \A t \in SavedIn(R) : t > l => FirstAfter(R, l) <= t
    BY <1>1, <1>2, FirstIs
  <1>4. FirstAfter(R2, l) \in SavedIn(R2) /\ FirstAfter(R2, l) > l /\ \A t \in SavedIn(R2) : t > l => FirstAfter(R2, l) <= t
    BY <1>1, <1>2, FirstIs
  <1>5. FirstAfter(R2, l) <= FirstAfter(R, l) /\ FirstAfter(R, l) \in 1..k
    BY <1>1, <1>3, <1>4
  <1>6. FirstAfter(R2, l) \in SavedIn(R)
    BY <1>1, <1>4, <1>5
  <1>7. FirstAfter(R, l) <= FirstAfter(R2, l)
    BY <1>3, <1>4, <1>6
  <1>8. FirstAfter(R2, l) = FirstAfter(R, l)
    BY <1>1, <1>5, <1>6, <1>7
  <1>9. {d \in DeletedIn(R2) : d < l /\ \E t \in SavedIn(R2) : d < t /\ t < l}
          = {d \in DeletedIn(R) : d < l /\ \E t \in SavedIn(R) : d < t /\ t < l}
    <2>1. l < k
      BY <1>1, <1>2
    <2>2. ~ (e.seq < l)
      BY <1>1, <2>1
    <2> QED BY <1>1, <2>2
  <1>10. StartBefore(R2, l) = StartBefore(R, l)
    BY <1>9 DEF StartBefore
  <1>11. FromIn(R2, FirstAfter(R, l)) = FromIn(R, FirstAfter(R, l))
    BY <1>1, <1>5
  <1>12. Reopened(R2, l) <=> Reopened(R, l)
    BY <1>8, <1>10, <1>11 DEF Reopened
  <1> QED BY <1>5, <1>8, <1>10, <1>12 DEF R2

\* Nor of the births of those lives.
LEMMA BirthsStand ==
  ASSUME NEW R, NEW k, NEW e, Grows(R, k, e), SavedIn(R) # {},
         NEW b, Births(R, b), NEW c, Births(R \cup {e}, c)
  PROVE  c[StartIn(R)] = b[StartIn(R)]
  <1> DEFINE T == {l \in 0..StartIn(R) : c[l] # b[l]}
  <1>1. Account(R, k) /\ k \in Nat /\ k <= MaxSeq /\ MaxSeq \in Nat
    BY RegistryBounds DEF Grows, Account
  <1>2. StartIn(R) \in 0..k /\ \E s \in SavedIn(R) : s > StartIn(R)
    BY <1>1, StartIs
  <1>3. SavedIn(R) \subseteq 1..k
    BY <1>1, AccountTypes
  <1>4. T = {}
    <2> SUFFICES ASSUME T # {} PROVE FALSE
      OBVIOUS
    <2>1. T \subseteq Nat
      OBVIOUS
    <2>2. PICK l \in T : \A j \in T : l <= j
      <3> HIDE DEF T
      <3> QED BY <2>1, LeastNat
    <2>3. l \in Nat /\ l \in 0..MaxSeq /\ l <= StartIn(R) /\ c[l] # b[l]
      BY <1>1, <1>2
    <2>4. \E s \in SavedIn(R) : s > l
      BY <1>2, <1>3, <2>3
    <2>5. /\ FirstAfter(R \cup {e}, l) = FirstAfter(R, l) /\ StartBefore(R \cup {e}, l) = StartBefore(R, l)
          /\ Reopened(R \cup {e}, l) <=> Reopened(R, l)
      BY <2>3, <2>4, PastStands
    <2>6. Reopened(R, l)
      BY <2>3, <2>5 DEF Births
    <2>7. c[l] = c[StartBefore(R, l)] /\ b[l] = b[StartBefore(R, l)]
      BY <2>3, <2>5, <2>6 DEF Births
    <2>8. StartBefore(R, l) \in 0..MaxSeq /\ StartBefore(R, l) < l
      <3>1. l > 0
        BY <2>6 DEF Reopened
      <3> QED BY <1>1, <2>3, <3>1, BeforeIs
    <2>9. StartBefore(R, l) \in T
      BY <1>2, <2>3, <2>7, <2>8
    <2> HIDE DEF T
    <2> QED BY <2>2, <2>3, <2>8, <2>9
  <1>5. StartIn(R) \in 0..StartIn(R)
    BY <1>2
  <1> QED BY <1>4, <1>5

LEMMA BirthStands ==
  ASSUME NEW R, NEW k, NEW e, Grows(R, k, e), SavedIn(R) # {}, StartIn(R \cup {e}) = StartIn(R)
  PROVE  BornIn(R \cup {e}) = BornIn(R)
  <1>1. Account(R, k) /\ Account(R \cup {e}, e.seq)
    BY Grown DEF Grows
  <1>2. PICK b : BornIn(R) = b[StartIn(R)] /\ Births(R, b)
    BY <1>1, BornIs
  <1>3. PICK c : BornIn(R \cup {e}) = c[StartIn(R \cup {e})] /\ Births(R \cup {e}, c)
    BY <1>1, BornIs
  <1> QED BY <1>2, <1>3, BirthsStand

\* Deleting an app, or saving it while it is there, opens no life.
LEMMA LifeGoesOn ==
  ASSUME NEW R, NEW k, NEW e, Grows(R, k, e),
         e.kind = "saved" => \E s \in SavedIn(R) : \A d \in DeletedIn(R) : d < s
  PROVE  StartIn(R \cup {e}) = StartIn(R)
  <1>1. /\ Account(R, k) /\ k \in Nat /\ e.seq \in Nat /\ k < e.seq /\ e.kind \in {"saved", "deleted"}
        /\ SavedIn(R \cup {e}) = SavedIn(R) \cup (IF e.kind = "saved" THEN {e.seq} ELSE {})
        /\ DeletedIn(R \cup {e}) = DeletedIn(R) \cup (IF e.kind = "deleted" THEN {e.seq} ELSE {})
        /\ SavedIn(R) \subseteq 1..k /\ DeletedIn(R) \subseteq 1..k
    BY Grown, AccountTypes DEF Grows, Account, AppEvents
  <1>2. {d \in DeletedIn(R \cup {e}) : \E s \in SavedIn(R \cup {e}) : s > d}
          = {d \in DeletedIn(R) : \E s \in SavedIn(R) : s > d}
    <2>1. CASE e.kind = "saved"
      <3>1. PICK s \in SavedIn(R) : \A d \in DeletedIn(R) : d < s
        BY <2>1
      <3> QED BY <1>1, <2>1, <3>1
    <2>2. CASE e.kind = "deleted"
      BY <1>1, <2>2
    <2> QED BY <1>1, <2>1, <2>2
  <1> QED BY <1>2 DEF StartIn

\* A save of an app that is not there opens one: a new birth, or that of the life it restores.
LEMMA LifeOpens ==
  ASSUME NEW R, NEW k, NEW e, Grows(R, k, e), e.kind = "saved",
         \A s \in SavedIn(R) : \E d \in DeletedIn(R) : s < d
  PROVE  /\ e.from = None => BornIn(R \cup {e}) = e.seq
         /\ e.from \in SavedIn(R) /\ e.from > StartIn(R) => BornIn(R \cup {e}) = BornIn(R)
  <1> DEFINE R2 == R \cup {e}
             at == StartIn(R2)
  <1>1. /\ Account(R, k) /\ Account(R2, e.seq) /\ k \in Nat /\ e.seq \in Nat /\ k < e.seq /\ k <= MaxSeq
        /\ SavedIn(R2) = SavedIn(R) \cup {e.seq} /\ DeletedIn(R2) = DeletedIn(R)
        /\ SavedIn(R) \subseteq 1..k /\ DeletedIn(R) \subseteq 1..k
        /\ FromIn(R2, e.seq) = e.from
    <2>1. Account(R, k) /\ k \in Nat /\ e.seq \in Nat /\ k < e.seq /\ k <= MaxSeq /\ "saved" # "deleted"
      BY DEF Grows, Account, AppEvents
    <2>2. SavedIn(R) \subseteq 1..k /\ DeletedIn(R) \subseteq 1..k
      BY <2>1, AccountTypes
    <2>3. /\ Account(R2, e.seq)
          /\ SavedIn(R2) = SavedIn(R) \cup (IF e.kind = "saved" THEN {e.seq} ELSE {})
          /\ DeletedIn(R2) = DeletedIn(R) \cup (IF e.kind = "deleted" THEN {e.seq} ELSE {})
          /\ \A a \in 1..k : FromIn(R2, a) = FromIn(R, a)
          /\ FromIn(R2, e.seq) = e.from
      BY Grown
    <2> HIDE DEF R2
    <2> QED BY <2>1, <2>2, <2>3
  <1> HIDE DEF R2
  <1>2. at \in Nat /\ (at # 0 => at \in DeletedIn(R)) /\ \A d \in DeletedIn(R) : d <= at
    BY <1>1, StartIs
  <1>3. at <= k
    BY <1>1, <1>2
  <1>4. \A s \in SavedIn(R) : s < at
    BY <1>1, <1>2
  <1>5. FirstAfter(R2, at) = e.seq
    <2>1. e.seq \in SavedIn(R2) /\ e.seq > at
      BY <1>1, <1>2, <1>3
    <2>2. FirstAfter(R2, at) \in SavedIn(R2) /\ FirstAfter(R2, at) > at
      BY <1>1, <1>2, <2>1, FirstIs
    <2> QED BY <1>1, <1>2, <1>4, <2>2
  <1>6. PICK c : BornIn(R2) = c[at] /\ Births(R2, c)
    BY <1>1, BornIs
  <1>7. at \in 0..MaxSeq
    BY <1>1, <1>2, <1>3, RegistryBounds
  <1>8. ASSUME e.from = None PROVE BornIn(R2) = e.seq
    BY <1>1, <1>5, <1>6, <1>7, <1>8 DEF Reopened, Births
  <1>9. ASSUME e.from \in SavedIn(R), e.from > StartIn(R) PROVE BornIn(R2) = BornIn(R)
    <2>1. StartBefore(R2, at) = StartIn(R)
      <3>1. {d \in DeletedIn(R2) : d < at /\ \E s \in SavedIn(R2) : d < s /\ s < at}
              = {d \in DeletedIn(R) : \E s \in SavedIn(R) : s > d}
        BY <1>1, <1>2, <1>3, <1>4
      <3> QED BY <3>1 DEF StartBefore, StartIn
    <2>2. e.from # None /\ e.from < at /\ e.from > StartIn(R) /\ e.seq > 0 /\ at > 0
      BY <1>1, <1>2, <1>4, <1>9, SentinelsAreApart
    <2>3. Reopened(R2, at)
      BY <1>1, <1>5, <2>1, <2>2 DEF Reopened
    <2>4. BornIn(R2) = c[StartIn(R)]
      BY <1>6, <1>7, <2>1, <2>3 DEF Births
    <2>5. PICK b : BornIn(R) = b[StartIn(R)] /\ Births(R, b)
      BY <1>1, BornIs
    <2>6. c[StartIn(R)] = b[StartIn(R)]
      BY <1>6, <1>9, <2>5, BirthsStand DEF R2
    <2> QED BY <2>4, <2>5, <2>6
  <1> QED BY <1>8, <1>9 DEF R2
----------------------------------------------------------------------------
(* Whose rows they are.                                                    *)

\* An app that is there was saved after all its deletes, one that is not was deleted after all its
\* saves, and the walk over its lives ends where its line of descent began.
OriginOf(n) ==
  /\ \A h \in history[n] : h.version \in Saved(n)
  /\ app[n] = None => \A s \in Saved(n) : \E d \in Deleted(n) : s < d
  /\ app[n] # None => app[n].version \in Saved(n) /\ \A d \in Deleted(n) : d < app[n].version
  /\ Saved(n) # {} => CompBorn(n) = lineage[n] /\ lineage[n] > 0

\* A collection that came after the line of descent its name bears came under it.
MakerOf(c) == c \in Names /\ coll[c].born > lineage[c] => maker[c] = lineage[c]

Origins == (\A n \in Names : OriginOf(n)) /\ (\A c \in Colls : MakerOf(c))

LEMMA AccountOf ==
  ASSUME RegistryInv, NEW n \in Names
  PROVE  Account(Range(log[n]), seq)
  <1> DEFINE R == Range(log[n])
  <1>1. seq \in Nat /\ seq <= MaxSeq /\ log[n] \in Seq(AppEvents) /\ Saved(n) \subseteq 1..seq /\ Deleted(n) \subseteq 1..seq
    BY DEF RegistryInv, RegistryTypes, Dated
  <1>2. R \subseteq AppEvents
    BY <1>1 DEF Range
  <1>3. ASSUME NEW x \in R PROVE x.seq \in 1..seq
    <2>1. x.kind \in {"saved", "deleted"}
      BY <1>2 DEF AppEvents
    <2>2. x.seq \in Saved(n) \/ x.seq \in Deleted(n)
      BY <2>1 DEF Saved, Deleted
    <2> QED BY <1>1, <2>2
  <1> QED BY <1>1, <1>2, <1>3 DEF Account

LEMMA TheNextAccount ==
  ASSUME NEW n \in Names
  PROVE  /\ Saved(n)' = SavedIn(Range(log'[n])) /\ Deleted(n)' = DeletedIn(Range(log'[n]))
         /\ CompBorn(n)' = BornIn(Range(log'[n]))
  <1>1. Saved(n)' = SavedIn(Range(log'[n])) /\ Deleted(n)' = DeletedIn(Range(log'[n]))
    BY Zenon DEF Saved, Deleted, SavedIn, DeletedIn
  <1>2. CompBorn(n)' = BornIn(Range(log'[n]))
    BY Zenon DEF CompBorn, BornIn, BornStep, FirstSaveAfter, FirstAfter, LifeStart, StartIn, LifeStartBefore,
       StartBefore, RestoredFrom, FromIn, Saved, Deleted, SavedIn, DeletedIn
  <1> QED BY <1>1, <1>2

LEMMA QuietOrigin ==
  ASSUME NEW n \in Names, OriginOf(n), log'[n] = log[n], app'[n] = app[n], lineage'[n] = lineage[n],
         \A h \in history'[n] : \E g \in history[n] : h.version = g.version
  PROVE  OriginOf(n)'
  <1>1. Saved(n)' = Saved(n) /\ Deleted(n)' = Deleted(n) /\ CompBorn(n)' = CompBorn(n)
    BY TheAccount, TheNextAccount
  <1> QED BY <1>1 DEF OriginOf

LEMMA SaveOrigin ==
  ASSUME RegistryInv, NEW n \in Names, NEW actor, NEW ui, NEW manifest, NEW from, NEW row \in AppRows,
         NEW r \in AppRevisions, NEW e \in AppEvents, SaveWrites(n, actor, ui, manifest, from, row, r, e),
         e.from # None => \E h \in Checkpoints(n) : h.version = e.from, OriginOf(n)
  PROVE  OriginOf(n)'
  <1> DEFINE R == Range(log[n])
  <1>1. Account(R, seq) /\ seq \in Nat /\ e.seq = seq + 1 /\ e.seq <= MaxSeq /\ e.kind = "saved" /\ seq' = seq + 1
    BY AccountOf DEF SaveWrites, Account
  <1>2. Grows(R, seq, e) /\ "saved" # "deleted"
    BY <1>1 DEF Grows
  <1>3. Range(log'[n]) = R \cup {e}
    BY LogGrows DEF SaveWrites, RegistryInv
  <1>4. /\ Saved(n) = SavedIn(R) /\ Deleted(n) = DeletedIn(R) /\ CompBorn(n) = BornIn(R) /\ LifeStart(n) = StartIn(R)
        /\ Saved(n)' = SavedIn(R \cup {e}) /\ Deleted(n)' = DeletedIn(R \cup {e}) /\ CompBorn(n)' = BornIn(R \cup {e})
    BY <1>3, TheAccount, TheNextAccount
  <1>5. SavedIn(R) \subseteq 1..seq /\ DeletedIn(R) \subseteq 1..seq
    BY <1>1, AccountTypes
  <1>6. SavedIn(R \cup {e}) = SavedIn(R) \cup {seq + 1} /\ DeletedIn(R \cup {e}) = DeletedIn(R)
    <2>1. /\ SavedIn(R \cup {e}) = SavedIn(R) \cup (IF e.kind = "saved" THEN {e.seq} ELSE {})
          /\ DeletedIn(R \cup {e}) = DeletedIn(R) \cup (IF e.kind = "deleted" THEN {e.seq} ELSE {})
      BY <1>2, Grown
    <2> QED BY <1>1, <1>2, <2>1
  <1>7. /\ app'[n] = row /\ row.version = seq + 1 /\ row # None
        /\ history'[n] \subseteq history[n] \cup {r} /\ r.version = seq + 1
        /\ lineage'[n] = IF app[n] # None \/ e.from # None THEN lineage[n] ELSE seq + 1
    BY SentinelsAreApart DEF SaveWrites, RegistryInv, RegistryTypes
  <1> HIDE DEF R
  <1>8. \A h \in history'[n] : h.version \in Saved(n)'
    BY <1>4, <1>6, <1>7 DEF OriginOf
  <1>9. app'[n].version \in Saved(n)' /\ \A d \in Deleted(n)' : d < app'[n].version
    <2>1. app'[n].version = seq + 1
      BY <1>7
    <2>2. \A d \in DeletedIn(R) : d < seq + 1
      BY <1>1, <1>5
    <2> QED BY <1>4, <1>6, <2>1, <2>2
  <1>10. CompBorn(n)' = lineage'[n] /\ lineage'[n] > 0
    <2>1. CASE app[n] # None
      <3>1. app[n].version \in SavedIn(R) /\ \A d \in DeletedIn(R) : d < app[n].version
        BY <1>4, <2>1 DEF OriginOf
      <3>2. StartIn(R \cup {e}) = StartIn(R)
        BY <1>2, <3>1, LifeGoesOn
      <3>3. BornIn(R \cup {e}) = BornIn(R)
        BY <1>2, <3>1, <3>2, BirthStands
      <3> QED BY <1>4, <1>7, <2>1, <3>1, <3>3 DEF OriginOf
    <2>2. CASE app[n] = None
      <3>1. \A s \in SavedIn(R) : \E d \in DeletedIn(R) : s < d
        BY <1>4, <2>2 DEF OriginOf
      <3>2. CASE e.from = None
        <4>1. BornIn(R \cup {e}) = seq + 1
          BY <1>1, <1>2, <3>1, <3>2, LifeOpens
        <4> QED BY <1>1, <1>4, <1>7, <2>2, <3>2, <4>1
      <3>3. CASE e.from # None
        <4>1. PICK h \in history[n] : h.version = e.from /\ h.version > LifeStart(n)
          BY <3>3 DEF Checkpoints
        <4>2. e.from \in SavedIn(R) /\ e.from > StartIn(R)
          BY <1>4, <4>1 DEF OriginOf
        <4>3. BornIn(R \cup {e}) = BornIn(R)
          BY <1>1, <1>2, <3>1, <4>2, LifeOpens
        <4> QED BY <1>4, <1>7, <3>3, <4>2, <4>3 DEF OriginOf
      <3> QED BY <3>2, <3>3
    <2> QED BY <2>1, <2>2
  <1> QED BY <1>7, <1>8, <1>9, <1>10 DEF OriginOf

LEMMA DeleteOrigin ==
  ASSUME RegistryInv, RegistryInv', NEW n \in Names, NEW e \in AppEvents, e.seq = seq', e.kind = "deleted", seq' > seq,
         log' = [log EXCEPT ![n] = Append(@, e)], app'[n] = None, history' = history, lineage' = lineage, OriginOf(n)
  PROVE  OriginOf(n)'
  <1> DEFINE R == Range(log[n])
  <1>1. Account(R, seq) /\ seq \in Nat
    BY AccountOf DEF Account
  <1>2. Grows(R, seq, e) /\ "saved" # "deleted"
    BY <1>1 DEF Grows, RegistryInv, Dated
  <1>3. Range(log'[n]) = R \cup {e}
    BY LogGrows DEF RegistryInv
  <1>4. /\ Saved(n) = SavedIn(R) /\ Deleted(n) = DeletedIn(R) /\ CompBorn(n) = BornIn(R)
        /\ Saved(n)' = SavedIn(R \cup {e}) /\ Deleted(n)' = DeletedIn(R \cup {e}) /\ CompBorn(n)' = BornIn(R \cup {e})
    BY <1>3, TheAccount, TheNextAccount
  <1>5. SavedIn(R) \subseteq 1..seq
    BY <1>1, AccountTypes
  <1>6. SavedIn(R \cup {e}) = SavedIn(R) /\ DeletedIn(R \cup {e}) = DeletedIn(R) \cup {seq'}
    <2>1. /\ SavedIn(R \cup {e}) = SavedIn(R) \cup (IF e.kind = "saved" THEN {e.seq} ELSE {})
          /\ DeletedIn(R \cup {e}) = DeletedIn(R) \cup (IF e.kind = "deleted" THEN {e.seq} ELSE {})
      BY <1>2, Grown
    <2> QED BY <1>2, <2>1
  <1> HIDE DEF R
  <1>7. StartIn(R \cup {e}) = StartIn(R)
    BY <1>2, LifeGoesOn
  <1>8. SavedIn(R) # {} => BornIn(R \cup {e}) = BornIn(R)
    BY <1>2, <1>7, BirthStands
  <1>9. \A s \in Saved(n)' : \E d \in Deleted(n)' : s < d
    <2>1. \A s \in SavedIn(R) : s < seq'
      <3>1. seq' \in Nat
        BY DEF RegistryInv, RegistryTypes
      <3> QED BY <1>1, <1>5, <3>1
    <2> QED BY <1>4, <1>6, <2>1
  <1> QED BY <1>4, <1>6, <1>8, <1>9 DEF OriginOf
\* What a save leaves alone, and what it makes of the lines of descent.
LEMMA SaveOrigins ==
  ASSUME RegistryInv, Origins, NEW n \in Names, SomeSave(n)
  PROVE  Origins'
  <1>1. PICK actor \in Authors, row \in AppRows, r \in AppRevisions, e \in AppEvents : \E ui, manifest, from :
          /\ SaveWrites(n, actor, ui, manifest, from, row, r, e)
          /\ e.from # None => \E h \in Checkpoints(n) : h.version = e.from
    BY DEF SomeSave
  <1>2. PICK ui, manifest, from :
          /\ SaveWrites(n, actor, ui, manifest, from, row, r, e)
          /\ e.from # None => \E h \in Checkpoints(n) : h.version = e.from
    BY <1>1
  <1>3. OriginOf(n)'
    BY <1>2, SaveOrigin DEF Origins
  <1>4. /\ seq \in Nat /\ coll' = coll /\ maker' = maker
        /\ \A m \in Names : lineage'[m] \in {lineage[m], seq + 1} /\ lineage[m] \in Nat
        /\ \A m \in Names : m # n => /\ app'[m] = app[m] /\ history'[m] = history[m] /\ log'[m] = log[m]
                                     /\ lineage'[m] = lineage[m]
    BY <1>2 DEF SaveWrites, RegistryInv, RegistryTypes
  <1>5. \A m \in Names : OriginOf(m)'
    BY <1>3, <1>4, QuietOrigin DEF Origins
  <1>6. ASSUME NEW c \in Colls PROVE MakerOf(c)'
    <2>1. coll[c].born \in Nat /\ coll[c].born <= seq
      BY DEF RegistryInv, RegistryTypes, Dated, CollRows
    <2> SUFFICES ASSUME c \in Names, coll'[c].born > lineage'[c] PROVE maker'[c] = lineage'[c]
      BY DEF MakerOf
    <2>2. lineage'[c] = lineage[c]
      BY <1>4, <2>1
    <2> QED BY <1>4, <2>2 DEF Origins, MakerOf
  <1> QED BY <1>5, <1>6 DEF Origins

LEMMA DeleteOrigins ==
  ASSUME RegistryInv, Origins, NEW n \in Names, Delete(n) \/ Purge(n), found' = found
  PROVE  Origins'
  <1>1. PICK lost \in SUBSET Colls, group \in BOOLEAN : DeleteApp(n, lost, group) /\ plan' \in {plan, None}
    BY DeletesKeep
  <1>2. /\ RegistryInv'
        /\ seq' > seq /\ app'[n] = None /\ \A m \in Names : m # n => app'[m] = app[m] /\ log'[m] = log[m]
        /\ \E e \in AppEvents : e.seq = seq' /\ e.kind = "deleted" /\ log' = [log EXCEPT ![n] = Append(@, e)]
        /\ \A c \in Colls : coll'[c].born = coll[c].born
        /\ history' = history /\ lineage' = lineage /\ maker' = maker
    BY <1>1, DeleteStep DEF ghosts
  <1>3. OriginOf(n)'
    BY <1>2, DeleteOrigin DEF Origins
  <1>4. \A m \in Names : OriginOf(m)'
    BY <1>2, <1>3, QuietOrigin DEF Origins
  <1>5. \A c \in Colls : MakerOf(c)'
    BY <1>2 DEF Origins, MakerOf
  <1> QED BY <1>4, <1>5 DEF Origins

\* A collection is begun under the line of descent its name bears.
LEMMA BegunUnder ==
  ASSUME RegistryInv, Origins, NEW c \in Colls, UNCHANGED <<registry, lineage>>,
         \A d \in Colls : d # c => coll'[d].born = coll[d].born,
         coll'[c].born = IF coll[c].born = 0 THEN seq + 1 ELSE coll[c].born,
         maker' = IF coll[c].born = 0 /\ c \in Names THEN [maker EXCEPT ![c] = lineage[c]] ELSE maker
  PROVE  Origins'
  <1>1. app' = app /\ history' = history /\ log' = log /\ lineage' = lineage
    BY DEF registry
  <1>2. \A m \in Names : OriginOf(m)'
    BY <1>1, QuietOrigin DEF Origins
  <1>3. ASSUME NEW d \in Colls PROVE MakerOf(d)'
    <2>1. maker \in [Colls -> Nat]
      BY DEF RegistryInv, RegistryTypes
    <2>2. MakerOf(d)
      BY DEF Origins
    <2>3. CASE d = c
      <3>1. CASE coll[c].born = 0 /\ c \in Names
        <4>1. maker'[c] = lineage[c]
          BY <2>1, <3>1
        <4> QED BY <1>1, <2>3, <4>1 DEF MakerOf
      <3>2. CASE coll[c].born # 0 /\ c \in Names
        <4>1. maker' = maker /\ coll'[c].born = coll[c].born
          BY <3>2
        <4> QED BY <1>1, <2>2, <2>3, <4>1 DEF MakerOf
      <3>3. CASE c \notin Names
        BY <2>3, <3>3 DEF MakerOf
      <3> QED BY <3>1, <3>2, <3>3
    <2>4. CASE d # c
      <3>1. maker'[d] = maker[d] /\ coll'[d].born = coll[d].born
        BY <2>1, <2>4
      <3> QED BY <1>1, <2>2, <3>1 DEF MakerOf
    <2> QED BY <2>3, <2>4
  <1> QED BY <1>2, <1>3 DEF Origins

LEMMA QuietOrigins ==
  ASSUME Origins, app' = app, log' = log, lineage' = lineage, maker' = maker, coll' = coll,
         \A n \in Names : \A h \in history'[n] : \E g \in history[n] : h.version = g.version
  PROVE  Origins'
  BY QuietOrigin DEF Origins, MakerOf

LEMMA WroteOrigins ==
  ASSUME RegistryInv, Origins, NEW c \in Colls, NEW via, NEW rows, Wrote(c, via, rows)
  PROVE  Origins'
  <1>1. /\ UNCHANGED <<registry, lineage>> /\ coll \in [Colls -> CollRows] /\ seq' = seq + 1
        /\ maker' = IF coll[c].born = 0 /\ c \in Names THEN [maker EXCEPT ![c] = lineage[c]] ELSE maker
    BY DEF Wrote, RegistryInv, RegistryTypes
  <1> DEFINE w == [born |-> IF coll[c].born = 0 THEN seq + 1 ELSE coll[c].born, last |-> seq + 1, rows |-> rows,
                   via |-> IF via = None THEN coll[c].via ELSE coll[c].via \cup {via}]
  <1>2. coll' = [coll EXCEPT ![c] = w]
    BY DEF Wrote
  <1>3. w.born = IF coll[c].born = 0 THEN seq + 1 ELSE coll[c].born
    OBVIOUS
  <1> HIDE DEF w
  <1>4. coll'[c].born = (IF coll[c].born = 0 THEN seq + 1 ELSE coll[c].born)
        /\ \A d \in Colls : d # c => coll'[d].born = coll[d].born
    BY <1>1, <1>2, <1>3
  <1> QED BY <1>1, <1>4, BegunUnder

LEMMA OriginsStep ==
  ASSUME RegistryInv, Origins, [Next]_vars
  PROVE  Origins'
  <1>1. ASSUME NEW n \in Names, EditApp(n) \/ Restore(n) \/ Undo(n) PROVE Origins'
    BY <1>1, EditIsOne, SaveOrigins
  <1>2. ASSUME Save PROVE Origins'
    BY <1>2, SaveIsOne, SaveOrigins
  <1>3. ASSUME WriteItem PROVE Origins'
    BY <1>3, WroteOrigins DEF WriteItem
  <1>4. ASSUME NEW n \in Names, AskPurge(n) \/ WriteSetting(n) PROVE Origins'
    <2>1. app' = app /\ history' = history /\ log' = log /\ lineage' = lineage /\ maker' = maker /\ coll' = coll
      BY <1>4 DEF AskPurge, WriteSetting, registry, data, ghosts
    <2> QED BY <2>1, QuietOrigins
  <1>5. ASSUME Age PROVE Origins'
    <2>1. /\ app' = app /\ log' = log /\ lineage' = lineage /\ maker' = maker /\ coll' = coll
          /\ history' = [n \in Names |-> {[h EXCEPT !.old = TRUE] : h \in history[n]}]
      BY <1>5 DEF Age, data, ghosts
    <2>2. ASSUME NEW n \in Names PROVE \A h \in history'[n] : \E g \in history[n] : h.version = g.version
      <3>1. history[n] \subseteq AppRevisions /\ history'[n] = {[h EXCEPT !.old = TRUE] : h \in history[n]}
        BY <2>1 DEF RegistryInv, RegistryTypes
      <3> QED BY <3>1, AgedIs
    <2> QED BY <2>1, <2>2, QuietOrigins
  <1>6. CASE Step /\ UNCHANGED found
    BY <1>1, <1>2, <1>3, <1>4, <1>5, <1>6, DeleteOrigins DEF Step
  <1>7. CASE \E x \in Entries : FindForInstall(x)
    <2>1. app' = app /\ history' = history /\ log' = log /\ lineage' = lineage /\ maker' = maker /\ coll' = coll
      BY <1>7 DEF FindForInstall, registry, data, ghosts
    <2> QED BY <2>1, QuietOrigins
  <1>8. CASE InstallFromStore
    <2>1. CASE UNCHANGED <<seq, registry, data, plan, ages, ghosts>>
      <3>1. app' = app /\ history' = history /\ log' = log /\ lineage' = lineage /\ maker' = maker /\ coll' = coll
        BY <2>1 DEF registry, data, ghosts
      <3> QED BY <3>1, QuietOrigins
    <2> QED BY <1>8, <2>1, InstallIsOne, SaveOrigins
  <1>9. CASE UNCHANGED vars
    <2>1. app' = app /\ history' = history /\ log' = log /\ lineage' = lineage /\ maker' = maker /\ coll' = coll
      BY <1>9 DEF vars, registry, data, ghosts
    <2> QED BY <2>1, QuietOrigins
  <1> QED BY <1>6, <1>7, <1>8, <1>9 DEF Next

LEMMA OriginsInit == Init => Origins
  <1> SUFFICES ASSUME Init PROVE Origins
    OBVIOUS
  <1>1. ASSUME NEW n \in Names PROVE OriginOf(n)
    <2>1. Saved(n) = {} /\ history[n] = {} /\ app[n] = None
      BY DEF Init, Saved, Range
    <2> QED BY <2>1 DEF OriginOf
  <1>2. ASSUME NEW c \in Colls PROVE MakerOf(c)
    BY DEF Init, MakerOf
  <1> QED BY <1>1, <1>2 DEF Origins

\* The ledger's walk through the lives of an app finds the life a row and a collection really came from.
THEOREM OriginsInvariance == Spec => [](RegistryInv /\ Origins)
  <1>1. Init => RegistryInv /\ Origins
    BY RegistryInitInv, OriginsInit
  <1>2. RegistryInv /\ Origins /\ [Next]_vars => RegistryInv' /\ Origins'
    BY StepKeeps, OriginsStep
  <1> QED BY <1>1, <1>2, PTL DEF Spec

\* What a purge clears.
LEMMA PurgeClears ==
  ASSUME RegistryInv, Origins, NEW n \in Names, Purge(n), NEW c \in Colls, coll[c].rows > 0, coll'[c].rows = 0
  PROVE  c \in Names /\ maker[c] # 0 /\ maker[c] = lineage[c]
  <1>1. DeleteApp(n, Exclusive(n), n \in settings.groups) /\ app[n] # None
    BY DEF Purge
  <1> DEFINE cleared == {d \in Exclusive(n) : coll[d].rows > 0}
  <1>2. c \in Exclusive(n)
    <2> SUFFICES ASSUME c \notin Exclusive(n) PROVE FALSE
      OBVIOUS
    <2>1. \E at : coll' = [d \in Colls |-> IF d \in cleared THEN [coll[d] EXCEPT !.rows = 0, !.last = at[d]] ELSE coll[d]]
      BY Zenon, <1>1 DEF DeleteApp
    <2>2. coll'[c] = coll[c]
      BY <2>1
    <2> QED BY <2>2
  <1>3. c = n /\ CompBorn(n) > 0 /\ coll[c].born > CompBorn(n)
    BY <1>2 DEF Exclusive, Verdict, BornAfterTheApp
  <1>4. Saved(n) # {} /\ OriginOf(n) /\ MakerOf(c)
    BY <1>1 DEF Origins, OriginOf
  <1>5. CompBorn(n) = lineage[n] /\ lineage[n] > 0
    BY <1>4 DEF OriginOf
  <1>6. maker[c] = lineage[c]
    BY <1>3, <1>4, <1>5 DEF MakerOf
  <1>7. lineage[n] \in Nat
    BY DEF RegistryInv, RegistryTypes
  <1> QED BY <1>3, <1>5, <1>6, <1>7

\* A purge destroys only rows of a collection that came to be under this very app.
THEOREM PurgesItsOwn == Spec => OnlyOwnRowsCleared
  <1>1. ASSUME RegistryInv, Origins, [Next]_vars
        PROVE  [\A c \in Colls : coll[c].rows > 0 /\ coll'[c].rows = 0 /\ (\E n \in Names : Purge(n)) =>
                  c \in Names /\ maker[c] # 0 /\ maker[c] = lineage[c]]_vars
    BY <1>1, PurgeClears
  <1> QED BY <1>1, OriginsInvariance, PTL DEF Spec, OnlyOwnRowsCleared
----------------------------------------------------------------------------
(* The wall before the store keeps the registry's invariant.               *)

\* What the wall has let through, while the store has not answered.
Vetted == clock \in Times /\ vetted \in SharedWrites \cup {None}

LEMMA VettedStep ==
  ASSUME Vetted, [ShareNext]_allVars
  PROVE  Vetted'
  <1>1. ASSUME vetted' = vetted, clock' = clock PROVE Vetted'
    BY <1>1 DEF Vetted
  <1>2. CASE Owner \/ UNCHANGED allVars
    BY <1>1, <1>2 DEF Owner, allVars, sharing
  <1>3. CASE Records
    <2>1. ASSUME Tick PROVE Vetted'
      BY <2>1, ShareBounds DEF Vetted, Tick, Times
    <2> QED BY <1>1, <1>3, <2>1 DEF Records, Invite, Revoke, SetRole, OpenCall, EndCall
  <1>4. CASE Recipient
    <2>1. ASSUME NEW c \in Colls, NEW n \in 1..MaxBatch, NEW verb \in Verbs, PassWall(c, verb, n)
          PROVE  Vetted'
      BY <2>1 DEF PassWall, Vetted, SharedWrites
    <2>2. ASSUME SharedLands \/ SharedRefused PROVE Vetted'
      BY <2>2 DEF SharedLands, SharedRefused, Vetted
    <2> QED BY <1>4, <2>1, <2>2 DEF Recipient, Verbs
  <1> QED BY <1>2, <1>3, <1>4 DEF ShareNext

LEMMA CollRowWith ==
  ASSUME NEW v \in CollRows, NEW b \in Nat, NEW l \in Nat, NEW r \in Nat, NEW u,
         u = [v EXCEPT !.born = b, !.last = l, !.rows = r]
  PROVE  u = [born |-> b, last |-> l, rows |-> r, via |-> v.via]
  BY DEF CollRows

LEMMA SharedLandsStep ==
  ASSUME RegistryInv, Origins, Vetted, SharedLands, found' = found
  PROVE  RegistryInv' /\ Origins'
  <1> DEFINE c == vetted.coll
             n == vetted.n
             rows == RowsAfter(vetted)
  <1>1. /\ c \in Colls /\ seq \in Nat /\ n \in Nat /\ n >= 1 /\ seq' = seq + n /\ seq' <= MaxSeq
        /\ UNCHANGED <<registry, settings, plan, ages, lineage, preimage>>
        /\ maker' = IF coll[c].born = 0 /\ c \in Names THEN [maker EXCEPT ![c] = lineage[c]] ELSE maker
        /\ coll \in [Colls -> CollRows] /\ maker \in [Colls -> Nat] /\ lineage \in [Names -> Nat]
    BY ShareBounds DEF SharedLands, RegistryInv, RegistryTypes, Vetted, SharedWrites
  <1>2. /\ settings \in [last : Nat, groups : SUBSET Names] /\ settings.last <= seq
        /\ \A d \in Colls : coll[d] \in CollRows /\ coll[d].born <= seq /\ coll[d].last <= seq
    BY DEF RegistryInv, RegistryTypes, Dated
  <1>3. rows \in Nat
    <2>1. coll[c].rows \in Nat /\ (vetted.verb # "add" => coll[c].rows > 0)
      BY <1>1 DEF SharedLands, CollRows
    <2> QED BY <1>1, <2>1 DEF RowsAfter
  <1> DEFINE w == [born |-> IF coll[c].born = 0 THEN seq + 1 ELSE coll[c].born, last |-> seq + n,
                   rows |-> rows, via |-> coll[c].via]
  <1>4. coll' = [coll EXCEPT ![c] = w]
    <2>1. coll' = [coll EXCEPT ![c].born = IF @ = 0 THEN seq + 1 ELSE @, ![c].last = seq + n, ![c].rows = rows]
      BY <1>1 DEF SharedLands
    <2>2. coll[c] \in CollRows
      BY <1>1
    <2> DEFINE b == IF coll[c].born = 0 THEN seq + 1 ELSE coll[c].born
               l == seq + n
    <2>3. coll' = [coll EXCEPT ![c] = [coll[c] EXCEPT !.born = b, !.last = l, !.rows = rows]]
      <3> HIDE DEF c, n, rows
      <3> QED BY <1>1, <2>1
    <2>4. w = [coll[c] EXCEPT !.born = b, !.last = l, !.rows = rows]
      <3> DEFINE u == [coll[c] EXCEPT !.born = b, !.last = l, !.rows = rows]
      <3>1. b \in Nat /\ l \in Nat
        BY <1>1, <2>2 DEF CollRows
      <3> HIDE DEF c, n, rows, b, l
      <3>2. u = [born |-> b, last |-> l, rows |-> rows, via |-> coll[c].via]
        BY <1>3, <2>2, <3>1, CollRowWith
      <3> QED BY <3>2 DEF b, l
    <2> HIDE DEF c, n, rows, w
    <2> QED BY <2>3, <2>4
  <1> HIDE DEF c, n, rows
  <1>5. w \in CollRows /\ w.born <= seq + n /\ w.last <= seq + n
        /\ w.born = IF coll[c].born = 0 THEN seq + 1 ELSE coll[c].born
    BY <1>1, <1>2, <1>3 DEF CollRows
  <1> HIDE DEF w
  <1>6. seq' \in Nat /\ seq <= seq'
    BY <1>1
  <1>7. coll' \in [Colls -> CollRows] /\ coll'[c] = w /\ \A d \in Colls : d # c => coll'[d] = coll[d]
    BY <1>1, <1>4, <1>5
  <1>8. ASSUME NEW d \in Colls PROVE coll'[d].born <= seq' /\ coll'[d].last <= seq'
    <2>1. coll[d].born \in Nat /\ coll[d].last \in Nat
      BY <1>2 DEF CollRows
    <2> QED BY <1>1, <1>2, <1>5, <1>7, <2>1
  <1>9. settings' \in [last : Nat, groups : SUBSET Names] /\ settings'.last <= seq'
    BY <1>1, <1>2, <1>6
  <1>10. maker' \in [Colls -> Nat]
    BY <1>1
  <1>11. FromTheStore' /\ PlanIsDated'
    <2>1. FromTheStore'
      BY <1>1, <1>6, StoreStands DEF registry
    <2> QED BY <1>1, <2>1 DEF RegistryInv, PlanIsDated
  <1>12. RegistryInv'
    BY <1>1, <1>6, <1>7, <1>8, <1>9, <1>10, <1>11, QuietStep
  <1>13. Origins'
    <2>1. coll'[c].born = (IF coll[c].born = 0 THEN seq + 1 ELSE coll[c].born)
          /\ \A d \in Colls : d # c => coll'[d].born = coll[d].born
      BY <1>5, <1>7
    <2> QED BY <1>1, <2>1, BegunUnder
  <1> QED BY <1>12, <1>13

LEMMA SharedRegistryStep ==
  ASSUME RegistryInv, Origins, Vetted, [ShareNext]_allVars
  PROVE  RegistryInv' /\ Origins'
  <1>1. CASE [Next]_vars
    BY <1>1, StepKeeps, OriginsStep
  <1>2. CASE Recipient
    <2>1. found' = found
      BY <1>2 DEF Recipient
    <2>2. CASE SharedLands
      BY <2>1, <2>2, SharedLandsStep
    <2>3. CASE UNCHANGED vars
      BY <1>1, <2>3
    <2> QED BY <1>2, <2>2, <2>3 DEF Recipient, PassWall, SharedRefused
  <1>3. [Next]_vars \/ Recipient
    BY DEF ShareNext, Owner, Records, allVars
  <1> QED BY <1>1, <1>2, <1>3

----------------------------------------------------------------------------
(* What a call may reach.                                                  *)

\* The save that last created an app is its birth as the wall works it out.
LifeOf(n) ==
  app[n] # None =>
    /\ life[n] \in Saved(n) /\ \A d \in Deleted(n) : d < life[n]
    /\ \A s \in Saved(n) : s < life[n] => \E d \in Deleted(n) : s < d

GrantRows == [app : Names, birth : Nat, role : {"viewer", "editor"}, life : Nat]

\* A grant names the life it was made for.
Granted ==
  /\ grants \subseteq GrantRows /\ \A g \in grants : g.birth = g.life
  /\ call # None => call \subseteq GrantRows /\ \A g \in call : g.birth = g.life

Lives == life \in [Names -> Nat] /\ (\A n \in Names : LifeOf(n)) /\ Granted

LEMMA BirthIsLife ==
  ASSUME RegistryInv, NEW n \in Names, LifeOf(n), app[n] # None
  PROVE  AppBirth(n) = life[n]
  <1> DEFINE R == Range(log[n])
             at == StartIn(R)
  <1>1. /\ Account(R, seq) /\ Saved(n) = SavedIn(R) /\ Deleted(n) = DeletedIn(R) /\ AppBirth(n) = FirstAfter(R, at)
        /\ seq \in Nat
    BY AccountOf, TheAccount DEF Account
  <1>2. /\ life[n] \in SavedIn(R) /\ \A d \in DeletedIn(R) : d < life[n]
        /\ \A s \in SavedIn(R) : s < life[n] => \E d \in DeletedIn(R) : s < d
    BY <1>1 DEF LifeOf
  <1>3. SavedIn(R) \subseteq 1..seq /\ DeletedIn(R) \subseteq 1..seq
    BY <1>1, AccountTypes
  <1> HIDE DEF R
  <1>4. at \in Nat /\ at < life[n] /\ \A d \in DeletedIn(R) : d <= at
    <2>1. /\ at \in 0..seq /\ (at # 0 => at \in DeletedIn(R))
          /\ \A d \in DeletedIn(R) : (\E s \in SavedIn(R) : s > d) => d <= at
      BY <1>1, StartIs
    <2> QED BY <1>2, <1>3, <2>1
  <1>5. /\ FirstAfter(R, at) \in SavedIn(R) /\ FirstAfter(R, at) > at
        /\ FirstAfter(R, at) <= life[n]
    BY <1>1, <1>2, <1>3, <1>4, FirstIs
  <1>6. ~ (FirstAfter(R, at) < life[n])
    BY <1>2, <1>3, <1>4, <1>5
  <1> QED BY <1>1, <1>2, <1>3, <1>5, <1>6

\* How one step of the owner changes what is known of an app's lives.
LEMMA LifeSteps ==
  ASSUME RegistryInv, Origins, [Next]_vars, NEW n \in Names
  PROVE  \/ app'[n] = None
         \/ app'[n] = app[n] /\ Saved(n)' = Saved(n) /\ Deleted(n)' = Deleted(n)
         \/ /\ app'[n] # None /\ seq' = seq + 1 /\ Saved(n)' = Saved(n) \cup {seq + 1}
            /\ Deleted(n)' = Deleted(n)
  <1> DEFINE Same(m) == app'[m] = app[m] /\ Saved(m)' = Saved(m) /\ Deleted(m)' = Deleted(m)
             Again(m) == /\ app'[m] # None /\ seq' = seq + 1 /\ Saved(m)' = Saved(m) \cup {seq + 1}
                         /\ Deleted(m)' = Deleted(m)
  <1>1. ASSUME NEW m \in Names, SomeSave(m) PROVE Same(n) \/ Again(n)
    <2>1. PICK actor \in Authors, row \in AppRows, r \in AppRevisions, e \in AppEvents : \E ui, manifest, from :
            SaveWrites(m, actor, ui, manifest, from, row, r, e)
      BY <1>1 DEF SomeSave
    <2>2. /\ seq' = seq + 1 /\ app' = [app EXCEPT ![m] = row] /\ log' = [log EXCEPT ![m] = Append(@, e)]
          /\ e.kind = "saved" /\ e.seq = seq + 1 /\ "saved" # "deleted" /\ RegistryTypes /\ row # None
      BY <2>1, SentinelsAreApart DEF SaveWrites, RegistryInv
    <2>3. /\ Saved(m)' = Saved(m) \cup (IF e.kind = "saved" THEN {e.seq} ELSE {})
          /\ Deleted(m)' = Deleted(m) \cup (IF e.kind = "deleted" THEN {e.seq} ELSE {})
          /\ \A k \in Names : k # m => Saved(k)' = Saved(k) /\ Deleted(k)' = Deleted(k)
      BY <2>2, LogGrows
    <2>4. app \in [Names -> AppRows \cup {None}]
      BY <2>2 DEF RegistryTypes
    <2>5. CASE n = m
      BY <2>2, <2>3, <2>4, <2>5
    <2>6. CASE n # m
      BY <2>2, <2>3, <2>4, <2>6
    <2> QED BY <2>5, <2>6
  <1>2. ASSUME NEW m \in Names, Delete(m) \/ Purge(m), found' = found PROVE app'[n] = None \/ Same(n)
    <2>1. PICK lost \in SUBSET Colls, group \in BOOLEAN : DeleteApp(m, lost, group) /\ plan' \in {plan, None}
      BY <1>2, DeletesKeep
    <2>2. app'[m] = None /\ \A k \in Names : k # m => app'[k] = app[k] /\ log'[k] = log[k]
      BY <1>2, <2>1, DeleteStep
    <2>3. n # m => Saved(n)' = Saved(n) /\ Deleted(n)' = Deleted(n)
      BY <2>2, TheAccount, TheNextAccount
    <2> QED BY <2>2, <2>3
  <1>3. ASSUME app' = app, log' = log PROVE Same(n)
    BY <1>3, AccountStands
  <1> HIDE DEF Same, Again
  <1>4. CASE Step /\ UNCHANGED found
    <2>1. ASSUME Save PROVE Same(n) \/ Again(n)
      BY <1>1, <2>1, SaveIsOne
    <2>2. ASSUME NEW m \in Names, EditApp(m) \/ Restore(m) \/ Undo(m) PROVE Same(n) \/ Again(n)
      BY <1>1, <2>2, EditIsOne
    <2>3. ASSUME WriteItem \/ Age PROVE app' = app /\ log' = log
      BY <2>3 DEF WriteItem, Wrote, Age, registry
    <2>4. ASSUME NEW m \in Names, AskPurge(m) \/ WriteSetting(m) PROVE app' = app /\ log' = log
      BY <2>4 DEF AskPurge, WriteSetting, registry
    <2>5. app'[n] = None \/ Same(n) \/ Again(n)
      BY <1>2, <1>3, <1>4, <2>1, <2>2, <2>3, <2>4 DEF Step
    <2> QED BY <2>5 DEF Same, Again
  <1>5. CASE \E x \in Entries : FindForInstall(x)
    <2>1. app' = app /\ log' = log
      BY <1>5 DEF FindForInstall, registry
    <2> QED BY <1>3, <2>1 DEF Same
  <1>6. CASE InstallFromStore
    <2>1. CASE UNCHANGED <<seq, registry, data, plan, ages, ghosts>>
      BY <1>3, <2>1 DEF registry, Same
    <2>2. CASE \E m \in Names : SomeSave(m)
      BY <1>1, <2>2 DEF Same, Again
    <2> QED BY <1>6, <2>1, <2>2, InstallIsOne
  <1>7. CASE UNCHANGED vars
    BY <1>3, <1>7 DEF vars, registry, Same
  <1> QED BY <1>4, <1>5, <1>6, <1>7 DEF Next

LEMMA LivesByOwner ==
  ASSUME RegistryInv, Origins, Lives, Owner
  PROVE  Lives'
  <1>1. [Next]_vars /\ UNCHANGED <<grants, call>>
        /\ life' = [n \in Names |-> IF app[n] = None /\ app'[n] # None THEN seq' ELSE life[n]]
    BY DEF Owner, sharing
  <1>2. RegistryInv'
    BY <1>1, StepKeeps
  <1>3. seq \in Nat /\ seq' \in Nat
    BY <1>2 DEF RegistryInv, RegistryTypes
  <1>4. life' \in [Names -> Nat]
    BY <1>1, <1>3 DEF Lives
  <1>5. ASSUME NEW n \in Names PROVE LifeOf(n)'
    <2>1. Saved(n) \subseteq 1..seq /\ Deleted(n) \subseteq 1..seq /\ OriginOf(n) /\ LifeOf(n) /\ life[n] \in Nat
      BY DEF RegistryInv, Dated, Origins, Lives
    <2>2. CASE app'[n] = None
      BY <2>2 DEF LifeOf
    <2>3. CASE app'[n] = app[n] /\ Saved(n)' = Saved(n) /\ Deleted(n)' = Deleted(n)
      <3>1. life'[n] = life[n]
        BY <1>1, <2>3
      <3> QED BY <2>1, <2>3, <3>1 DEF LifeOf
    <2>4. CASE /\ app'[n] # None /\ seq' = seq + 1 /\ Saved(n)' = Saved(n) \cup {seq + 1}
               /\ Deleted(n)' = Deleted(n)
      <3>1. CASE app[n] = None
        <4>1. life'[n] = seq + 1
          BY <1>1, <2>4, <3>1
        <4>2. \A s \in Saved(n) : \E d \in Deleted(n) : s < d
          BY <2>1, <3>1 DEF OriginOf
        <4>3. \A d \in Deleted(n) : d < seq + 1
          BY <1>3, <2>1
        <4>4. \A s \in Saved(n)' : s < seq + 1 => \E d \in Deleted(n)' : s < d
          BY <1>3, <2>4, <4>2
        <4> QED BY <2>4, <4>1, <4>3, <4>4 DEF LifeOf
      <3>2. CASE app[n] # None
        <4>1. life'[n] = life[n]
          BY <1>1, <3>2
        <4>2. life[n] <= seq
          BY <1>3, <2>1, <3>2 DEF LifeOf
        <4>3. ~ (seq + 1 < life[n])
          BY <1>3, <2>1, <4>2
        <4> QED BY <2>1, <2>4, <3>2, <4>1, <4>3 DEF LifeOf
      <3> QED BY <3>1, <3>2
    <2> QED BY <1>1, <2>2, <2>3, <2>4, LifeSteps
  <1> QED BY <1>1, <1>4, <1>5 DEF Lives, Granted

LEMMA LivesByRecords ==
  ASSUME RegistryInv, Lives, Records
  PROVE  Lives'
  <1>1. UNCHANGED <<app, log, life>>
    BY DEF Records, vars, registry
  <1>2. \A n \in Names : LifeOf(n)'
    <2>1. \A n \in Names : Saved(n)' = Saved(n) /\ Deleted(n)' = Deleted(n)
      BY <1>1, AccountStands
    <2> QED BY <1>1, <2>1 DEF LifeOf, Lives
  <1>3. Granted
    BY DEF Lives
  <1>4. Granted'
    <2>1. ASSUME NEW n \in Names, NEW as \in {"viewer", "editor"}, Invite(n, as) PROVE Granted'
      <3> DEFINE g == [app |-> n, birth |-> AppBirth(n), role |-> as, life |-> life[n]]
      <3>1. app[n] # None /\ grants' = grants \cup {g} /\ call' = call
        BY <2>1 DEF Invite
      <3>2. AppBirth(n) = life[n] /\ life[n] \in Nat
        BY <3>1, BirthIsLife DEF Lives
      <3>3. g \in GrantRows /\ g.birth = g.life
        BY <3>2 DEF GrantRows
      <3> HIDE DEF g
      <3> QED BY <1>3, <3>1, <3>3 DEF Granted
    <2>2. ASSUME NEW g \in grants, Revoke(g) PROVE Granted'
      BY <1>3, <2>2 DEF Granted, Revoke
    <2>3. ASSUME NEW g \in grants, NEW as \in {"viewer", "editor"}, SetRole(g, as) PROVE Granted'
      <3> DEFINE h == [g EXCEPT !.role = as]
      <3>1. g \in GrantRows /\ g.birth = g.life
        BY <1>3 DEF Granted
      <3>2. h \in GrantRows /\ h.birth = h.life
        BY <3>1 DEF GrantRows
      <3>3. grants' = (grants \ {g}) \cup {h} /\ call' = call
        BY <2>3 DEF SetRole
      <3> HIDE DEF h
      <3> QED BY <1>3, <3>2, <3>3 DEF Granted
    <2>4. ASSUME OpenCall PROVE Granted'
      <3>1. call' = grants /\ grants' \subseteq grants
        BY <2>4 DEF OpenCall
      <3> QED BY <1>3, <3>1 DEF Granted
    <2>5. ASSUME EndCall PROVE Granted'
      BY <1>3, <2>5 DEF Granted, EndCall
    <2>6. ASSUME Tick PROVE Granted'
      BY <1>3, <2>6 DEF Granted, Tick
    <2> QED BY <2>1, <2>2, <2>3, <2>4, <2>5, <2>6 DEF Records
  <1> QED BY <1>1, <1>2, <1>4 DEF Lives

LEMMA LivesByRecipient ==
  ASSUME Lives, UNCHANGED <<registry, life, grants, call>>
  PROVE  Lives'
  <1>1. app' = app /\ log' = log
    BY DEF registry
  <1>2. \A n \in Names : LifeOf(n)'
    <2>1. \A n \in Names : Saved(n)' = Saved(n) /\ Deleted(n)' = Deleted(n)
      BY <1>1, AccountStands
    <2> QED BY <1>1, <2>1 DEF LifeOf, Lives
  <1> QED BY <1>2 DEF Lives, Granted
LEMMA LivesStep ==
  ASSUME RegistryInv, Origins, Lives, [ShareNext]_allVars
  PROVE  Lives'
  <1>1. CASE Recipient
    <2>1. UNCHANGED <<registry, life, grants, call>>
      BY <1>1 DEF Recipient, PassWall, SharedLands, SharedRefused, vars
    <2> QED BY <2>1, LivesByRecipient
  <1>2. CASE UNCHANGED allVars
    BY <1>2, LivesByRecipient DEF allVars, vars, sharing
  <1> QED BY <1>1, <1>2, LivesByOwner, LivesByRecords DEF ShareNext

LEMMA SharedInit == ShareInit => RegistryInv /\ Origins /\ Lives /\ Vetted
  <1> SUFFICES ASSUME ShareInit PROVE RegistryInv /\ Origins /\ Lives /\ Vetted
    OBVIOUS
  <1>1. Init /\ grants = {} /\ call = None /\ life = [n \in Names |-> 0] /\ clock = 0 /\ vetted = None
    BY DEF ShareInit, ShareStarts
  <1>2. Lives
    BY <1>1 DEF Lives, LifeOf, Granted, Init
  <1>3. Vetted
    BY <1>1, ShareBounds DEF Vetted, Times
  <1> QED BY <1>1, <1>2, <1>3, RegistryInitInv, OriginsInit

\* The same while recipients write through grants, and others act between the wall and the store; a grant
\* names the life it was given in.
THEOREM SharedInvariance == ShareSpec => [](RegistryInv /\ Origins /\ Lives /\ Vetted)
  <1>1. RegistryInv /\ Origins /\ Lives /\ Vetted /\ [ShareNext]_allVars =>
          RegistryInv' /\ Origins' /\ Lives' /\ Vetted'
    BY SharedRegistryStep, LivesStep, VettedStep
  <1> QED BY <1>1, SharedInit, PTL DEF ShareSpec

\* The wall lets a write through to the collections of a living grant.
LEMMA WriteFollows ==
  ASSUME RegistryInv, Lives, NEW c \in Colls, MayWrite(c)
  PROVE  InScope(c)
  <1>1. call # None /\ call \subseteq GrantRows /\ \A g \in call : g.birth = g.life
    BY DEF MayWrite, Lives, Granted
  <1>2. PICK g \in call : Alive(g) /\ c \in AppCollections(g.app) /\ g.role = "editor"
    BY DEF MayWrite, Roles
  <1>3. g.app \in Names /\ g.birth = g.life
    BY <1>1 DEF GrantRows
  <1>4. app[g.app] # None /\ AppBirth(g.app) = g.life
    BY <1>2, <1>3 DEF Alive
  <1>5. life[g.app] = g.life
    BY <1>3, <1>4, BirthIsLife DEF Lives
  <1> QED BY <1>2, <1>4, <1>5 DEF InScope

LEMMA WallFollows ==
  ASSUME RegistryInv, Lives, Vetted, [ShareNext]_allVars, vetted = None, vetted' # None
  PROVE  InScope(vetted'.coll)
  <1>1. Recipient
    BY DEF ShareNext, Owner, Records, allVars, sharing, Invite, Revoke, SetRole, OpenCall, EndCall, Tick
  <1>2. PICK c \in Colls, verb \in Verbs, n \in 1..MaxBatch : PassWall(c, verb, n)
    BY <1>1 DEF Recipient, SharedLands, SharedRefused, Verbs
  <1>3. MayWrite(c) /\ vetted'.coll = c
    BY <1>2 DEF PassWall
  <1> QED BY <1>3, WriteFollows

LEMMA StoreFollows ==
  ASSUME RegistryInv, Vetted, [ShareNext]_allVars, landed' # landed
  PROVE  vetted # None /\ \A d \in Colls : coll'[d] # coll[d] => d = vetted.coll
  <1>1. SharedLands
    BY DEF ShareNext, Owner, Records, Recipient, allVars, sharing, Invite, Revoke, SetRole, OpenCall, EndCall, Tick,
       PassWall, SharedRefused
  <1>2. coll \in [Colls -> CollRows] /\ vetted \in SharedWrites
    BY <1>1 DEF RegistryInv, RegistryTypes, SharedLands, Vetted
  <1>3. \A d \in Colls : d # vetted.coll => coll'[d] = coll[d]
    BY <1>1, <1>2 DEF SharedLands
  <1> QED BY <1>1, <1>3 DEF SharedLands

\* A shared write is let through only where an app of the call's grants is about, while the life lives that was
\* shared, and lands only where it was let through.
THEOREM SharedWritesFollow == ShareSpec => WritesFollowTheApp
  <1>1. ASSUME RegistryInv, Lives, Vetted, [ShareNext]_allVars
        PROVE  [/\ vetted = None /\ vetted' # None => InScope(vetted'.coll)
                /\ landed' # landed => vetted # None /\ \A c \in Colls : coll'[c] # coll[c] => c = vetted.coll]_allVars
    BY <1>1, WallFollows, StoreFollows
  <1> QED BY <1>1, SharedInvariance, PTL DEF ShareSpec, WritesFollowTheApp

\* Nor does an App Store update replace an edit while recipients write.
THEOREM SharedUpdatesSpareEdits == ShareSpec => StoreUpdatesKeepEdits
  <1>1. ASSUME RegistryInv, [ShareNext]_allVars
        PROVE  [InstallFromStore /\ found.version # None /\ app' # app =>
                  \E e \in Entries : e.name = found.entry.name /\ Slots(app[e.name]) = Slots(e)]_vars
    BY <1>1, UpdateReplacesItsOwn
  <1> QED BY <1>1, SharedInvariance, PTL DEF ShareSpec, StoreUpdatesKeepEdits

----------------------------------------------------------------------------
(* The budget.                                                             *)

Sums(w, s) == \A t \in Times : s[t] = w[t] + (IF t = 0 THEN 0 ELSE s[t - 1])

LEMMA SumExists ==
  ASSUME NEW w \in [Times -> Nat]
  PROVE  \E s \in [Times -> Nat] : Sums(w, s)
  <1> DEFINE Upto(s, k) == \A t \in Times : t < k => s[t] = w[t] + (IF t = 0 THEN 0 ELSE s[t - 1])
             T == {k \in 0..MaxTicks + 1 : ~ \E s \in [Times -> Nat] : Upto(s, k)}
  <1>1. MaxTicks \in Nat /\ Times = 0..MaxTicks
    BY ShareBounds DEF Times
  <1>2. T = {}
    <2> SUFFICES ASSUME T # {} PROVE FALSE
      OBVIOUS
    <2>1. T \subseteq Nat
      BY <1>1
    <2>2. PICK k \in T : \A j \in T : k <= j
      <3> HIDE DEF T
      <3> QED BY <2>1, LeastNat
    <2>3. k \in 0..MaxTicks + 1 /\ ~ \E s \in [Times -> Nat] : Upto(s, k)
      BY <2>2
    <2>4. k # 0
      <3>1. ASSUME k = 0 PROVE Upto(w, k)
        BY <1>1, <3>1
      <3> QED BY <2>3, <3>1
    <2>5. k - 1 \in Times /\ k - 1 \in 0..MaxTicks + 1 /\ k \in Nat /\ ~ (k <= k - 1)
      BY <1>1, <2>3, <2>4
    <2>6. k - 1 \notin T
      <3> HIDE DEF T
      <3> QED BY <2>2, <2>5
    <2>7. PICK s \in [Times -> Nat] : Upto(s, k - 1)
      BY <2>5, <2>6
    <2> DEFINE j == k - 1
               z == w[j] + (IF j = 0 THEN 0 ELSE s[j - 1])
               g == [t \in Times |-> IF t = j THEN z ELSE s[t]]
    <2>8. j \in Times /\ (j # 0 => j - 1 \in Times) /\ \A t \in Times : t < k => t <= j
      BY <1>1, <2>5
    <2> HIDE DEF j
    <2>9. z \in Nat
      BY <2>8
    <2>10. \A t \in Times : t <= j => g[t] = w[t] + (IF t = 0 THEN 0 ELSE g[t - 1])
      <3> SUFFICES ASSUME NEW t \in Times, t <= j PROVE g[t] = w[t] + (IF t = 0 THEN 0 ELSE g[t - 1])
        OBVIOUS
      <3>1. t # 0 => t - 1 \in Times /\ t - 1 # j
        BY <1>1, <2>8
      <3>2. t # 0 => g[t - 1] = s[t - 1]
        BY <3>1
      <3>3. CASE t = j
        BY <3>2, <3>3
      <3>4. CASE t # j
        <4>1. t < j
          BY <1>1, <2>8, <3>4
        <4>2. s[t] = w[t] + (IF t = 0 THEN 0 ELSE s[t - 1])
          BY <2>7, <4>1 DEF j
        <4> QED BY <3>2, <3>4, <4>2
      <3> QED BY <3>3, <3>4
    <2>11. g \in [Times -> Nat] /\ Upto(g, k)
      <3>1. g \in [Times -> Nat]
        BY <2>9
      <3> HIDE DEF g
      <3> QED BY <2>8, <2>10, <3>1
    <2> HIDE DEF g, Upto
    <2> QED BY <2>3, <2>11
  <1>3. MaxTicks + 1 \in 0..MaxTicks + 1
    BY <1>1
  <1>4. PICK s \in [Times -> Nat] : Upto(s, MaxTicks + 1)
    BY <1>2, <1>3
  <1>5. \A t \in Times : t < MaxTicks + 1
    BY <1>1
  <1> QED BY <1>4, <1>5 DEF Sums

LEMMA TotalIs ==
  ASSUME NEW w \in [Times -> Nat]
  PROVE  \E s \in [Times -> Nat] : Sums(w, s) /\ Total(w) = s[MaxTicks]
  <1> DEFINE Body(s) == [t \in Times |-> w[t] + (IF t = 0 THEN 0 ELSE s[t - 1])]
             sum == CHOOSE s : s = Body(s)
  <1>1. PICK s \in [Times -> Nat] : Sums(w, s)
    BY SumExists
  <1>2. s = Body(s)
    <2>1. \A t \in Times : s[t] = Body(s)[t]
      BY <1>1 DEF Sums
    <2>2. s = [t \in Times |-> s[t]] /\ Body(s) = [t \in Times |-> Body(s)[t]]
      OBVIOUS
    <2> HIDE DEF Body
    <2> QED BY <2>1, <2>2
  <1>3. sum = Body(sum) /\ Total(w) = sum[MaxTicks]
    BY Zenon, <1>2 DEF Total
  <1> HIDE DEF sum
  <1>4. Sums(w, sum)
    BY <1>3 DEF Sums
  <1>5. sum \in [Times -> Nat]
    <2> DEFINE T == {t \in Times : sum[t] \notin Nat}
    <2>1. Times \subseteq Nat /\ \A t \in Times : t # 0 => t - 1 \in Times
      BY ShareBounds DEF Times
    <2>2. T = {}
      <3> SUFFICES ASSUME T # {} PROVE FALSE
        OBVIOUS
      <3>1. T \subseteq Nat
        BY <2>1
      <3>2. PICK t \in T : \A j \in T : t <= j
        <4> HIDE DEF T
        <4> QED BY <3>1, LeastNat
      <3>3. t \in Times /\ sum[t] \notin Nat /\ sum[t] = w[t] + (IF t = 0 THEN 0 ELSE sum[t - 1]) /\ w[t] \in Nat
        BY <1>4 DEF Sums
      <3>4. CASE t = 0
        BY <3>3, <3>4
      <3>5. CASE t # 0
        <4>1. t - 1 \in Times /\ ~ (t <= t - 1)
          BY <2>1, <3>3, <3>5
        <4>2. sum[t - 1] \in Nat
          BY <3>2, <4>1
        <4> QED BY <3>3, <3>5, <4>2
      <3> QED BY <3>4, <3>5
    <2>3. \A t \in Times : sum[t] \in Nat
      BY <2>2
    <2>4. sum = [t \in Times |-> sum[t]]
      <3>1. Body(sum) = [t \in Times |-> Body(sum)[t]]
        OBVIOUS
      <3> HIDE DEF Body
      <3> QED BY <1>3, <3>1
    <2> QED BY <2>3, <2>4
  <1> QED BY <1>3, <1>4, <1>5

\* More at every time is more in all, and n more at one time is at most n more in all.
LEMMA TotalGrows ==
  ASSUME NEW v \in [Times -> Nat], NEW w \in [Times -> Nat], NEW at \in Times, NEW n \in Nat,
         \A t \in Times : v[t] <= w[t] + (IF t = at THEN n ELSE 0)
  PROVE  Total(v) <= Total(w) + n /\ Total(v) \in Nat /\ Total(w) \in Nat
  <1>1. PICK r \in [Times -> Nat] : Sums(v, r) /\ Total(v) = r[MaxTicks]
    BY TotalIs
  <1>2. PICK s \in [Times -> Nat] : Sums(w, s) /\ Total(w) = s[MaxTicks]
    BY TotalIs
  <1>3. Times \subseteq Nat /\ MaxTicks \in Times /\ at <= MaxTicks /\ \A t \in Times : t # 0 => t - 1 \in Times
    BY ShareBounds DEF Times
  <1> DEFINE k(t) == IF at <= t THEN n ELSE 0
             T == {t \in Times : ~ (r[t] <= s[t] + k(t))}
  <1>4. T = {}
    <2> SUFFICES ASSUME T # {} PROVE FALSE
      OBVIOUS
    <2>1. T \subseteq Nat
      BY <1>3
    <2>2. PICK t \in T : \A j \in T : t <= j
      <3> HIDE DEF T
      <3> QED BY <2>1, LeastNat
    <2>3. t \in Times /\ t \in Nat /\ ~ (r[t] <= s[t] + k(t))
      BY <1>3
    <2>4. /\ r[t] = v[t] + (IF t = 0 THEN 0 ELSE r[t - 1]) /\ s[t] = w[t] + (IF t = 0 THEN 0 ELSE s[t - 1])
          /\ v[t] <= w[t] + (IF t = at THEN n ELSE 0)
          /\ v[t] \in Nat /\ w[t] \in Nat /\ r[t] \in Nat /\ s[t] \in Nat /\ at \in Nat
      BY <1>1, <1>2, <1>3, <2>3 DEF Sums
    <2>5. CASE t = 0
      BY <2>3, <2>4, <2>5
    <2>6. CASE t # 0
      <3>1. t - 1 \in Times /\ ~ (t <= t - 1)
        BY <1>3, <2>3, <2>6
      <3>2. t - 1 \notin T
        <4> HIDE DEF T
        <4> QED BY <2>2, <3>1
      <3>3. r[t - 1] <= s[t - 1] + k(t - 1) /\ r[t - 1] \in Nat /\ s[t - 1] \in Nat
        BY <3>1, <3>2
      <3> QED BY <2>3, <2>4, <2>6, <3>3
    <2> QED BY <2>5, <2>6
  <1>5. r[MaxTicks] <= s[MaxTicks] + k(MaxTicks)
    BY <1>3, <1>4
  <1> QED BY <1>1, <1>2, <1>3, <1>5

LEMMA NothingTotal ==
  ASSUME NEW w \in [Times -> Nat], \A t \in Times : w[t] = 0
  PROVE  Total(w) = 0
  <1>1. PICK s \in [Times -> Nat] : Sums(w, s) /\ Total(w) = s[MaxTicks]
    BY TotalIs
  <1> DEFINE T == {t \in Times : s[t] # 0}
  <1>2. Times \subseteq Nat /\ MaxTicks \in Times /\ \A t \in Times : t # 0 => t - 1 \in Times
    BY ShareBounds DEF Times
  <1>3. T = {}
    <2> SUFFICES ASSUME T # {} PROVE FALSE
      OBVIOUS
    <2>1. T \subseteq Nat
      BY <1>2
    <2>2. PICK t \in T : \A j \in T : t <= j
      <3> HIDE DEF T
      <3> QED BY <2>1, LeastNat
    <2>3. t \in Times /\ t \in Nat /\ s[t] # 0 /\ s[t] = w[t] + (IF t = 0 THEN 0 ELSE s[t - 1]) /\ w[t] = 0
      BY <1>1, <1>2 DEF Sums
    <2>4. t # 0
      BY <2>3
    <2>5. t - 1 \in Times /\ ~ (t <= t - 1)
      BY <1>2, <2>3, <2>4
    <2>6. s[t - 1] = 0
      BY <2>2, <2>5
    <2> QED BY <2>3, <2>4, <2>6
  <1> QED BY <1>1, <1>2, <1>3
\* What has landed, and the write that is let through as if it had.
DueOf(l, v) == [t \in Times |-> l[t] + (IF v # None /\ v.at = t THEN v.n ELSE 0)]
Due == DueOf(landed, vetted)

Within(w, t) == [x \in Times |-> IF t - Window < x /\ x <= t THEN w[x] ELSE 0]

LEMMA WithinIs ==
  ASSUME NEW w \in [Times -> Nat], NEW t
  PROVE  /\ Within(w, t) \in [Times -> Nat]
         /\ \A x \in Times : Within(w, t)[x] = IF t - Window < x /\ x <= t THEN w[x] ELSE 0
  BY DEF Within

\* A window that shows no more than what is remembered shows no more than the budget.
LEMMA WithinBudget ==
  ASSUME NEW v \in [Times -> Nat], NEW w \in [Times -> Nat], Total(w) <= Budget, \A t \in Times : v[t] <= w[t]
  PROVE  Total(v) <= Budget
  <1>1. 0 \in Times /\ Budget \in Nat
    BY ShareBounds DEF Times
  <1>2. \A t \in Times : v[t] <= w[t] + (IF t = 0 THEN 0 ELSE 0)
    OBVIOUS
  <1>3. Total(v) <= Total(w) + 0 /\ Total(v) \in Nat /\ Total(w) \in Nat
    BY <1>1, <1>2, TotalGrows
  <1> QED BY <1>1, <1>3

\* What is due within the window is remembered, and what is remembered is within the budget.
Budgeted ==
  /\ Vetted /\ spent \in [Times -> Nat] /\ landed \in [Times -> Nat]
  /\ Total(spent) <= Budget
  /\ \A t \in Times : clock - t < Window => Due[t] <= spent[t]
  /\ \A t \in 0..clock : Total(Within(Due, t)) <= Budget

LEMMA DueIs ==
  ASSUME NEW l \in [Times -> Nat], NEW v \in SharedWrites \cup {None}
  PROVE  /\ DueOf(l, v) \in [Times -> Nat] /\ \A t \in Times : l[t] <= DueOf(l, v)[t]
         /\ \A t \in Times : DueOf(l, v)[t] = l[t] + (IF v # None /\ v.at = t THEN v.n ELSE 0)
  <1>1. v # None => v.n \in Nat
    BY ShareBounds DEF SharedWrites
  <1>2. \A t \in Times : l[t] \in Nat
    OBVIOUS
  <1> QED BY <1>1, <1>2 DEF DueOf

LEMMA BudgetedHolds == Budgeted => BudgetHolds
  <1> SUFFICES ASSUME Budgeted, NEW t \in 0..clock PROVE Total(Within(landed, t)) <= Budget
    BY DEF BudgetHolds, Within
  <1>1. /\ landed \in [Times -> Nat] /\ Due \in [Times -> Nat]
        /\ \A x \in Times : landed[x] <= Due[x] /\ landed[x] \in Nat /\ Due[x] \in Nat
    BY DueIs DEF Budgeted, Vetted, Due
  <1>2. \A x \in Times : Within(landed, t)[x] <= Within(Due, t)[x]
    BY <1>1, WithinIs
  <1>3. Total(Within(Due, t)) <= Budget
    BY DEF Budgeted
  <1> QED BY <1>1, <1>2, <1>3, WithinBudget, WithinIs

LEMMA BudgetedLess ==
  ASSUME Budgeted, Vetted', landed' \in [Times -> Nat], clock' = clock, spent' = spent,
         \A t \in Times : Due'[t] <= Due[t]
  PROVE  Budgeted'
  <1>1. Due \in [Times -> Nat] /\ Due' \in [Times -> Nat]
    <2>1. Due' = DueOf(landed', vetted') /\ vetted' \in SharedWrites \cup {None}
      BY DEF Due, Vetted, DueOf, Times, SharedWrites
    <2> QED BY <2>1, DueIs DEF Budgeted, Vetted, Due
  <1>2. \A t \in Times : clock - t < Window => Due'[t] <= spent[t]
    <2>1. \A t \in Times : Due'[t] \in Nat /\ Due[t] \in Nat /\ spent[t] \in Nat
      BY <1>1 DEF Budgeted
    <2> QED BY <2>1 DEF Budgeted
  <1>3. ASSUME NEW t \in 0..clock PROVE Total(Within(Due', t)) <= Budget
    <2>1. \A x \in Times : Due'[x] \in Nat /\ Due[x] \in Nat
      BY <1>1
    <2>2. \A x \in Times : Within(Due', t)[x] <= Within(Due, t)[x]
      BY <1>1, <2>1, WithinIs
    <2>3. Total(Within(Due, t)) <= Budget
      BY DEF Budgeted
    <2> QED BY <1>1, <2>2, <2>3, WithinBudget, WithinIs
  <1> QED BY <1>2, <1>3 DEF Budgeted, Total, Within, Times

LEMMA BudgetedWall ==
  ASSUME Budgeted, NEW c \in Colls, NEW verb \in Verbs, NEW n \in 1..MaxBatch,
         PassWall(c, verb, n), Vetted'
  PROVE  Budgeted'
  <1>1. /\ Times \subseteq Nat /\ clock \in Times /\ clock \in Nat /\ Budget \in Nat /\ Window \in Nat /\ Window > 0
        /\ spent \in [Times -> Nat] /\ landed \in [Times -> Nat] /\ landed' = landed /\ clock' = clock /\ n \in Nat
    BY ShareBounds DEF Budgeted, Vetted, Times, PassWall
  <1>2. Fresh \in [Times -> Nat] /\ \A t \in Times : Fresh[t] = IF clock - t < Window THEN spent[t] ELSE 0
    BY <1>1 DEF Fresh
  <1>3. Total(Fresh) + n <= Budget /\ spent' = [Fresh EXCEPT ![clock] = @ + n]
    BY DEF PassWall, Take, Push
  <1>4. /\ spent' \in [Times -> Nat] /\ spent'[clock] = Fresh[clock] + n
        /\ \A t \in Times : t # clock => spent'[t] = Fresh[t]
    BY <1>1, <1>2, <1>3
  <1>5. Total(spent') <= Budget
    <2>1. \A t \in Times : spent'[t] <= Fresh[t] + (IF t = clock THEN n ELSE 0)
      BY <1>1, <1>2, <1>4
    <2>2. Total(spent') <= Total(Fresh) + n /\ Total(spent') \in Nat /\ Total(Fresh) \in Nat
      BY <1>1, <1>2, <1>4, <2>1, TotalGrows
    <2> QED BY <1>1, <1>3, <2>2
  <1>6. /\ Due \in [Times -> Nat] /\ Due' \in [Times -> Nat] /\ Due'[clock] = Due[clock] + n
        /\ \A t \in Times : t # clock => Due'[t] = Due[t]
    <2>1. Due \in [Times -> Nat] /\ \A t \in Times : Due[t] = landed[t]
      <3>1. vetted = None
        BY DEF PassWall
      <3>2. \A t \in Times : landed[t] + 0 = landed[t]
        BY <1>1
      <3> QED BY <1>1, <3>1, <3>2 DEF Due, DueOf
    <2>2. /\ Due' \in [Times -> Nat]
          /\ \A t \in Times : Due'[t] = landed[t] + (IF clock = t THEN n ELSE 0)
      <3>1. vetted' # None /\ vetted'.at = clock /\ vetted'.n = n
        BY <1>1, NoneIsNoWrite DEF PassWall, SharedWrites
      <3>2. Due' = [t \in Times |-> landed[t] + (IF clock = t THEN n ELSE 0)]
        BY <1>1, <3>1 DEF Due, DueOf, Times
      <3> QED BY <1>1, <3>2
    <2> QED BY <1>1, <2>1, <2>2
  <1>7. \A t \in Times : clock - t < Window => Due'[t] <= spent'[t]
    <2> SUFFICES ASSUME NEW t \in Times, clock - t < Window PROVE Due'[t] <= spent'[t]
      OBVIOUS
    <2>1. Due[t] <= spent[t] /\ Fresh[t] = spent[t] /\ Due[t] \in Nat /\ spent[t] \in Nat /\ Due'[t] \in Nat
      BY <1>1, <1>2, <1>6 DEF Budgeted
    <2>2. CASE t = clock
      BY <1>1, <1>4, <1>6, <2>1, <2>2
    <2>3. CASE t # clock
      BY <1>4, <1>6, <2>1, <2>3
    <2> QED BY <2>2, <2>3
  <1>8. ASSUME NEW t \in 0..clock PROVE Total(Within(Due', t)) <= Budget
    <2>1. t \in Nat /\ t <= clock
      BY <1>1
    <2>2. CASE t = clock
      <3>1. \A x \in Times : Within(Due', t)[x] <= spent'[x]
        <4> SUFFICES ASSUME NEW x \in Times PROVE Within(Due', t)[x] <= spent'[x]
          OBVIOUS
        <4>1. Within(Due', t)[x] = IF t - Window < x /\ x <= t THEN Due'[x] ELSE 0
          BY <1>6, WithinIs
        <4>2. x \in Nat /\ spent'[x] \in Nat
          BY <1>1, <1>4
        <4>3. t - Window < x => clock - x < Window
          BY <1>1, <2>2, <4>2
        <4> QED BY <1>7, <4>1, <4>2, <4>3
      <3> QED BY <1>4, <1>5, <1>6, <3>1, WithinBudget, WithinIs
    <2>3. CASE t # clock
      <3>1. t < clock
        BY <1>1, <2>1, <2>3
      <3>2. Within(Due', t) = Within(Due, t)
        <4>1. \A x \in Times : x <= t => Due'[x] = Due[x]
          BY <1>1, <1>6, <2>1, <3>1
        <4> QED BY <4>1 DEF Within
      <3>3. Total(Within(Due, t)) <= Budget
        BY DEF Budgeted
      <3> QED BY <3>2, <3>3
    <2> QED BY <2>2, <2>3
  <1> QED BY <1>1, <1>4, <1>5, <1>7, <1>8 DEF Budgeted, Total, Within, Times

LEMMA BudgetedTick ==
  ASSUME Budgeted, Tick, Vetted'
  PROVE  Budgeted'
  <1>1. /\ Times = 0..MaxTicks /\ MaxTicks \in Nat /\ clock \in Nat /\ clock' = clock + 1 /\ clock' \in Times
        /\ Budget \in Nat /\ Window \in Nat /\ Window > 0 /\ spent' = spent /\ landed' = landed /\ vetted' = vetted
        /\ spent \in [Times -> Nat] /\ landed \in [Times -> Nat] /\ Total(spent) <= Budget
    BY ShareBounds DEF Budgeted, Vetted, Times, Tick
  <1>2. Due' = Due /\ Due \in [Times -> Nat]
    BY <1>1, DueIs DEF Due, DueOf, Times, Budgeted, Vetted
  <1>3. \A t \in Times : clock' - t < Window => Due[t] <= spent[t]
    <2> SUFFICES ASSUME NEW t \in Times, clock' - t < Window PROVE clock - t < Window
      BY DEF Budgeted
    <2> QED BY <1>1
  <1>4. ASSUME NEW t \in 0..clock' PROVE Total(Within(Due, t)) <= Budget
    <2>1. CASE t = clock'
      <3>1. \A x \in Times : Within(Due, t)[x] <= spent[x]
        <4> SUFFICES ASSUME NEW x \in Times PROVE Within(Due, t)[x] <= spent[x]
          OBVIOUS
        <4>1. Within(Due, t)[x] = IF t - Window < x /\ x <= t THEN Due[x] ELSE 0
          BY <1>2, WithinIs
        <4>2. x \in Nat /\ spent[x] \in Nat
          BY <1>1
        <4>3. t - Window < x => clock' - x < Window
          BY <1>1, <2>1, <4>2
        <4> QED BY <1>3, <4>1, <4>2, <4>3
      <3> QED BY <1>1, <1>2, <3>1, WithinBudget, WithinIs
    <2>2. CASE t # clock'
      <3>1. t \in 0..clock
        BY <1>1, <2>2
      <3> QED BY <3>1 DEF Budgeted
    <2> QED BY <2>1, <2>2
  <1>5. \A t \in 0..clock' : Total(Within(Due', t)) <= Budget
    BY <1>2, <1>4
  <1>6. Total(spent') <= Budget
    BY <1>1
  <1> QED BY <1>1, <1>2, <1>3, <1>5, <1>6 DEF Budgeted, Total, Within, Times

LEMMA BudgetedStep ==
  ASSUME Budgeted, [ShareNext]_allVars
  PROVE  Budgeted'
  <1>1. Vetted' /\ landed \in [Times -> Nat] /\ Times \subseteq Nat
    BY VettedStep DEF Budgeted, Times
  <1>2. \A t \in Times : Due[t] \in Nat /\ landed[t] \in Nat /\ landed[t] <= Due[t]
    BY <1>1, DueIs DEF Budgeted, Vetted, Due
  <1>3. ASSUME UNCHANGED <<clock, spent, landed, vetted>> PROVE Budgeted'
    <2>1. Due' = Due
      BY <1>3 DEF Due, DueOf, Times
    <2> QED BY <1>1, <1>2, <1>3, <2>1, BudgetedLess
  <1>4. CASE Owner \/ UNCHANGED allVars
    BY <1>3, <1>4 DEF Owner, allVars, sharing
  <1>5. CASE Records
    BY <1>1, <1>3, <1>5, BudgetedTick DEF Records, Invite, Revoke, SetRole, OpenCall, EndCall
  <1>6. CASE Recipient
    <2>1. ASSUME NEW c \in Colls, NEW n \in 1..MaxBatch, NEW verb \in Verbs, PassWall(c, verb, n)
          PROVE  Budgeted'
      BY <1>1, <2>1, BudgetedWall
    <2>2. CASE SharedRefused
      <3>1. landed' = landed /\ clock' = clock /\ spent' = spent /\ vetted' = None
        BY <2>2 DEF SharedRefused
      <3>2. \A t \in Times : Due'[t] = landed[t] + 0
        BY <3>1 DEF Due, DueOf, Times
      <3> QED BY <1>1, <1>2, <3>1, <3>2, BudgetedLess
    <2>3. CASE SharedLands
      <3>1. /\ landed' = [landed EXCEPT ![vetted.at] = @ + vetted.n] /\ vetted # None /\ vetted' = None
            /\ clock' = clock /\ spent' = spent
        BY <2>3 DEF SharedLands
      <3>2. vetted.at \in Times /\ vetted.n \in Nat
        BY <3>1, ShareBounds DEF Budgeted, Vetted, SharedWrites
      <3>3. landed' \in [Times -> Nat] /\ \A t \in Times : landed'[t] = landed[t] + (IF vetted.at = t THEN vetted.n ELSE 0)
        <4> DEFINE a == vetted.at
                   n == vetted.n
        <4>1. landed' = [landed EXCEPT ![a] = landed[a] + n] /\ a \in Times /\ n \in Nat
          BY <3>1, <3>2
        <4> HIDE DEF a, n
        <4>2. landed' \in [Times -> Nat] /\ \A t \in Times : landed'[t] = landed[t] + (IF a = t THEN n ELSE 0)
          BY <1>1, <4>1
        <4> QED BY <4>2 DEF a, n
      <3>4. \A t \in Times : Due[t] = landed'[t]
        BY <3>1, <3>3 DEF Due, DueOf
      <3>5. \A t \in Times : Due'[t] = landed'[t] + 0
        BY <3>1 DEF Due, DueOf, Times
      <3>6. \A t \in Times : Due'[t] <= Due[t]
        BY <1>2, <3>4, <3>5
      <3> QED BY <1>1, <3>1, <3>3, <3>6, BudgetedLess
    <2> QED BY <1>6, <2>1, <2>2, <2>3 DEF Recipient, Verbs
  <1> QED BY <1>4, <1>5, <1>6 DEF ShareNext

LEMMA BudgetedInit == ShareInit => Budgeted
  <1> SUFFICES ASSUME ShareInit PROVE Budgeted
    OBVIOUS
  <1>1. /\ clock = 0 /\ spent = [t \in Times |-> 0] /\ landed = [t \in Times |-> 0] /\ vetted = None
        /\ Budget \in Nat /\ 0 \in Times
    BY ShareBounds DEF ShareInit, ShareStarts, Times
  <1>2. spent \in [Times -> Nat] /\ landed \in [Times -> Nat] /\ \A t \in Times : spent[t] = 0 /\ landed[t] = 0
    BY <1>1
  <1>3. Total(spent) = 0
    BY <1>2, NothingTotal
  <1>4. Due \in [Times -> Nat] /\ \A t \in Times : Due[t] = 0
    BY <1>1, <1>2 DEF Due, DueOf
  <1>5. ASSUME NEW t \in 0..clock PROVE Total(Within(Due, t)) <= Budget
    <2>1. Within(Due, t) \in [Times -> Nat] /\ \A x \in Times : Within(Due, t)[x] = 0
      BY <1>4, WithinIs
    <2>2. Total(Within(Due, t)) = 0
      BY <2>1, NothingTotal
    <2> QED BY <1>1, <2>2
  <1>6. Vetted
    BY <1>1 DEF Vetted
  <1> QED BY <1>1, <1>2, <1>3, <1>4, <1>5, <1>6 DEF Budgeted

\* In no window of the clock does the recipient land more writes than the budget, each counted when it was let
\* through.
THEOREM TheBudgetHolds == ShareSpec => []BudgetHolds
  <1>1. Budgeted /\ [ShareNext]_allVars => Budgeted'
    BY BudgetedStep
  <1> QED BY <1>1, BudgetedHolds, BudgetedInit, PTL DEF ShareSpec

----------------------------------------------------------------------------
(* One call.                                                               *)

\* A shared app's guard is bound inside its share, and was shown rows of it only.
InShare(g) == g.coll \in g.caps.collections /\ \A id \in Ids : g.seen[id] \in g.caps.collections \cup {Nil}

\* Pin answers with a collection in reach: a handle, the handle of a bare name, or the bound one.
LEMMA PinReaches ==
  ASSUME NEW g \in Guards, Shared(g), InShare(g), NEW c \in Collections \cup {Nil}
  PROVE  Pin(g, c) \in Reach(g) /\ Pin(g, c) \in Collections
  <1>1. g.coll \in g.caps.collections /\ Reach(g) = g.caps.collections
    BY DEF InShare, Reach
  <1>2. g.caps.collections \in SUBSET Collections
    BY DEF Guards, Caps, Shared
  <1> QED BY <1>1, <1>2 DEF Pin

\* A row write is addressed to the collection the row was shown in.
LEMMA ShownAtReaches ==
  ASSUME NEW g \in Guards, Shared(g), InShare(g), NEW id \in Ids, id \in g.shown \/ g.seen[id] # Nil
  PROVE  ShownAt(g, id) \in Reach(g) /\ (ShownAt(g, id) = g.seen[id] \/ id \in g.shown)
  <1>1. Reach(g) = g.caps.collections /\ g.coll \in g.caps.collections
    BY DEF InShare, Reach
  <1>2. g.seen[id] \in g.caps.collections \cup {Nil}
    BY DEF InShare
  <1> QED BY <1>1, <1>2 DEF ShownAt

\* So a write the guard lets through for a shared app names a collection of its share.
LEMMA SharedWriteReaches ==
  ASSUME NEW g \in Guards, Shared(g), InShare(g), NEW ask \in Calls, ask.tool \in DataWrites,
         NEW typed \in BOOLEAN, DataWrite(g, ask, typed) # Nil
  PROVE  DataWrite(g, ask, typed).collection \in g.caps.collections
  <1>1. WriteAllowed(g, ask, typed) /\ DataWrite(g, ask, typed).collection = Addressed(g, ask, typed)
    BY DEF DataWrite, Calls
  <1>2. ask.id \in Ids /\ ask.collection \in Collections \cup {Nil} /\ g.coll \in Collections
    BY DEF Calls, Guards
  <1>3. CASE ask.tool = "data_add_item"
    <2>1. Pin(g, g.coll) \in Reach(g) /\ Pin(g, ask.collection) \in Reach(g)
      BY <1>2, PinReaches
    <2> QED BY <1>1, <1>3, <2>1 DEF Addressed, Reach
  <1>4. CASE ask.tool # "data_add_item"
    <2>1. ask.id \in g.shown \/ g.seen[ask.id] # Nil
      BY <1>1, <1>4 DEF WriteAllowed
    <2> QED BY <1>1, <1>2, <1>4, <2>1, ShownAtReaches DEF Addressed, Reach
  <1> QED BY <1>3, <1>4

\* A write the guard lets through, of a typed verb or of a generic tool, is confined.
LEMMA DataWriteConfined ==
  ASSUME NEW g \in Guards, Strict(g), NEW ask \in Calls, ask.tool \in DataWrites,
         NEW typed \in BOOLEAN, DataWrite(g, ask, typed) # Nil
  PROVE  Confined(g, DataWrite(g, ask, typed))
  <1> DEFINE req == DataWrite(g, ask, typed)
  <1>1. /\ WriteAllowed(g, ask, typed)
        /\ ask.tool = "data_delete_item" => g.caps.delete_items # "deny"
    BY DEF DataWrite
  <1>2. /\ req.tool = ask.tool /\ req.id = ask.id
        /\ req.actor = "human" /\ req.via = g.name
        /\ req.collection = Addressed(g, ask, typed)
        /\ ask.tool = "data_delete_item" /\ g.caps.delete_items = "confirm" => req.confirm
    BY <1>1 DEF DataWrite, Calls
  <1>3. /\ ask.tool \notin ControlPlane /\ ask.tool # "apply_data_writes"
        /\ ask.tool \notin FileReads \cup FileWrites \cup {"call_function"}
        /\ ask.tool \notin BoundReads
    BY WallIsApart DEF DataWrites, FileReads, FileWrites, BoundReads
  <1>4. ask.id \in Ids /\ ask.collection \in Collections \cup {Nil}
    BY DEF Calls
  <1>5. ask.tool = "data_add_item" => req.collection \in Reach(g)
    <2> SUFFICES ASSUME ask.tool = "data_add_item" PROVE Addressed(g, ask, typed) \in Reach(g)
      BY <1>2
    <2>1. CASE Shared(g)
      BY <1>2, <2>1, SharedWriteReaches DEF Reach, Strict, InShare
    <2>2. CASE ~ Shared(g)
      BY <2>2 DEF Addressed, Reach, Strict
    <2> QED BY <2>1, <2>2
  <1>6. ASSUME ask.tool # "data_add_item", Shared(g)
        PROVE  req.collection \in Reach(g) /\ (req.collection = g.seen[ask.id] \/ ask.id \in g.shown)
    <2>1. ask.id \in g.shown \/ g.seen[ask.id] # Nil
      BY <1>1, <1>6 DEF WriteAllowed
    <2>2. req.collection = ShownAt(g, ask.id)
      BY <1>2, <1>6 DEF Addressed
    <2> QED BY <1>4, <1>6, <2>1, <2>2, ShownAtReaches DEF Strict, InShare
  <1>7. ASSUME ask.tool # "data_add_item", ~ Shared(g) PROVE ask.id \in g.shown
    BY <1>1, <1>7 DEF WriteAllowed, MayWriteRow, Strict
  <1>8. ASSUME g.coll = Settings, ~ Shared(g) PROVE g.caps.settings_write
    <2>1. CASE ask.tool = "data_add_item"
      BY <1>1, <1>8, <2>1 DEF WriteAllowed, Addressed, SettingsDenied, Strict
    <2>2. CASE ask.tool # "data_add_item"
      BY <1>1, <1>8, <2>2 DEF WriteAllowed, MayWriteRow, SettingsDenied
    <2> QED BY <2>1, <2>2
  <1> QED BY <1>1, <1>2, <1>3, <1>5, <1>6, <1>7, <1>8 DEF Confined, DataWrites

\* The typed verbs of the bridge reach only rows of the child's own projection or share.
THEOREM TypedConfined ==
  ASSUME NEW g \in Guards, Strict(g), NEW ask \in Calls, ask.tool \in DataWrites, Typed(g, ask) # Nil
  PROVE  Confined(g, Typed(g, ask))
  <1> DEFINE asked == [ask EXCEPT !.collection = Nil, !.confirm = FALSE]
  <1>1. asked \in Calls /\ asked.tool = ask.tool
    BY DEF Calls
  <1>2. TRUE \in BOOLEAN
    OBVIOUS
  <1> QED BY <1>1, <1>2, DataWriteConfined DEF Typed

\* The generic door: every call it forwards is confined.
THEOREM CallToolConfined ==
  ASSUME NEW g \in Guards, Strict(g), NEW ask \in Calls, CallTool(g, ask) # Nil
  PROVE  Confined(g, CallTool(g, ask))
  <1> DEFINE req == CallTool(g, ask)
  <1>1. Allowed(g, ask.tool)
    BY DEF CallTool
  <1>2. ask.tool \notin ControlPlane /\ ask.tool # "apply_data_writes"
    BY <1>1 DEF Allowed
  <1>3. CASE ask.tool \in DataWrites
    <2>1. req = DataWrite(g, ask, FALSE)
      BY <1>1, <1>3 DEF CallTool
    <2> QED BY <1>3, <2>1, DataWriteConfined
  <1>4. CASE ask.tool \notin DataWrites
    <2>1. /\ req.tool = ask.tool
          /\ ask.tool \in FileReads \cup FileWrites \cup {"call_function"} => req.app = g.name
          /\ ask.tool \in {"file_delete", "call_function"} => req.actor = "human"
          /\ ask.tool = "call_function" => req.via = g.name
          /\ ask.tool \in BoundReads => req.collection = ReadBoundTo(g, ask.collection)
      BY <1>1, <1>4 DEF CallTool, Calls
    <2>2. ask.tool \in BoundReads => req.collection \in Reach(g)
      <3>1. ask.collection \in Collections \cup {Nil}
        BY DEF Calls
      <3>2. Shared(g) => InShare(g)
        BY DEF Strict, InShare
      <3> QED BY <2>1, <3>1, <3>2, PinReaches DEF ReadBoundTo, Reach, Strict
    <2> QED BY <1>2, <1>4, <2>1, <2>2 DEF Confined, DataWrites, BoundReads
  <1> QED BY <1>3, <1>4

----------------------------------------------------------------------------
(* Every call.                                                             *)

\* The guard is well-formed: a name, a collection, caps and what it remembers.
Confining == guard \in Guards

\* A read lands on a collection, the one asked for or one the guard puts in its place.
LEMMA ReadTargetReaches ==
  ASSUME NEW g \in Guards, NEW c \in Collections \cup {Nil}
  PROVE  ReadTarget(g, c) \in Collections
  <1>1. g.coll \in Collections /\ (Shared(g) => g.caps.collections \in SUBSET Collections)
    BY DEF Guards, Caps, Shared
  <1>2. CASE Shared(g)
    BY <1>1, <1>2 DEF ReadTarget, Pin
  <1>3. CASE ~ Shared(g)
    BY <1>1, <1>3 DEF ReadTarget
  <1> QED BY <1>2, <1>3

\* The guard changes with a read only, and stays a guard.
LEMMA GuardStaysAGuard ==
  ASSUME guard \in Guards, [UseNext]_useVars
  PROVE  guard' \in Guards
  <1>1. ASSUME NEW c \in Collections \cup {Nil}, WidgetReads(c) PROVE guard' \in Guards
    <2> DEFINE at == ReadTarget(guard, c)
               rows == RowsAt(at)
    <2>1. at \in Collections
      BY ReadTargetReaches
    <2>2. rows \in SUBSET Ids
      BY UseShape DEF RowsAt, RowsOf
    <2>3. [i \in Ids |-> IF Shared(guard) /\ i \in rows THEN at ELSE guard.seen[i]] \in [Ids -> Collections \cup {Nil}]
      BY <2>1 DEF Guards
    <2>4. (IF at = guard.coll /\ (at \in Shelf => Reached(at)) THEN rows ELSE guard.shown) \in SUBSET Ids
      BY <2>2 DEF Guards
    <2>5. guard' = [guard EXCEPT !.shown = IF at = guard.coll /\ (at \in Shelf => Reached(at)) THEN rows ELSE guard.shown,
                                 !.seen = [i \in Ids |-> IF Shared(guard) /\ i \in rows THEN at ELSE guard.seen[i]]]
      BY <1>1 DEF WidgetReads
    <2> HIDE DEF at, rows
    <2> QED BY <2>3, <2>4, <2>5 DEF Guards
  <1>2. ASSUME OwnerActs PROVE guard' = guard
    BY <1>2 DEF OwnerActs
  <1>3. ASSUME NEW k \in Copies, StartCopy(k) \/ ReadPage(k) \/ CopyChunk(k) \/ AnswerCopy(k) \/ CopyDies(k)
        PROVE  guard' = guard
    BY <1>3 DEF StartCopy, ReadPage, CopyChunk, AnswerCopy, CopyDies
  <1>4. ASSUME NEW r \in Requests, WidgetCalls(r) \/ ModelCalls(r) PROVE guard' = guard
    BY <1>4 DEF WidgetCalls, ModelCalls
  <1>5. ASSUME Lands PROVE guard' = guard
    BY <1>5 DEF Lands
  <1>6. ASSUME UNCHANGED useVars PROVE guard' = guard
    BY <1>6 DEF useVars
  <1> QED BY <1>1, <1>2, <1>3, <1>4, <1>5, <1>6 DEF UseNext

\* A step that sends a call for a widget sends what its guard makes of a request.
LEMMA SendsWhatTheGuardMakes ==
  ASSUME UseNext, sent = Nil, sent' # Nil, sent'.by = "app"
  PROVE  \E r \in Requests :
           \/ CallTool(guard, r) # Nil /\ sent'.req = CallTool(guard, r)
           \/ r.tool \in DataWrites /\ Typed(guard, r) # Nil /\ sent'.req = Typed(guard, r)
  <1>1. ASSUME OwnerActs PROVE FALSE
    BY <1>1 DEF OwnerActs
  <1>2. ASSUME NEW k \in Copies, StartCopy(k) \/ ReadPage(k) \/ CopyChunk(k) \/ AnswerCopy(k) \/ CopyDies(k)
        PROVE  FALSE
    BY <1>2 DEF StartCopy, ReadPage, CopyChunk, AnswerCopy, CopyDies
  <1>3. ASSUME NEW c \in Collections \cup {Nil}, WidgetReads(c) PROVE FALSE
    BY <1>3 DEF WidgetReads
  <1>4. ASSUME NEW r \in Requests, ModelCalls(r) PROVE FALSE
    BY <1>4 DEF ModelCalls
  <1>5. ASSUME Lands PROVE FALSE
    BY <1>5 DEF Lands
  <1>6. PICK r \in Requests : WidgetCalls(r)
    BY <1>1, <1>2, <1>3, <1>4, <1>5 DEF UseNext
  <1>7. PICK req \in {CallTool(guard, r)} \cup (IF r.tool \in DataWrites THEN {Typed(guard, r)} ELSE {}) :
          req # Nil /\ sent' = [by |-> "app", req |-> req]
    BY <1>6 DEF WidgetCalls
  <1>8. sent'.req = req
    BY <1>7
  <1> QED BY <1>7, <1>8

\* Of a guard that was well-formed when the widget came up: every call the widget ever gets through,
\* by a typed verb or by callTool, is confined to the child while no policy has opened it.
THEOREM ChildStaysConfined == guard \in Guards /\ [][UseNext]_useVars => ChildIsConfined
  <1>1. ASSUME guard \in Guards, UseNext, sent = Nil, sent' # Nil, sent'.by = "app", Strict(guard)
        PROVE  Confined(guard, sent'.req)
    <2>1. PICK r \in Requests :
             \/ CallTool(guard, r) # Nil /\ sent'.req = CallTool(guard, r)
             \/ r.tool \in DataWrites /\ Typed(guard, r) # Nil /\ sent'.req = Typed(guard, r)
      BY <1>1, SendsWhatTheGuardMakes
    <2>2. r \in Calls
      BY UseShape
    <2> QED BY <1>1, <2>1, <2>2, CallToolConfined, TypedConfined
  <1>2. Confining /\ [UseNext]_useVars => Confining'
    BY GuardStaysAGuard DEF Confining
  <1>3. Confining /\ [UseNext]_useVars =>
          [sent = Nil /\ sent' # Nil /\ sent'.by = "app" /\ Strict(guard) => Confined(guard, sent'.req)]_useVars
    BY <1>1 DEF Confining
  <1> QED BY <1>2, <1>3, PTL DEF Confining, ChildIsConfined
----------------------------------------------------------------------------
(* What a shared app's widget changes.                                     *)

ShelfRows == [coll : Shelf, pos : {0, 1}, by : {"owner", "app", "ai"}]

\* The owner's rows are rows, and the guard of a shared app is opened over collections of theirs.
Opened ==
  /\ guard \in Guards /\ shelf \in [Rows -> ShelfRows \cup {Nil}]
  /\ Shared(guard) => InShare(guard) /\ guard.caps.collections \subseteq Shelf

\* A call on its way came from somebody, and a write of a shared app's widget names a collection of the share.
SentBySomebody == sent # Nil => sent.by \in {"app", "ai"}
SentStays ==
  sent # Nil /\ sent.by = "app" /\ Shared(guard) /\ sent.req.tool \in DataWrites
    => sent.req.collection \in guard.caps.collections

SharedInv == Opened /\ SentBySomebody /\ SentStays

\* A read leaves name, binding and caps alone, and remembers rows of the share.
LEMMA ReadsStayInShare ==
  ASSUME guard \in Guards, NEW c \in Collections \cup {Nil}, WidgetReads(c)
  PROVE  /\ guard'.caps = guard.caps /\ guard'.coll = guard.coll
         /\ Shared(guard) /\ InShare(guard) => InShare(guard')
  <1> DEFINE at == ReadTarget(guard, c)
             rows == RowsAt(at)
             shown == IF at = guard.coll /\ (at \in Shelf => Reached(at)) THEN rows ELSE guard.shown
             seen == [i \in Ids |-> IF Shared(guard) /\ i \in rows THEN at ELSE guard.seen[i]]
  <1>1. guard' = [guard EXCEPT !.shown = shown, !.seen = seen]
    BY DEF WidgetReads
  <1> HIDE DEF shown, seen
  <1>2. guard'.caps = guard.caps /\ guard'.coll = guard.coll /\ guard'.seen = seen
    BY <1>1 DEF Guards
  <1>3. ASSUME Shared(guard), InShare(guard) PROVE InShare(guard')
    <2>1. at \in guard.caps.collections
      BY <1>3, PinReaches DEF ReadTarget, Reach
    <2>2. \A i \in Ids : seen[i] = at \/ seen[i] = guard.seen[i]
      BY DEF seen
    <2> HIDE DEF at
    <2> QED BY <1>2, <1>3, <2>1, <2>2 DEF InShare
  <1> QED BY <1>2, <1>3

\* Nothing else moves the guard, and only the owner and a call that lands move the owner's rows.
LEMMA GuardMovesWithReads ==
  ASSUME [UseNext]_useVars, guard' # guard
  PROVE  \E c \in Collections \cup {Nil} : WidgetReads(c)
  <1>1. OwnerActs \/ Lands \/ UNCHANGED useVars => guard' = guard
    BY DEF OwnerActs, Lands, useVars
  <1>2. ASSUME NEW k \in Copies, StartCopy(k) \/ ReadPage(k) \/ CopyChunk(k) \/ AnswerCopy(k) \/ CopyDies(k)
        PROVE  guard' = guard
    BY <1>2 DEF StartCopy, ReadPage, CopyChunk, AnswerCopy, CopyDies
  <1>3. ASSUME NEW r \in Requests, WidgetCalls(r) \/ ModelCalls(r) PROVE guard' = guard
    BY <1>3 DEF WidgetCalls, ModelCalls
  <1> QED BY <1>1, <1>2, <1>3 DEF UseNext

LEMMA ShelfMovesWith ==
  ASSUME [UseNext]_useVars, shelf' # shelf
  PROVE  OwnerActs \/ Lands
  <1>1. UNCHANGED useVars => shelf' = shelf
    BY DEF useVars, owners
  <1>2. ASSUME NEW k \in Copies, StartCopy(k) \/ ReadPage(k) \/ CopyChunk(k) \/ AnswerCopy(k) \/ CopyDies(k)
        PROVE  shelf' = shelf
    BY <1>2 DEF StartCopy, ReadPage, CopyChunk, AnswerCopy, CopyDies, owners
  <1>3. ASSUME NEW r \in Requests, WidgetCalls(r) \/ ModelCalls(r) PROVE shelf' = shelf
    BY <1>3 DEF WidgetCalls, ModelCalls, owners
  <1>4. ASSUME NEW c \in Collections \cup {Nil}, WidgetReads(c) PROVE shelf' = shelf
    BY <1>4 DEF WidgetReads, owners
  <1> QED BY <1>1, <1>2, <1>3, <1>4 DEF UseNext

\* A call under way is dropped when it lands, and else stays as it was sent.
LEMMA SentMovesWith ==
  ASSUME [UseNext]_useVars, sent' # sent
  PROVE  \/ Lands /\ sent' = Nil
         \/ sent = Nil /\ \E r \in Requests : WidgetCalls(r) \/ ModelCalls(r)
  <1>1. OwnerActs \/ UNCHANGED useVars => sent' = sent
    BY DEF OwnerActs, useVars
  <1>2. ASSUME NEW k \in Copies, StartCopy(k) \/ ReadPage(k) \/ CopyChunk(k) \/ AnswerCopy(k) \/ CopyDies(k)
        PROVE  sent' = sent
    BY <1>2 DEF StartCopy, ReadPage, CopyChunk, AnswerCopy, CopyDies
  <1>3. ASSUME NEW c \in Collections \cup {Nil}, WidgetReads(c) PROVE sent' = sent
    BY <1>3 DEF WidgetReads
  <1>4. Lands => sent' = Nil
    BY DEF Lands
  <1>5. ASSUME NEW r \in Requests, WidgetCalls(r) \/ ModelCalls(r) PROVE sent = Nil
    BY <1>5 DEF WidgetCalls, ModelCalls
  <1> QED BY <1>1, <1>2, <1>3, <1>4, <1>5 DEF UseNext

WrittenBy(by) == {[coll |-> c, pos |-> p, by |-> by] : c \in Shelf, p \in {0, 1}}

\* A write that lands on the owner's store changes one row: of the collection it names, if it names one.
LEMMA WriteHitsOneRow ==
  ASSUME shelf \in [Rows -> ShelfRows \cup {Nil}], NEW req, NEW by,
         OnShared(req, by) \/ AddToShared(req, by)
  PROVE  \E i \in Rows : \E row \in WrittenBy(by) \cup {Nil} :
           /\ shelf' = [shelf EXCEPT ![i] = row] /\ mine' = mine
           /\ req.collection \in Collections =>
                /\ shelf[i] # Nil => shelf[i].coll = req.collection
                /\ row # Nil => row.coll = req.collection
  <1>1. CASE OnShared(req, by)
    <2>1. /\ req.id \in Rows /\ shelf[req.id] # Nil /\ mine' = mine
          /\ req.collection \in {Nil, shelf[req.id].coll}
      BY <1>1 DEF OnShared, WallPasses
    <2>2. PICK pos \in IF req.tool = "data_move_item" THEN {0, 1} ELSE {shelf[req.id].pos} :
            shelf' = [shelf EXCEPT ![req.id] = Written([shelf[req.id] EXCEPT !.pos = pos], req, by)]
      BY <1>1 DEF OnShared
    <2> DEFINE old == shelf[req.id]
               row == Written([old EXCEPT !.pos = pos], req, by)
    <2>3. old \in ShelfRows /\ pos \in {0, 1}
      BY <2>1, <2>2 DEF ShelfRows
    <2>4. row = Nil \/ row = [coll |-> old.coll, pos |-> pos, by |-> by]
      BY <2>3 DEF Written, ShelfRows
    <2>5. old.coll \in Shelf
      BY <2>3 DEF ShelfRows
    <2>6. req.collection \in Collections => req.collection = old.coll
      BY <2>1, NilIsNil
    <2>7. row \in WrittenBy(by) \cup {Nil} /\ (row # Nil => row.coll = old.coll)
      <3> HIDE DEF row, old
      <3> QED BY <2>3, <2>4, <2>5 DEF WrittenBy
    <2>8. shelf' = [shelf EXCEPT ![req.id] = row]
      BY <2>2
    <2> HIDE DEF row
    <2> QED BY <2>1, <2>6, <2>7, <2>8
  <1>2. CASE AddToShared(req, by)
    <2>1. PICK i \in Rows : shelf[i] = Nil /\ shelf' = [shelf EXCEPT ![i] = [coll |-> req.collection, pos |-> 1, by |-> by]]
      BY <1>2 DEF AddToShared
    <2>2. req.collection \in Shelf /\ mine' = mine
      BY <1>2 DEF AddToShared
    <2> DEFINE row == [coll |-> req.collection, pos |-> 1, by |-> by]
    <2>3. row \in WrittenBy(by) \cup {Nil} /\ row.coll = req.collection
      BY <2>2 DEF WrittenBy
    <2>4. shelf' = [shelf EXCEPT ![i] = row]
      BY <2>1
    <2> HIDE DEF row
    <2> QED BY <2>1, <2>2, <2>3, <2>4
  <1> QED BY <1>1, <1>2

\* The owner's rows stay rows.
LEMMA ShelfStaysTyped ==
  ASSUME shelf \in [Rows -> ShelfRows \cup {Nil}], SentBySomebody, [UseNext]_useVars
  PROVE  shelf' \in [Rows -> ShelfRows \cup {Nil}]
  <1>1. shelf \in [Rows -> ShelfRows \cup {Nil}]
    OBVIOUS
  <1>2. ASSUME OwnerActs PROVE shelf' \in [Rows -> ShelfRows \cup {Nil}]
    <2>1. ASSUME NEW i \in Rows, OwnerMoves(i) PROVE shelf' \in [Rows -> ShelfRows \cup {Nil}]
      <3>1. shelf[i] \in ShelfRows /\ shelf' = [shelf EXCEPT ![i] = [shelf[i] EXCEPT !.pos = 1 - @]]
        BY <1>1, <2>1 DEF OwnerMoves
      <3>2. [shelf[i] EXCEPT !.pos = 1 - @] \in ShelfRows
        BY <3>1 DEF ShelfRows
      <3> QED BY <1>1, <3>1, <3>2
    <2>2. ASSUME NEW i \in Rows, OwnerDeletes(i) PROVE shelf' \in [Rows -> ShelfRows \cup {Nil}]
      BY <1>1, <2>2 DEF OwnerDeletes
    <2>3. ASSUME NEW i \in Rows, NEW c \in Shelf, NEW pos \in {0, 1}, OwnerAdds(i, c, pos)
          PROVE  shelf' \in [Rows -> ShelfRows \cup {Nil}]
      <3>1. [coll |-> c, pos |-> pos, by |-> "owner"] \in ShelfRows
        BY DEF ShelfRows
      <3> QED BY <1>1, <2>3, <3>1 DEF OwnerAdds
    <2>4. ASSUME NEW colls \in SUBSET Shelf, Rebinds(colls) PROVE shelf' = shelf
      BY <2>4 DEF Rebinds
    <2>5. Revokes \/ SetsRole => shelf' = shelf
      BY DEF Revokes, SetsRole
    <2> QED BY <1>1, <1>2, <2>1, <2>2, <2>3, <2>4, <2>5 DEF OwnerActs
  <1>3. ASSUME Lands PROVE shelf' \in [Rows -> ShelfRows \cup {Nil}]
    <2>1. OnOwn(sent.req, sent.by) => shelf' = shelf
      BY DEF OnOwn
    <2>2. ASSUME OnShared(sent.req, sent.by) \/ AddToShared(sent.req, sent.by)
          PROVE  shelf' \in [Rows -> ShelfRows \cup {Nil}]
      <3>1. sent.by \in {"app", "ai"}
        BY <1>3 DEF Lands, SentBySomebody
      <3>2. WrittenBy(sent.by) \subseteq ShelfRows
        BY <3>1 DEF ShelfRows, WrittenBy
      <3>3. PICK i \in Rows, row \in WrittenBy(sent.by) \cup {Nil} :
              shelf' = [shelf EXCEPT ![i] = row]
        BY <1>1, <2>2, WriteHitsOneRow
      <3>4. row \in ShelfRows \cup {Nil}
        BY <3>2, <3>3
      <3> QED BY <1>1, <3>3, <3>4
    <2> QED BY <1>1, <1>3, <2>1, <2>2 DEF Lands
  <1> QED BY <1>1, <1>2, <1>3, ShelfMovesWith

LEMMA SentStaysBySomebody ==
  ASSUME SentBySomebody, [UseNext]_useVars
  PROVE  SentBySomebody'
  <1>1. ASSUME NEW r \in Requests, WidgetCalls(r) \/ ModelCalls(r) PROVE sent'.by \in {"app", "ai"}
    BY <1>1 DEF WidgetCalls, ModelCalls
  <1> QED BY <1>1, SentMovesWith DEF SentBySomebody

\* Every step keeps the invariant.
LEMMA SharedStep == SharedInv /\ [UseNext]_useVars => SharedInv'
  <1> SUFFICES ASSUME SharedInv, [UseNext]_useVars PROVE SharedInv'
    OBVIOUS
  <1>1. guard \in Guards /\ guard' \in Guards
    BY GuardStaysAGuard DEF SharedInv, Opened
  <1>2. guard'.caps = guard.caps /\ (Shared(guard) /\ InShare(guard) => InShare(guard'))
    <2>1. CASE guard' = guard
      BY <2>1
    <2>2. CASE guard' # guard
      BY <1>1, <2>2, GuardMovesWithReads, ReadsStayInShare
    <2> QED BY <2>1, <2>2
  <1>3. Shared(guard') <=> Shared(guard)
    BY <1>2 DEF Shared
  <1>4. Opened'
    <2>1. Shared(guard') => InShare(guard') /\ guard'.caps.collections \subseteq Shelf
      BY <1>2, <1>3 DEF SharedInv, Opened
    <2> QED BY <1>1, <2>1, ShelfStaysTyped DEF SharedInv, Opened
  <1>5. SentStays'
    <2>1. CASE sent' = sent
      BY <1>2, <1>3, <2>1 DEF SharedInv, SentStays
    <2>2. CASE sent' = Nil
      BY <2>2 DEF SentStays
    <2>3. ASSUME sent = Nil, NEW r \in Requests, ModelCalls(r) PROVE SentStays'
      <3>1. sent'.by = "ai"
        BY <2>3 DEF ModelCalls
      <3> QED BY <3>1 DEF SentStays
    <2>4. ASSUME sent = Nil, sent' # Nil, sent'.by = "app", Shared(guard), sent'.req.tool \in DataWrites, UseNext
          PROVE  sent'.req.collection \in guard.caps.collections
      <3>1. PICK r \in Requests :
              \/ CallTool(guard, r) # Nil /\ sent'.req = CallTool(guard, r)
              \/ r.tool \in DataWrites /\ Typed(guard, r) # Nil /\ sent'.req = Typed(guard, r)
        BY <2>4, SendsWhatTheGuardMakes
      <3>2. r \in Calls /\ InShare(guard)
        BY <2>4, UseShape DEF SharedInv, Opened
      <3>3. CASE r.tool \in DataWrites /\ Typed(guard, r) # Nil /\ sent'.req = Typed(guard, r)
        <4> DEFINE asked == [r EXCEPT !.collection = Nil, !.confirm = FALSE]
        <4>1. asked \in Calls /\ asked.tool = r.tool /\ TRUE \in BOOLEAN
          BY <3>2 DEF Calls
        <4> QED BY <1>1, <2>4, <3>2, <3>3, <4>1, SharedWriteReaches DEF Typed
      <3>4. CASE CallTool(guard, r) # Nil /\ sent'.req = CallTool(guard, r)
        <4>1. CASE r.tool \in DataWrites
          <5>1. CallTool(guard, r) = DataWrite(guard, r, FALSE)
            BY <3>4, <4>1 DEF CallTool
          <5> QED BY <1>1, <2>4, <3>2, <3>4, <4>1, <5>1, SharedWriteReaches
        <4>2. CASE r.tool \notin DataWrites
          <5>1. sent'.req.tool = r.tool
            BY <3>2, <3>4, <4>2 DEF CallTool, Calls
          <5> QED BY <2>4, <4>2, <5>1
        <4> QED BY <4>1, <4>2
      <3> QED BY <3>1, <3>3, <3>4
    <2>5. ASSUME sent = Nil, NEW r \in Requests, WidgetCalls(r) PROVE SentStays'
      <3>1. sent'.by = "app" /\ UseNext
        BY <2>5 DEF WidgetCalls, UseNext
      <3> QED BY <1>2, <1>3, <2>4, <2>5, <3>1 DEF SentStays
    <2> QED BY <2>1, <2>2, <2>3, <2>5, SentMovesWith
  <1> QED BY <1>4, <1>5, SentStaysBySomebody DEF SharedInv

\* Of a widget that came up over a share, or over nobody's: whatever it read and asked, its call changes
\* no row of the viewer's own and only rows of the share's collections, whatever the owner, the viewer's
\* model and the copies did between the read, the call and its landing.
THEOREM SharedWidgetsStayShared ==
  Opened /\ sent = Nil /\ [][UseNext]_useVars => SharedCodeStaysShared
  <1>1. Opened /\ sent = Nil => SharedInv
    BY DEF SharedInv, SentStays, SentBySomebody
  <1>2. ASSUME SharedInv, Lands, sent.by = "app", Shared(guard)
        PROVE  /\ mine' = mine
               /\ \A i \in Rows : shelf'[i] # shelf[i] =>
                    \A r \in {x \in {shelf[i], shelf'[i]} : x # Nil} : r.coll \in guard.caps.collections
    <2> DEFINE Mild == /\ mine' = mine
                       /\ \A i \in Rows : shelf'[i] # shelf[i] =>
                            \A r \in {x \in {shelf[i], shelf'[i]} : x # Nil} : r.coll \in guard.caps.collections
    <2>1. CASE UNCHANGED <<shelf, mine, gone, stood>>
      BY <2>1
    <2>2. ASSUME sent.req.tool \in DataWrites,
                 OnShared(sent.req, sent.by) \/ OnOwn(sent.req, sent.by) \/ AddToShared(sent.req, sent.by)
          PROVE  Mild
      <3>1. sent.req.collection \in guard.caps.collections /\ guard.caps.collections \subseteq Shelf
        BY <1>2, <2>2 DEF Lands, SharedInv, SentStays, Opened
      <3>2. ~ OnOwn(sent.req, sent.by)
        BY <3>1 DEF OnOwn, Target
      <3>3. sent.req.collection \in Collections /\ shelf \in [Rows -> ShelfRows \cup {Nil}]
        BY <1>2, <3>1, UseShape DEF SharedInv, Opened
      <3>4. PICK i \in Rows, row \in WrittenBy(sent.by) \cup {Nil} :
              /\ shelf' = [shelf EXCEPT ![i] = row] /\ mine' = mine
              /\ shelf[i] # Nil => shelf[i].coll = sent.req.collection
              /\ row # Nil => row.coll = sent.req.collection
        BY <2>2, <3>2, <3>3, WriteHitsOneRow
      <3>5. ASSUME NEW j \in Rows, shelf'[j] # shelf[j] PROVE j = i /\ shelf'[j] = row
        BY <3>3, <3>4, <3>5
      <3> QED BY <3>1, <3>4, <3>5
    <2> QED BY <1>2, <2>1, <2>2 DEF Lands
  <1>3. SharedInv /\ [UseNext]_useVars =>
          [Lands /\ sent.by = "app" /\ Shared(guard) =>
             /\ mine' = mine
             /\ \A i \in Rows : shelf'[i] # shelf[i] =>
                  \A r \in {x \in {shelf[i], shelf'[i]} : x # Nil} : r.coll \in guard.caps.collections]_useVars
    BY <1>2
  <1> QED BY <1>1, <1>3, SharedStep, PTL DEF SharedCodeStaysShared
----------------------------------------------------------------------------
(* The names of the copies.                                                *)

\* The mappings, of the copies that have one.
Mapped == copied \in [Copies -> {copied[k] : k \in Copies}]
CopiesInv == Mapped /\ CopiesStayApart

\* A mapping taken from free names misses what is about already, and gives no name twice.
LEMMA FreeMappingsAreFree ==
  ASSUME NEW k \in Copies, NEW m \in FreeMappings(k)
  PROVE  /\ Own \notin Range(m)
         /\ \A c, d \in DOMAIN m : c # d => m[c] # m[d]
         /\ \A l \in Copies : copied[l] # Nil => Range(m) \cap Range(copied[l]) = {}
  <1> DEFINE turns == {t \in [bound -> 1..Cardinality(bound)] : \A c, d \in bound : c # d => t[c] # t[d]}
             names == UNION {Range(Spellings[k][c]) : c \in bound}
             earlier(t, c) == {m[d] : d \in {e \in bound : t[e] < t[c]}}
  <1>1. m \in [bound -> names]
    BY DEF FreeMappings
  <1>2. PICK t \in turns : \A c \in bound : FirstFree(m[c], Spellings[k][c], earlier(t, c))
    BY DEF FreeMappings
  <1>3. \A c \in bound : m[c] \notin Taken(earlier(t, c))
    BY <1>2 DEF FirstFree
  <1>4. Own \notin Range(m)
    <2>1. \A c \in bound : m[c] # Own
      BY <1>3 DEF Taken
    <2> QED BY <1>1, <2>1 DEF Range
  <1>5. ASSUME NEW c \in DOMAIN m, NEW d \in DOMAIN m, c # d PROVE m[c] # m[d]
    <2>1. c \in bound /\ d \in bound
      BY <1>1, <1>5
    <2>2. t[c] # t[d] /\ t[c] \in Int /\ t[d] \in Int
      <3>1. t \in [bound -> 1..Cardinality(bound)] /\ t[c] # t[d]
        BY <1>2, <1>5, <2>1
      <3>2. t[c] \in 1..Cardinality(bound) /\ t[d] \in 1..Cardinality(bound)
        BY <2>1, <3>1
      <3> QED BY <3>1, <3>2
    <2>3. \A a, b \in bound : t[a] < t[b] => m[a] # m[b]
      BY <1>3 DEF Taken
    <2> QED BY <2>1, <2>2, <2>3
  <1>6. ASSUME NEW l \in Copies, copied[l] # Nil PROVE Range(m) \cap Range(copied[l]) = {}
    <2>1. \A c \in bound : m[c] \notin Range(copied[l])
      BY <1>3, <1>6 DEF Taken
    <2> QED BY <1>1, <2>1 DEF Range
  <1> QED BY <1>4, <1>5, <1>6

\* Names are taken when a copy starts, or kept.
LEMMA NamesMoveWithStarts ==
  ASSUME [UseNext]_useVars, copied' # copied
  PROVE  \E k \in Copies : StartCopy(k)
  <1>1. OwnerActs \/ Lands \/ UNCHANGED useVars => copied' = copied
    BY DEF OwnerActs, Lands, useVars, viewers
  <1>2. ASSUME NEW k \in Copies, ReadPage(k) \/ CopyChunk(k) \/ AnswerCopy(k) \/ CopyDies(k) PROVE copied' = copied
    BY <1>2 DEF ReadPage, CopyChunk, AnswerCopy, CopyDies, viewers
  <1>3. ASSUME NEW r \in Requests, WidgetCalls(r) \/ ModelCalls(r) PROVE copied' = copied
    BY <1>3 DEF WidgetCalls, ModelCalls, viewers
  <1>4. ASSUME NEW c \in Collections \cup {Nil}, WidgetReads(c) PROVE copied' = copied
    BY <1>4 DEF WidgetReads, viewers
  <1> QED BY <1>1, <1>2, <1>3, <1>4 DEF UseNext

\* No two copies and no copy and an app of the viewer's own are about one collection, however often a
\* copy dies and is sent again, and whatever the app has come to declare in between.
THEOREM CopiesAreApart ==
  copied = [k \in Copies |-> Nil] /\ [][UseNext]_useVars => []CopiesStayApart
  <1>1. copied = [k \in Copies |-> Nil] => CopiesInv
    BY DEF CopiesInv, Mapped, CopiesStayApart
  <1>2. CopiesInv /\ [UseNext]_useVars => CopiesInv'
    <2> SUFFICES ASSUME CopiesInv, [UseNext]_useVars PROVE CopiesInv'
      OBVIOUS
    <2>1. CASE copied' = copied
      BY <2>1 DEF CopiesInv, Mapped, CopiesStayApart
    <2>2. CASE copied' # copied
      <3>1. PICK k \in Copies : StartCopy(k)
        BY <2>2, NamesMoveWithStarts
      <3>2. PICK m \in Mappings(k) : copied' = [copied EXCEPT ![k] = m]
        BY <3>1 DEF StartCopy
      <3>3. DOMAIN copied = Copies
        BY DEF CopiesInv, Mapped
      <3>4. copied'[k] = m /\ \A l \in Copies \ {k} : copied'[l] = copied[l]
        BY <3>2, <3>3
      <3>5. copied[k] = Nil /\ m \in FreeMappings(k)
        <4>1. copied[k] # Nil => copied' = copied
          <5>1. copied[k] # Nil => copied' = [copied EXCEPT ![k] = copied[k]]
            BY <3>2 DEF Mappings
          <5> QED BY <5>1 DEF CopiesInv, Mapped
        <4> QED BY <2>2, <3>2, <4>1 DEF Mappings
      <3>6. /\ Own \notin Range(m) /\ \A c, d \in DOMAIN m : c # d => m[c] # m[d]
            /\ \A l \in Copies : copied[l] # Nil => Range(m) \cap Range(copied[l]) = {}
        BY <3>5, FreeMappingsAreFree
      <3>7. Mapped'
        <4>1. copied' \in [Copies -> {copied'[l] : l \in Copies}]
          BY <3>2, <3>3
        <4> QED BY <4>1 DEF Mapped
      <3>8. CopiesStayApart'
        <4> SUFFICES ASSUME NEW l \in Copies, copied'[l] # Nil
                     PROVE  /\ Own \notin Range(copied'[l])
                            /\ \A c, d \in DOMAIN copied'[l] : c # d => copied'[l][c] # copied'[l][d]
                            /\ \A o \in Copies \ {l} : copied'[o] # Nil => Range(copied'[l]) \cap Range(copied'[o]) = {}
          BY DEF CopiesStayApart
        <4>1. CASE l = k
          BY <3>4, <3>6, <4>1
        <4>2. CASE l # k
          <5>1. /\ copied[l] # Nil /\ copied'[l] = copied[l]
                /\ Range(m) \cap Range(copied[l]) = {}
            BY <3>4, <3>6, <4>2
          <5>2. /\ Own \notin Range(copied[l]) /\ \A c, d \in DOMAIN copied[l] : c # d => copied[l][c] # copied[l][d]
                /\ \A o \in Copies \ {l} : copied[o] # Nil => Range(copied[l]) \cap Range(copied[o]) = {}
            BY <5>1 DEF CopiesInv, CopiesStayApart
          <5>3. ASSUME NEW o \in Copies \ {l}, copied'[o] # Nil
                PROVE  Range(copied[l]) \cap Range(copied'[o]) = {}
            <6>1. CASE o = k
              BY <3>4, <5>1, <6>1
            <6>2. CASE o # k
              BY <3>4, <5>2, <5>3, <6>2
            <6> QED BY <6>1, <6>2
          <5> QED BY <5>1, <5>2, <5>3
        <4> QED BY <4>1, <4>2
      <3> QED BY <3>7, <3>8 DEF CopiesInv
    <2> QED BY <2>1, <2>2
  <1>3. CopiesInv => CopiesStayApart
    BY DEF CopiesInv
  <1> QED BY <1>1, <1>2, <1>3, PTL
----------------------------------------------------------------------------
(* What the copies carry.                                                  *)

\* The viewer's rows are rows, commands have jobs, and mappings give names.
ViewersRow(row) == row = [coll |-> row.coll, by |-> row.by, from |-> row.from]
Jobs == [todo : SUBSET Shelf, coll : Shelf \cup {Nil}, cursor : Int \X Int, page : SUBSET Rows, more : BOOLEAN]
AllMappings == UNION {[colls -> Spelled] : colls \in SUBSET Shelf}

CopyTypes ==
  /\ shelf \in [Rows -> ShelfRows \cup {Nil}] /\ bound \subseteq Shelf /\ SentBySomebody
  /\ mine = [i \in Ids |-> mine[i]] /\ \A i \in Ids : mine[i] # Nil => ViewersRow(mine[i])
  /\ job \in [Copies -> Jobs \cup {Nil}] /\ copied \in [Copies -> AllMappings \cup {Nil}]
  /\ stood = [k \in Copies |-> stood[k]]

\* What stood since an attempt began is there, shared, and where it was.
Stands(s) == s \in Shelf \X Rows /\ shelf[s[2]] # Nil /\ shelf[s[2]].coll = s[1] /\ Reached(s[1])
Standing == \A k \in Copies : \A s \in stood[k] : Stands(s)

\* It has been copied, or is to be read, or is in hand, or comes after what was read.
Ahead(k, c, i) ==
  \/ RowCommand(k, c, i) \in receipts
  \/ c \in job[k].todo
  \/ job[k].coll = c /\ (i \in job[k].page \/ (job[k].more /\ Before(job[k].cursor, Key(i))))

Carries(k) ==
  job[k] # Nil =>
    /\ copied[k] # Nil
    /\ job[k].coll \notin job[k].todo /\ (job[k].page # {} => job[k].coll \in Shelf)
    /\ \A s \in stood[k] : s[1] \in DOMAIN copied[k] => Ahead(k, s[1], s[2])

Carried == \A k \in Copies : Carries(k)

\* A receipt is of a row that is here, under the name its copy gave its collection, or was deleted here;
\* and no two rows are of one receipt.
Here(n, k, c, i) == mine[n] # Nil /\ mine[n].from = RowCommand(k, c, i) /\ mine[n].coll = copied[k][c]

Receipted ==
  /\ \A k \in Copies, c \in Shelf, i \in Rows : RowCommand(k, c, i) \in receipts =>
       copied[k] # Nil /\ (RowCommand(k, c, i) \in gone \/ \E n \in Ids : Here(n, k, c, i))
  /\ \A n \in Ids : mine[n] # Nil => mine[n].from \in receipts \cup {Nil}
  /\ \A n, o \in Ids : mine[n] # Nil /\ mine[o] # Nil /\ mine[n].from = mine[o].from /\ mine[n].from # Nil => n = o

CarryInv == CopyTypes /\ Standing /\ Carried /\ Receipted

\* A step on the owner's side: nothing new stands, and what still stands has not moved.
OwnersStep ==
  /\ \A k \in Copies : stood'[k] \subseteq stood[k]
  /\ \A k \in Copies : \A s \in stood'[k] : shelf'[s[2]] = shelf[s[2]] /\ (Reached(s[1]) => Reached(s[1])')
  /\ UNCHANGED <<mine, copied, receipts, gone, job>> /\ bound' \subseteq Shelf
  /\ stood' = [k \in Copies |-> stood'[k]]

\* A row is touched: nothing of it stands any more, and every other one is as before.
LEMMA TouchIsAnOwnersStep ==
  ASSUME CopyTypes, Standing, NEW i \in Rows, NEW row, shelf' = [shelf EXCEPT ![i] = row], Touch(i),
         UNCHANGED <<mine, copied, receipts, gone, job, bound, alive>>
  PROVE  OwnersStep
  <1>1. stood' = [k \in Copies |-> {s \in stood[k] : s[2] # i}]
    BY DEF Touch
  <1>2. ASSUME NEW k \in Copies, NEW s \in stood'[k] PROVE s \in stood[k] /\ shelf'[s[2]] = shelf[s[2]]
    <2>1. s \in stood[k] /\ s[2] # i
      BY <1>1, <1>2
    <2>2. s[2] \in Rows
      BY <2>1 DEF Standing, Stands
    <2> QED BY <2>1, <2>2 DEF CopyTypes
  <1>3. \A c : Reached(c)' <=> Reached(c)
    BY DEF Reached
  <1> QED BY <1>1, <1>2, <1>3 DEF OwnersStep, CopyTypes

\* Collections are hidden: nothing in them stands any more.
LEMMA HideIsAnOwnersStep ==
  ASSUME CopyTypes, Standing, NEW colls, Hide(colls), shelf' = shelf, bound' \subseteq Shelf,
         \A c \in Shelf \ colls : Reached(c) => Reached(c)',
         UNCHANGED <<mine, copied, receipts, gone, job>>
  PROVE  OwnersStep
  <1>1. stood' = [k \in Copies |-> {s \in stood[k] : s[1] \notin colls}]
    BY DEF Hide
  <1>2. ASSUME NEW k \in Copies, NEW s \in stood'[k] PROVE s \in stood[k] /\ (Reached(s[1]) => Reached(s[1])')
    <2>1. s \in stood[k] /\ s[1] \notin colls
      BY <1>1, <1>2
    <2>2. s[1] \in Shelf
      BY <2>1 DEF Standing, Stands
    <2> QED BY <2>1, <2>2
  <1> QED BY <1>1, <1>2 DEF OwnersStep

\* The owner's actions and the writes that land with the owner are such steps.
LEMMA OwnerActsAreOwnersSteps ==
  ASSUME CopyTypes, Standing, OwnerActs
  PROVE  OwnersStep
  <1>1. UNCHANGED <<mine, copied, receipts, gone, job>>
    BY DEF OwnerActs, viewers
  <1>2. ASSUME NEW i \in Rows, OwnerMoves(i) \/ OwnerDeletes(i) \/ \E c \in Shelf, pos \in {0, 1} : OwnerAdds(i, c, pos)
        PROVE  OwnersStep
    <2>1. /\ \E row : shelf' = [shelf EXCEPT ![i] = row]
          /\ Touch(i) /\ UNCHANGED <<bound, alive>>
      BY <1>2 DEF OwnerMoves, OwnerDeletes, OwnerAdds
    <2> QED BY <1>1, <2>1, TouchIsAnOwnersStep
  <1>3. ASSUME NEW colls \in SUBSET Shelf, Rebinds(colls) PROVE OwnersStep
    <2>1. \A c \in Shelf \ (bound \ colls) : Reached(c) => Reached(c)'
      BY <1>3 DEF Rebinds, Reached
    <2> QED BY <1>1, <1>3, <2>1, HideIsAnOwnersStep DEF Rebinds
  <1>4. ASSUME Revokes PROVE OwnersStep
    <2>1. \A c \in Shelf \ Shelf : Reached(c) => Reached(c)'
      OBVIOUS
    <2> QED BY <1>1, <1>4, <2>1, HideIsAnOwnersStep DEF Revokes, CopyTypes
  <1>5. ASSUME SetsRole PROVE OwnersStep
    <2>1. UNCHANGED <<shelf, bound, alive, stood>>
      BY <1>5 DEF SetsRole
    <2> QED BY <1>1, <2>1 DEF OwnersStep, CopyTypes, Reached
  <1> QED BY <1>2, <1>3, <1>4, <1>5 DEF OwnerActs

LEMMA SharedLandingsAreOwnersSteps ==
  ASSUME CopyTypes, Standing, Lands, OnShared(sent.req, sent.by) \/ AddToShared(sent.req, sent.by)
  PROVE  OwnersStep
  <1>1. UNCHANGED <<mine, copied, receipts, gone, job, bound, alive>>
    BY DEF Lands, OnShared, AddToShared
  <1>2. CASE OnShared(sent.req, sent.by)
    <2>1. sent.req.id \in Rows /\ Touch(sent.req.id) /\ \E row : shelf' = [shelf EXCEPT ![sent.req.id] = row]
      BY <1>2 DEF OnShared, WallPasses
    <2> QED BY <1>1, <2>1, TouchIsAnOwnersStep
  <1>3. CASE AddToShared(sent.req, sent.by)
    <2>1. PICK i \in Rows : Touch(i) /\ \E row : shelf' = [shelf EXCEPT ![i] = row]
      BY <1>3 DEF AddToShared
    <2> QED BY <1>1, <2>1, TouchIsAnOwnersStep
  <1> QED BY <1>2, <1>3

\* Such a step keeps what the copies carry.
LEMMA OwnersStepCarries ==
  ASSUME CarryInv, OwnersStep, shelf' \in [Rows -> ShelfRows \cup {Nil}], SentBySomebody'
  PROVE  CarryInv'
  <1>1. CopyTypes'
    BY DEF CarryInv, CopyTypes, OwnersStep
  <1>2. Standing'
    BY DEF CarryInv, Standing, Stands, OwnersStep
  <1>3. ASSUME NEW k \in Copies PROVE Carries(k)'
    <2>1. ASSUME NEW s \in stood'[k] PROVE s \in stood[k] /\ Key(s[2])' = Key(s[2])
      BY <1>3, <2>1 DEF OwnersStep, Key
    <2>2. UNCHANGED <<copied, receipts, job>>
      BY DEF OwnersStep
    <2>3. ASSUME job[k] # Nil, NEW s \in stood'[k], s[1] \in DOMAIN copied[k] PROVE Ahead(k, s[1], s[2])'
      <3>1. Ahead(k, s[1], s[2])
        BY <1>3, <2>1, <2>3 DEF CarryInv, Carried, Carries
      <3> QED BY <2>1, <2>2, <3>1 DEF Ahead, Before, RowCommand
    <2> QED BY <1>3, <2>2, <2>3 DEF CarryInv, Carried, Carries
  <1>4. Receipted'
    BY DEF CarryInv, Receipted, Here, OwnersStep
  <1> QED BY <1>1, <1>2, <1>3, <1>4 DEF CarryInv, Carried
\* A copy starts, or is sent again: everything in scope is to be read.
LEMMA StartCarries ==
  ASSUME CarryInv, NEW k \in Copies, StartCopy(k)
  PROVE  CarryInv'
  <1> DEFINE new == [todo |-> bound, coll |-> Nil, cursor |-> Start, page |-> {}, more |-> TRUE]
             scope == UNION {{c} \X RowsOf(c) : c \in bound}
  <1>1. /\ UNCHANGED <<shelf, bound, alive, mine, receipts, gone, sent>> /\ alive
        /\ job' = [job EXCEPT ![k] = new] /\ stood' = [stood EXCEPT ![k] = scope]
    BY DEF StartCopy, owners
  <1>2. PICK m \in Mappings(k) : copied' = [copied EXCEPT ![k] = m]
    BY DEF StartCopy
  <1>3. m \in AllMappings /\ Nil \notin AllMappings
    <2>1. CASE copied[k] # Nil
      BY <1>2, <2>1, NilIsNoCopy DEF Mappings, CarryInv, CopyTypes, AllMappings
    <2>2. CASE copied[k] = Nil
      <3>1. m \in [bound -> UNION {Range(Spellings[k][c]) : c \in bound}]
        BY <1>2, <2>2 DEF Mappings, FreeMappings
      <3>2. bound \in SUBSET Shelf
        BY DEF CarryInv, CopyTypes
      <3>3. UNION {Range(Spellings[k][c]) : c \in bound} \subseteq Spelled
        BY <3>2 DEF Spelled
      <3>4. m \in [bound -> Spelled]
        BY <3>1, <3>3
      <3> QED BY <3>2, <3>4, NilIsNoCopy DEF AllMappings
    <2> QED BY <2>1, <2>2
  <1>4. /\ \A l \in Copies : copied[l] # Nil => copied'[l] = copied[l]
        /\ copied'[k] = m /\ m # Nil
        /\ copied' \in [Copies -> AllMappings \cup {Nil}]
    <2>1. copied \in [Copies -> AllMappings \cup {Nil}]
      BY DEF CarryInv, CopyTypes
    <2>2. copied[k] # Nil => m = copied[k]
      BY <1>2 DEF Mappings
    <2> QED BY <1>2, <1>3, <2>1, <2>2
  <1>5. CopyTypes'
    <2>1. bound \in SUBSET Shelf
      BY DEF CarryInv, CopyTypes
    <2>2. new \in Jobs
      BY <2>1 DEF Jobs, Start
    <2> HIDE DEF new, scope
    <2>3. job' \in [Copies -> Jobs \cup {Nil}] /\ stood' = [l \in Copies |-> stood'[l]]
      BY <1>1, <2>2 DEF CarryInv, CopyTypes
    <2>4. SentBySomebody'
      BY <1>1 DEF CarryInv, CopyTypes, SentBySomebody
    <2> QED BY <1>1, <1>4, <2>3, <2>4 DEF CarryInv, CopyTypes
  <1>6. \A l \in Copies : l # k => stood'[l] = stood[l] /\ job'[l] = job[l]
    BY <1>1 DEF CarryInv, CopyTypes
  <1>7. stood'[k] = scope /\ job'[k] = new
    BY <1>1 DEF CarryInv, CopyTypes
  <1>8. ASSUME NEW s \in scope PROVE Stands(s) /\ s[1] \in bound
    <2>1. PICK c \in bound : \E i \in RowsOf(c) : s = <<c, i>>
      BY <1>8
    <2> QED BY <1>1, <2>1 DEF Stands, RowsOf, Reached, CarryInv, CopyTypes
  <1>9. Standing'
    <2>1. \A s : Stands(s)' <=> Stands(s)
      BY <1>1 DEF Stands, Reached
    <2> HIDE DEF scope
    <2> QED BY <1>6, <1>7, <1>8, <2>1 DEF CarryInv, Standing
  <1>10. ASSUME NEW l \in Copies PROVE Carries(l)'
    <2>1. CASE l = k
      <3>1. new.coll \notin new.todo
        BY NilIsNil, UseShape DEF CarryInv, CopyTypes
      <3>2. \A s \in stood'[k] : s[1] \in job'[k].todo
        BY <1>7, <1>8
      <3> QED BY <1>4, <1>7, <2>1, <3>1, <3>2 DEF Carries, Ahead
    <2>2. CASE l # k
      <3>1. Carries(l)
        BY DEF CarryInv, Carried
      <3>2. \A s \in stood[l] : Ahead(l, s[1], s[2])' <=> Ahead(l, s[1], s[2])
        BY <1>1, <1>6, <2>2 DEF Ahead, Before, Key, RowCommand
      <3> QED BY <1>4, <1>6, <2>2, <3>1, <3>2 DEF Carries
    <2> QED BY <2>1, <2>2
  <1>11. Receipted'
    <2>1. \A l \in Copies, c \in Shelf, i \in Rows, n \in Ids : copied[l] # Nil /\ Here(n, l, c, i) => Here(n, l, c, i)'
      BY <1>1, <1>4 DEF Here, RowCommand
    <2>2. \A l \in Copies, c \in Shelf, i \in Rows : RowCommand(l, c, i)' = RowCommand(l, c, i)
      BY DEF RowCommand
    <2> QED BY <1>1, <1>4, <2>1, <2>2 DEF CarryInv, Receipted
  <1> QED BY <1>5, <1>9, <1>10, <1>11 DEF CarryInv, Carried

\* A page is read: what stood in it is in hand, what stood after it is still after it.
LEMMA PageCarries ==
  ASSUME CarryInv, NEW k \in Copies, NEW c \in Shelf, NEW cursor \in Int \X Int,
         job[k] # Nil, job[k].page = {}, Page(k, c, cursor),
         UNCHANGED <<shelf, bound, alive, mine, receipts, gone, copied, stood, sent>>,
         \A d \in job[k].todo : d # c => d # job[k].coll,
         job[k].coll \in {c, Nil},
         \A i \in Rows : (c \in job[k].todo \/ (job[k].coll = c /\ job[k].more /\ Before(job[k].cursor, Key(i))))
                           /\ i \in RowsOf(c) => Before(cursor, Key(i))
  PROVE  CarryInv'
  <1> DEFINE j == job[k]
             rest == After(c, cursor)
  <1>1. j \in Jobs /\ DOMAIN job = Copies
    BY DEF CarryInv, CopyTypes
  <1>2. Nil \notin Shelf
    BY NilIsNil, UseShape
  <1>3. rest \subseteq Rows /\ \A i \in rest : Key(i) \in Int \X Int
    <2>1. \A i \in rest : i \in Rows /\ shelf[i] # Nil
      BY DEF After, RowsOf
    <2>2. \A i \in rest : shelf[i].pos \in {0, 1} /\ i \in Nat
      BY <2>1, UseShape DEF CarryInv, CopyTypes, ShelfRows
    <2> QED BY <2>1, <2>2 DEF Key
  \* Of the job, what is to come.
  <1>4. /\ job' = [job EXCEPT ![k] = job'[k]] /\ job'[k] \in Jobs
        /\ job'[k].todo = j.todo \ {c}
        /\ \/ job'[k].coll = Nil /\ job'[k].page = {} /\ (~ Reached(c) \/ rest = {})
           \/ /\ job'[k].coll = c
              /\ \A i \in rest : i \in job'[k].page \/ (job'[k].more /\ Before(job'[k].cursor, Key(i)))
    <2>1. CASE ~ Reached(c) \/ rest = {}
      <3>1. job' = [job EXCEPT ![k] = [j EXCEPT !.todo = j.todo \ {c}, !.coll = Nil]]
        BY <2>1 DEF Page, NoMore
      <3> DEFINE new == [j EXCEPT !.todo = j.todo \ {c}, !.coll = Nil]
      <3>2. new \in Jobs /\ new.todo = j.todo \ {c} /\ new.coll = Nil /\ new.page = j.page
        BY <1>1 DEF Jobs
      <3>3. job' = [job EXCEPT ![k] = new]
        BY <3>1
      <3> HIDE DEF new
      <3> QED BY <1>1, <2>1, <3>2, <3>3
    <2>2. CASE ~ (~ Reached(c) \/ rest = {})
      <3> DEFINE Gives(page, last) ==
              /\ IsPage(page, rest) /\ IsLast(last, page)
              /\ job' = [job EXCEPT ![k] = [todo |-> j.todo \ {c}, coll |-> c, cursor |-> Key(last),
                                           page |-> page, more |-> page # rest]]
      <3>0. PICK page \in SUBSET rest : \E last \in page : Gives(page, last)
        BY <2>2 DEF Page
      <3>1. PICK last \in page : Gives(page, last)
        BY <3>0
      <3> DEFINE new == [todo |-> j.todo \ {c}, coll |-> c, cursor |-> Key(last), page |-> page, more |-> page # rest]
      <3>2. new \in Jobs
        BY <1>1, <1>3, <3>1 DEF Jobs
      <3>3. job' = [job EXCEPT ![k] = new] /\ job'[k] = new
        BY <1>1, <3>1
      <3>4. \A i \in rest : i \in page \/ (new.more /\ Before(new.cursor, Key(i)))
        BY <3>1 DEF IsPage, IsLast
      <3>5. new.todo = j.todo \ {c} /\ new.coll = c /\ new.page = page
        OBVIOUS
      <3> HIDE DEF new, rest
      <3> QED BY <3>2, <3>3, <3>4, <3>5
    <2> QED BY <2>1, <2>2
  <1> HIDE DEF rest
  <1>5. \A l \in Copies : l # k => job'[l] = job[l]
    BY <1>1, <1>4
  <1>6. CopyTypes'
    <2>1. job' \in [Copies -> Jobs \cup {Nil}]
      BY <1>4 DEF CarryInv, CopyTypes
    <2> QED BY <2>1 DEF CarryInv, CopyTypes, SentBySomebody
  <1>7. Standing'
    BY DEF CarryInv, Standing, Stands, Reached
  <1>8. ASSUME NEW s \in stood[k], s[1] \in DOMAIN copied[k] PROVE Ahead(k, s[1], s[2])'
    <2>1. Stands(s) /\ Ahead(k, s[1], s[2])
      BY <1>8 DEF CarryInv, Standing, Carried, Carries
    <2>2. CASE RowCommand(k, s[1], s[2]) \in receipts
      BY <2>2 DEF Ahead, RowCommand
    <2>3. CASE s[1] \in job[k].todo /\ s[1] # c
      BY <1>4, <2>3 DEF Ahead
    <2>4. CASE s[1] = c /\ RowCommand(k, s[1], s[2]) \notin receipts
      <3>1. s[2] \in Rows /\ s[2] \in RowsOf(c) /\ Reached(c)
        BY <2>1, <2>4 DEF Stands, RowsOf
      <3>2. c \in job[k].todo \/ (job[k].coll = c /\ job[k].more /\ Before(job[k].cursor, Key(s[2])))
        BY <2>1, <2>4 DEF Ahead
      <3>3. s[2] \in rest
        BY <3>1, <3>2 DEF After, rest
      <3>4. /\ job'[k].coll = c
            /\ s[2] \in job'[k].page \/ (job'[k].more /\ Before(job'[k].cursor, Key(s[2])))
        BY <1>4, <3>1, <3>3
      <3>5. Key(s[2])' = Key(s[2])
        BY DEF Key
      <3> QED BY <2>4, <3>4, <3>5 DEF Ahead, Before
    <2>5. CASE s[1] # c /\ job[k].coll = s[1]
      BY <1>2, <2>1, <2>5 DEF Stands
    <2> QED BY <2>1, <2>2, <2>3, <2>4, <2>5 DEF Ahead
  <1>9. ASSUME NEW l \in Copies PROVE Carries(l)'
    <2>1. CASE l = k
      <3>1. copied[k] # Nil
        BY DEF CarryInv, Carried, Carries
      <3>2. job'[k].coll \notin job'[k].todo
        BY <1>1, <1>2, <1>4 DEF Jobs
      <3>3. job'[k].page # {} => job'[k].coll \in Shelf
        BY <1>4
      <3> QED BY <1>8, <2>1, <3>1, <3>2, <3>3 DEF Carries
    <2>2. CASE l # k
      <3>1. Carries(l) /\ job'[l] = job[l]
        BY <1>5, <2>2 DEF CarryInv, Carried
      <3>2. \A s \in stood[l] : Ahead(l, s[1], s[2])' <=> Ahead(l, s[1], s[2])
        BY <3>1 DEF Ahead, Before, Key, RowCommand
      <3> QED BY <3>1, <3>2 DEF Carries
    <2> QED BY <2>1, <2>2
  <1>10. Receipted'
    <2>1. \A l \in Copies, d \in Shelf, i \in Rows, n \in Ids : Here(n, l, d, i)' <=> Here(n, l, d, i)
      BY DEF Here, RowCommand
    <2>2. \A l \in Copies, d \in Shelf, i \in Rows : RowCommand(l, d, i)' = RowCommand(l, d, i)
      BY DEF RowCommand
    <2> QED BY <2>1, <2>2 DEF CarryInv, Receipted
  <1> QED BY <1>6, <1>7, <1>9, <1>10 DEF CarryInv, Carried

LEMMA ReadCarries ==
  ASSUME CarryInv, NEW k \in Copies, ReadPage(k)
  PROVE  CarryInv'
  <1>1. /\ job[k] # Nil /\ job[k].page = {} /\ job[k] \in Jobs
        /\ UNCHANGED <<shelf, bound, alive, mine, receipts, gone, copied, stood, sent>>
    BY DEF ReadPage, owners, viewers, useHistory, CarryInv, CopyTypes
  <1>2. job[k].coll \notin job[k].todo /\ Nil \notin Shelf
    BY <1>1, NilIsNil, UseShape DEF CarryInv, Carried, Carries
  <1>3. CASE job[k].coll # Nil
    <2>1. Page(k, job[k].coll, job[k].cursor)
      BY <1>3 DEF ReadPage
    <2>2. job[k].coll \in Shelf /\ job[k].cursor \in Int \X Int
      BY <1>1, <1>3 DEF Jobs
    <2> QED BY <1>1, <1>2, <2>1, <2>2, PageCarries
  <1>4. CASE job[k].coll = Nil
    <2>1. PICK c \in job[k].todo : Page(k, c, Start)
      BY <1>4 DEF ReadPage
    <2>2. c \in Shelf /\ Start \in Int \X Int /\ \A d \in job[k].todo : d # job[k].coll
      BY <1>1, <1>2 DEF Jobs, Start
    <2>3. ASSUME NEW i \in Rows, i \in RowsOf(c) PROVE Before(Start, Key(i))
      <3>1. shelf[i].pos \in {0, 1}
        BY <2>3 DEF RowsOf, CarryInv, CopyTypes, ShelfRows
      <3> QED BY <3>1 DEF Before, Start, Key
    <2> QED BY <1>1, <1>4, <2>1, <2>2, <2>3, PageCarries
  <1> QED BY <1>3, <1>4
\* A chunk lands: its rows are here under ids of their own, with a receipt each.
LEMMA ChunkCarries ==
  ASSUME CarryInv, NEW k \in Copies, CopyChunk(k)
  PROVE  CarryInv'
  <1> DEFINE j == job[k]
             c == j.coll
             rows(chunk) == NotYetCopied(k, c, chunk)
             ids(chunk) == CHOOSE f \in LocalIds(rows(chunk)) : TRUE
             copyOf(i) == [coll |-> copied[k][c], by |-> "copy", from |-> RowCommand(k, c, i)]
  <1>1. PICK chunk \in SUBSET j.page :
          /\ LocalIds(rows(chunk)) # {}
          /\ mine' = [n \in Ids |->
               IF \E i \in rows(chunk) : ids(chunk)[i] = n
               THEN LET i == CHOOSE x \in rows(chunk) : ids(chunk)[x] = n IN copyOf(i)
               ELSE mine[n]]
          /\ receipts' = receipts \cup {RowCommand(k, c, i) : i \in rows(chunk)}
          /\ job' = [job EXCEPT ![k].page = @ \ chunk, ![k].coll = IF chunk = j.page /\ ~ j.more THEN Nil ELSE @]
    BY DEF CopyChunk
  <1> DEFINE R == rows(chunk)
             id == ids(chunk)
  <1>2. /\ UNCHANGED <<shelf, bound, alive, copied, gone, stood, sent>>
        /\ j \in Jobs /\ j # Nil /\ j.page # {} /\ c \in Shelf /\ DOMAIN job = Copies /\ copied[k] # Nil
    BY DEF CopyChunk, owners, useHistory, CarryInv, CopyTypes, Carried, Carries
  <1>3. id \in LocalIds(R)
    BY <1>1
  <1>4. /\ id \in [R -> Ids] /\ \A i \in R : mine[id[i]] = Nil
        /\ \A i, o \in R : i # o => id[i] # id[o]
    <2>1. id \in [R -> Ids] /\ \A i, o \in R : i # o => id[i] # id[o]
      BY <1>3 DEF LocalIds
    <2>2. \A i \in R : IF mine[i] = Nil THEN id[i] = i ELSE id[i] \in Minted /\ mine[id[i]] = Nil
      BY <1>3 DEF LocalIds
    <2> HIDE DEF id, R
    <2> QED BY <2>1, <2>2
  <1>5. R \subseteq chunk /\ chunk \subseteq Rows /\ c \in Shelf
        /\ \A i \in R : RowCommand(k, c, i) \notin receipts /\ c \in DOMAIN copied[k]
    BY <1>1, <1>2 DEF NotYetCopied, Jobs
  <1>6. \A i \in R : copyOf(i) # Nil /\ RowCommand(k, c, i) # Nil
    <2> SUFFICES ASSUME NEW i \in R PROVE copyOf(i) # Nil /\ RowCommand(k, c, i) # Nil
      OBVIOUS
    <2>1. RowCommand(k, c, i) \in Copies \X Shelf \X Rows
      BY <1>5 DEF RowCommand
    <2>2. copied[k][c] \in Spelled
      <3>1. copied[k] \in AllMappings /\ c \in DOMAIN copied[k]
        BY <1>2, <1>5 DEF CarryInv, CopyTypes
      <3> QED BY <3>1 DEF AllMappings
    <2>3. copyOf(i) \in [coll : Spelled, by : {"copy"}, from : Copies \X Shelf \X Rows]
      BY <2>1, <2>2
    <2> QED BY <2>1, <2>3, NilIsNoCopy
  \* Of the viewer's rows, the new ones and the old.
  <1>7. mine' = [n \in Ids |-> mine'[n]]
    BY <1>1
  <1>8. \A i \in R : id[i] \in Ids /\ mine'[id[i]] = copyOf(i)
    <2> SUFFICES ASSUME NEW i \in R PROVE id[i] \in Ids /\ mine'[id[i]] = copyOf(i)
      OBVIOUS
    <2>1. id[i] \in Ids
      BY <1>4
    <2>2. mine'[id[i]] = LET x == CHOOSE y \in R : id[y] = id[i] IN copyOf(x)
      BY <1>1, <2>1
    <2>3. (CHOOSE y \in R : id[y] = id[i]) = i
      <3> HIDE DEF R, id
      <3> QED BY <1>4
    <2> QED BY <2>1, <2>2, <2>3
  <1>9. \A n \in Ids : (\A i \in R : id[i] # n) => mine'[n] = mine[n]
    BY <1>1
  <1>10. receipts' = receipts \cup {RowCommand(k, c, i) : i \in R}
    BY <1>1
  \* Of the job, what is in hand.
  <1>11. /\ job' = [job EXCEPT ![k] = job'[k]] /\ job'[k] \in Jobs
         /\ job'[k] = [j EXCEPT !.page = j.page \ chunk, !.coll = IF chunk = j.page /\ ~ j.more THEN Nil ELSE c]
    <2> DEFINE new == [j EXCEPT !.page = j.page \ chunk, !.coll = IF chunk = j.page /\ ~ j.more THEN Nil ELSE c]
    <2>1. job' = [job EXCEPT ![k] = new]
      BY <1>1, <1>2 DEF Jobs
    <2>2. new \in Jobs
      BY <1>2 DEF Jobs
    <2> HIDE DEF new
    <2>3. job'[k] = new /\ job' = [job EXCEPT ![k] = job'[k]]
      BY <1>2, <2>1
    <2> QED BY <2>2, <2>3 DEF new
  <1> HIDE DEF R, id, rows, ids
  <1>12. \A l \in Copies : l # k => job'[l] = job[l]
    BY <1>2, <1>11
  <1>13. \A n \in Ids : \/ mine'[n] = mine[n] /\ \A i \in R : id[i] # n
                        \/ \E i \in R : id[i] = n /\ mine[n] = Nil /\ mine'[n] = copyOf(i)
    BY <1>4, <1>8, <1>9
  <1>14. CopyTypes'
    <2>1. \A n \in Ids : mine'[n] # Nil => ViewersRow(mine'[n])
      <3> SUFFICES ASSUME NEW n \in Ids, mine'[n] # Nil PROVE ViewersRow(mine'[n])
        OBVIOUS
      <3>1. mine[n] # Nil => ViewersRow(mine[n])
        BY DEF CarryInv, CopyTypes
      <3>2. \A i : ViewersRow(copyOf(i))
        BY DEF ViewersRow
      <3> QED BY <1>13, <3>1, <3>2
    <2>2. job' \in [Copies -> Jobs \cup {Nil}]
      BY <1>11 DEF CarryInv, CopyTypes
    <2> QED BY <1>2, <1>7, <2>1, <2>2 DEF CarryInv, CopyTypes, SentBySomebody
  <1>15. Standing'
    BY <1>2 DEF CarryInv, Standing, Stands, Reached
  <1>16. ASSUME NEW l \in Copies PROVE Carries(l)'
    <2>1. Carries(l)
      BY DEF CarryInv, Carried
    <2>2. CASE l # k
      <3>1. \A s \in stood[l] : Ahead(l, s[1], s[2]) => Ahead(l, s[1], s[2])'
        BY <1>2, <1>10, <1>12, <2>2 DEF Ahead, Before, Key, RowCommand
      <3> QED BY <1>2, <1>12, <2>1, <2>2, <3>1 DEF Carries
    <2>3. CASE l = k
      <3>1. /\ job'[k].todo = j.todo /\ job'[k].page = j.page \ chunk /\ job'[k].cursor = j.cursor
            /\ job'[k].more = j.more /\ job'[k].coll = IF chunk = j.page /\ ~ j.more THEN Nil ELSE c
        BY <1>2, <1>11 DEF Jobs
      <3>2. job'[k].coll \notin job'[k].todo /\ (job'[k].page # {} => job'[k].coll \in Shelf)
        <4>1. Nil \notin j.todo /\ c \notin j.todo
          BY <1>2, <2>1, <2>3, NilIsNil, UseShape DEF Carries, Jobs
        <4> QED BY <1>1, <1>2, <3>1, <4>1
      <3>3. ASSUME NEW s \in stood[k], s[1] \in DOMAIN copied[k] PROVE Ahead(k, s[1], s[2])'
        <4>1. Ahead(k, s[1], s[2])
          BY <1>2, <2>1, <2>3, <3>3 DEF Carries
        <4>2. CASE RowCommand(k, s[1], s[2]) \in receipts
          BY <1>10, <4>2 DEF Ahead, RowCommand
        <4>3. CASE s[1] \in j.todo
          BY <3>1, <4>3 DEF Ahead
        <4>4. CASE c = s[1] /\ s[2] \in chunk
          <5>1. RowCommand(k, c, s[2]) \in receipts \/ s[2] \in R
            BY <3>3, <4>4 DEF R, rows, NotYetCopied
          <5>2. RowCommand(k, c, s[2]) \in receipts'
            BY <1>10, <5>1
          <5> QED BY <4>4, <5>2 DEF Ahead, RowCommand
        <4>5. CASE c = s[1] /\ s[2] \in j.page \ chunk
          BY <3>1, <4>5 DEF Ahead
        <4>6. CASE c = s[1] /\ j.more /\ Before(j.cursor, Key(s[2]))
          BY <1>2, <3>1, <4>6 DEF Ahead, Before, Key
        <4> QED BY <4>1, <4>2, <4>3, <4>4, <4>5, <4>6 DEF Ahead
      <3> QED BY <1>2, <2>3, <3>2, <3>3 DEF Carries
    <2> QED BY <2>2, <2>3
  <1>17. Receipted'
    <2>1. ASSUME NEW l \in Copies, NEW d \in Shelf, NEW i \in Rows, RowCommand(l, d, i) \in receipts'
          PROVE  copied[l] # Nil /\ (RowCommand(l, d, i) \in gone \/ \E n \in Ids : Here(n, l, d, i)')
      <3>1. CASE RowCommand(l, d, i) \in receipts
        <4>1. ASSUME NEW n \in Ids, Here(n, l, d, i) PROVE Here(n, l, d, i)'
          <5>1. mine'[n] = mine[n]
            BY <1>13, <4>1 DEF Here
          <5> QED BY <1>2, <4>1, <5>1 DEF Here, RowCommand
        <4> QED BY <3>1, <4>1 DEF CarryInv, Receipted
      <3>2. CASE RowCommand(l, d, i) \notin receipts
        <4>1. PICK r \in R : RowCommand(l, d, i) = RowCommand(k, c, r)
          BY <1>10, <2>1, <3>2
        <4>2. l = k /\ d = c /\ i = r
          BY <4>1 DEF RowCommand
        <4>3. PICK n \in Ids : mine'[n] = copyOf(r) /\ mine'[n] # Nil
          BY <1>6, <1>8
        <4>4. mine'[n].from = RowCommand(k, c, r) /\ mine'[n].coll = copied[k][c]
          BY <4>3
        <4>5. Here(n, l, d, i)'
          BY <1>2, <4>2, <4>3, <4>4 DEF Here, RowCommand
        <4> QED BY <1>2, <4>2, <4>5
      <3> QED BY <3>1, <3>2
    <2>2. ASSUME NEW n \in Ids, mine'[n] # Nil PROVE mine'[n].from \in receipts' \cup {Nil}
      <3>1. CASE mine'[n] = mine[n]
        BY <1>10, <2>2, <3>1 DEF CarryInv, Receipted
      <3>2. ASSUME NEW i \in R, mine'[n] = copyOf(i) PROVE mine'[n].from \in receipts'
        BY <1>10, <3>2
      <3> QED BY <1>13, <3>1, <3>2
    <2>3. ASSUME NEW n \in Ids, NEW o \in Ids, mine'[n] # Nil, mine'[o] # Nil, mine'[n].from = mine'[o].from, mine'[n].from # Nil
          PROVE  n = o
      <3>1. ASSUME NEW x \in Ids, NEW y \in Ids, NEW i \in R, mine'[x] = mine[x], mine'[x] # Nil, mine'[y] = copyOf(i)
            PROVE  mine'[x].from # mine'[y].from
        <4>1. mine'[x].from \in receipts \cup {Nil}
          BY <3>1 DEF CarryInv, Receipted
        <4>2. mine'[y].from = RowCommand(k, c, i)
          BY <3>1
        <4> QED BY <1>5, <1>6, <4>1, <4>2
      <3>2. CASE mine'[n] = mine[n] /\ mine'[o] = mine[o]
        BY <2>3, <3>2 DEF CarryInv, Receipted
      <3>3. ASSUME NEW i \in R, NEW r \in R, id[i] = n, id[r] = o, mine'[n] = copyOf(i), mine'[o] = copyOf(r)
            PROVE  n = o
        <4>1. RowCommand(k, c, i) = RowCommand(k, c, r)
          BY <2>3, <3>3
        <4> QED BY <3>3, <4>1 DEF RowCommand
      <3> QED BY <1>13, <2>3, <3>1, <3>2, <3>3
    <2>4. \A l \in Copies, d \in Shelf, i \in Rows : RowCommand(l, d, i)' = RowCommand(l, d, i)
      BY DEF RowCommand
    <2> QED BY <1>2, <2>1, <2>2, <2>3, <2>4 DEF Receipted
  <1> QED BY <1>14, <1>15, <1>16, <1>17 DEF CarryInv, Carried

\* A job ends, with its answer or without.
LEMMA EndCarries ==
  ASSUME CarryInv, NEW k \in Copies, AnswerCopy(k) \/ CopyDies(k)
  PROVE  CarryInv'
  <1>1. /\ UNCHANGED <<shelf, bound, alive, mine, copied, receipts, gone, stood, sent>>
        /\ job' = [job EXCEPT ![k] = Nil]
    BY DEF AnswerCopy, CopyDies, owners, viewers, useHistory
  <1>2. job' \in [Copies -> Jobs \cup {Nil}] /\ \A l \in Copies : job'[l] = job[l] \/ job'[l] = Nil
    BY <1>1 DEF CarryInv, CopyTypes
  <1>3. CopyTypes'
    BY <1>1, <1>2 DEF CarryInv, CopyTypes, SentBySomebody
  <1>4. Standing'
    BY <1>1 DEF CarryInv, Standing, Stands, Reached
  <1>5. ASSUME NEW l \in Copies PROVE Carries(l)'
    <2>1. Carries(l) /\ \A s \in stood[l] : job'[l] = job[l] => (Ahead(l, s[1], s[2])' <=> Ahead(l, s[1], s[2]))
      BY <1>1 DEF CarryInv, Carried, Ahead, Before, Key, RowCommand
    <2> QED BY <1>1, <1>2, <2>1 DEF Carries
  <1>6. Receipted'
    <2>1. \A l \in Copies, d \in Shelf, i \in Rows, n \in Ids : Here(n, l, d, i)' <=> Here(n, l, d, i)
      BY <1>1 DEF Here, RowCommand
    <2>2. \A l \in Copies, d \in Shelf, i \in Rows : RowCommand(l, d, i)' = RowCommand(l, d, i)
      BY DEF RowCommand
    <2> QED BY <1>1, <2>1, <2>2 DEF CarryInv, Receipted
  <1> QED BY <1>3, <1>4, <1>5, <1>6 DEF CarryInv, Carried
\* A write to the viewer's own store changes who wrote a row last, or deletes it.
LEMMA OwnLandingCarries ==
  ASSUME CarryInv, Lands, OnOwn(sent.req, sent.by)
  PROVE  CarryInv'
  <1> DEFINE i == sent.req.id
  <1>1. /\ UNCHANGED <<shelf, bound, alive, copied, receipts, stood, job>> /\ sent' = Nil
        /\ mine[i] # Nil /\ mine' = [mine EXCEPT ![i] = Written(mine[i], sent.req, sent.by)]
        /\ gone' = IF mine'[i] = Nil THEN gone \cup {mine[i].from} ELSE gone
    BY DEF Lands, OnOwn
  <1>2. DOMAIN mine = Ids /\ DOMAIN mine' = Ids /\ mine' = [n \in Ids |-> mine'[n]]
    <2>1. mine = [n \in Ids |-> mine[n]]
      BY DEF CarryInv, CopyTypes
    <2> HIDE DEF i
    <2> QED BY <1>1, <2>1
  <1>3. ASSUME NEW n \in Ids, mine'[n] # Nil
        PROVE  /\ ViewersRow(mine'[n]) /\ mine[n] # Nil
               /\ mine'[n].from = mine[n].from /\ mine'[n].coll = mine[n].coll
    <2>1. CASE n # i
      BY <1>1, <1>2, <1>3, <2>1 DEF CarryInv, CopyTypes
    <2>2. CASE n = i
      <3>1. mine'[n] = [mine[n] EXCEPT !.by = sent.by]
        BY <1>1, <1>2, <1>3, <2>2 DEF Written
      <3>2. mine[n] # Nil /\ mine[n] = [coll |-> mine[n].coll, by |-> mine[n].by, from |-> mine[n].from]
        BY <1>1, <1>3, <2>2 DEF CarryInv, CopyTypes, ViewersRow
      <3>3. mine'[n] = [coll |-> mine[n].coll, by |-> sent.by, from |-> mine[n].from]
        BY <3>1, <3>2
      <3> QED BY <3>2, <3>3 DEF ViewersRow
    <2> QED BY <2>1, <2>2
  <1>4. ASSUME NEW n \in Ids, mine[n] # Nil, mine'[n] = Nil PROVE mine[n].from \in gone'
    <2>1. n = i
      BY <1>1, <1>2, <1>4
    <2> QED BY <1>1, <1>4, <2>1
  <1>5. gone \subseteq gone'
    BY <1>1
  <1> HIDE DEF i
  <1>6. CopyTypes'
    BY <1>1, <1>2, <1>3 DEF CarryInv, CopyTypes, SentBySomebody
  <1>7. Standing'
    BY <1>1 DEF CarryInv, Standing, Stands, Reached
  <1>8. ASSUME NEW k \in Copies PROVE Carries(k)'
    <2>1. Carries(k) /\ \A s \in stood[k] : Ahead(k, s[1], s[2])' <=> Ahead(k, s[1], s[2])
      BY <1>1 DEF CarryInv, Carried, Ahead, Before, Key, RowCommand
    <2> QED BY <1>1, <2>1 DEF Carries
  <1>9. Receipted'
    <2>1. ASSUME NEW k \in Copies, NEW c \in Shelf, NEW r \in Rows, RowCommand(k, c, r) \in receipts
          PROVE  copied[k] # Nil /\ (RowCommand(k, c, r) \in gone' \/ \E n \in Ids : Here(n, k, c, r)')
      <3>1. copied[k] # Nil /\ (RowCommand(k, c, r) \in gone \/ \E n \in Ids : Here(n, k, c, r))
        BY <2>1 DEF CarryInv, Receipted
      <3>2. ASSUME NEW n \in Ids, Here(n, k, c, r) PROVE RowCommand(k, c, r) \in gone' \/ Here(n, k, c, r)'
        BY <1>1, <1>3, <1>4, <3>2 DEF Here, RowCommand
      <3> QED BY <1>5, <3>1, <3>2
    <2>2. \A k \in Copies, c \in Shelf, r \in Rows : RowCommand(k, c, r)' = RowCommand(k, c, r)
      BY DEF RowCommand
    <2>3. \A n \in Ids : mine'[n] # Nil => mine'[n].from \in receipts' \cup {Nil}
      BY <1>1, <1>3 DEF CarryInv, Receipted
    <2>4. \A n, o \in Ids : mine'[n] # Nil /\ mine'[o] # Nil /\ mine'[n].from = mine'[o].from /\ mine'[n].from # Nil => n = o
      BY <1>3 DEF CarryInv, Receipted
    <2> QED BY <1>1, <2>1, <2>2, <2>3, <2>4 DEF Receipted
  <1> QED BY <1>6, <1>7, <1>8, <1>9 DEF CarryInv, Carried

\* A step that touches neither store nor copy.
LEMMA IdleCarries ==
  ASSUME CarryInv, UNCHANGED <<shelf, bound, alive, mine, copied, receipts, gone, stood, job>>, SentBySomebody'
  PROVE  CarryInv'
  <1>1. OwnersStep
    BY DEF OwnersStep, Reached, CarryInv, CopyTypes
  <1> QED BY <1>1, OwnersStepCarries DEF CarryInv, CopyTypes

LEMMA CarryStep == CarryInv /\ [UseNext]_useVars => CarryInv'
  <1> SUFFICES ASSUME CarryInv, [UseNext]_useVars PROVE CarryInv'
    OBVIOUS
  <1>1. /\ shelf' \in [Rows -> ShelfRows \cup {Nil}] /\ SentBySomebody'
        /\ CopyTypes /\ Standing
    BY ShelfStaysTyped, SentStaysBySomebody DEF CarryInv, CopyTypes
  <1>2. CASE OwnerActs
    BY <1>1, <1>2, OwnerActsAreOwnersSteps, OwnersStepCarries
  <1>3. ASSUME NEW k \in Copies, StartCopy(k) \/ ReadPage(k) \/ CopyChunk(k) \/ AnswerCopy(k) \/ CopyDies(k)
        PROVE  CarryInv'
    BY <1>3, StartCarries, ReadCarries, ChunkCarries, EndCarries
  <1>4. ASSUME NEW c \in Collections \cup {Nil}, WidgetReads(c) PROVE CarryInv'
    BY <1>1, <1>4, IdleCarries DEF WidgetReads, owners, viewers, useHistory
  <1>5. ASSUME NEW r \in Requests, WidgetCalls(r) \/ ModelCalls(r) PROVE CarryInv'
    BY <1>1, <1>5, IdleCarries DEF WidgetCalls, ModelCalls, owners, viewers, useHistory
  <1>6. CASE Lands
    <2>1. CASE OnShared(sent.req, sent.by) \/ AddToShared(sent.req, sent.by)
      BY <1>1, <1>6, <2>1, SharedLandingsAreOwnersSteps, OwnersStepCarries
    <2>2. CASE OnOwn(sent.req, sent.by)
      BY <1>6, <2>2, OwnLandingCarries
    <2>3. CASE UNCHANGED <<shelf, mine, gone, stood>>
      BY <1>1, <1>6, <2>3, IdleCarries DEF Lands
    <2> QED BY <1>6, <2>1, <2>2, <2>3 DEF Lands
  <1>7. CASE UNCHANGED useVars
    BY <1>1, <1>7, IdleCarries DEF useVars, owners, viewers, useHistory
  <1> QED BY <1>2, <1>3, <1>4, <1>5, <1>6, <1>7 DEF UseNext

\* Whatever the owner's rows and the viewer's were, and however many rows, pages and attempts it takes: a
\* copy that answers has carried each row that stood, once, under the name it gave the collection.
THEOREM CopiesAreWhole ==
  ASSUME NEW rows \in [Rows -> ShelfRows \cup {Nil}], NEW colls \in SUBSET Shelf, NEW r, NEW own \in SUBSET Ids,
         NEW g, NEW bounds
  PROVE  UseStarts(rows, colls, r, own, g, bounds) /\ [][UseNext]_useVars => CopyIsWhole
  <1>1. UseStarts(rows, colls, r, own, g, bounds) => CarryInv
    <2> SUFFICES ASSUME UseStarts(rows, colls, r, own, g, bounds) PROVE CarryInv
      OBVIOUS
    <2>1. /\ shelf = rows /\ bound = colls /\ sent = Nil /\ receipts = {}
          /\ mine = [i \in Ids |-> IF i \in own THEN [coll |-> Own, by |-> "me", from |-> Nil] ELSE Nil]
          /\ copied = [k \in Copies |-> Nil] /\ job = [k \in Copies |-> Nil] /\ stood = [k \in Copies |-> {}]
      BY DEF UseStarts
    <2>2. \A i \in Ids : mine[i] # Nil => mine[i] = [coll |-> Own, by |-> "me", from |-> Nil]
      BY <2>1
    <2>3. \A i \in Ids : mine[i] # Nil => ViewersRow(mine[i]) /\ mine[i].from = Nil
      BY <2>2 DEF ViewersRow
    <2>4. CopyTypes
      BY <2>1, <2>3 DEF CopyTypes, SentBySomebody
    <2>5. Standing /\ Carried /\ Receipted
      BY <2>1, <2>3 DEF Standing, Carried, Carries, Receipted
    <2> QED BY <2>4, <2>5 DEF CarryInv
  <1>2. ASSUME CarryInv, NEW k \in Copies, AnswerCopy(k), NEW s \in stood[k], s[1] \in DOMAIN copied[k]
        PROVE  \/ RowCommand(k, s[1], s[2]) \in gone
               \/ \E i \in Ids : /\ CopyOf(i) = RowCommand(k, s[1], s[2]) /\ mine[i].coll = copied[k][s[1]]
                                 /\ \A j \in Ids \ {i} : CopyOf(j) # CopyOf(i)
    <2>1. s[1] \in Shelf /\ s[2] \in Rows
      BY <1>2 DEF CarryInv, Standing, Stands
    <2>2. RowCommand(k, s[1], s[2]) \in receipts
      <3>1. Ahead(k, s[1], s[2]) /\ job[k].todo = {} /\ job[k].coll = Nil
        BY <1>2 DEF AnswerCopy, CarryInv, Carried, Carries
      <3>2. s[1] # Nil
        BY <2>1, UseShape, NilIsNil
      <3> QED BY <3>1, <3>2 DEF Ahead
    <2>3. RowCommand(k, s[1], s[2]) # Nil
      BY <2>1, NilIsNoCopy DEF RowCommand
    <2>4. ASSUME NEW i \in Ids, Here(i, k, s[1], s[2])
          PROVE  /\ CopyOf(i) = RowCommand(k, s[1], s[2]) /\ mine[i].coll = copied[k][s[1]]
                 /\ \A j \in Ids \ {i} : CopyOf(j) # CopyOf(i)
      <3>1. CopyOf(i) = RowCommand(k, s[1], s[2]) /\ mine[i].coll = copied[k][s[1]]
        BY <2>4 DEF Here, CopyOf
      <3>2. ASSUME NEW j \in Ids \ {i} PROVE CopyOf(j) # CopyOf(i)
        <4>1. ASSUME CopyOf(j) = CopyOf(i)
              PROVE  mine[i] # Nil /\ mine[j] # Nil /\ mine[i].from = mine[j].from /\ mine[i].from # Nil
          BY <2>3, <2>4, <3>1, <4>1 DEF CopyOf, Here
        <4>2. \A n, o \in Ids : mine[n] # Nil /\ mine[o] # Nil /\ mine[n].from = mine[o].from /\ mine[n].from # Nil => n = o
          BY <1>2 DEF CarryInv, Receipted
        <4> QED BY <4>1, <4>2
      <3> QED BY <3>1, <3>2
    <2>5. RowCommand(k, s[1], s[2]) \in gone \/ \E n \in Ids : Here(n, k, s[1], s[2])
      BY <1>2, <2>1, <2>2 DEF CarryInv, Receipted
    <2> QED BY <2>4, <2>5
  <1>3. CarryInv /\ [UseNext]_useVars =>
          [\A k \in Copies : AnswerCopy(k) =>
             \A s \in stood[k] : s[1] \in DOMAIN copied[k] =>
               \/ RowCommand(k, s[1], s[2]) \in gone
               \/ \E i \in Ids : /\ CopyOf(i) = RowCommand(k, s[1], s[2]) /\ mine[i].coll = copied[k][s[1]]
                                 /\ \A j \in Ids \ {i} : CopyOf(j) # CopyOf(i)]_useVars
    BY <1>2
  <1> QED BY <1>1, <1>3, CarryStep, PTL DEF CopyIsWhole
=============================================================================
