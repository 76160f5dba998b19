--------------------------- MODULE AppPushProofs ---------------------------
(***************************************************************************)
(* Pushes for any number of pushers, builds and paths, on a machine in any *)
(* state: the template that is installed has its files.                    *)
(*                                                                         *)
(* What a push is to reference is, until it lands, stored, or still to be  *)
(* put, or was found missing, or was taken by somebody else's prune; and   *)
(* the list a push prunes by misses its own references, so that only a     *)
(* prune that another push has overtaken can take a referenced file.       *)
(*                                                                         *)
(* Then the machine, from any that a user may have: what a run of the      *)
(* installer holds in memory is what it will put back, unless its probe    *)
(* was mistaken or the host was edited since; no seeder is about to write  *)
(* over a row of the user's, unless it was saved since the seeder looked;  *)
(* so what is the user's own is kept.  A store that was opened is of this  *)
(* schema, whatever it held when it climbed; and the climb kept what every *)
(* app declared, of any ledger an engine before it can have written.       *)
(***************************************************************************)
EXTENDS AppPush, FiniteSetTheorems, TLAPS

LOCAL WF == INSTANCE WellFoundedInduction

UnderWay ==
  [pc : {"assets", "prune"}, build : Pushes, todo : Seq(Paths), saw : Nat,
   orphans : SUBSET Paths, unbacked : SUBSET Paths]

PushTypes ==
  /\ pushed = Nil \/ (pushed # Nil /\ pushed \in [version : Nat, refs : SUBSET Paths])
  /\ plane \subseteq Paths
  /\ DOMAIN push = Pushers
  /\ \A p \in Pushers : push[p] # Nil => push[p] \in UnderWay

Queued(p, x) == \E i \in DOMAIN push[p].todo : push[p].todo[i] = x

\* The references of a push that has still to land.
Backed ==
  \A p \in Pushers : push[p] # Nil /\ push[p].pc = "assets" =>
    \A x \in push[p].build.refs : x \in plane \/ x \in raced \/ x \in push[p].unbacked \/ Queued(p, x)

\* The list of a push, against what is installed.
SparesOwn ==
  \A p \in Pushers : push[p] # Nil =>
    /\ push[p].orphans \cap push[p].build.refs = {}
    /\ push[p].pc = "prune" =>
         /\ push[p].saw <= Version
         /\ push[p].saw = Version /\ pushed # Nil => push[p].orphans \cap pushed.refs = {}

Inv == PushTypes /\ Backed /\ SparesOwn /\ ReferencesStand

\* The assets of a bundle, one after the other, are all of them.
LEMMA EveryAssetQueued ==
  ASSUME NEW S, IsFiniteSet(S)
  PROVE  SetToSeq(S) \in Seq(S) /\ \A x \in S : \E i \in DOMAIN SetToSeq(S) : SetToSeq(S)[i] = x
  <1> DEFINE n == Cardinality(S)
             f == SetToSeq(S)
  <1>1. n \in Nat /\ ExistsBijection(1..n, S)
    BY FS_CardinalityType
  <1>2. \E g \in [1..n -> S] : IsInjective(g)
    BY <1>1 DEF ExistsBijection, Bijection, Injection
  <1>3. f \in [1..n -> S] /\ IsInjective(f)
    BY <1>2 DEF SetToSeq
  <1>4. f \in Injection(1..n, S)
    BY <1>3 DEF Injection
  <1>5. Cardinality(1..n) = n
    BY <1>1, FS_Interval
  <1>6. f \in Surjection(1..n, S)
    BY <1>4, <1>5, FS_Injection
  <1>7. f \in Seq(S)
    BY <1>1, <1>3
  <1> QED BY <1>3, <1>6, <1>7 DEF Surjection

LEMMA VersionIs == PushTypes => Version \in Nat /\ (pushed = Nil => Version = 0)
  BY DEF PushTypes, Version

LEMMA PushInitInv == PushInit => Inv
  BY DEF PushInit, Inv, PushTypes, Backed, SparesOwn, ReferencesStand

LEMMA StartPushStep ==
  ASSUME Inv, NEW p \in Pushers, NEW build \in Pushes, StartPush(p, build) PROVE Inv'
  <1> DEFINE r == [pc |-> "assets", build |-> build, todo |-> SetToSeq(build.assets), saw |-> Version,
                   orphans |-> PruneCandidates(build), unbacked |-> build.refs \ (build.assets \cup plane)]
  <1>1. push' = [push EXCEPT ![p] = r] /\ UNCHANGED <<pushed, plane, told, raced>>
    BY DEF StartPush
  <1>2. build.refs \subseteq Paths /\ build.assets \subseteq Paths /\ IsFiniteSet(build.assets)
    BY PushesShape, FS_Subset
  <1>3. /\ SetToSeq(build.assets) \in Seq(Paths)
        /\ \A x \in build.assets : \E i \in DOMAIN SetToSeq(build.assets) : SetToSeq(build.assets)[i] = x
    <2>1. SetToSeq(build.assets) \in Seq(build.assets)
      BY <1>2, EveryAssetQueued
    <2> QED BY <1>2, <2>1, EveryAssetQueued
  <1>4. PruneCandidates(build) \subseteq Paths /\ PruneCandidates(build) \cap build.refs = {}
    BY DEF Inv, PushTypes, PruneCandidates
  <1>5. Version \in Nat
    BY VersionIs DEF Inv
  <1>6. /\ r \in UnderWay /\ r.pc = "assets" /\ r.build = build /\ r.todo = SetToSeq(build.assets)
        /\ r.orphans = PruneCandidates(build) /\ r.unbacked = build.refs \ (build.assets \cup plane)
    BY <1>2, <1>3, <1>4, <1>5 DEF UnderWay
  <1> HIDE DEF r
  <1>7. push'[p] = r /\ DOMAIN push' = Pushers /\ \A q \in Pushers : q # p => push'[q] = push[q]
    BY <1>1 DEF Inv, PushTypes
  <1>8. PushTypes'
    BY <1>1, <1>6, <1>7 DEF Inv, PushTypes
  <1>9. Backed'
    <2> SUFFICES ASSUME NEW q \in Pushers, push'[q] # Nil, push'[q].pc = "assets", NEW x \in push'[q].build.refs
                 PROVE  x \in plane \/ x \in raced \/ x \in push'[q].unbacked \/ Queued(q, x)'
      BY <1>1 DEF Backed
    <2>1. CASE q = p
      BY <1>3, <1>6, <1>7, <2>1 DEF Queued
    <2>2. CASE q # p
      BY <1>7, <2>2 DEF Inv, Backed, Queued
    <2> QED BY <2>1, <2>2
  <1>10. SparesOwn'
    <2>1. Version' = Version
      BY <1>1 DEF Version
    <2>2. \A q \in Pushers : q # p => push'[q] = push[q]
      BY <1>7
    <2> QED BY <1>1, <1>4, <1>6, <1>7, <2>1, <2>2 DEF Inv, SparesOwn
  <1>11. ReferencesStand'
    BY <1>1 DEF Inv, ReferencesStand
  <1> QED BY <1>8, <1>9, <1>10, <1>11 DEF Inv

LEMMA PutAssetStep == ASSUME Inv, NEW p \in Pushers, PutAsset(p) PROVE Inv'
  <1> DEFINE y == Head(push[p].todo)
             r == [push[p] EXCEPT !.todo = Tail(push[p].todo)]
  <1>1. /\ push[p] # Nil /\ push[p].pc = "assets" /\ push[p].todo # <<>>
        /\ plane' = plane \cup {y} /\ raced' = raced \ {y} /\ UNCHANGED <<pushed, told>>
        /\ push' = [push EXCEPT ![p] = r]
    BY DEF PutAsset
  <1>2. push[p] \in UnderWay /\ DOMAIN push = Pushers
    BY <1>1 DEF Inv, PushTypes
  <1>3. /\ push[p].todo \in Seq(Paths) /\ y \in Paths /\ Tail(push[p].todo) \in Seq(Paths)
        /\ \A i \in DOMAIN push[p].todo :
             push[p].todo[i] = y \/ (i - 1 \in DOMAIN Tail(push[p].todo) /\ Tail(push[p].todo)[i - 1] = push[p].todo[i])
    BY <1>1, <1>2 DEF UnderWay
  <1>4. /\ r \in UnderWay /\ r.pc = push[p].pc /\ r.build = push[p].build /\ r.todo = Tail(push[p].todo)
        /\ r.saw = push[p].saw /\ r.orphans = push[p].orphans /\ r.unbacked = push[p].unbacked
    BY <1>2, <1>3 DEF UnderWay
  <1> HIDE DEF r, y
  <1>5. push'[p] = r /\ DOMAIN push' = Pushers /\ \A q \in Pushers : q # p => push'[q] = push[q]
    BY <1>1, <1>2
  <1>6. PushTypes'
    BY <1>1, <1>3, <1>4, <1>5 DEF Inv, PushTypes
  <1>7. Backed'
    <2> SUFFICES ASSUME NEW q \in Pushers, push'[q] # Nil, push'[q].pc = "assets", NEW x \in push'[q].build.refs
                 PROVE  x \in plane' \/ x \in raced' \/ x \in push'[q].unbacked \/ Queued(q, x)'
      BY DEF Backed
    <2>1. CASE q = p
      <3>1. x \in plane \/ x \in raced \/ x \in push[p].unbacked \/ Queued(p, x)
        BY <1>1, <1>4, <1>5, <2>1 DEF Inv, Backed
      <3>2. Queued(p, x) => x = y \/ Queued(p, x)'
        BY <1>3, <1>4, <1>5 DEF Queued
      <3> QED BY <1>1, <1>4, <1>5, <2>1, <3>1, <3>2
    <2>2. CASE q # p
      BY <1>1, <1>5, <2>2 DEF Inv, Backed, Queued
    <2> QED BY <2>1, <2>2
  <1>8. SparesOwn'
    <2>1. Version' = Version
      BY <1>1 DEF Version
    <2> QED BY <1>1, <1>4, <1>5, <2>1 DEF Inv, SparesOwn
  <1>9. ReferencesStand'
    BY <1>1 DEF Inv, ReferencesStand
  <1> QED BY <1>6, <1>7, <1>8, <1>9 DEF Inv

LEMMA SaveTemplateStep == ASSUME Inv, NEW p \in Pushers, SaveTemplate(p) PROVE Inv'
  <1>1. /\ push[p] # Nil /\ push[p].pc = "assets" /\ push[p].todo = <<>> /\ UNCHANGED <<plane, raced>>
    BY DEF SaveTemplate
  <1>2. push[p] \in UnderWay /\ DOMAIN push = Pushers /\ Version \in Nat
    BY <1>1, VersionIs DEF Inv, PushTypes
  <1>3. CASE push' = [push EXCEPT ![p] = Nil] /\ UNCHANGED <<pushed, told>>
    <2>1. push'[p] = Nil /\ DOMAIN push' = Pushers /\ \A q \in Pushers : q # p => push'[q] = push[q]
      BY <1>2, <1>3
    <2>2. Version' = Version
      BY <1>3 DEF Version
    <2>3. PushTypes' /\ Backed' /\ ReferencesStand'
      BY <1>1, <1>3, <2>1 DEF Inv, PushTypes, Backed, Queued, ReferencesStand
    <2>4. SparesOwn'
      BY <1>3, <2>1, <2>2 DEF Inv, SparesOwn
    <2> QED BY <2>3, <2>4 DEF Inv
  <1>4. CASE /\ pushed' = [version |-> Version + 1, refs |-> push[p].build.refs]
             /\ push' = [push EXCEPT ![p].pc = "prune", ![p].saw = Version + 1]
             /\ told' = push[p].unbacked
    <2> DEFINE landed == [push[p] EXCEPT !.pc = "prune"]
               r == [landed EXCEPT !.saw = Version + 1]
               row == [version |-> Version + 1, refs |-> push[p].build.refs]
    <2>1. push' = [push EXCEPT ![p] = r]
      BY <1>2, <1>4
    <2>0. landed \in UnderWay /\ landed.pc = "prune" /\ landed.build = push[p].build /\ landed.orphans = push[p].orphans
      BY <1>2 DEF UnderWay
    <2> HIDE DEF landed
    <2>2. /\ r \in UnderWay /\ r.pc = "prune" /\ r.build = push[p].build /\ r.orphans = push[p].orphans
          /\ r.saw = Version + 1
      BY <1>2, <2>0 DEF UnderWay
    <2>3. row \in [version : Nat, refs : SUBSET Paths] /\ row.version = Version + 1 /\ row.refs = push[p].build.refs
      BY <1>2, PushesShape DEF UnderWay
    <2> HIDE DEF r, row
    <2>4. push'[p] = r /\ DOMAIN push' = Pushers /\ \A q \in Pushers : q # p => push'[q] = push[q]
      BY <1>2, <2>1
    <2>5. pushed' = row
      BY <1>4 DEF row
    <2>6. PushTypes'
      BY <1>1, <2>2, <2>3, <2>4, <2>5 DEF Inv, PushTypes
    <2>7. Backed'
      BY <1>1, <2>2, <2>4 DEF Inv, Backed, Queued
    <2>8. pushed' # Nil => Version' = Version + 1
      BY <2>3, <2>5 DEF Version
    <2>9. SparesOwn'
      <3>1. \A q \in Pushers : q # p /\ push[q] # Nil => push[q].saw \in Nat
        BY DEF Inv, PushTypes, UnderWay
      <3>2. pushed' # Nil
        BY <2>3, <2>5, NilIsNoRow
      <3> QED BY <1>1, <1>2, <2>2, <2>3, <2>4, <2>5, <2>8, <3>1, <3>2 DEF Inv, SparesOwn
    <2>10. ReferencesStand'
      <3>1. \A x \in push[p].build.refs : x \in plane \/ x \in raced \/ x \in push[p].unbacked
        BY <1>1 DEF Inv, Backed, Queued
      <3> QED BY <1>1, <1>4, <2>3, <2>5, <3>1 DEF ReferencesStand
    <2> QED BY <2>6, <2>7, <2>9, <2>10 DEF Inv
  <1> QED BY <1>3, <1>4 DEF SaveTemplate

LEMMA PruneStep == ASSUME Inv, NEW p \in Pushers, PruneOne(p) PROVE Inv'
  <1>1. push[p] # Nil /\ push[p].pc = "prune" /\ UNCHANGED <<pushed, told>>
    BY DEF PruneOne
  <1>2. PICK x \in push[p].orphans :
          /\ plane' \in {plane, plane \ {x}}
          /\ push' = [push EXCEPT ![p].orphans = @ \ {x}]
          /\ raced' = IF Overlapped(p) THEN raced \cup {x} ELSE raced
    BY DEF PruneOne
  <1> DEFINE r == [push[p] EXCEPT !.orphans = push[p].orphans \ {x}]
  <1>3. push[p] \in UnderWay /\ DOMAIN push = Pushers /\ push' = [push EXCEPT ![p] = r]
    BY <1>1, <1>2 DEF Inv, PushTypes
  <1>4. /\ r \in UnderWay /\ r.pc = push[p].pc /\ r.build = push[p].build /\ r.orphans \subseteq push[p].orphans
        /\ r.saw = push[p].saw
    BY <1>3 DEF UnderWay
  <1> HIDE DEF r
  <1>5. push'[p] = r /\ DOMAIN push' = Pushers /\ \A q \in Pushers : q # p => push'[q] = push[q]
    BY <1>3
  <1>6. PushTypes'
    BY <1>1, <1>2, <1>4, <1>5 DEF Inv, PushTypes
  <1>7. Backed'
    <2> SUFFICES ASSUME NEW q \in Pushers, push'[q] # Nil, push'[q].pc = "assets", NEW y \in push'[q].build.refs
                 PROVE  y \in plane' \/ y \in raced' \/ y \in push'[q].unbacked \/ Queued(q, y)'
      BY DEF Backed
    <2>1. q # p /\ push'[q] = push[q]
      BY <1>1, <1>4, <1>5
    <2>2. Overlapped(p)
      BY <2>1 DEF Overlapped
    <2> QED BY <1>2, <2>1, <2>2 DEF Inv, Backed, Queued
  <1>8. SparesOwn'
    <2>1. Version' = Version
      BY <1>1 DEF Version
    <2> QED BY <1>1, <1>4, <1>5, <2>1 DEF Inv, SparesOwn
  <1>9. ReferencesStand'
    <2> SUFFICES ASSUME pushed # Nil, NEW y \in pushed.refs PROVE y \in plane' \/ y \in told \/ y \in raced'
      BY <1>1 DEF ReferencesStand
    <2>1. y \in plane \/ y \in told \/ y \in raced
      BY DEF Inv, ReferencesStand
    <2>2. CASE Overlapped(p)
      BY <1>2, <2>1, <2>2
    <2>3. CASE ~Overlapped(p)
      <3>1. Version = push[p].saw
        BY <2>3 DEF Overlapped
      <3>2. x # y
        BY <1>1, <1>2, <3>1 DEF Inv, SparesOwn
      <3> QED BY <1>2, <2>1, <2>3, <3>2
    <2> QED BY <2>2, <2>3
  <1> QED BY <1>6, <1>7, <1>8, <1>9 DEF Inv

LEMMA PushEnds == ASSUME Inv, NEW p \in Pushers, Pushed(p) \/ PushDies(p) PROVE Inv'
  <1>1. push' = [push EXCEPT ![p] = Nil] /\ UNCHANGED <<pushed, plane, told, raced>>
    BY DEF Pushed, PushDies
  <1>2. push'[p] = Nil /\ DOMAIN push' = Pushers /\ \A q \in Pushers : q # p => push'[q] = push[q]
    BY <1>1 DEF Inv, PushTypes
  <1>3. Version' = Version
    BY <1>1 DEF Version
  <1>4. PushTypes' /\ Backed' /\ ReferencesStand'
    BY <1>1, <1>2 DEF Inv, PushTypes, Backed, Queued, ReferencesStand
  <1>5. SparesOwn'
    BY <1>1, <1>2, <1>3 DEF Inv, SparesOwn
  <1> QED BY <1>4, <1>5 DEF Inv

LEMMA ToolsStep == ASSUME Inv, Tools \/ UNCHANGED allVars PROVE Inv'
  <1>1. CASE UNCHANGED pushing
    BY <1>1 DEF pushing, Inv, PushTypes, Backed, Queued, SparesOwn, Version, ReferencesStand
  <1>2. CASE /\ \A p \in Pushers : push[p] = Nil
             /\ pushed' = Nil /\ plane' = {} /\ told' = {} /\ raced' = {} /\ UNCHANGED push
    BY <1>2 DEF Inv, PushTypes, Backed, SparesOwn, ReferencesStand
  <1> QED BY <1>1, <1>2 DEF Tools, allVars, pushing

\* The references of pushes under way and of what is installed are kept by every step of the machine.
THEOREM PushInvariance == PushSpec => []Inv
  <1>1. Inv /\ [MachineNext]_allVars => Inv'
    BY StartPushStep, PutAssetStep, SaveTemplateStep, PruneStep, PushEnds, ToolsStep DEF MachineNext
  <1> QED BY PushInitInv, <1>1, PTL DEF PushSpec

\* install-app.mjs, for any builds pushed at once: the installed template's files are stored, save what
\* its push reported and what a prune worked out before another push took.
THEOREM InstalledFilesStand == PushSpec => []ReferencesStand
  <1>1. Inv => ReferencesStand
    BY DEF Inv
  <1> QED BY <1>1, PushInvariance, PTL

----------------------------------------------------------------------------
(* The ladder: what it leaves of a store file is a store file.             *)

\* A non-empty set of naturals has a least element, and one that is bounded a greatest.
LEMMA LeastNat ==
  ASSUME NEW T, T \subseteq Nat, T # {}
  PROVE  \E k \in T : \A j \in T : k <= j
  <1> DEFINE R == {xy \in Nat \X Nat : xy[1] < xy[2]}
  <1>1. WF!IsWellFoundedOn(R, Nat)
    BY WF!NatLessThanWellFounded, Zenon DEF WF!OpToRel
  <1>2. \E x \in T : \A y \in T : ~(<<y, x>> \in R)
    <2> HIDE DEF R
    <2> QED BY <1>1, WF!WFMin
  <1>3. PICK x \in T : \A y \in T : ~(<<y, x>> \in R)
    BY <1>2
  <1>4. \A y \in T : ~(y < x)
    BY <1>3
  <1> QED BY <1>4

LEMMA MaxIsIn ==
  ASSUME NEW n \in Nat, NEW S, S \subseteq 0..n, S # {}
  PROVE  Max(S) \in S /\ \A y \in S : y <= Max(S)
  <1> DEFINE T == {k \in Nat : \E x \in S : k = n - x}
  <1>1. T \subseteq Nat /\ T # {}
    <2>1. PICK x \in S : TRUE
      OBVIOUS
    <2>2. n - x \in T
      BY <2>1
    <2> QED BY <2>2
  <1>2. PICK k \in T : \A j \in T : k <= j
    <2> HIDE DEF T
    <2> QED BY <1>1, LeastNat
  <1>3. PICK x \in S : k = n - x
    BY <1>2
  <1>4. ASSUME NEW y \in S PROVE x >= y
    <2>1. n - y \in T
      OBVIOUS
    <2> QED BY <1>2, <1>3, <2>1
  <1>5. Max(S) \in S /\ \A y \in S : Max(S) >= y
    BY <1>4 DEF Max
  <1> QED BY <1>5

LEMMA FiniteIsBounded ==
  ASSUME NEW S, S \subseteq Nat, IsFiniteSet(S)
  PROVE  \E k \in Nat : S \subseteq 0..k
  <1>1. PICK n \in Nat : \E h : h \in Bijection(1..n, S)
    BY FS_NatBijection DEF ExistsBijection
  <1>2. PICK h : h \in [1..n -> S] /\ \A y \in S : \E i \in 1..n : h[i] = y
    BY <1>1 DEF Bijection, Surjection
  <1> DEFINE T == {m \in 0..n : \A k \in Nat : \E i \in 1..m : h[i] > k}
  <1> SUFFICES ASSUME ~ \E k \in Nat : S \subseteq 0..k PROVE FALSE
    OBVIOUS
  <1>3. n \in T
    <2> SUFFICES ASSUME NEW k \in Nat PROVE \E i \in 1..n : h[i] > k
      OBVIOUS
    <2>1. PICK y \in S : y > k
      OBVIOUS
    <2> QED BY <1>2, <2>1
  <1>4. PICK m \in T : \A j \in T : m <= j
    <2> HIDE DEF T
    <2>1. T \subseteq Nat
      BY DEF T
    <2> QED BY <1>3, <2>1, LeastNat
  <1>5. m \in 1..n /\ m - 1 \in 0..n /\ m - 1 \notin T
    <2>1. m # 0 /\ m \in Nat
      OBVIOUS
    <2> HIDE DEF T
    <2>2. m - 1 \notin T
      BY <1>4, <2>1
    <2> QED BY <1>4, <2>1, <2>2 DEF T
  <1>6. PICK k \in Nat : \A i \in 1 .. m - 1 : ~(h[i] > k)
    BY <1>5
  <1>7. h[m] \in Nat
    BY <1>2, <1>5
  <1>8. PICK i \in 1..m : h[i] > k + h[m]
    BY <1>4, <1>7
  <1> HIDE DEF T
  <1>9. h[i] \in Nat
    <2>1. i \in 1..n
      BY <1>5
    <2>2. h[i] \in S
      BY <1>2, <2>1
    <2> QED BY <2>2
  <1> QED BY <1>5, <1>6, <1>7, <1>8, <1>9

\* The revision of a save event is one of the file's, and its documents' words are blocks.
LEMMA ResolvedTyped ==
  ASSUME NEW f \in Files, NEW i \in SaveEvents(f)
  PROVE  ResolveRevisions(f)[i] \in Revisions \cup {Nil}
  <1> DEFINE at == IF i \in Exact(f) THEN RevisionAt(f, f.events[i].name, i) ELSE ByClock(f, i)
  <1>1. ResolveRevisions(f)[i] = IF at = {} THEN Nil ELSE CHOOSE r \in at : TRUE
    BY DEF ResolveRevisions
  <1>2. at \subseteq f.revisions /\ f.revisions \subseteq Revisions
    BY DEF RevisionAt, ByClock, Files
  <1> HIDE DEF at
  <1> QED BY <1>1, <1>2

LEMMA DeriveTyped ==
  ASSUME NEW block \in Blocks, NEW inherited \in Words
  PROVE  DeriveLegacyManifest(block, inherited) \in Words
  BY DEF DeriveLegacyManifest, Words, Columns

\* What the replay of the ledger makes of event i, given what it made of the earlier ones.
Before(f, i) ==
  {j \in 1 .. i - 1 : Cuts(f, j, ResolveRevisions(f)[i].name)
     \/ (j \in SaveEvents(f) /\ ResolveRevisions(f)[j] # Nil
           /\ ResolveRevisions(f)[j].name = ResolveRevisions(f)[i].name)}

DerivedAt(f, v, i) ==
  IF i \notin SaveEvents(f) \/ ResolveRevisions(f)[i] = Nil THEN Nil
  ELSE DeriveLegacyManifest(ResolveRevisions(f)[i].block,
         IF Before(f, i) = {} \/ Max(Before(f, i)) \notin SaveEvents(f) THEN Nil ELSE v[Max(Before(f, i))])

\* It looks at earlier events only.
LEMMA DerivedLooksBack ==
  ASSUME NEW f, NEW v, NEW w, NEW i \in Nat, \A j \in 1 .. i - 1 : v[j] = w[j]
  PROVE  DerivedAt(f, v, i) = DerivedAt(f, w, i)
  <1>1. Before(f, i) # {} => Max(Before(f, i)) \in 1 .. i - 1
    <2> SUFFICES ASSUME Before(f, i) # {} PROVE Max(Before(f, i)) \in 1 .. i - 1
      OBVIOUS
    <2>1. Before(f, i) \subseteq 1 .. i - 1
      BY DEF Before
    <2>2. i - 1 \in Nat
      BY <2>1
    <2> QED BY <2>1, <2>2, MaxIsIn
  <1> QED BY <1>1 DEF DerivedAt

\* So there is a replay of every length.
LEMMA DerivationExists ==
  ASSUME NEW f, NEW n \in Nat
  PROVE  \E v : v = [i \in 1..n |-> DerivedAt(f, v, i)]
  <1> DEFINE T == {m \in Nat : ~\E v : v = [i \in 1..m |-> DerivedAt(f, v, i)]}
  <1> SUFFICES ASSUME T # {} PROVE FALSE
    OBVIOUS
  <1>1. PICK m \in T : \A j \in T : m <= j
    <2> HIDE DEF T
    <2>1. T \subseteq Nat
      BY DEF T
    <2> QED BY <2>1, LeastNat
  <1>2. CASE m = 0
    <2> DEFINE v == [i \in 1..0 |-> Nil]
    <2>1. v = [i \in 1..0 |-> DerivedAt(f, v, i)]
      OBVIOUS
    <2> QED BY <1>2, <2>1
  <1>3. CASE m # 0
    <2>1. m - 1 \in Nat /\ m - 1 \notin T
      BY <1>1, <1>3
    <2>2. PICK v : v = [i \in 1..(m - 1) |-> DerivedAt(f, v, i)]
      BY <2>1
    <2> DEFINE w == [i \in 1..m |-> IF i = m THEN DerivedAt(f, v, m) ELSE v[i]]
    <2>3. ASSUME NEW i \in 1..m PROVE w[i] = DerivedAt(f, w, i)
      <3>1. \A j \in 1 .. i - 1 : v[j] = w[j]
        OBVIOUS
      <3>2. w[i] = DerivedAt(f, v, i)
        <4>1. CASE i = m
          BY <4>1
        <4>2. CASE i # m
          <5>1. i \in 1..(m - 1) /\ w[i] = v[i]
            BY <4>2
          <5> HIDE DEF w
          <5> QED BY <2>2, <5>1
        <4> QED BY <4>1, <4>2
      <3> HIDE DEF w
      <3> QED BY <3>1, <3>2, DerivedLooksBack
    <2>4. w = [i \in 1..m |-> DerivedAt(f, w, i)]
      <3>1. w = [i \in 1..m |-> w[i]]
        OBVIOUS
      <3> HIDE DEF w
      <3> QED BY <2>3, <3>1
    <2> QED BY <2>4
  <1> QED BY <1>2, <1>3

\* The declarations the ledger is replayed to are words of documents or columns.
LEMMA DerivedIs ==
  ASSUME NEW f \in Files
  PROVE  Derived(f) = [i \in DOMAIN f.events |-> DerivedAt(f, Derived(f), i)]
  <1>1. DOMAIN f.events = 1..Len(f.events) /\ Len(f.events) \in Nat
    BY DEF Files
  <1>2. Derived(f) = CHOOSE v : v = [i \in DOMAIN f.events |-> DerivedAt(f, v, i)]
    BY Zenon DEF Derived, DerivedAt, Before
  <1>3. \E v : v = [i \in DOMAIN f.events |-> DerivedAt(f, v, i)]
    <2>1. \E v : v = [i \in 1..Len(f.events) |-> DerivedAt(f, v, i)]
      BY <1>1, DerivationExists
    <2> QED BY <1>1, <2>1, Zenon
  <1> QED BY <1>2, <1>3

LEMMA DerivedTyped ==
  ASSUME NEW f \in Files, NEW i \in DOMAIN f.events
  PROVE  Derived(f)[i] \in Words
  <1>0. DOMAIN f.events = 1..Len(f.events) /\ Len(f.events) \in Nat
    BY DEF Files
  <1> DEFINE T == {m \in DOMAIN f.events : Derived(f)[m] \notin Words}
  <1> SUFFICES ASSUME T # {} PROVE FALSE
    OBVIOUS
  <1>1. PICK m \in T : \A j \in T : m <= j
    <2>1. T \subseteq Nat
      BY <1>0
    <2> HIDE DEF T
    <2> QED BY <2>1, LeastNat
  <1>2. Derived(f)[m] = DerivedAt(f, Derived(f), m)
    BY <1>1, DerivedIs
  <1>3. Nil \in Words
    BY DEF Words, Columns
  <1>4. m \in SaveEvents(f) /\ ResolveRevisions(f)[m] # Nil
    BY <1>1, <1>2, <1>3 DEF DerivedAt
  <1>5. ResolveRevisions(f)[m].block \in Blocks
    BY <1>4, ResolvedTyped DEF Revisions
  <1> DEFINE inherited == IF Before(f, m) = {} \/ Max(Before(f, m)) \notin SaveEvents(f) THEN Nil
                          ELSE Derived(f)[Max(Before(f, m))]
  <1>6. inherited \in Words
    <2>1. CASE Before(f, m) = {} \/ Max(Before(f, m)) \notin SaveEvents(f)
      BY <1>3, <2>1
    <2>2. CASE Before(f, m) # {} /\ Max(Before(f, m)) \in SaveEvents(f)
      <3>1. Before(f, m) \subseteq 1 .. m - 1 /\ m - 1 \in Nat
        BY <1>0, <1>1 DEF Before
      <3>2. Max(Before(f, m)) \in 1 .. m - 1
        BY <2>2, <3>1, MaxIsIn
      <3>3. Max(Before(f, m)) \in DOMAIN f.events /\ Max(Before(f, m)) \notin T
        BY <1>0, <1>1, <3>2
      <3> QED BY <2>2, <3>3
    <2> QED BY <2>1, <2>2
  <1>7. Derived(f)[m] = DeriveLegacyManifest(ResolveRevisions(f)[m].block, inherited)
    BY <1>2, <1>4, Zenon DEF DerivedAt
  <1> HIDE DEF inherited
  <1> QED BY <1>1, <1>5, <1>6, <1>7, DeriveTyped
LEMMA HeadEventIs ==
  ASSUME NEW f \in Files, NEW name, HeadEvent(f, name) # 0
  PROVE  /\ HeadEvent(f, name) \in SaveEvents(f) /\ HeadEvent(f, name) \in DOMAIN f.events
         /\ ResolveRevisions(f)[HeadEvent(f, name)] # Nil
         /\ ResolveRevisions(f)[HeadEvent(f, name)].name = name
  <1> DEFINE saves == {i \in SaveEvents(f) : ResolveRevisions(f)[i] # Nil /\ ResolveRevisions(f)[i].name = name}
  <1>1. HeadEvent(f, name) = IF saves = {} THEN 0 ELSE Max(saves)
    BY DEF HeadEvent
  <1>2. /\ saves \subseteq 1..Len(f.events) /\ Len(f.events) \in Nat /\ saves \subseteq 0..Len(f.events)
        /\ SaveEvents(f) \subseteq DOMAIN f.events
    BY DEF SaveEvents, Files
  <1>3. saves # {} /\ HeadEvent(f, name) = Max(saves)
    BY <1>1
  <1> HIDE DEF saves
  <1>4. HeadEvent(f, name) \in saves
    BY <1>2, <1>3, MaxIsIn
  <1> QED BY <1>2, <1>4 DEF saves

\* A head row that is reconciled is left with a word.
LEMMA HeadSlotTyped ==
  ASSUME NEW f \in Files, NEW a \in Apps, HeadSlot(f, a).ok
  PROVE  HeadSlot(f, a).manifest \in Words
  <1>1. Wanted(f, a) \in Words
    <2>1. CASE HeadEvent(f, a.name) > 0
      <3>1. HeadEvent(f, a.name) # 0
        BY <2>1
      <3> QED BY <2>1, <3>1, HeadEventIs, DerivedTyped DEF Wanted
    <2>2. CASE ~(HeadEvent(f, a.name) > 0)
      <3>1. a.block \in Blocks /\ a.manifest \in Words
        BY DEF Apps, Words
      <3> QED BY <2>2, <3>1, DeriveTyped DEF Wanted
    <2> QED BY <2>1, <2>2
  <1>2. a.manifest \in Words /\ Nil \in Words
    BY DEF Apps, Words, Columns
  <1>3. HeadSlot(f, a) = Reconciled(Wanted(f, a), a.manifest)
    BY DEF HeadSlot
  <1> DEFINE want == Wanted(f, a)
             have == a.manifest
  <1> HIDE DEF want, have
  <1>4. want \in Words /\ have \in Words /\ HeadSlot(f, a) = Reconciled(want, have) /\ Reconciled(want, have).ok
    BY <1>1, <1>2, <1>3 DEF want, have
  <1>5. CASE want = have
    <2>1. Reconciled(want, have).manifest = have
      BY <1>5 DEF Reconciled
    <2> QED BY <1>4, <2>1
  <1>6. CASE want # have
    <2>1. Reconciled(want, have) = ReconcileHead(want, have)
      BY <1>6 DEF Reconciled
    <2>2. ReconcileHead(want, have).ok => ReconcileHead(want, have).manifest \in {want, Nil, have}
      BY DEF ReconcileHead
    <2> QED BY <1>2, <1>4, <2>1, <2>2
  <1> QED BY <1>5, <1>6

LEMMA ReshapedTyped ==
  ASSUME NEW f \in Files, NEW shape, shape \in Shapes
  PROVE  /\ [f EXCEPT !.shape = shape] \in Files
         /\ [f EXCEPT !.shape = shape].version = f.version
  BY DEF Files

LEMMA SchemaTyped == ASSUME NEW f \in Files PROVE Schema(f) \in Files /\ Schema(f).version = f.version
  <1>1. f.shape \cup NewTables \in Shapes
    BY DEF Files, Shapes
  <1> QED BY <1>1, ReshapedTyped DEF Schema

\* The rung that moves the manifests.
LEMMA MovedTyped ==
  ASSUME NEW f \in Files, ~ RefusedV5toV6(f)
  PROVE  MigrateV5toV6(f) \in Files
  <1> DEFINE at == ResolveRevisions(f)
             declared(r) == Derived(f)[CHOOSE i \in SaveEvents(f) : at[i] = r]
             row(name) == CHOOSE a \in f.apps : a.name = name
             word(r) == IF CarriesTheColumn(f, r) THEN HeadSlot(f, row(r.name)).manifest ELSE declared(r)
             revision(r) == IF \A i \in SaveEvents(f) : at[i] # r THEN r
                            ELSE [r EXCEPT !.block = "absent", !.manifest = word(r)]
             shape == (f.shape \ {"html"}) \cup {"ui", "app_history.manifest"}
             revisions == {revision(r) : r \in f.revisions}
             apps == {[a EXCEPT !.block = "absent", !.manifest = HeadSlot(f, a).manifest] : a \in f.apps}
             moved == [f EXCEPT !.shape = shape, !.revisions = revisions, !.apps = apps]
  <1>1. MigrateV5toV6(f) = Schema(moved)
    BY Zenon DEF MigrateV5toV6
  <1>2. f.revisions \subseteq Revisions /\ f.apps \subseteq Apps /\ f.shape \in Shapes /\ IsFiniteSet(f.revisions)
    BY DEF Files
  <1>3. \A a \in f.apps : HeadSlot(f, a).manifest \in Words
    BY <1>2, HeadSlotTyped DEF RefusedV5toV6
  <1>4. "absent" \in Blocks /\ SaveEvents(f) \subseteq DOMAIN f.events
    BY DEF Blocks, SaveEvents
  <1>5. ASSUME NEW r \in f.revisions, ~ \A i \in SaveEvents(f) : at[i] # r PROVE word(r) \in Words
    <2>1. CASE CarriesTheColumn(f, r)
      <3>1. PICK a \in f.apps : HeadEvent(f, a.name) > 0 /\ r = at[HeadEvent(f, a.name)]
        BY <2>1 DEF CarriesTheColumn
      <3>2. r.name = a.name
        <4>1. HeadEvent(f, a.name) # 0
          BY <3>1
        <4> QED BY <3>1, <4>1, HeadEventIs
      <3>3. row(r.name) \in f.apps
        BY <3>2
      <3> QED BY <1>3, <2>1, <3>3
    <2>2. CASE ~ CarriesTheColumn(f, r)
      <3>1. (CHOOSE i \in SaveEvents(f) : at[i] = r) \in DOMAIN f.events
        BY <1>4, <1>5
      <3> QED BY <2>2, <3>1, DerivedTyped
    <2> QED BY <2>1, <2>2
  <1> HIDE DEF word
  <1>6. ASSUME NEW r \in f.revisions PROVE revision(r) \in Revisions
    <2>1. CASE \A i \in SaveEvents(f) : at[i] # r
      BY <1>2, <2>1
    <2>2. CASE ~ \A i \in SaveEvents(f) : at[i] # r
      <3>1. r \in Revisions /\ word(r) \in Words
        BY <1>2, <1>5, <2>2
      <3>2. [r EXCEPT !.block = "absent", !.manifest = word(r)] \in Revisions
        BY <1>4, <3>1 DEF Revisions, Words
      <3> QED BY <2>2, <3>2
    <2> QED BY <2>1, <2>2
  <1>7. IsFiniteSet(revisions)
    <2> DEFINE g == [r \in f.revisions |-> revision(r)]
    <2> HIDE DEF revision
    <2>1. g \in Surjection(f.revisions, revisions)
      BY DEF Surjection
    <2> QED BY <1>2, <2>1, FS_Surjection
  <1>8. revisions \subseteq Revisions
    <2> HIDE DEF revision
    <2> QED BY <1>6
  <1>9. apps \subseteq Apps
    <2>1. ASSUME NEW a \in f.apps
          PROVE  [a EXCEPT !.block = "absent", !.manifest = HeadSlot(f, a).manifest] \in Apps
      <3>1. a \in Apps /\ HeadSlot(f, a).manifest \in Words
        BY <1>2, <1>3
      <3> QED BY <1>4, <3>1 DEF Apps, Words
    <2> QED BY <2>1
  <1>10. shape \in Shapes
    BY <1>2 DEF Shapes
  <1> HIDE DEF shape, revisions, apps
  <1>11. moved \in Files
    BY <1>7, <1>8, <1>9, <1>10 DEF Files
  <1> HIDE DEF moved
  <1> QED BY <1>1, <1>11, SchemaTyped

\* From any version of the ladder, the climb leaves a file of today's.
LEMMA ClimbTyped ==
  ASSUME NEW f \in Files, ~ RefusedClimb(f)
  PROVE  Climb(f) \in Files /\ Climb(f).version = SCHEMA_VERSION
  <1>1. From4(f) \in Files /\ From4(f).version = f.version
    <2>1. f.shape \ (Reservations \cup SideTables) \in Shapes
      BY DEF Files, Shapes
    <2> QED BY <2>1, ReshapedTyped DEF From4, MigrateV4toV5
  <1>2. From5(From4(f)) \in Files
    BY <1>1, MovedTyped DEF From5, RefusedClimb
  <1>3. From6(From5(From4(f))) \in Files
    BY <1>2, SchemaTyped DEF From6, MigrateV6toV7
  <1> DEFINE g == From6(From5(From4(f)))
             h == From7(g)
  <1>4. h \in Files
    <2> HIDE DEF g
    <2>0. g \in Files
      BY <1>3 DEF g
    <2>1. g.shape \cup {"change_event.principal"} \in Shapes
      BY <2>0 DEF Files, Shapes, Reservations
    <2> QED BY <2>0, <2>1, ReshapedTyped, SchemaTyped DEF From7, MigrateV7toV8
  <1>5. Climb(f) = [MigrateV8toV9(h) EXCEPT !.version = SCHEMA_VERSION]
    BY DEF Climb
  <1> HIDE DEF h
  <1>6. MigrateV8toV9(h) \in Files
    <2>1. h.shape \cup SkillColumns \in Shapes
      BY <1>4 DEF Files, Shapes
    <2> QED BY <1>4, <2>1, ReshapedTyped, SchemaTyped DEF MigrateV8toV9
  <1> DEFINE k == MigrateV8toV9(h)
  <1>7. k \in Files /\ Climb(f) = [k EXCEPT !.version = SCHEMA_VERSION] /\ SCHEMA_VERSION \in Nat
    BY <1>5, <1>6 DEF SCHEMA_VERSION
  <1> HIDE DEF k
  <1> QED BY <1>7 DEF Files

LEMMA FreshTyped == FreshStore \in Files /\ FreshStore.version = SCHEMA_VERSION
  <1>1. ShapeOf(SCHEMA_VERSION) \in Shapes
    BY DEF ShapeOf, SCHEMA_VERSION, Shapes, Reservations
  <1>2. IsFiniteSet({})
    BY FS_EmptySet
  <1> DEFINE shape == ShapeOf(SCHEMA_VERSION)
  <1> HIDE DEF shape
  <1>3. FreshStore = [version |-> 9, shape |-> shape, events |-> <<>>, revisions |-> {}, apps |-> {}]
    BY DEF FreshStore, SCHEMA_VERSION, shape
  <1>4. <<>> \in Seq(Events) /\ shape \in Shapes /\ {} \subseteq Revisions /\ {} \subseteq Apps
    BY <1>1 DEF shape
  <1>5. FreshStore \in [version : Nat, shape : Shapes, events : Seq(Events), revisions : SUBSET Revisions, apps : SUBSET Apps]
    BY <1>3, <1>4
  <1>6. FreshStore.revisions = {} /\ FreshStore.version = 9
    BY <1>3
  <1> QED BY <1>2, <1>5, <1>6 DEF Files, SCHEMA_VERSION

\* The next of an app's own numbers is greater than all it has.
LEMMA NextNumber ==
  ASSUME NEW f \in Files, NEW name
  PROVE  /\ Max({0} \cup Numbers(f, name)) \in Nat
         /\ \A y \in Numbers(f, name) : y <= Max({0} \cup Numbers(f, name))
         /\ Max({0} \cup Numbers(f, name)) \in {0} \cup Numbers(f, name)
  <1> DEFINE these == {r \in f.revisions : r.name = name}
             number == [r \in these |-> r.version]
  <1>1. these \subseteq Revisions /\ IsFiniteSet(these)
    BY FS_Subset DEF Files
  <1>2. Numbers(f, name) \subseteq Nat /\ number \in Surjection(these, Numbers(f, name))
    BY <1>1 DEF Numbers, Surjection, Revisions
  <1>3. IsFiniteSet(Numbers(f, name))
    BY <1>1, <1>2, FS_Surjection
  <1>4. PICK k \in Nat : Numbers(f, name) \subseteq 0..k
    BY <1>2, <1>3, FiniteIsBounded
  <1> QED BY <1>2, <1>4, MaxIsIn

\* What an older engine writes is a file as well.
LEMMA OldSaveTyped ==
  ASSUME NEW f \in Files, NEW name \in AppNames, NEW table \in AppNames, NEW counted \in BOOLEAN,
         NEW block \in Blocks, NEW column \in Projections(f, table, block), NEW sameTick \in BOOLEAN
  PROVE  OldSave(f, name, table, counted, block, column, sameTick) \in Files
  <1>1. /\ f.events \in Seq(Events) /\ f.revisions \subseteq Revisions /\ f.apps \subseteq Apps
        /\ IsFiniteSet(f.revisions) /\ f.version \in Nat /\ f.shape \in Shapes
    BY DEF Files
  <1> DEFINE at == Len(f.events) + 1
             ts == IF sameTick /\ at > 1 THEN f.events[at - 1].ts ELSE at
             version == IF counted THEN 1 + Max({0} \cup Numbers(f, table)) ELSE at
             event == [type |-> "component_saved", name |-> name, ts |-> ts, table |-> table, version |-> version]
             row == [name |-> table, version |-> version, ts |-> ts, block |-> block, manifest |-> Nil]
             head == [name |-> table, block |-> block, manifest |-> column]
  <1>2. at \in Nat /\ ts \in Nat
    <2>1. at \in Nat
      BY <1>1
    <2>2. CASE sameTick /\ at > 1
      <3>1. at - 1 \in 1..Len(f.events)
        BY <1>1, <2>2
      <3>2. f.events[at - 1] \in Events
        BY <1>1, <3>1
      <3> HIDE DEF at
      <3> QED BY <2>1, <2>2, <3>2 DEF Events
    <2>3. CASE ~(sameTick /\ at > 1)
      BY <2>1, <2>3
    <2> QED BY <2>1, <2>2, <2>3
  <1>3. version \in Nat
    <2>1. Max({0} \cup Numbers(f, table)) \in Nat
      BY NextNumber
    <2> QED BY <1>2, <2>1
  <1>4. Nil \in Words
    BY DEF Words, Columns
  <1>5. column \in Words
    <2>1. ColumnOf(f, table) \in Words
      <3>1. CASE RowsOf(f, table) = {}
        BY <1>4, <3>1 DEF ColumnOf
      <3>2. CASE RowsOf(f, table) # {}
        <4>1. (CHOOSE a \in RowsOf(f, table) : TRUE) \in Apps
          BY <1>1, <3>2 DEF RowsOf
        <4> QED BY <3>2, <4>1 DEF ColumnOf, Apps
      <3> QED BY <3>1, <3>2
    <2> QED BY <2>1 DEF Projections, Words, Columns, Blocks
  <1> HIDE DEF ts, version
  <1>6. event \in Events /\ row \in Revisions /\ head \in Apps
    BY <1>2, <1>3, <1>4, <1>5 DEF Events, Revisions, Apps
  <1>7. OldSave(f, name, table, counted, block, column, sameTick)
          = [f EXCEPT !.events = Append(f.events, event), !.revisions = f.revisions \cup {row},
                      !.apps = (f.apps \ RowsOf(f, table)) \cup {head}]
    BY Zenon DEF OldSave, ts, version
  <1> HIDE DEF event, row, head
  <1>8. Append(f.events, event) \in Seq(Events)
    BY <1>1, <1>6
  <1>9. IsFiniteSet(f.revisions \cup {row})
    BY <1>1, FS_AddElement
  <1> QED BY <1>1, <1>6, <1>7, <1>8, <1>9 DEF Files

LEMMA OldDeleteTyped ==
  ASSUME NEW f \in Files, NEW name \in AppNames, NEW table \in AppNames
  PROVE  OldDelete(f, name, table) \in Files
  <1> DEFINE event == [type |-> "component_deleted", name |-> name, ts |-> Len(f.events) + 1,
                       table |-> table, version |-> 0]
  <1>1. event \in Events /\ f.events \in Seq(Events)
    BY DEF Files, Events
  <1>2. OldDelete(f, name, table) = [f EXCEPT !.events = Append(f.events, event), !.apps = f.apps \ RowsOf(f, table)]
    BY DEF OldDelete
  <1> HIDE DEF event
  <1>3. Append(f.events, event) \in Seq(Events)
    BY <1>1
  <1> QED BY <1>2, <1>3 DEF Files

----------------------------------------------------------------------------
(* The store: an open keeps what is the user's, and leaves today's schema. *)

LEMMA StoresAre ==
  ASSUME NEW s \in Stores
  PROVE  s # Nil /\ s.file \in Files
  BY NilIsNothing DEF Stores

LEMMA OpenTyped ==
  ASSUME NEW s \in Stores \cup {Nil}, ~ ClimbRefused(s)
  PROVE  /\ OpenStore(s) \in Stores
         /\ UsersRows(OpenStore(s)) = UsersRows(s)
         /\ MayOpen(s) => OpenStore(s).file.version = SCHEMA_VERSION
  <1>1. CASE s = Nil
    <2> DEFINE r == Rows(FreshStore)
    <2>1. r = [file |-> FreshStore, app |-> Nil, library |-> Nil, seeded |-> {}] /\ OpenStore(s) = r
      BY <1>1 DEF Rows, OpenStore
    <2> HIDE DEF r
    <2>2. r \in Stores
      BY <2>1, FreshTyped DEF Stores
    <2>3. UsersRows(r) = {} /\ UsersRows(s) = {}
      BY <1>1, <2>1, UsersIsNotShipped DEF UsersRows
    <2> QED BY <2>1, <2>2, <2>3, FreshTyped
  <1>2. CASE s # Nil
    <2> DEFINE g == Opened(s.file)
    <2>1. s \in Stores /\ s.file \in Files /\ s.file.version \in Nat
      BY <1>2 DEF Stores, Files
    <2>2. g \in Files /\ (MayOpen(s) => g.version = SCHEMA_VERSION)
      <3>1. CASE s.file = Nil
        BY <3>1, FreshTyped DEF Opened
      <3>2. CASE s.file # Nil /\ s.file.version \in 4 .. SCHEMA_VERSION - 1
        <4>1. ~ RefusedClimb(s.file)
          BY <1>2, <3>2 DEF ClimbRefused, SCHEMA_VERSION
        <4> QED BY <2>1, <3>2, <4>1, ClimbTyped DEF Opened
      <3>3. CASE s.file # Nil /\ s.file.version \notin 4 .. SCHEMA_VERSION - 1
        <4>1. MayOpen(s) => s.file.version = SCHEMA_VERSION
          BY <1>2, <2>1, <3>3 DEF MayOpen, Gate, Spoken, SCHEMA_VERSION
        <4> QED BY <2>1, <3>3, <4>1, SchemaTyped DEF Opened
      <3> QED BY <3>1, <3>2, <3>3
    <2>3. OpenStore(s) = [s EXCEPT !.file = g]
      BY <1>2 DEF OpenStore
    <2> HIDE DEF g
    <2> DEFINE r == [s EXCEPT !.file = g]
    <2>4. r \in Stores /\ r.file = g /\ r.app = s.app /\ r.library = s.library
      BY <2>1, <2>2 DEF Stores
    <2> HIDE DEF r
    <2>5. UsersRows(r) = UsersRows(s)
      BY <1>2, <2>4, StoresAre DEF UsersRows
    <2> QED BY <2>2, <2>3, <2>4, <2>5 DEF r
  <1> QED BY <1>1, <1>2

LEMMA PageIs == \A x \in Openers : PageOf(x) \in Pages
  BY EnginesShip DEF Openers, PageOf, Pages, Range

\* No shipped page is a user's.
LEMMA UsersAreApart == Users \notin Pages /\ Users # Nil /\ Users # "seed"
  BY UsersIsNotShipped, EnginesShip DEF Pages, Range

\* A row of a store set to something else.
SetsRow(s, t, r, row) ==
  /\ t \in Stores /\ t.file = s.file
  /\ UsersRows(t) \ {r} = UsersRows(s) \ {r}
  /\ r \in UsersRows(t) <=> row = Users

LEMMA AppSet ==
  ASSUME NEW s \in Stores, NEW row \in Pages \cup {Nil, Users}, NEW seeded \in SUBSET (Pages \cup {"seed"}),
         NEW t, t = [s EXCEPT !.app = row, !.seeded = seeded]
  PROVE  SetsRow(s, t, "app", row)
  <1>1. t \in Stores /\ t.app = row /\ t.file = s.file /\ t.library = s.library
    BY DEF Stores
  <1>2. t # Nil /\ s # Nil
    BY <1>1, StoresAre
  <1>3. UsersRows(t) \ {"app"} = UsersRows(s) \ {"app"} /\ ("app" \in UsersRows(t) <=> row = Users)
    BY <1>1, <1>2 DEF UsersRows
  <1> QED BY <1>1, <1>3 DEF SetsRow

LEMMA LibrarySet ==
  ASSUME NEW s \in Stores, NEW row \in {Nil, Users}, NEW seeded \in SUBSET (Pages \cup {"seed"}),
         NEW t, t = [s EXCEPT !.library = row, !.seeded = seeded]
  PROVE  SetsRow(s, t, "library", row)
  <1>1. t \in Stores /\ t.library = row /\ t.file = s.file /\ t.app = s.app
    BY DEF Stores
  <1>2. t # Nil /\ s # Nil
    BY <1>1, StoresAre
  <1>3. UsersRows(t) \ {"library"} = UsersRows(s) \ {"library"} /\ ("library" \in UsersRows(t) <=> row = Users)
    BY <1>1, <1>2 DEF UsersRows
  <1> QED BY <1>1, <1>3 DEF SetsRow

LEMMA UserSets ==
  ASSUME NEW s \in Stores, NEW r \in {"app", "library"}, NEW row \in {Users, Nil}, NEW t, t = [s EXCEPT ![r] = row]
  PROVE  SetsRow(s, t, r, row)
  <1>1. s.seeded \in SUBSET (Pages \cup {"seed"})
    BY DEF Stores
  <1>2. CASE r = "app"
    <2>1. t = [s EXCEPT !.app = row, !.seeded = s.seeded]
      BY <1>2 DEF Stores
    <2> QED BY <1>1, <1>2, <2>1, AppSet
  <1>3. CASE r = "library"
    <2>1. t = [s EXCEPT !.library = row, !.seeded = s.seeded]
      BY <1>3 DEF Stores
    <2>2. row \in {Nil, Users}
      OBVIOUS
    <2>3. SetsRow(s, t, "library", row)
      BY <1>1, <2>1, <2>2, LibrarySet
    <2> QED BY <1>3, <2>3
  <1> QED BY <1>2, <1>3

----------------------------------------------------------------------------
(* The invariant of the machine.  What a run of the installer holds in     *)
(* memory is what is there, until somebody edits that host or the run      *)
(* dies, unless its probe was mistaken; and what it has written stays      *)
(* current.  What a seeder means to write over is no row of the user's,    *)
(* unless the user has saved one since it looked.                          *)

States ==
  [entry : HostEntries \cup {Nil}, legacy : BOOLEAN, others : BOOLEAN, unreadable : BOOLEAN,
   status : {"fresh", "current", "stale"}]

Runs ==
  [pc : {"idle", "copy", "copy wal", "build", "hosts", "apply", "add", "done", "remove", "remove, purge"},
   todo : SUBSET Hosts, state : States \cup {Nil}, failed : SUBSET Hosts, byHand : SUBSET Hosts,
   applied : SUBSET Hosts]

MachineTypes ==
  /\ config \in [Hosts -> Configs]
  /\ store \in Stores \cup {Nil} /\ clone \in Clones \cup {Nil}
  /\ own \in [env : [Hosts -> Envs], others : [Hosts -> BOOLEAN], rows : SUBSET {"app", "library"}]
  /\ tool \in Runs

Registering == tool.pc \in {"hosts", "apply", "add", "done"}

\* The state in hand against the host, and against what is the user's; an entry that Claude Code's probe did not
\* see at all is one that `claude mcp add` will refuse to write over.
InHand ==
  tool.pc \in {"apply", "add"} =>
    /\ tool.todo # {} /\ tool.state \in States
    /\ tool.state.status = "fresh" <=> tool.state.entry = Nil
    /\ tool.state.status = "current" =>
         Current(tool.state.entry, CarriesStaleEnv(tool.state.entry.env))
    /\ host \notin excused =>
         \/ host = "claude-code" /\ tool.state.entry = Nil /\ config[host].entry # Nil
         \/ /\ UsersPart(tool.state.entry) = own.env[host]
            /\ tool.pc = "apply" =>
                 tool.state.entry = config[host].entry /\ tool.state.others = config[host].others

HostsKept ==
  \A x \in Hosts \ excused :
    /\ config[x].others = own.others[x]
    /\ IF config[x].entry # Nil THEN UsersPart(config[x].entry) = own.env[x]
       ELSE own.env[x] = NoEnv \/ (tool.pc = "add" /\ host = x)

AppliedStand ==
  /\ Registering \/ tool.applied = {}
  /\ tool.applied \cap tool.todo = {}
  /\ \A x \in tool.applied \ (tool.byHand \cup excused) :
       Current(config[x].entry, CarriesStaleEnv(config[x].entry.env))

\* Between the two files of a copy, the user's rows are those of the log still to come.
RowsKept ==
  /\ tool.pc = "copy" => clone # Nil
  /\ tool.pc = "copy wal" => clone # Nil /\ clone.wal # Nil
  /\ "store" \notin excused =>
       own.rows \ excused = UsersRows(IF tool.pc = "copy wal" THEN clone.wal ELSE store) \ excused

StoreOfToday == Registering /\ store # Nil => store.file.version = SCHEMA_VERSION

MachineInv ==
  MachineTypes /\ InHand /\ HostsKept /\ AppliedStand /\ RowsKept /\ StoreOfToday

\* Nobody serves or seeds a store that is not there, or not whole yet; and the seeders' rows.
SeedersHold ==
  /\ seeding \in [Openers -> [at : {"no", "opened", "retire", "retired", "save"}, saw : Pages \cup {Nil}]]
  /\ server \in [Servers -> {"down", "gated", "up"}]
  /\ store = Nil \/ (tool.pc \in {"copy", "copy wal"} /\ "store" \notin excused) =>
       (\A s \in Servers : server[s] # "up") /\ (\A x \in Openers : seeding[x].at = "no")
  /\ "store" \notin excused =>
       \A x \in Openers :
         /\ seeding[x].at = "retire" /\ "library" \notin excused => store.library # Users
         /\ seeding[x].at = "save" /\ seeding[x].saw = Nil /\ "app" \notin excused => store.app # Users

LEMMA MachineInvSuffices == MachineInv => UsersOwnKept /\ DoneMeansInstalled
  <1> SUFFICES ASSUME MachineInv PROVE UsersOwnKept /\ DoneMeansInstalled
    OBVIOUS
  <1>1. UsersOwnKept
    BY DEF MachineInv, HostsKept, RowsKept, UsersOwnKept
  <1>2. DoneMeansInstalled
    BY DEF MachineInv, AppliedStand, StoreOfToday, Registering, DoneMeansInstalled
  <1> QED BY <1>1, <1>2

LEMMA StrippedIs ==
  ASSUME NEW env \in Envs
  PROVE  /\ StripStaleEnv(env) \in Envs /\ ~ CarriesStaleEnv(StripStaleEnv(env))
         /\ StripStaleEnv(StripStaleEnv(env)) = StripStaleEnv(env)
         /\ ~ CarriesStaleEnv(env) => StripStaleEnv(env) = env
  <1> DEFINE e == [env EXCEPT !.dynamic = "unset"]
  <1>1. e \in Envs /\ e.dynamic = "unset"
    BY DEF Envs
  <1> HIDE DEF e
  <1>2. CASE env.dynamic = "1"
    <2>1. StripStaleEnv(env) = e
      BY <1>2 DEF StripStaleEnv, CarriesStaleEnv, e
    <2> QED BY <1>1, <1>2, <2>1 DEF StripStaleEnv, CarriesStaleEnv
  <1>3. CASE env.dynamic # "1"
    BY <1>3 DEF StripStaleEnv, CarriesStaleEnv
  <1> QED BY <1>2, <1>3

LEMMA NoEnvIs == NoEnv \in Envs /\ ~ CarriesStaleEnv(NoEnv) /\ StripStaleEnv(NoEnv) = NoEnv
  <1>1. NoEnv \in Envs /\ NoEnv.dynamic = "unset"
    BY DEF NoEnv, Envs
  <1> QED BY <1>1 DEF CarriesStaleEnv, StripStaleEnv

LEMMA UsersPartTyped ==
  ASSUME NEW entry \in HostEntries \cup {Nil}
  PROVE  UsersPart(entry) \in Envs
  BY StrippedIs, NoEnvIs DEF UsersPart, HostEntries

\* What is written over an entry is current, and leaves the user's part as it was.
LEMMA MergedIs ==
  ASSUME NEW st \in States
  PROVE  /\ Merged(st) \in HostEntries /\ Merged(st) # Nil
         /\ Current(Merged(st), CarriesStaleEnv(Merged(st).env))
         /\ UsersPart(Merged(st)) = UsersPart(st.entry)
  <1> DEFINE env == IF st.entry = Nil THEN NoEnv ELSE StripStaleEnv(st.entry.env)
             m == [here |-> TRUE, env |-> env]
  <1>1. env \in Envs /\ ~ CarriesStaleEnv(env) /\ StripStaleEnv(env) = env /\ env = UsersPart(st.entry)
    <2>1. CASE st.entry = Nil
      BY <2>1, NoEnvIs DEF UsersPart
    <2>2. CASE st.entry # Nil
      <3>1. st.entry.env \in Envs
        BY <2>2 DEF States, HostEntries
      <3> QED BY <2>2, <3>1, StrippedIs DEF UsersPart
    <2> QED BY <2>1, <2>2
  <1>2. Merged(st) = m
    BY DEF Merged
  <1> HIDE DEF env
  <1>3. m \in HostEntries /\ m.here /\ m.env = env
    BY <1>1 DEF HostEntries
  <1> HIDE DEF m
  <1> QED BY <1>1, <1>2, <1>3, NilIsNothing DEF Current, UsersPart

\* The host a run is at is one of those it still has to do.
LEMMA HostIsToDo ==
  ASSUME tool.todo \subseteq Hosts, tool.todo # {}
  PROVE  host \in tool.todo
  <1> DEFINE at == {i \in DOMAIN ADAPTERS : ADAPTERS[i] \in tool.todo}
  <1>1. DOMAIN ADAPTERS \subseteq Nat
    BY DEF ADAPTERS
  <1>2. at # {} /\ at \subseteq Nat
    BY <1>1 DEF Hosts, Range
  <1>3. PICK k \in at : \A j \in at : k <= j
    <2> HIDE DEF at
    <2> QED BY <1>2, LeastNat
  <1>4. Min(at) \in at
    BY <1>3 DEF Min
  <1> QED BY <1>4 DEF host

LEMMA SameHost == tool'.todo = tool.todo => host' = host
  BY DEF host

LEMMA MachineInitInv == MachineInit => MachineInv
  <1> SUFFICES ASSUME NEW configs \in [Hosts -> Configs], NEW block,
                      NEW shared \in Stores \cup {Nil}, NEW cloned \in Clones \cup {Nil},
                      StartsWith(configs, block, shared, cloned)
               PROVE  MachineInv
    BY DEF MachineInit
  <1>1. Idle \in Runs /\ Idle.pc = "idle" /\ Idle.applied = {} /\ Idle.todo = {}
    BY DEF Idle, Runs
  <1>2. tool = Idle /\ config = configs /\ store = shared /\ clone = cloned /\ excused = {}
    BY DEF StartsWith
  <1> DEFINE env == [x \in Hosts |-> UsersPart(configs[x].entry)]
             others == [x \in Hosts |-> configs[x].others]
             rows == UsersRows(shared)
  <1>3. env \in [Hosts -> Envs] /\ others \in [Hosts -> BOOLEAN] /\ rows \subseteq {"app", "library"}
    <2>1. \A x \in Hosts : configs[x].entry \in HostEntries \cup {Nil} /\ configs[x].others \in BOOLEAN
      BY DEF Configs
    <2> QED BY <2>1, UsersPartTyped DEF UsersRows
  <1> HIDE DEF env, others, rows
  <1>4. own = [env |-> env, others |-> others, rows |-> rows]
    BY DEF StartsWith, env, others, rows
  <1>5. MachineTypes
    BY <1>1, <1>2, <1>3, <1>4 DEF MachineTypes
  <1>6. HostsKept
    <2> SUFFICES ASSUME NEW x \in Hosts
                 PROVE  /\ config[x].others = own.others[x]
                        /\ UsersPart(config[x].entry) = own.env[x]
                        /\ config[x].entry = Nil => own.env[x] = NoEnv
      BY DEF HostsKept
    <2> QED BY <1>2, <1>4 DEF env, others, UsersPart
  <1>7. InHand /\ AppliedStand /\ RowsKept /\ StoreOfToday
    BY <1>1, <1>2, <1>4 DEF InHand, AppliedStand, Registering, RowsKept, StoreOfToday, rows
  <1> QED BY <1>5, <1>6, <1>7 DEF MachineInv
----------------------------------------------------------------------------
(* The steps. *)

\* A step that opens or writes the store, and nothing of the hosts or of the run.
LEMMA StoreAndRowsStep ==
  ASSUME MachineInv, UNCHANGED <<config, clone, tool>>, excused \subseteq excused',
         store' \in Stores \cup {Nil}, own'.env = own.env, own'.others = own.others,
         own' \in [env : [Hosts -> Envs], others : [Hosts -> BOOLEAN], rows : SUBSET {"app", "library"}],
         Registering /\ store' # Nil => store'.file.version = SCHEMA_VERSION,
         "store" \notin excused' =>
           own'.rows \ excused' = (IF tool.pc = "copy wal" THEN own.rows ELSE UsersRows(store')) \ excused'
  PROVE  MachineInv'
  <1>1. host' = host
    BY DEF host
  <1>2. MachineTypes'
    BY DEF MachineInv, MachineTypes
  <1>3. InHand'
    BY <1>1 DEF MachineInv, InHand
  <1>4. HostsKept'
    BY <1>1 DEF MachineInv, HostsKept
  <1>5. AppliedStand' /\ StoreOfToday'
    BY DEF MachineInv, AppliedStand, StoreOfToday, Registering
  <1>6. RowsKept'
    BY DEF MachineInv, RowsKept
  <1> QED BY <1>2, <1>3, <1>4, <1>5, <1>6 DEF MachineInv

LEMMA StoreStep ==
  ASSUME MachineInv, UNCHANGED <<config, clone, tool, own>>, excused \subseteq excused',
         store' \in Stores \cup {Nil},
         Registering /\ store' # Nil => store'.file.version = SCHEMA_VERSION,
         "store" \notin excused' /\ tool.pc # "copy wal" => UsersRows(store') \ excused' = UsersRows(store) \ excused'
  PROVE  MachineInv'
  <1>1. "store" \notin excused' =>
          own.rows \ excused' = (IF tool.pc = "copy wal" THEN own.rows ELSE UsersRows(store')) \ excused'
    BY DEF MachineInv, RowsKept
  <1> QED BY <1>1, StoreAndRowsStep DEF MachineInv, MachineTypes

LEMMA ServerStep ==
  ASSUME MachineInv, NEW s \in Servers, ServerGate(s) \/ ServerOpens(s) \/ ServerStops(s)
  PROVE  MachineInv'
  <1>1. CASE ServerGate(s) \/ ServerStops(s)
    <2>1. UNCHANGED <<config, clone, tool, own, excused, store>>
      BY <1>1 DEF ServerGate, ServerStops, machine
    <2> QED BY <2>1, StoreStep DEF MachineInv, MachineTypes, StoreOfToday
  <1>2. CASE ServerOpens(s)
    <2> DEFINE opened == OpenStore(store)
    <2>1. /\ ~ ClimbRefused(store) /\ store' = opened /\ UNCHANGED <<config, clone, tool, own>>
          /\ excused \subseteq excused'
      BY <1>2 DEF ServerOpens, Open, HalfCopied
    <2>2. opened \in Stores /\ UsersRows(opened) = UsersRows(store)
          /\ (MayOpen(store) => opened.file.version = SCHEMA_VERSION)
      BY <2>1, OpenTyped DEF MachineInv, MachineTypes
    <2> HIDE DEF opened
    <2>3. Registering => MayOpen(store)
      BY DEF MachineInv, StoreOfToday, MayOpen, Gate, Spoken, SCHEMA_VERSION
    <2> QED BY <2>1, <2>2, <2>3, StoreStep
  <1> QED BY <1>1, <1>2

\* The seeder of whoever has opened the store leaves what is the user's.
LEMMA SeedStep ==
  ASSUME MachineInv, SeedersHold, NEW x \in Openers,
         LookAtRetired(x) \/ RetireRenamed(x) \/ LookAtSystemApp(x) \/ SaveSystemApp(x)
  PROVE  MachineInv'
  <1>1. CASE LookAtRetired(x) \/ LookAtSystemApp(x)
    <2>1. UNCHANGED <<config, clone, tool, own, excused, store>>
      BY <1>1 DEF LookAtRetired, LookAtSystemApp, machine
    <2> QED BY <2>1, StoreStep DEF MachineInv, MachineTypes, StoreOfToday
  <1>2. CASE RetireRenamed(x) /\ store' = store
    <2>1. UNCHANGED <<config, clone, tool, own, excused>>
      BY <1>2 DEF RetireRenamed
    <2> QED BY <1>2, <2>1, StoreStep DEF MachineInv, MachineTypes, StoreOfToday
  <1>3. CASE SaveSystemApp(x) /\ store' = store
    <2>1. UNCHANGED <<config, clone, tool, own, excused>>
      BY <1>3 DEF SaveSystemApp
    <2> QED BY <1>3, <2>1, StoreStep DEF MachineInv, MachineTypes, StoreOfToday
  <1>4. CASE RetireRenamed(x) /\ store' # store
    <2> DEFINE seeded == store.seeded \cup {"seed"}
               t == [store EXCEPT !.library = Nil, !.seeded = seeded]
    <2>1. /\ seeding[x].at = "retire" /\ store' = t /\ UNCHANGED <<config, clone, tool, own, excused>>
      BY <1>4 DEF RetireRenamed
    <2>2. store \in Stores /\ ("store" \notin excused /\ "library" \notin excused => store.library # Users)
      BY <2>1 DEF SeedersHold, MachineInv, MachineTypes
    <2>3. seeded \in SUBSET (Pages \cup {"seed"})
      BY <2>2 DEF Stores
    <2> HIDE DEF seeded
    <2>a. t = [store EXCEPT !.library = Nil, !.seeded = seeded]
      OBVIOUS
    <2> HIDE DEF t
    <2>4. /\ t \in Stores /\ t.file = store.file /\ UsersRows(t) \ {"library"} = UsersRows(store) \ {"library"}
          /\ "library" \in UsersRows(t) <=> Nil = Users
      <3>1. SetsRow(store, t, "library", Nil)
        BY <2>2, <2>3, <2>a, LibrarySet
      <3> QED BY <3>1 DEF SetsRow
    <2>5. "store" \notin excused /\ "library" \notin excused => "library" \notin UsersRows(store)
      BY <2>2 DEF UsersRows
    <2>6. "store" \notin excused => UsersRows(t) \ excused = UsersRows(store) \ excused
      BY <2>4, <2>5, UsersAreApart
    <2> QED BY <2>1, <2>2, <2>4, <2>6, StoreStep, StoresAre DEF MachineInv, StoreOfToday
  <1>5. CASE SaveSystemApp(x) /\ store' # store
    <2> DEFINE page == PageOf(x)
               seeded == store.seeded \cup {page}
               t == [store EXCEPT !.app = page, !.seeded = seeded]
    <2>1. /\ seeding[x].at = "save" /\ store' = t /\ UNCHANGED <<config, clone, tool, own, excused>>
          /\ ~ Overtaken(x)
      BY <1>5 DEF SaveSystemApp
    <2>2. /\ store \in Stores /\ seeding[x].saw \in Pages \cup {Nil}
          /\ "store" \notin excused /\ "app" \notin excused /\ seeding[x].saw = Nil => store.app # Users
      BY <2>1 DEF SeedersHold, MachineInv, MachineTypes
    <2>3. page \in Pages
      BY PageIs
    <2> HIDE DEF page
    <2>4. seeded \in SUBSET (Pages \cup {"seed"})
      BY <2>2, <2>3 DEF Stores
    <2> HIDE DEF seeded
    <2>a. t = [store EXCEPT !.app = page, !.seeded = seeded]
      OBVIOUS
    <2> HIDE DEF t
    <2>5. /\ t \in Stores /\ t.file = store.file /\ UsersRows(t) \ {"app"} = UsersRows(store) \ {"app"}
          /\ "app" \in UsersRows(t) <=> page = Users
      <3>1. SetsRow(store, t, "app", page)
        BY <2>2, <2>3, <2>4, <2>a, AppSet
      <3> QED BY <3>1 DEF SetsRow
    <2>6. "store" \notin excused /\ "app" \notin excused => "app" \notin UsersRows(store)
      BY <2>1, <2>2, UsersAreApart DEF UsersRows, Overtaken
    <2>7. "store" \notin excused => UsersRows(t) \ excused = UsersRows(store) \ excused
      BY <2>3, <2>5, <2>6, UsersAreApart
    <2> QED BY <2>1, <2>2, <2>5, <2>7, StoreStep, StoresAre DEF MachineInv, StoreOfToday
  <1> QED BY <1>1, <1>2, <1>3, <1>4, <1>5

\* The user saves or deletes an app; what they have is counted anew.
LEMMA UserSavesStep ==
  ASSUME MachineInv, SeedersHold, NEW s \in Servers, NEW r \in {"app", "library"}, NEW row \in {Users, Nil},
         UserSaves(s, r, row)
  PROVE  MachineInv'
  <1> DEFINE rows == IF row = Users THEN own.rows \cup {r} ELSE own.rows \ {r}
             o == [own EXCEPT !.rows = rows]
  <1>1. /\ server[s] = "up" /\ store' = [store EXCEPT ![r] = row] /\ own' = o
        /\ UNCHANGED <<config, clone, tool>> /\ excused \subseteq excused'
    BY DEF UserSaves
  <1>2. store \in Stores /\ ("store" \notin excused => tool.pc # "copy wal")
    BY <1>1 DEF SeedersHold, MachineInv, MachineTypes
  <1>3. SetsRow(store, store', r, row)
    BY <1>1, <1>2, UserSets
  <1>4. /\ store' \in Stores /\ store'.file = store.file /\ UsersRows(store') \ {r} = UsersRows(store) \ {r}
        /\ r \in UsersRows(store') <=> row = Users
    BY <1>3 DEF SetsRow
  <1>5. own \in [env : [Hosts -> Envs], others : [Hosts -> BOOLEAN], rows : SUBSET {"app", "library"}]
    BY DEF MachineInv, MachineTypes
  <1>6. rows \in SUBSET {"app", "library"} /\ rows \ {r} = own.rows \ {r} /\ (r \in rows <=> row = Users)
    BY <1>5
  <1> HIDE DEF rows
  <1>7. /\ o \in [env : [Hosts -> Envs], others : [Hosts -> BOOLEAN], rows : SUBSET {"app", "library"}]
        /\ o.env = own.env /\ o.others = own.others /\ o.rows = rows
    BY <1>5, <1>6
  <1> HIDE DEF o
  <1>8. "store" \notin excused' => own.rows \ excused = UsersRows(store) \ excused
    BY <1>1, <1>2 DEF MachineInv, RowsKept
  <1>9. "store" \notin excused' => rows \ excused' = UsersRows(store') \ excused'
    <2> SUFFICES ASSUME "store" \notin excused', NEW q, q \notin excused PROVE q \in rows <=> q \in UsersRows(store')
      BY <1>1
    <2>1. CASE q = r
      BY <1>4, <1>6, <2>1
    <2>2. CASE q # r
      BY <1>4, <1>6, <1>8, <2>2
    <2> QED BY <2>1, <2>2
  <1> QED BY <1>1, <1>2, <1>4, <1>7, <1>9, StoreAndRowsStep, StoresAre DEF MachineInv, StoreOfToday

LEMMA OldEngineIs ==
  ASSUME MachineInv, OldEngine
  PROVE  /\ store # Nil /\ tool.pc = "idle" /\ UNCHANGED <<config, clone, tool, own, excused>>
         /\ \E g : store' = [store EXCEPT !.file = g] /\ g \in Files
  <1> DEFINE f == store.file
  <1>1. store # Nil /\ tool.pc = "idle" /\ UNCHANGED <<config, clone, tool, own, excused>>
    BY DEF OldEngine
  <1>2. store \in Stores /\ f \in Files
    BY <1>1 DEF MachineInv, MachineTypes, Stores
  <1>3. PICK name, table \in {"a", "b"} :
          \/ \E block \in Blocks, counted, sameTick \in BOOLEAN :
               \E column \in Projections(f, table, block) :
                 store' = [store EXCEPT !.file = OldSave(f, name, table, counted, block, column, sameTick)]
          \/ store' = [store EXCEPT !.file = OldDelete(f, name, table)]
    BY DEF OldEngine
  <1>4. name \in AppNames /\ table \in AppNames
    BY <1>3, OldNames
  <1> HIDE DEF f
  <1>5. CASE \E block \in Blocks, counted, sameTick \in BOOLEAN :
               \E column \in Projections(f, table, block) :
                 store' = [store EXCEPT !.file = OldSave(f, name, table, counted, block, column, sameTick)]
    BY <1>1, <1>2, <1>4, <1>5, OldSaveTyped
  <1>6. CASE store' = [store EXCEPT !.file = OldDelete(f, name, table)]
    BY <1>1, <1>2, <1>4, <1>6, OldDeleteTyped
  <1> QED BY <1>3, <1>5, <1>6

LEMMA OldEngineStep == ASSUME MachineInv, OldEngine PROVE MachineInv'
  <1>1. store # Nil /\ tool.pc = "idle" /\ UNCHANGED <<config, clone, tool, own, excused>>
    BY OldEngineIs
  <1>2. PICK g : store' = [store EXCEPT !.file = g] /\ g \in Files
    BY OldEngineIs
  <1> DEFINE r == [store EXCEPT !.file = g]
  <1>3. store \in Stores
    BY <1>1 DEF MachineInv, MachineTypes
  <1>4. r \in Stores /\ r.app = store.app /\ r.library = store.library
    BY <1>2, <1>3 DEF Stores
  <1>5. store' = r
    BY <1>2
  <1> HIDE DEF r
  <1>6. UsersRows(r) = UsersRows(store)
    BY <1>3, <1>4, StoresAre DEF UsersRows
  <1>7. ~ Registering
    BY <1>1 DEF Registering
  <1> QED BY <1>1, <1>4, <1>5, <1>6, <1>7, StoreStep

LEMMA PushStep ==
  ASSUME MachineInv, NEW p \in Pushers,
         \/ \E build \in Pushes : StartPush(p, build)
         \/ PutAsset(p) \/ SaveTemplate(p) \/ PruneOne(p) \/ Pushed(p) \/ PushDies(p)
  PROVE  MachineInv'
  <1>1. CASE \E build \in Pushes : StartPush(p, build)
    <2> DEFINE opened == OpenStore(store)
    <2>1. /\ MayOpen(store) /\ ~ ClimbRefused(store) /\ store' = opened
          /\ UNCHANGED <<config, clone, tool, own>>
          /\ excused \subseteq excused'
      BY <1>1 DEF StartPush, Open, HalfCopied
    <2>2. opened \in Stores /\ UsersRows(opened) = UsersRows(store) /\ opened.file.version = SCHEMA_VERSION
      BY <2>1, OpenTyped DEF MachineInv, MachineTypes
    <2> HIDE DEF opened
    <2> QED BY <2>1, <2>2, StoreStep
  <1>2. CASE PutAsset(p) \/ SaveTemplate(p) \/ PruneOne(p) \/ Pushed(p) \/ PushDies(p)
    <2>1. UNCHANGED <<config, clone, tool, own, excused, store>>
      BY <1>2 DEF PutAsset, SaveTemplate, PruneOne, Pushed, PushDies, machineVars, machine
    <2> QED BY <2>1, StoreStep DEF MachineInv, MachineTypes, StoreOfToday
  <1> QED BY <1>1, <1>2
\* A step of the run that leaves the machine alone and takes nothing in hand.
LEMMA ToolStep ==
  ASSUME MachineInv, UNCHANGED <<config, store, clone, own>>,
         tool' \in Runs, tool'.pc \notin {"apply", "add", "copy wal"},
         tool'.pc = "copy" => clone # Nil,
         excused \subseteq excused',
         tool.pc = "copy wal" => "store" \in excused',
         tool.pc = "add" /\ host \notin excused' => config[host].entry # Nil \/ own.env[host] = NoEnv,
         AppliedStand', StoreOfToday'
  PROVE  MachineInv'
  <1>1. MachineTypes'
    BY DEF MachineInv, MachineTypes
  <1>2. InHand'
    BY DEF InHand
  <1>3. HostsKept'
    BY DEF MachineInv, HostsKept
  <1>4. RowsKept'
    BY DEF MachineInv, RowsKept
  <1> QED BY <1>1, <1>2, <1>3, <1>4 DEF MachineInv

LEMMA IdleIs ==
  /\ Idle \in Runs /\ Idle.pc = "idle" /\ Idle.applied = {} /\ Idle.todo = {} /\ Idle.state = Nil
  /\ Idle.failed = {} /\ Idle.byHand = {}
  BY DEF Idle, Runs

\* The end of a run, whatever ends it.
LEMMA EndStep ==
  ASSUME MachineInv, BuildFails \/ AddFails \/ Crash \/ Read \/ Kept
  PROVE  MachineInv'
  <1>1. tool' = Idle /\ UNCHANGED <<config, store, clone, own>>
    BY DEF BuildFails, AddFails, Crash, Read, Kept, machine
  <1>2. AppliedStand' /\ StoreOfToday'
    BY <1>1, IdleIs DEF AppliedStand, StoreOfToday, Registering
  <1>3. CASE AddFails \/ Crash
    <2>1. excused' = excused \cup Abandoned
      BY <1>3 DEF AddFails, Crash
    <2>2. tool.pc = "copy wal" => "store" \in excused'
      BY <2>1 DEF Abandoned
    <2>3. ASSUME tool.pc = "add", host \notin excused', config[host].entry = Nil PROVE own.env[host] = NoEnv
      <3>1. tool.state.entry = Nil
        BY <2>1, <2>3 DEF Abandoned, InAGap
      <3>2. UsersPart(tool.state.entry) = own.env[host]
        BY <2>1, <2>3 DEF MachineInv, InHand
      <3> QED BY <3>1, <3>2 DEF UsersPart
    <2> QED BY <1>1, <1>2, <2>1, <2>2, <2>3, IdleIs, ToolStep
  <1>4. CASE BuildFails \/ Read \/ Kept
    <2>1. tool.pc \notin {"add", "copy wal"} /\ excused' = excused
      BY <1>4 DEF BuildFails, Read, Kept
    <2> QED BY <1>1, <1>2, <2>1, IdleIs, ToolStep
  <1> QED BY <1>3, <1>4

LEMMA StartStep ==
  ASSUME MachineInv, NEW selected \in SUBSET Detected,
         \/ \E fresh \in BOOLEAN : StartInstall(selected, fresh)
         \/ \E purge \in BOOLEAN : StartUninstall(selected, purge)
  PROVE  MachineInv'
  <1>1. /\ tool.pc = "idle" /\ UNCHANGED <<config, store, clone, own, excused>>
        /\ \E pc \in {"copy", "build", "remove", "remove, purge"}, todo \in SUBSET Hosts :
             /\ tool' = [Idle EXCEPT !.pc = pc, !.todo = todo]
             /\ pc = "copy" => clone # Nil
    <2>1. CASE \E fresh \in BOOLEAN : StartInstall(selected, fresh)
      BY <2>1, DetectedHosts DEF StartInstall, machine
    <2>2. CASE \E purge \in BOOLEAN : StartUninstall(selected, purge)
      <3>1. {x \in selected : Present(x)} \in SUBSET Hosts
        BY DetectedHosts
      <3> QED BY <2>2, <3>1 DEF StartUninstall, machine
    <2> QED BY <2>1, <2>2
  <1>2. PICK pc \in {"copy", "build", "remove", "remove, purge"}, todo \in SUBSET Hosts :
          /\ tool' = [Idle EXCEPT !.pc = pc, !.todo = todo]
          /\ pc = "copy" => clone # Nil
    BY <1>1
  <1> DEFINE r == [Idle EXCEPT !.pc = pc, !.todo = todo]
  <1>3. r \in Runs /\ r.pc = pc /\ r.applied = {}
    BY IdleIs DEF Runs
  <1>4. tool' = r
    BY <1>2
  <1> HIDE DEF r
  <1>5. AppliedStand' /\ StoreOfToday'
    BY <1>3, <1>4 DEF AppliedStand, StoreOfToday, Registering
  <1> QED BY <1>1, <1>2, <1>3, <1>4, <1>5, ToolStep

LEMMA SummaryStep == ASSUME MachineInv, Summary PROVE MachineInv'
  <1> DEFINE r == [tool EXCEPT !.pc = "done"]
  <1>1. tool' = r /\ tool.pc = "hosts" /\ UNCHANGED <<config, store, clone, own, excused>>
    BY DEF Summary, machine
  <1>2. /\ r \in Runs /\ r.pc = "done" /\ r.todo = tool.todo /\ r.applied = tool.applied
        /\ r.byHand = tool.byHand
    BY DEF MachineInv, MachineTypes, Runs
  <1> HIDE DEF r
  <1>3. AppliedStand' /\ StoreOfToday'
    BY <1>1, <1>2 DEF MachineInv, AppliedStand, StoreOfToday, Registering
  <1> QED BY <1>1, <1>2, <1>3, ToolStep

\* What state() reads is a state, and says whether the entry is current.
LEMMA StateIs ==
  ASSUME config \in [Hosts -> Configs], NEW h \in Hosts, NEW seen \in HostEntries \cup {Nil},
         NEW unreadable \in BOOLEAN, NEW legacy \in BOOLEAN
  PROVE  LET st == State(h, seen, unreadable, legacy) IN
           /\ st \in States /\ st.entry = seen /\ st.others = config[h].others
           /\ st.status = "fresh" <=> st.entry = Nil
           /\ st.status = "current" => Current(st.entry, CarriesStaleEnv(st.entry.env))
  <1> DEFINE stale == seen # Nil /\ (IF unreadable THEN seen.env.dynamic # "unset" ELSE CarriesStaleEnv(seen.env))
             others == config[h].others
             st == State(h, seen, unreadable, legacy)
  <1>1. others \in BOOLEAN
    BY DEF Configs
  <1>2. st = [entry |-> seen, legacy |-> legacy, others |-> others, unreadable |-> unreadable,
              status |-> Status(seen, stale)]
    BY Zenon DEF State
  <1>3. Status(seen, stale) \in {"fresh", "current", "stale"} /\ (Status(seen, stale) = "fresh" <=> seen = Nil)
    BY DEF Status
  <1>4. Status(seen, stale) = "current" => Current(seen, CarriesStaleEnv(seen.env))
    <2> SUFFICES ASSUME Status(seen, stale) = "current" PROVE Current(seen, CarriesStaleEnv(seen.env))
      OBVIOUS
    <2>1. Current(seen, stale)
      BY DEF Status
    <2>2. ~ CarriesStaleEnv(seen.env)
      BY <2>1 DEF Current, CarriesStaleEnv
    <2> QED BY <2>1, <2>2 DEF Current
  <1> HIDE DEF others, stale, st
  <1>5. st.entry = seen /\ st.others = others /\ st.status = Status(seen, stale)
    BY <1>2
  <1>6. st \in States
    BY <1>1, <1>2, <1>3 DEF States
  <1> QED BY <1>3, <1>4, <1>5, <1>6 DEF st, others

\* A probe that is not mistaken has seen what is there, or nothing of an entry of Claude Code's.
LEMMA SeenIs ==
  ASSUME NEW h, NEW seen, ~ Mistaken(h, seen)
  PROVE  seen = config[h].entry \/ (h = "claude-code" /\ seen = Nil /\ config[h].entry # Nil)
  BY DEF Mistaken

LEMMA ReadHostStep == ASSUME MachineInv, ReadHost PROVE MachineInv'
  <1>1. /\ tool.pc = "hosts" /\ tool.todo # {} /\ UNCHANGED <<config, store, clone, own>>
        /\ tool \in Runs /\ tool.todo \subseteq Hosts
    BY DEF ReadHost, machine, MachineInv, MachineTypes, Runs
  <1>2. host \in tool.todo /\ host \in Hosts
    BY <1>1, HostIsToDo
  <1>3. CASE \E seen \in HostEntries \cup {Nil}, unreadable, legacy \in BOOLEAN :
               /\ tool' = [tool EXCEPT !.pc = "apply", !.state = State(host, seen, unreadable, legacy)]
               /\ excused' = IF Mistaken(host, seen) THEN excused \cup {host} ELSE excused
    <2>0. PICK seen \in HostEntries \cup {Nil}, unreadable \in BOOLEAN, legacy \in BOOLEAN :
               /\ tool' = [tool EXCEPT !.pc = "apply", !.state = State(host, seen, unreadable, legacy)]
               /\ excused' = IF Mistaken(host, seen) THEN excused \cup {host} ELSE excused
      BY <1>3
    <2> DEFINE st == State(host, seen, unreadable, legacy)
               r == [tool EXCEPT !.pc = "apply", !.state = st]
    <2>1. /\ st \in States /\ st.entry = seen /\ st.others = config[host].others
          /\ st.status = "fresh" <=> st.entry = Nil
          /\ st.status = "current" => Current(st.entry, CarriesStaleEnv(st.entry.env))
      BY <1>2, StateIs DEF MachineInv, MachineTypes
    <2>2. tool' = r
      BY <2>0
    <2> HIDE DEF st
    <2>3. /\ r \in Runs /\ r.pc = "apply" /\ r.state = st /\ r.todo = tool.todo /\ r.applied = tool.applied
          /\ r.byHand = tool.byHand
      BY <1>1, <2>1 DEF Runs
    <2> HIDE DEF r
    <2>4. host' = host
      BY <2>2, <2>3, SameHost
    <2>a. excused \subseteq excused' /\ (excused' = excused \/ excused' = excused \cup {host})
      BY <2>0
    <2>5. MachineTypes'
      BY <1>1, <2>2, <2>3 DEF MachineInv, MachineTypes
    <2>6. HostsKept'
      BY <1>1, <2>2, <2>3, <2>4, <2>a DEF MachineInv, HostsKept
    <2>7. host \notin excused' =>
            \/ host = "claude-code" /\ st.entry = Nil /\ config[host].entry # Nil
            \/ UsersPart(st.entry) = own.env[host] /\ st.entry = config[host].entry
      <3> SUFFICES ASSUME host \notin excused'
                   PROVE  \/ host = "claude-code" /\ st.entry = Nil /\ config[host].entry # Nil
                          \/ UsersPart(st.entry) = own.env[host] /\ st.entry = config[host].entry
        OBVIOUS
      <3>1. ~ Mistaken(host, seen) /\ host \in Hosts \ excused
        BY <1>2, <2>0
      <3>2. CASE seen = config[host].entry
        BY <1>1, <2>1, <3>1, <3>2 DEF MachineInv, HostsKept, UsersPart
      <3> QED BY <2>1, <3>1, <3>2, SeenIs
    <2>8. InHand'
      BY <1>1, <2>1, <2>2, <2>3, <2>4, <2>7 DEF InHand
    <2>9. AppliedStand' /\ StoreOfToday'
      BY <1>1, <2>2, <2>3, <2>a DEF MachineInv, AppliedStand, StoreOfToday, Registering
    <2>10. RowsKept'
      BY <1>1, <2>2, <2>3, <2>a DEF MachineInv, RowsKept
    <2> QED BY <2>5, <2>6, <2>8, <2>9, <2>10 DEF MachineInv
  <1>4. CASE tool' = [tool EXCEPT !.todo = @ \ {host}, !.failed = @ \cup {host}] /\ UNCHANGED excused
    <2> DEFINE r == [tool EXCEPT !.todo = tool.todo \ {host}, !.failed = tool.failed \cup {host}]
    <2>1. tool' = r
      BY <1>4
    <2>2. /\ r \in Runs /\ r.pc = "hosts" /\ r.applied = tool.applied /\ r.byHand = tool.byHand
          /\ r.todo \subseteq tool.todo
      BY <1>1, <1>2 DEF Runs
    <2> HIDE DEF r
    <2>3. AppliedStand' /\ StoreOfToday'
      BY <1>1, <1>4, <2>1, <2>2 DEF MachineInv, AppliedStand, StoreOfToday, Registering
    <2> QED BY <1>1, <1>4, <2>1, <2>2, <2>3, ToolStep
  <1> QED BY <1>3, <1>4 DEF ReadHost

\* A host is done: its configuration is written or left.
LEMMA DoneStep ==
  ASSUME MachineInv, tool.pc \in {"apply", "add"}, UNCHANGED <<store, clone, own, excused>>,
         NEW c \in Configs, config' = [config EXCEPT ![host] = c],
         NEW t \in Runs, t.todo = tool.todo, t.applied = tool.applied, tool.byHand \subseteq t.byHand,
         tool' = HostDone(t),
         host \notin excused => c.others = own.others[host] /\ UsersPart(c.entry) = own.env[host],
         host \notin t.byHand \cup excused => Current(c.entry, CarriesStaleEnv(c.entry.env))
  PROVE  MachineInv'
  <1>1. tool.todo # {} /\ tool.todo \subseteq Hosts /\ Registering
    BY DEF MachineInv, MachineTypes, InHand, Runs, Registering
  <1>2. host \in tool.todo /\ host \in Hosts
    BY <1>1, HostIsToDo
  <1> DEFINE r == [t EXCEPT !.pc = "hosts", !.todo = t.todo \ {host}, !.state = Nil,
                            !.applied = t.applied \cup {host}]
  <1>3. tool' = r
    BY DEF HostDone
  <1>4. /\ r \in Runs /\ r.pc = "hosts" /\ r.todo = tool.todo \ {host}
        /\ r.applied = tool.applied \cup {host} /\ r.byHand = t.byHand
    BY <1>2 DEF Runs
  <1> HIDE DEF r
  <1>5. config'[host] = c /\ \A x \in Hosts : x # host => config'[x] = config[x]
    BY <1>2 DEF MachineInv, MachineTypes
  <1>6. MachineTypes'
    BY <1>2, <1>3, <1>4 DEF MachineInv, MachineTypes
  <1>7. HostsKept'
    <2> SUFFICES ASSUME NEW x \in Hosts \ excused
                 PROVE  /\ config'[x].others = own.others[x]
                        /\ IF config'[x].entry # Nil THEN UsersPart(config'[x].entry) = own.env[x]
                           ELSE own.env[x] = NoEnv
      BY DEF HostsKept
    <2>1. CASE x = host
      BY <1>5, <2>1 DEF UsersPart
    <2>2. CASE x # host
      BY <1>5, <2>2 DEF MachineInv, HostsKept
    <2> QED BY <2>1, <2>2
  <1>8. AppliedStand'
    <2> SUFFICES ASSUME NEW x \in r.applied \ (r.byHand \cup excused)
                 PROVE  Current(config'[x].entry, CarriesStaleEnv(config'[x].entry.env))
      BY <1>1, <1>3, <1>4 DEF MachineInv, AppliedStand, Registering
    <2>1. CASE x = host
      BY <1>4, <1>5, <2>1
    <2>2. CASE x # host
      <3>1. x \in tool.applied \ (tool.byHand \cup excused) /\ x \in Hosts
        BY <1>4, <2>2 DEF MachineInv, MachineTypes, Runs
      <3> QED BY <1>5, <2>2, <3>1 DEF MachineInv, AppliedStand
    <2> QED BY <2>1, <2>2
  <1>9. InHand' /\ RowsKept' /\ StoreOfToday'
    BY <1>1, <1>3, <1>4 DEF MachineInv, InHand, RowsKept, StoreOfToday, Registering
  <1> QED BY <1>6, <1>7, <1>8, <1>9 DEF MachineInv

\* What a step on the host in hand may take from the invariant.
LEMMA HostInHand ==
  ASSUME MachineInv, tool.pc \in {"apply", "add"}
  PROVE  /\ host \in Hosts /\ config[host] \in Configs /\ tool \in Runs /\ tool.state \in States
         /\ DOMAIN config = Hosts
         /\ host \notin excused =>
              /\ config[host].others = own.others[host]
              /\ \/ host = "claude-code" /\ tool.state.entry = Nil /\ config[host].entry # Nil
                 \/ UsersPart(tool.state.entry) = own.env[host]
  <1>1. tool.todo # {} /\ tool.todo \subseteq Hosts /\ tool \in Runs /\ tool.state \in States
    BY DEF MachineInv, MachineTypes, InHand, Runs
  <1>2. host \in Hosts
    BY <1>1, HostIsToDo
  <1> QED BY <1>1, <1>2 DEF MachineInv, MachineTypes, HostsKept, InHand

LEMMA WriteDesktopStep == ASSUME MachineInv, WriteDesktop PROVE MachineInv'
  <1>1. tool.pc = "apply" /\ host = "claude" /\ UNCHANGED <<store, clone, own, excused>> /\ tool' = HostDone(tool)
    BY DEF WriteDesktop
  <1>2. /\ host \in Hosts /\ config[host] \in Configs /\ tool \in Runs /\ tool.state \in States
        /\ config \in [Hosts -> Configs]
        /\ host \notin excused =>
              config[host].others = own.others[host] /\ UsersPart(tool.state.entry) = own.env[host]
    BY <1>1, HostInHand DEF MachineInv, MachineTypes, AddTaken
  <1>3. host \notin excused =>
           tool.state.entry = config[host].entry /\ tool.state.others = config[host].others
    BY <1>1 DEF MachineInv, InHand
  <1>4. CASE tool.state.status = "current" /\ ~ tool.state.legacy
    <2>1. config' = [config EXCEPT ![host] = config[host]]
      BY <1>2, <1>4 DEF WriteDesktop
    <2>2. host \notin excused => Current(config[host].entry, CarriesStaleEnv(config[host].entry.env))
      BY <1>1, <1>3, <1>4 DEF MachineInv, InHand
    <2>3. host \notin excused => UsersPart(config[host].entry) = own.env[host]
      BY <1>2, <1>3
    <2> HIDE DEF WriteDesktop
    <2> QED BY <1>1, <1>2, <2>1, <2>2, <2>3, DoneStep
  <1>5. CASE ~(tool.state.status = "current" /\ ~ tool.state.legacy)
    <2> DEFINE m == Merged(tool.state)
               c == [entry |-> m, legacy |-> FALSE, others |-> tool.state.others, valid |-> TRUE]
    <2>1. config' = [config EXCEPT ![host] = c]
      BY <1>5 DEF WriteDesktop
    <2>2. /\ m \in HostEntries /\ Current(m, CarriesStaleEnv(m.env))
          /\ UsersPart(m) = UsersPart(tool.state.entry)
      BY <1>2, MergedIs
    <2> HIDE DEF m
    <2>3. tool.state.others \in BOOLEAN
      BY <1>2 DEF States
    <2>4. c \in Configs /\ c.entry = m /\ c.others = tool.state.others
      BY <2>2, <2>3 DEF Configs
    <2> HIDE DEF c
    <2> QED BY <1>1, <1>2, <1>3, <2>1, <2>2, <2>4, DoneStep
  <1> QED BY <1>4, <1>5

LEMMA AddByCliStep == ASSUME MachineInv, AddByCli PROVE MachineInv'
  <1> DEFINE m == Merged(tool.state)
             c == [config[host] EXCEPT !.entry = m]
  <1>1. tool.pc = "add" /\ ~ AddTaken /\ UNCHANGED <<store, clone, own, excused>> /\ tool' = HostDone(tool)
    BY DEF AddByCli
  <1>2. /\ host \in Hosts /\ config[host] \in Configs /\ tool \in Runs /\ tool.state \in States
        /\ config \in [Hosts -> Configs]
        /\ host \notin excused =>
              config[host].others = own.others[host] /\ UsersPart(tool.state.entry) = own.env[host]
    BY <1>1, HostInHand DEF MachineInv, MachineTypes, AddTaken
  <1>3. config' = [config EXCEPT ![host] = c]
    BY <1>2 DEF AddByCli
  <1>4. /\ m \in HostEntries /\ Current(m, CarriesStaleEnv(m.env))
        /\ UsersPart(m) = UsersPart(tool.state.entry)
    BY <1>2, MergedIs
  <1> HIDE DEF m
  <1>5. c \in Configs /\ c.entry = m /\ c.others = config[host].others
    BY <1>2, <1>4 DEF Configs
  <1> HIDE DEF c
  <1> QED BY <1>1, <1>2, <1>3, <1>4, <1>5, DoneStep
LEMMA ApplyByCliStep == ASSUME MachineInv, ApplyByCli PROVE MachineInv'
  <1> DEFINE st == tool.state
             removed == st.status = "stale" /\ ~ st.unreadable
             blind == host = "claude-code" /\ st.entry = Nil /\ config[host].entry # Nil
  <1>1. tool.pc = "apply" /\ UNCHANGED <<store, clone, own, excused>>
    BY DEF ApplyByCli
  <1>2. /\ host \in Hosts /\ config[host] \in Configs /\ tool \in Runs /\ st \in States
        /\ config \in [Hosts -> Configs]
        /\ host \notin excused =>
              config[host].others = own.others[host] /\ (blind \/ UsersPart(st.entry) = own.env[host])
    BY <1>1, HostInHand DEF MachineInv, MachineTypes
  <1>3. /\ host \notin excused => blind \/ st.entry = config[host].entry
        /\ blind => st.status = "fresh"
    BY <1>1 DEF MachineInv, InHand
  <1>a. host \notin excused /\ blind => UsersPart(config[host].entry) = own.env[host]
    BY <1>2 DEF MachineInv, HostsKept
  <1> HIDE DEF blind
  <1>4. PICK legacyGone \in BOOLEAN, gone \in BOOLEAN :
          config' = [config EXCEPT
            ![host].legacy = @ /\ ~ (st.legacy /\ legacyGone),
            ![host].entry = IF st.status = "stale" /\ ~ st.unreadable /\ gone THEN Nil ELSE @]
    BY DEF ApplyByCli
  <1> DEFINE legacy == config[host].legacy /\ ~ (st.legacy /\ legacyGone)
             entry == IF removed /\ gone THEN Nil ELSE config[host].entry
             c == [config[host] EXCEPT !.legacy = legacy, !.entry = entry]
  <1>5. config' = [config EXCEPT ![host] = c]
    BY <1>2, <1>4
  <1>6. legacy \in BOOLEAN
    OBVIOUS
  <1>7. entry \in HostEntries \cup {Nil} /\ (~ removed => entry = config[host].entry) /\ entry \in {Nil, config[host].entry}
    BY <1>2 DEF Configs
  <1> HIDE DEF legacy, entry
  <1>8. c \in Configs /\ c.entry = entry /\ c.others = config[host].others
    BY <1>2, <1>6, <1>7 DEF Configs
  <1> HIDE DEF c
  <1>9. CASE st.status = "fresh" \/ removed
    <2> DEFINE r == [tool EXCEPT !.pc = "add"]
    <2>1. tool' = r
      BY <1>9 DEF ApplyByCli
    <2>2. /\ r \in Runs /\ r.pc = "add" /\ r.state = st /\ r.todo = tool.todo /\ r.applied = tool.applied
          /\ r.byHand = tool.byHand
      BY <1>2 DEF Runs
    <2> HIDE DEF r
    <2>3. host' = host
      BY <2>1, <2>2, SameHost
    <2>4. config'[host] = c /\ \A x \in Hosts : x # host => config'[x] = config[x]
      BY <1>2, <1>5
    <2>5. MachineTypes'
      BY <1>1, <1>2, <1>5, <1>8, <2>1, <2>2 DEF MachineInv, MachineTypes
    <2>6. HostsKept'
      <3> SUFFICES ASSUME NEW x \in Hosts \ excused
                   PROVE  /\ config'[x].others = own.others[x]
                          /\ IF config'[x].entry # Nil THEN UsersPart(config'[x].entry) = own.env[x]
                             ELSE own.env[x] = NoEnv \/ x = host
        BY <1>1, <2>1, <2>2, <2>3 DEF HostsKept
      <3>1. CASE x = host
        <4>1. CASE blind
          BY <1>2, <1>3, <1>7, <1>8, <1>a, <2>4, <3>1, <4>1 DEF blind
        <4>2. CASE ~ blind
          BY <1>2, <1>3, <1>7, <1>8, <2>4, <3>1, <4>2
        <4> QED BY <4>1, <4>2
      <3>2. CASE x # host
        BY <1>1, <2>4, <3>2 DEF MachineInv, HostsKept
      <3> QED BY <3>1, <3>2
    <2>7. InHand'
      <3>1. host \notin excused => (blind /\ config'[host].entry # Nil) \/ UsersPart(st.entry) = own.env[host]
        BY <1>2, <1>3, <1>7, <1>8, <2>4 DEF blind
      <3> QED BY <1>1, <2>1, <2>2, <2>3, <3>1 DEF MachineInv, InHand, blind
    <2>8. AppliedStand'
      <3>1. host \in tool.todo
        BY <1>1, HostIsToDo DEF MachineInv, MachineTypes, InHand, Runs
      <3>2. \A x \in tool.applied : x # host /\ config'[x] = config[x]
        BY <2>4, <3>1 DEF MachineInv, MachineTypes, AppliedStand, Runs
      <3> QED BY <1>1, <2>1, <2>2, <3>2 DEF MachineInv, AppliedStand, Registering
    <2>9. RowsKept' /\ StoreOfToday'
      BY <1>1, <2>1, <2>2 DEF MachineInv, RowsKept, StoreOfToday, Registering
    <2> QED BY <2>5, <2>6, <2>7, <2>8, <2>9 DEF MachineInv
  <1>10. CASE ~(st.status = "fresh" \/ removed)
    <2> DEFINE hand == IF st.unreadable /\ st.status = "stale" THEN tool.byHand \cup {host} ELSE tool.byHand
               t == [tool EXCEPT !.byHand = hand]
    <2>1. tool' = HostDone(t)
      BY <1>10, <1>2 DEF ApplyByCli
    <2>2. hand \subseteq Hosts /\ tool.byHand \subseteq hand
      BY <1>2 DEF Runs
    <2>3. st.status \in {"fresh", "current", "stale"}
      BY <1>2 DEF States
    <2>4. host \notin hand => st.status = "current"
      BY <1>10, <2>3
    <2> HIDE DEF hand
    <2>5. t \in Runs /\ t.todo = tool.todo /\ t.applied = tool.applied /\ t.byHand = hand
      BY <1>2, <2>2 DEF Runs
    <2> HIDE DEF t
    <2>6. c.entry = config[host].entry
      BY <1>7, <1>8, <1>10
    <2>b. ~ blind
      BY <1>3, <1>10
    <2>7. host \notin hand \cup excused => Current(c.entry, CarriesStaleEnv(c.entry.env))
      BY <1>1, <1>3, <2>4, <2>6, <2>b DEF MachineInv, InHand
    <2> QED BY <1>1, <1>2, <1>3, <1>5, <1>8, <2>1, <2>2, <2>5, <2>6, <2>7, <2>b, DoneStep
  <1> QED BY <1>9, <1>10

\* The uninstaller takes an entry out, and the user's part of it.
LEMMA RemoveHostStep == ASSUME MachineInv, RemoveHost PROVE MachineInv'
  <1>1. /\ tool.pc \in {"remove", "remove, purge"} /\ tool.todo # {} /\ UNCHANGED <<store, clone, excused>>
        /\ tool \in Runs /\ tool.todo \subseteq Hosts /\ tool' = [tool EXCEPT !.todo = tool.todo \ {host}]
    BY DEF RemoveHost, MachineInv, MachineTypes, Runs
  <1>2. host \in Hosts /\ config \in [Hosts -> Configs] /\ config[host] \in Configs
    BY <1>1, HostIsToDo DEF MachineInv, MachineTypes
  <1> DEFINE r == [tool EXCEPT !.todo = tool.todo \ {host}]
  <1>3. /\ r \in Runs /\ r.pc = tool.pc /\ r.applied = tool.applied /\ r.byHand = tool.byHand
        /\ r.todo \subseteq tool.todo
    BY <1>1 DEF Runs
  <1>4. tool' = r
    BY <1>1
  <1> HIDE DEF r
  <1>5. PICK entryGone \in BOOLEAN, legacyGone \in BOOLEAN :
          /\ config' = IF ~ config[host].valid THEN config
                       ELSE [config EXCEPT ![host].entry = IF entryGone THEN Nil ELSE @,
                                           ![host].legacy = @ /\ ~ legacyGone]
          /\ own' = IF config[host].valid /\ entryGone THEN [own EXCEPT !.env[host] = NoEnv] ELSE own
    BY DEF RemoveHost
  <1>6. own \in [env : [Hosts -> Envs], others : [Hosts -> BOOLEAN], rows : SUBSET {"app", "library"}]
    BY DEF MachineInv, MachineTypes
  <1> DEFINE env == IF config[host].valid /\ entryGone THEN [own.env EXCEPT ![host] = NoEnv] ELSE own.env
             o == [own EXCEPT !.env = env]
  <1>7. env \in [Hosts -> Envs]
    BY <1>6, NoEnvIs
  <1>8. own' = o
    BY <1>5, <1>6
  <1>9. /\ \A x \in Hosts : x # host => env[x] = own.env[x]
        /\ ~ (config[host].valid /\ entryGone) => env[host] = own.env[host]
        /\ config[host].valid /\ entryGone => env[host] = NoEnv
    BY <1>2, <1>6
  <1> HIDE DEF env
  <1>10. /\ o \in [env : [Hosts -> Envs], others : [Hosts -> BOOLEAN], rows : SUBSET {"app", "library"}]
         /\ o.env = env /\ o.others = own.others /\ o.rows = own.rows
    BY <1>6, <1>7
  <1> HIDE DEF o
  <1> DEFINE legacy == config[host].legacy /\ ~ legacyGone
             entry == IF entryGone THEN Nil ELSE config[host].entry
             written == [config[host] EXCEPT !.entry = entry, !.legacy = legacy]
             c == IF ~ config[host].valid THEN config[host] ELSE written
  <1>11. legacy \in BOOLEAN /\ entry \in HostEntries \cup {Nil}
    BY <1>2 DEF Configs
  <1>12. config' = [config EXCEPT ![host] = c]
    <2>1. CASE config[host].valid
      <3>1. config' = [config EXCEPT ![host] = written]
        BY <1>2, <1>5, <2>1
      <3> QED BY <2>1, <3>1
    <2>2. CASE ~ config[host].valid
      BY <1>2, <1>5, <2>2
    <2> QED BY <2>1, <2>2
  <1> HIDE DEF legacy
  <1>13. /\ c \in Configs /\ c.others = config[host].others
         /\ c.entry = IF config[host].valid /\ entryGone THEN Nil ELSE config[host].entry
    BY <1>2, <1>11 DEF Configs
  <1> HIDE DEF c
  <1>14. config'[host] = c /\ \A x \in Hosts : x # host => config'[x] = config[x]
    BY <1>2, <1>12
  <1>15. MachineTypes'
    BY <1>1, <1>3, <1>4, <1>8, <1>10, <1>12, <1>13 DEF MachineInv, MachineTypes
  <1>16. HostsKept'
    <2> SUFFICES ASSUME NEW x \in Hosts \ excused
                 PROVE  /\ config'[x].others = own'.others[x]
                        /\ IF config'[x].entry # Nil THEN UsersPart(config'[x].entry) = own'.env[x]
                           ELSE own'.env[x] = NoEnv
      BY <1>1 DEF HostsKept
    <2>1. /\ config[x].others = own.others[x]
          /\ IF config[x].entry # Nil THEN UsersPart(config[x].entry) = own.env[x] ELSE own.env[x] = NoEnv
      BY <1>1 DEF MachineInv, HostsKept
    <2>2. CASE x = host
      BY <1>8, <1>9, <1>10, <1>13, <1>14, <2>1, <2>2
    <2>3. CASE x # host
      BY <1>8, <1>9, <1>10, <1>14, <2>1, <2>3
    <2> QED BY <2>2, <2>3
  <1>17. tool.applied = {} /\ ~ Registering
    BY <1>1 DEF MachineInv, AppliedStand, Registering
  <1>18. InHand' /\ AppliedStand' /\ StoreOfToday'
    BY <1>1, <1>3, <1>4, <1>17 DEF InHand, AppliedStand, StoreOfToday, Registering
  <1>19. RowsKept'
    BY <1>1, <1>3, <1>4, <1>8, <1>10 DEF MachineInv, RowsKept
  <1> QED BY <1>15, <1>16, <1>18, <1>19 DEF MachineInv

\* The user writes a configuration.
LEMMA EditStep ==
  ASSUME MachineInv, NEW x \in Detected, NEW env \in Envs, ~ CarriesStaleEnv(env), NEW others \in BOOLEAN,
         Edit(x, env, others)
  PROVE  MachineInv'
  <1>1. x \in Hosts /\ config \in [Hosts -> Configs] /\ config[x] \in Configs /\ UNCHANGED <<store, clone, tool>>
    BY DetectedHosts DEF Edit, MachineInv, MachineTypes
  <1>2. excused' = IF tool.pc \in {"apply", "add"} /\ host = x THEN excused \cup {x} ELSE excused
    BY DEF Edit
  <1>3. host' = host
    BY <1>1 DEF host
  <1>4. own \in [env : [Hosts -> Envs], others : [Hosts -> BOOLEAN], rows : SUBSET {"app", "library"}]
    BY DEF MachineInv, MachineTypes
  <1> DEFINE edited == [config[x].entry EXCEPT !.env = env]
             entry == IF config[x].entry = Nil THEN Nil ELSE edited
             c == [config[x] EXCEPT !.entry = entry, !.others = others]
             mine == IF config[x].entry = Nil THEN own.env[x] ELSE StripStaleEnv(env)
             o == [own EXCEPT !.env = [own.env EXCEPT ![x] = mine], !.others = [own.others EXCEPT ![x] = others]]
  <1>5. config' = [config EXCEPT ![x] = c]
    <2>1. config' = [config EXCEPT ![x].entry = IF @ = Nil THEN Nil ELSE [@ EXCEPT !.env = env], ![x].others = others]
      BY DEF Edit
    <2> QED BY <1>1, <2>1
  <1>6. config[x].entry # Nil => edited \in HostEntries /\ edited.env = env /\ edited.here = config[x].entry.here
    BY <1>1 DEF Configs, HostEntries
  <1> HIDE DEF edited
  <1>7. entry \in HostEntries \cup {Nil} /\ (entry = Nil <=> config[x].entry = Nil)
    BY <1>6, NilIsNothing
  <1> HIDE DEF entry
  <1>8. c \in Configs /\ c.entry = entry /\ c.others = others
    BY <1>1, <1>7 DEF Configs
  <1> HIDE DEF c
  <1>9. config'[x] = c /\ \A y \in Hosts : y # x => config'[y] = config[y]
    BY <1>1, <1>5
  <1>10. mine \in Envs
    BY <1>1, <1>4, StrippedIs
  <1>11. own' = o
    BY <1>4 DEF Edit
  <1> HIDE DEF mine
  <1>12. /\ o \in [env : [Hosts -> Envs], others : [Hosts -> BOOLEAN], rows : SUBSET {"app", "library"}]
         /\ o.env = [own.env EXCEPT ![x] = mine] /\ o.others = [own.others EXCEPT ![x] = others]
         /\ o.rows = own.rows
    BY <1>4, <1>10
  <1> HIDE DEF o
  <1>13. /\ o.env[x] = mine /\ o.others[x] = others
         /\ \A y \in Hosts : y # x => o.env[y] = own.env[y] /\ o.others[y] = own.others[y]
    BY <1>1, <1>4, <1>12
  <1>14. MachineTypes'
    BY <1>1, <1>5, <1>8, <1>11, <1>12 DEF MachineInv, MachineTypes
  <1>15. HostsKept'
    <2> SUFFICES ASSUME NEW y \in Hosts \ excused'
                 PROVE  /\ config'[y].others = own'.others[y]
                        /\ IF config'[y].entry # Nil THEN UsersPart(config'[y].entry) = own'.env[y]
                           ELSE own'.env[y] = NoEnv \/ (tool.pc = "add" /\ host = y)
      BY <1>1, <1>3 DEF HostsKept
    <2>0. y \in Hosts \ excused
      BY <1>2
    <2>1. CASE y = x
      <3>1. CASE config[x].entry = Nil
        BY <1>7, <1>8, <1>9, <1>11, <1>13, <2>0, <2>1, <3>1 DEF MachineInv, HostsKept, mine
      <3>2. CASE config[x].entry # Nil
        <4>1. entry = edited /\ UsersPart(entry) = StripStaleEnv(env) /\ entry # Nil
          BY <1>6, <1>7, <3>2 DEF entry, UsersPart
        <4> QED BY <1>8, <1>9, <1>11, <1>13, <2>1, <3>2, <4>1 DEF mine
      <3> QED BY <3>1, <3>2
    <2>2. CASE y # x
      BY <1>9, <1>11, <1>13, <2>0, <2>2 DEF MachineInv, HostsKept
    <2> QED BY <2>1, <2>2
  <1>16. InHand'
    <2> SUFFICES ASSUME tool.pc \in {"apply", "add"}, host \notin excused'
                 PROVE  \/ host = "claude-code" /\ tool.state.entry = Nil /\ config'[host].entry # Nil
                        \/ /\ UsersPart(tool.state.entry) = own'.env[host]
                           /\ tool.pc = "apply" =>
                                tool.state.entry = config'[host].entry /\ tool.state.others = config'[host].others
      BY <1>1, <1>3 DEF MachineInv, InHand
    <2>1. host # x /\ host \notin excused /\ host \in Hosts
      BY <1>2, HostInHand
    <2> QED BY <1>9, <1>11, <1>13, <2>1 DEF MachineInv, InHand
  <1>17. AppliedStand'
    <2> SUFFICES ASSUME NEW y \in tool.applied \ (tool.byHand \cup excused')
                 PROVE  Current(config'[y].entry, CarriesStaleEnv(config'[y].entry.env))
      BY <1>1 DEF MachineInv, AppliedStand, Registering
    <2>1. y \in tool.applied \ (tool.byHand \cup excused) /\ y \in Hosts
      BY <1>2 DEF MachineInv, MachineTypes, Runs
    <2>2. Current(config[y].entry, CarriesStaleEnv(config[y].entry.env))
      BY <2>1 DEF MachineInv, AppliedStand
    <2>3. CASE y = x
      <3>1. config[x].entry # Nil /\ config[x].entry.here
        BY <2>2, <2>3 DEF Current
      <3>2. entry = edited
        BY <3>1 DEF entry
      <3> QED BY <1>6, <1>7, <1>8, <1>9, <2>3, <3>1, <3>2 DEF Current
    <2>4. CASE y # x
      BY <1>9, <2>1, <2>2, <2>4
    <2> QED BY <2>3, <2>4
  <1>18. RowsKept' /\ StoreOfToday'
    BY <1>1, <1>2, <1>11, <1>12 DEF MachineInv, RowsKept, StoreOfToday, Registering
  <1> QED BY <1>14, <1>15, <1>16, <1>17, <1>18 DEF MachineInv
\* The steps that put a store in place, or take it away.
LEMMA PlaceStep ==
  ASSUME MachineInv, CopyDb \/ CopyWal \/ Build \/ PurgeStore
  PROVE  MachineInv'
  <1>0. tool \in Runs /\ own \in [env : [Hosts -> Envs], others : [Hosts -> BOOLEAN], rows : SUBSET {"app", "library"}]
    BY DEF MachineInv, MachineTypes
  <1>1. CASE CopyDb
    <2>1. /\ tool.pc = "copy" /\ store' = clone.db /\ UNCHANGED <<config, clone, excused>>
          /\ own' = [own EXCEPT !.rows = UsersRows(Content)]
      BY <1>1 DEF CopyDb
    <2> DEFINE pc == IF clone.wal = Nil THEN "build" ELSE "copy wal"
               r == [tool EXCEPT !.pc = pc]
               o == [own EXCEPT !.rows = UsersRows(Content)]
    <2>2. clone \in Clones /\ clone.db \in Stores /\ clone.wal \in Stores \cup {Nil}
      BY <2>1 DEF MachineInv, MachineTypes, RowsKept, Clones
    <2>3. tool' = r
      BY <1>1 DEF CopyDb
    <2>4. r \in Runs /\ r.pc = pc /\ r.applied = tool.applied /\ r.todo = tool.todo /\ r.byHand = tool.byHand
      BY <1>0 DEF Runs
    <2>5. UsersRows(Content) \subseteq {"app", "library"}
      BY DEF UsersRows
    <2>6. /\ o \in [env : [Hosts -> Envs], others : [Hosts -> BOOLEAN], rows : SUBSET {"app", "library"}]
          /\ o.env = own.env /\ o.others = own.others /\ o.rows = UsersRows(Content)
      BY <1>0, <2>5
    <2> HIDE DEF r, o
    <2>7. MachineTypes'
      BY <2>1, <2>2, <2>3, <2>4, <2>6 DEF MachineInv, MachineTypes, o
    <2>8. tool.applied = {}
      BY <2>1 DEF MachineInv, AppliedStand, Registering
    <2>9. InHand' /\ AppliedStand' /\ StoreOfToday'
      BY <2>3, <2>4, <2>8 DEF InHand, AppliedStand, StoreOfToday, Registering
    <2>10. own'.env = own.env /\ own'.others = own.others /\ own'.rows = UsersRows(Content)
      BY <2>1, <2>6 DEF o
    <2>11. HostsKept'
      BY <2>1, <2>10 DEF MachineInv, HostsKept
    <2>12. RowsKept'
      BY <2>1, <2>2, <2>3, <2>4, <2>10, NilIsNothing DEF RowsKept, Content
    <2> QED BY <2>7, <2>9, <2>11, <2>12 DEF MachineInv
  <1>2. CASE CopyWal
    <2> DEFINE r == [tool EXCEPT !.pc = "build"]
    <2>1. /\ tool.pc = "copy wal" /\ store' = clone.wal /\ UNCHANGED <<config, clone, own, excused>> /\ tool' = r
      BY <1>2 DEF CopyWal
    <2>2. clone \in Clones /\ clone.wal \in Stores
      BY <2>1 DEF MachineInv, MachineTypes, RowsKept, Clones
    <2>3. r \in Runs /\ r.pc = "build" /\ r.applied = tool.applied /\ r.todo = tool.todo /\ r.byHand = tool.byHand
      BY <1>0 DEF Runs
    <2> HIDE DEF r
    <2>4. MachineTypes'
      BY <2>1, <2>2, <2>3 DEF MachineInv, MachineTypes
    <2>5. tool.applied = {}
      BY <2>1 DEF MachineInv, AppliedStand, Registering
    <2>6. InHand' /\ AppliedStand' /\ StoreOfToday'
      BY <2>1, <2>3, <2>5 DEF InHand, AppliedStand, StoreOfToday, Registering
    <2>7. HostsKept' /\ RowsKept'
      BY <2>1, <2>3 DEF MachineInv, HostsKept, RowsKept
    <2> QED BY <2>4, <2>6, <2>7 DEF MachineInv
  <1>3. CASE Build
    <2> DEFINE r == [tool EXCEPT !.pc = "hosts"]
               opened == OpenStore(store)
    <2>1. /\ tool.pc = "build" /\ MayOpen(store) /\ ~ ClimbRefused(store) /\ store' = opened
          /\ UNCHANGED <<config, clone, own, excused>> /\ tool' = r
      BY <1>3 DEF Build, Open
    <2>2. /\ opened \in Stores /\ UsersRows(opened) = UsersRows(store)
          /\ opened.file.version = SCHEMA_VERSION
      BY <2>1, OpenTyped DEF MachineInv, MachineTypes
    <2> HIDE DEF opened
    <2>4. r \in Runs /\ r.pc = "hosts" /\ r.applied = tool.applied /\ r.todo = tool.todo /\ r.byHand = tool.byHand
      BY <1>0 DEF Runs
    <2> HIDE DEF r
    <2>5. MachineTypes'
      BY <2>1, <2>2, <2>4 DEF MachineInv, MachineTypes
    <2>6. tool.applied = {}
      BY <2>1 DEF MachineInv, AppliedStand, Registering
    <2>7. InHand' /\ AppliedStand' /\ StoreOfToday'
      BY <2>1, <2>2, <2>4, <2>6 DEF InHand, AppliedStand, StoreOfToday, Registering
    <2>8. HostsKept' /\ RowsKept'
      BY <2>1, <2>2, <2>4 DEF MachineInv, HostsKept, RowsKept
    <2> QED BY <2>5, <2>7, <2>8 DEF MachineInv
  <1>4. CASE PurgeStore
    <2> DEFINE o == [own EXCEPT !.rows = {}]
    <2>1. /\ tool.pc = "remove, purge" /\ store' = Nil /\ tool' = Idle /\ own' = o
          /\ UNCHANGED <<config, clone, excused>>
      BY <1>4 DEF PurgeStore
    <2>2. /\ o \in [env : [Hosts -> Envs], others : [Hosts -> BOOLEAN], rows : SUBSET {"app", "library"}]
          /\ o.env = own.env /\ o.others = own.others /\ o.rows = {}
      BY <1>0
    <2> HIDE DEF o
    <2>3. MachineTypes'
      BY <2>1, <2>2, IdleIs DEF MachineInv, MachineTypes
    <2>4. InHand' /\ AppliedStand' /\ StoreOfToday'
      BY <2>1, IdleIs DEF InHand, AppliedStand, StoreOfToday, Registering
    <2>5. HostsKept'
      BY <2>1, <2>2 DEF MachineInv, HostsKept
    <2>6. RowsKept'
      BY <2>1, <2>2, IdleIs DEF RowsKept, UsersRows
    <2> QED BY <2>3, <2>4, <2>5, <2>6 DEF MachineInv
  <1> QED BY <1>1, <1>2, <1>3, <1>4

\* A step that leaves the store, the servers and the seeders as they are.
LEMMA SeedersStay ==
  ASSUME SeedersHold, UNCHANGED <<store, servers>>, excused \subseteq excused',
         tool'.pc \in {"copy", "copy wal"} => tool.pc \in {"copy", "copy wal"} \/ store = Nil
  PROVE  SeedersHold'
  BY DEF SeedersHold, servers

LEMMA NotSeedingIs ==
  NotSeeding \in [at : {"no", "opened", "retire", "retired", "save"}, saw : Pages \cup {Nil}] /\ NotSeeding.at = "no"
  BY DEF NotSeeding

LEMMA SeedersInit == MachineInit => SeedersHold
  <1> SUFFICES ASSUME NEW configs, NEW block, NEW shared, NEW cloned, StartsWith(configs, block, shared, cloned)
               PROVE  SeedersHold
    BY DEF MachineInit
  <1>1. NotSeeding \in [at : {"no", "opened", "retire", "retired", "save"}, saw : Pages \cup {Nil}] /\ NotSeeding.at = "no"
    BY NotSeedingIs
  <1>2. /\ seeding \in [Openers -> [at : {"no", "opened", "retire", "retired", "save"}, saw : Pages \cup {Nil}]]
        /\ \A x \in Openers : seeding[x].at = "no"
    BY <1>1 DEF StartsWith
  <1>3. server \in [Servers -> {"down", "gated", "up"}] /\ \A s \in Servers : server[s] # "up"
    BY DEF StartsWith
  <1> QED BY <1>2, <1>3 DEF SeedersHold

\* An opener's seeder moves on, and nothing is written: the rows it will write over are as it has seen them.
LEMMA SeedersLook ==
  ASSUME MachineInv, SeedersHold, NEW x \in Openers, LookAtRetired(x) \/ LookAtSystemApp(x)
  PROVE  SeedersHold'
  <1>1. UNCHANGED <<store, tool, server, excused>> /\ seeding[x].at \in {"opened", "retired"}
    BY DEF LookAtRetired, LookAtSystemApp, machine
  <1>2. store \in Stores
    BY <1>1 DEF SeedersHold, MachineInv, MachineTypes
  <1>3. PICK u : /\ seeding' = [seeding EXCEPT ![x] = u]
                 /\ u \in [at : {"no", "opened", "retire", "retired", "save"}, saw : Pages \cup {Nil}]
                 /\ u.at = "retire" => store.library # Users
                 /\ u.at = "save" => store.app # Users
    <2>1. CASE LookAtRetired(x)
      <3> DEFINE at == IF store.library = "seed" THEN "retire" ELSE "retired"
                 u == [seeding[x] EXCEPT !.at = at]
      <3>1. seeding' = [seeding EXCEPT ![x] = u]
        BY <2>1 DEF LookAtRetired
      <3>2. at \in {"retire", "retired"} /\ (at = "retire" => store.library # Users)
        BY UsersAreApart
      <3> HIDE DEF at
      <3>3. u \in [at : {"no", "opened", "retire", "retired", "save"}, saw : Pages \cup {Nil}] /\ u.at = at
        BY <3>2 DEF SeedersHold
      <3> QED BY <3>1, <3>2, <3>3
    <2>2. CASE LookAtSystemApp(x)
      <3> DEFINE u == IF store.app \in {Users, PageOf(x)} THEN NotSeeding ELSE [at |-> "save", saw |-> store.app]
      <3>1. seeding' = [seeding EXCEPT ![x] = u]
        BY <2>2 DEF LookAtSystemApp
      <3>2. CASE store.app \in {Users, PageOf(x)}
        <4>1. seeding' = [seeding EXCEPT ![x] = NotSeeding]
          BY <3>1, <3>2
        <4> QED BY <4>1, NotSeedingIs
      <3>3. CASE store.app \notin {Users, PageOf(x)}
        <4>1. store.app \in Pages \cup {Nil}
          BY <1>2, <3>3 DEF Stores
        <4> QED BY <3>1, <3>3, <4>1
      <3> QED BY <3>2, <3>3
    <2> QED BY <2>1, <2>2
  <1>4. seeding'[x] = u /\ \A y \in Openers : y # x => seeding'[y] = seeding[y]
    BY <1>3 DEF SeedersHold
  <1> QED BY <1>1, <1>3, <1>4 DEF SeedersHold

LEMMA SeedersWrite ==
  ASSUME MachineInv, SeedersHold, NEW x \in Openers, RetireRenamed(x) \/ SaveSystemApp(x)
  PROVE  SeedersHold'
  <1>1. UNCHANGED <<tool, server, excused>> /\ seeding[x].at \in {"retire", "save"}
    BY DEF RetireRenamed, SaveSystemApp
  <1>2. store \in Stores
    BY <1>1 DEF SeedersHold, MachineInv, MachineTypes
  <1>3. PICK u : /\ seeding' = [seeding EXCEPT ![x] = u]
                 /\ u \in [at : {"no", "opened", "retire", "retired", "save"}, saw : Pages \cup {Nil}]
                 /\ u.at \in {"retired", "no"}
    <2>1. CASE RetireRenamed(x)
      <3> DEFINE u == [seeding[x] EXCEPT !.at = "retired"]
      <3>1. seeding' = [seeding EXCEPT ![x] = u]
        BY <2>1 DEF RetireRenamed
      <3>2. u \in [at : {"no", "opened", "retire", "retired", "save"}, saw : Pages \cup {Nil}] /\ u.at = "retired"
        BY DEF SeedersHold
      <3> QED BY <3>1, <3>2
    <2>2. CASE SaveSystemApp(x)
      BY <2>2, NotSeedingIs DEF SaveSystemApp
    <2> QED BY <2>1, <2>2
  <1>4. seeding'[x] = u /\ \A y \in Openers : y # x => seeding'[y] = seeding[y]
    BY <1>3 DEF SeedersHold
  <1>5. /\ store' # Nil
        /\ store'.library = Users => store.library = Users
        /\ store'.app = Users => store.app = Users
    <2>1. CASE store' = store
      BY <1>2, <2>1, StoresAre
    <2>2. CASE store' # store
      <3>1. PageOf(x) \in Pages
        BY PageIs
      <3>2. \E app, library, seeded :
              /\ store' = [file |-> store.file, app |-> app, library |-> library, seeded |-> seeded]
              /\ app = store.app \/ app = PageOf(x)
              /\ library = store.library \/ library = Nil
              /\ seeded \in SUBSET (Pages \cup {"seed"})
        <4>1. CASE RetireRenamed(x)
          <5>1. store' = [store EXCEPT !.library = Nil, !.seeded = store.seeded \cup {"seed"}]
            BY <2>2, <4>1 DEF RetireRenamed
          <5>2. store' = [file |-> store.file, app |-> store.app, library |-> Nil, seeded |-> store.seeded \cup {"seed"}]
            BY <1>2, <5>1 DEF Stores
          <5>3. store.seeded \cup {"seed"} \in SUBSET (Pages \cup {"seed"})
            BY <1>2 DEF Stores
          <5> QED BY <5>2, <5>3
        <4>2. CASE SaveSystemApp(x)
          <5>1. store' = [store EXCEPT !.app = PageOf(x), !.seeded = store.seeded \cup {PageOf(x)}]
            BY <2>2, <4>2 DEF SaveSystemApp
          <5>2. store' = [file |-> store.file, app |-> PageOf(x), library |-> store.library,
                          seeded |-> store.seeded \cup {PageOf(x)}]
            BY <1>2, <5>1 DEF Stores
          <5>3. store.seeded \cup {PageOf(x)} \in SUBSET (Pages \cup {"seed"})
            BY <1>2, <3>1 DEF Stores
          <5> QED BY <5>2, <5>3
        <4> QED BY <4>1, <4>2
      <3>3. PICK app, library, seeded :
              /\ store' = [file |-> store.file, app |-> app, library |-> library, seeded |-> seeded]
              /\ app = store.app \/ app = PageOf(x)
              /\ library = store.library \/ library = Nil
              /\ seeded \in SUBSET (Pages \cup {"seed"})
        BY <3>2
      <3>4. store' \in Stores
        BY <1>2, <3>1, <3>3 DEF Stores
      <3> QED BY <3>1, <3>3, <3>4, UsersAreApart, StoresAre
    <2> QED BY <2>1, <2>2
  <1> QED BY <1>1, <1>3, <1>4, <1>5 DEF SeedersHold

LEMMA SeedersUserSaves ==
  ASSUME MachineInv, SeedersHold, NEW s \in Servers, NEW r \in {"app", "library"}, NEW row \in {Users, Nil},
         UserSaves(s, r, row)
  PROVE  SeedersHold'
  <1>1. /\ server[s] = "up" /\ store' = [store EXCEPT ![r] = row] /\ UNCHANGED <<tool, server, seeding>>
        /\ excused' = IF row = Users /\ \E x \in Openers : Overruns(x, r) THEN excused \cup {r} ELSE excused
    BY DEF UserSaves, servers
  <1>2. store \in Stores
    BY <1>1 DEF SeedersHold, MachineInv, MachineTypes
  <1>3. excused \subseteq excused'
    BY <1>1
  <1> DEFINE t == [store EXCEPT ![r] = row]
  <1>4. t \in Stores /\ t[r] = row /\ \A q \in {"app", "library"} : q # r => t[q] = store[q]
    <2>1. CASE r = "app"
      BY <1>2, <2>1 DEF Stores
    <2>2. CASE r = "library"
      BY <1>2, <2>2 DEF Stores
    <2> QED BY <2>1, <2>2
  <1>5. store' = t
    BY <1>1
  <1> HIDE DEF t
  <1>6. ASSUME "store" \notin excused', NEW x \in Openers
        PROVE  /\ seeding[x].at = "retire" /\ "library" \notin excused' => t.library # Users
               /\ seeding[x].at = "save" /\ seeding[x].saw = Nil /\ "app" \notin excused' => t.app # Users
    <2>1. /\ seeding[x].at = "retire" /\ "library" \notin excused => store.library # Users
          /\ seeding[x].at = "save" /\ seeding[x].saw = Nil /\ "app" \notin excused => store.app # Users
      BY <1>3, <1>6 DEF SeedersHold
    <2>2. CASE row = Users
      <3>1. r \in excused' \/ ~ Overruns(x, r)
        BY <1>1, <2>2
      <3> QED BY <1>3, <1>4, <2>1, <3>1 DEF Overruns
    <2>3. CASE row # Users
      BY <1>3, <1>4, <2>1, <2>3
    <2> QED BY <2>2, <2>3
  <1> QED BY <1>1, <1>3, <1>4, <1>5, <1>6, StoresAre DEF SeedersHold

\* Whoever opens the store finds its rows, or none, and begins to seed it.
LEMMA SeedersOpen ==
  ASSUME MachineInv, SeedersHold, ~ ClimbRefused(store), store' = OpenStore(store), excused \subseteq excused',
         \/ UNCHANGED seeding
         \/ \E x \in Openers : Seeds(x),
         server' \in [Servers -> {"down", "gated", "up"}],
         tool'.pc \in {"copy", "copy wal"} => "store" \in excused'
  PROVE  SeedersHold'
  <1>1. store' \in Stores /\ store' # Nil
    BY OpenTyped, StoresAre DEF MachineInv, MachineTypes
  <1>2. \A x \in Openers : seeding'[x] = seeding[x] \/ seeding'[x].at = "opened"
    BY DEF Seeds, SeedersHold
  <1>3. seeding' \in [Openers -> [at : {"no", "opened", "retire", "retired", "save"}, saw : Pages \cup {Nil}]]
    <2>1. CASE UNCHANGED seeding
      BY <2>1 DEF SeedersHold
    <2>2. CASE \E x \in Openers : Seeds(x)
      <3>1. PICK x \in Openers : Seeds(x)
        BY <2>2
      <3> DEFINE u == [seeding[x] EXCEPT !.at = "opened"]
      <3>2. u \in [at : {"no", "opened", "retire", "retired", "save"}, saw : Pages \cup {Nil}]
        BY DEF SeedersHold
      <3>3. seeding' = [seeding EXCEPT ![x] = u]
        BY <3>1 DEF Seeds
      <3> HIDE DEF u
      <3> QED BY <3>2, <3>3 DEF SeedersHold
    <2> QED BY <2>1, <2>2
  <1>4. CASE store = Nil
    <2>1. \A x \in Openers : seeding'[x].at \in {"no", "opened"}
      BY <1>2, <1>4 DEF SeedersHold
    <2> QED BY <1>1, <1>3, <2>1 DEF SeedersHold
  <1>5. CASE store # Nil
    <2>1. store'.app = store.app /\ store'.library = store.library
      BY <1>5 DEF OpenStore, MachineInv, MachineTypes, Stores
    <2> QED BY <1>1, <1>2, <1>3, <2>1 DEF SeedersHold
  <1> QED BY <1>4, <1>5

LEMMA SeedersOnServer ==
  ASSUME MachineInv, SeedersHold, NEW s \in Servers, ServerGate(s) \/ ServerOpens(s) \/ ServerStops(s)
  PROVE  SeedersHold'
  <1>1. CASE ServerGate(s)
    <2>1. UNCHANGED <<store, tool, seeding, excused>> /\ server' = [server EXCEPT ![s] = "gated"]
      BY <1>1 DEF ServerGate, machine
    <2>2. server' \in [Servers -> {"down", "gated", "up"}] /\ \A x \in Servers : server'[x] = "up" => server[x] = "up"
      BY <2>1 DEF SeedersHold
    <2> QED BY <2>1, <2>2 DEF SeedersHold
  <1>2. CASE ServerOpens(s)
    <2>1. /\ ~ ClimbRefused(store) /\ store' = OpenStore(store) /\ Seeds(s) /\ tool' = tool
          /\ excused' = excused \cup (IF tool.pc \in {"copy", "copy wal"} THEN {"store"} ELSE {})
          /\ server' = [server EXCEPT ![s] = "up"]
      BY <1>2 DEF ServerOpens, Open, HalfCopied
    <2>2. server' \in [Servers -> {"down", "gated", "up"}] /\ s \in Openers
      BY <2>1 DEF SeedersHold, Openers
    <2> QED BY <2>1, <2>2, SeedersOpen
  <1>3. CASE ServerStops(s)
    <2>1. /\ UNCHANGED <<store, tool, excused>> /\ server' = [server EXCEPT ![s] = "down"]
          /\ seeding' = [seeding EXCEPT ![s] = NotSeeding]
      BY <1>3 DEF ServerStops, machine
    <2>2. server' \in [Servers -> {"down", "gated", "up"}] /\ \A x \in Servers : server'[x] = "up" => server[x] = "up"
      BY <2>1 DEF SeedersHold
    <2>3. NotSeeding \in [at : {"no", "opened", "retire", "retired", "save"}, saw : Pages \cup {Nil}] /\ NotSeeding.at = "no"
      BY NotSeedingIs
    <2>4. \A x \in Openers : seeding'[x] = seeding[x] \/ seeding'[x] = NotSeeding
      BY <2>1 DEF SeedersHold
    <2>5. seeding' \in [Openers -> [at : {"no", "opened", "retire", "retired", "save"}, saw : Pages \cup {Nil}]]
      BY <2>1, <2>3 DEF SeedersHold
    <2> QED BY <2>1, <2>2, <2>3, <2>4, <2>5 DEF SeedersHold
  <1> QED BY <1>1, <1>2, <1>3

LEMMA SeedersOnPlacing ==
  ASSUME MachineInv, SeedersHold, CopyDb \/ CopyWal \/ Build \/ PurgeStore \/ Crash
  PROVE  SeedersHold'
  <1>0. tool \in Runs
    BY DEF MachineInv, MachineTypes
  <1>1. CASE CopyDb \/ CopyWal
    <2>1. tool.pc \in {"copy", "copy wal"} /\ UNCHANGED <<servers, excused>> /\ store' # Nil
      BY <1>1, NilIsNothing DEF CopyDb, CopyWal, MachineInv, MachineTypes, RowsKept, Clones
    <2>2. "store" \notin excused => (\A s \in Servers : server[s] # "up") /\ (\A x \in Openers : seeding[x].at = "no")
      BY <2>1 DEF SeedersHold
    <2> QED BY <2>1, <2>2 DEF SeedersHold, servers
  <1>2. CASE Build
    <2>1. /\ ~ ClimbRefused(store) /\ store' = OpenStore(store) /\ Seeds("installer") /\ UNCHANGED <<server, excused>>
          /\ tool' = [tool EXCEPT !.pc = "hosts"]
      BY <1>2 DEF Build, Open
    <2>2. tool'.pc = "hosts"
      BY <1>0, <2>1 DEF Runs
    <2>3. server' \in [Servers -> {"down", "gated", "up"}] /\ "installer" \in Openers
      BY <2>1 DEF SeedersHold, Openers
    <2> QED BY <2>1, <2>2, <2>3, SeedersOpen
  <1>3. CASE PurgeStore
    <2>1. NotSeeding \in [at : {"no", "opened", "retire", "retired", "save"}, saw : Pages \cup {Nil}] /\ NotSeeding.at = "no"
      BY NotSeedingIs
    <2>2. /\ server' = [s \in Servers |-> "down"] /\ seeding' = [x \in Openers |-> NotSeeding]
      BY <1>3 DEF PurgeStore
    <2>3. /\ \A s \in Servers : server'[s] # "up"
          /\ \A x \in Openers : seeding'[x].at = "no"
      BY <2>1, <2>2
    <2> QED BY <2>1, <2>2, <2>3 DEF SeedersHold
  <1>4. CASE Crash
    <2>1. /\ UNCHANGED <<store, server>> /\ tool' = Idle /\ excused \subseteq excused'
          /\ seeding' = [seeding EXCEPT !["installer"] = NotSeeding]
      BY <1>4 DEF Crash, machine
    <2>2. NotSeeding \in [at : {"no", "opened", "retire", "retired", "save"}, saw : Pages \cup {Nil}] /\ NotSeeding.at = "no"
      BY NotSeedingIs
    <2>3. \A x \in Openers : seeding'[x] = seeding[x] \/ seeding'[x] = NotSeeding
      BY <2>1 DEF SeedersHold
    <2>4. seeding' \in [Openers -> [at : {"no", "opened", "retire", "retired", "save"}, saw : Pages \cup {Nil}]]
      BY <2>1, <2>2 DEF SeedersHold
    <2>5. tool'.pc = "idle"
      BY <2>1, IdleIs
    <2> QED BY <2>1, <2>2, <2>3, <2>4, <2>5 DEF SeedersHold
  <1> QED BY <1>1, <1>2, <1>3, <1>4

LEMMA SeedersOnOldEngine == ASSUME MachineInv, SeedersHold, OldEngine PROVE SeedersHold'
  <1>1. store # Nil /\ UNCHANGED <<tool, servers, excused>>
    BY DEF OldEngine
  <1>2. PICK g : store' = [store EXCEPT !.file = g] /\ g \in Files
    BY OldEngineIs
  <1>3. store \in Stores
    BY <1>1 DEF MachineInv, MachineTypes
  <1>4. store' \in Stores /\ store'.app = store.app /\ store'.library = store.library
    BY <1>2, <1>3 DEF Stores
  <1> QED BY <1>1, <1>4, StoresAre DEF SeedersHold, servers

LEMMA SeedersOnPush ==
  ASSUME MachineInv, SeedersHold, NEW p \in Pushers,
         \/ \E build \in Pushes : StartPush(p, build)
         \/ PutAsset(p) \/ SaveTemplate(p) \/ PruneOne(p) \/ Pushed(p) \/ PushDies(p)
  PROVE  SeedersHold'
  <1>1. CASE \E build \in Pushes : StartPush(p, build)
    <2>1. /\ ~ ClimbRefused(store) /\ store' = OpenStore(store) /\ UNCHANGED <<tool, servers>>
          /\ excused' = excused \cup (IF tool.pc \in {"copy", "copy wal"} THEN {"store"} ELSE {})
      BY <1>1 DEF StartPush, Open, HalfCopied
    <2>2. server' \in [Servers -> {"down", "gated", "up"}] /\ UNCHANGED seeding
      BY <2>1 DEF SeedersHold, servers
    <2> QED BY <2>1, <2>2, SeedersOpen
  <1>2. CASE PutAsset(p) \/ SaveTemplate(p) \/ PruneOne(p) \/ Pushed(p) \/ PushDies(p)
    <2>1. UNCHANGED <<store, tool, servers, excused>>
      BY <1>2 DEF PutAsset, SaveTemplate, PruneOne, Pushed, PushDies, machineVars, machine
    <2> QED BY <2>1, SeedersStay
  <1> QED BY <1>1, <1>2

\* The other steps of the tools and the user.
LEMMA SeedersElsewhere ==
  ASSUME MachineInv, SeedersHold,
         \/ \E selected \in SUBSET Detected : \/ \E fresh \in BOOLEAN : StartInstall(selected, fresh)
                                              \/ \E purge \in BOOLEAN : StartUninstall(selected, purge)
         \/ BuildFails \/ AddFails \/ Read \/ Kept \/ ReadHost \/ Summary
         \/ WriteDesktop \/ ApplyByCli \/ AddByCli \/ RemoveHost
         \/ \E x \in Detected, env \in {e \in Envs : ~ CarriesStaleEnv(e)}, others \in BOOLEAN : Edit(x, env, others)
  PROVE  SeedersHold'
  <1>0. tool \in Runs
    BY DEF MachineInv, MachineTypes
  <1>1. CASE \E selected \in SUBSET Detected : \E fresh \in BOOLEAN : StartInstall(selected, fresh)
    <2>1. UNCHANGED <<store, servers, excused>>
      BY <1>1 DEF StartInstall, machine
    <2>2. tool'.pc = "copy" => store = Nil
      BY <1>1, IdleIs DEF StartInstall, Runs
    <2>3. tool'.pc # "copy wal"
      BY <1>1, IdleIs DEF StartInstall, Runs
    <2> QED BY <2>1, <2>2, <2>3, SeedersStay
  <1>2. CASE \E selected \in SUBSET Detected : \E purge \in BOOLEAN : StartUninstall(selected, purge)
    <2>1. UNCHANGED <<store, servers, excused>>
      BY <1>2 DEF StartUninstall, machine
    <2>2. tool'.pc \notin {"copy", "copy wal"}
      BY <1>2, IdleIs DEF StartUninstall, Runs
    <2> QED BY <2>1, <2>2, SeedersStay
  <1>3. CASE BuildFails \/ AddFails \/ Read \/ Kept
    <2>1. UNCHANGED <<store, servers>> /\ excused \subseteq excused' /\ tool' = Idle
      BY <1>3 DEF BuildFails, AddFails, Read, Kept, machine
    <2> QED BY <2>1, IdleIs, SeedersStay
  <1>4. CASE ReadHost \/ Summary
    <2>1. UNCHANGED <<store, servers>> /\ excused \subseteq excused'
      BY <1>4 DEF ReadHost, Summary, machine
    <2>2. tool'.pc \notin {"copy", "copy wal"}
      BY <1>0, <1>4 DEF ReadHost, Summary, Runs
    <2> QED BY <2>1, <2>2, SeedersStay
  <1>5. CASE WriteDesktop \/ ApplyByCli \/ AddByCli
    <2>1. UNCHANGED <<store, servers, excused>> /\ tool.pc \notin {"copy", "copy wal"}
      BY <1>5 DEF WriteDesktop, ApplyByCli, AddByCli
    <2>2. tool'.pc \in {"add", "hosts"}
      <3>1. tool' = [tool EXCEPT !.pc = "add"] \/ \E t \in Runs : tool' = HostDone(t)
        <4>1. CASE WriteDesktop \/ AddByCli
          BY <1>0, <4>1 DEF WriteDesktop, AddByCli
        <4>2. CASE ApplyByCli
          <5> DEFINE byHand == IF tool.state.unreadable /\ tool.state.status = "stale" THEN tool.byHand \cup {host} ELSE tool.byHand
          <5>1. tool' = [tool EXCEPT !.pc = "add"] \/ tool' = HostDone([tool EXCEPT !.byHand = byHand])
            BY <4>2 DEF ApplyByCli
          <5>2. byHand \subseteq Hosts
            <6>1. host \in Hosts
              BY <4>2, HostInHand DEF ApplyByCli
            <6> QED BY <1>0, <6>1 DEF Runs
          <5> HIDE DEF byHand
          <5>3. [tool EXCEPT !.byHand = byHand] \in Runs
            BY <1>0, <5>2 DEF Runs
          <5> QED BY <5>1, <5>3
        <4> QED BY <1>5, <4>1, <4>2
      <3> QED BY <1>0, <3>1 DEF HostDone, Runs
    <2> QED BY <2>1, <2>2, SeedersStay
  <1>6. CASE RemoveHost
    <2>1. UNCHANGED <<store, servers, excused>> /\ tool' = [tool EXCEPT !.todo = tool.todo \ {host}]
      BY <1>6 DEF RemoveHost
    <2>2. tool'.pc = tool.pc
      BY <1>0, <2>1 DEF Runs
    <2> QED BY <2>1, <2>2, SeedersStay
  <1>7. CASE \E x \in Detected, env \in {e \in Envs : ~ CarriesStaleEnv(e)}, others \in BOOLEAN : Edit(x, env, others)
    <2>1. UNCHANGED <<store, servers, tool>> /\ excused \subseteq excused'
      BY <1>7 DEF Edit
    <2> QED BY <2>1, SeedersStay
  <1> QED BY <1>1, <1>2, <1>3, <1>4, <1>5, <1>6, <1>7

LEMMA MachineStutters == ASSUME MachineInv, UNCHANGED allVars PROVE MachineInv'
  <1>1. UNCHANGED <<config, store, clone, tool, own, excused>>
    BY DEF allVars, machineVars, machine
  <1> QED BY <1>1, StoreStep DEF MachineInv, MachineTypes, StoreOfToday

\* Every step of the tools, the servers, the user and the pushes keeps the machine's invariant.
THEOREM MachineInvariance == MachineSpec => [](MachineInv /\ SeedersHold)
  <1>1. ASSUME MachineInv, SeedersHold, InstallNext PROVE MachineInv'
    <2>1. CASE \E selected \in SUBSET Detected :
                 \/ \E fresh \in BOOLEAN : StartInstall(selected, fresh)
                 \/ \E purge \in BOOLEAN : StartUninstall(selected, purge)
      BY <1>1, <2>1, StartStep
    <2>2. CASE CopyDb \/ CopyWal \/ Build \/ PurgeStore
      BY <1>1, <2>2, PlaceStep
    <2>3. CASE BuildFails \/ AddFails \/ Crash \/ Read \/ Kept
      BY <1>1, <2>3, EndStep
    <2>4. CASE ReadHost \/ Summary
      BY <1>1, <2>4, ReadHostStep, SummaryStep
    <2>5. CASE WriteDesktop \/ ApplyByCli \/ AddByCli
      BY <1>1, <2>5, WriteDesktopStep, ApplyByCliStep, AddByCliStep
    <2>6. CASE RemoveHost
      BY <1>1, <2>6, RemoveHostStep
    <2>7. CASE \E s \in Servers : ServerGate(s) \/ ServerOpens(s) \/ ServerStops(s)
      BY <1>1, <2>7, ServerStep
    <2>8. CASE \E x \in Detected, env \in {e \in Envs : ~ CarriesStaleEnv(e)}, others \in BOOLEAN : Edit(x, env, others)
      BY <1>1, <2>8, EditStep
    <2>9. CASE OldEngine
      BY <1>1, <2>9, OldEngineStep
    <2>10. CASE \E x \in Openers : LookAtRetired(x) \/ RetireRenamed(x) \/ LookAtSystemApp(x) \/ SaveSystemApp(x)
      BY <1>1, <2>10, SeedStep
    <2>11. CASE \E s \in Servers, r \in {"app", "library"}, row \in {Users, Nil} : UserSaves(s, r, row)
      BY <1>1, <2>11, UserSavesStep
    <2> QED BY <1>1, <2>1, <2>2, <2>3, <2>4, <2>5, <2>6, <2>7, <2>8, <2>9, <2>10, <2>11 DEF InstallNext
  <1>2. ASSUME MachineInv, SeedersHold, InstallNext PROVE SeedersHold'
    BY <1>2, SeedersElsewhere, SeedersOnPlacing, SeedersOnServer, SeedersLook, SeedersWrite, SeedersUserSaves,
       SeedersOnOldEngine DEF InstallNext
  <1>3. ASSUME MachineInv, SeedersHold, [MachineNext]_allVars PROVE MachineInv' /\ SeedersHold'
    <2>1. CASE UNCHANGED allVars
      <3>1. UNCHANGED <<store, servers, tool, excused>>
        BY <2>1 DEF allVars, machineVars, machine
      <3> QED BY <1>3, <2>1, <3>1, MachineStutters, SeedersStay
    <2>2. CASE MachineNext
      BY <1>1, <1>2, <1>3, <2>2, PushStep, SeedersOnPush DEF MachineNext, Tools
    <2> QED BY <1>3, <2>1, <2>2
  <1> QED BY MachineInitInv, SeedersInit, <1>3, PTL DEF MachineSpec

\* install.mjs, uninstall.mjs, seed.mjs and openStore: the user's settings of every host and the user's
\* rows of the store come through any number of runs, crashes, edits, servers, their seeders and pushes, but for
\* a host whose probe saw less than was there, or that was edited or left while the run held it, and a row that
\* was saved between a seeder's look and its write.
THEOREM WhatIsTheUsersIsKept == MachineSpec => []UsersOwnKept
  <1>1. MachineInv => UsersOwnKept
    BY MachineInvSuffices
  <1> QED BY <1>1, MachineInvariance, PTL

\* install.mjs's summary: a host it says it registered has the entry that works, with the retired variable off it,
\* but for a host whose probe saw less than was there, or that was edited while the run held it.
THEOREM SummaryIsTrue == MachineSpec => []DoneMeansInstalled
  <1>1. MachineInv => DoneMeansInstalled
    BY MachineInvSuffices
  <1> QED BY <1>1, MachineInvariance, PTL
----------------------------------------------------------------------------
(* The ladder.  The walk finds the revision of each save, but for an older *)
(* one that was numbered over: the newest save of an app, whose name no    *)
(* other has, finds its own.  So what the walk replays is what was in      *)
(* force, at the earliest save where it would not be by contradiction, and *)
(* the rung that moves the declarations carries it across; the later rungs *)
(* leave the rows alone.                                                   *)

\* Of a ledger as builds wrote it: each save has a revision of its own.
LEMMA OwnIs ==
  ASSUME NEW f \in Files, Written(f), NEW i \in SaveEvents(f)
  PROVE  /\ i \in DOMAIN f.events /\ i \in 1..Len(f.events) /\ f.events[i] \in Events
         /\ f.events[i].version \in 1..i
         /\ Own(f, i) \in f.revisions /\ Own(f, i) \in Revisions
         /\ Own(f, i).name = f.events[i].table /\ Own(f, i).version = f.events[i].version
         /\ Own(f, i).ts = f.events[i].ts
         /\ \A r \in f.revisions : r.name = f.events[i].table /\ r.version = f.events[i].version => r = Own(f, i)
         /\ \A j \in SaveEvents(f) : Own(f, j) = Own(f, i) => i = j
  <1>1. i \in DOMAIN f.events /\ i \in 1..Len(f.events) /\ f.events[i] \in Events /\ f.revisions \subseteq Revisions
    BY DEF SaveEvents, Files
  <1>2. ASSUME NEW j \in SaveEvents(f)
        PROVE  /\ Own(f, j) \in f.revisions
               /\ Own(f, j).name = f.events[j].table /\ Own(f, j).version = f.events[j].version
               /\ Own(f, j).ts = f.events[j].ts
    <2>1. PICK r \in f.revisions : r.name = f.events[j].table /\ r.version = f.events[j].version /\ r.ts = f.events[j].ts
      BY <1>2 DEF Written
    <2>2. /\ Own(f, j) \in f.revisions
          /\ Own(f, j).name = f.events[j].table /\ Own(f, j).version = f.events[j].version
      BY <2>1, Zenon DEF Own
    <2>3. Own(f, j) = r
      BY <2>1, <2>2 DEF Written
    <2> QED BY <2>1, <2>2, <2>3
  <1>3. \A r \in f.revisions : r.name = f.events[i].table /\ r.version = f.events[i].version => r = Own(f, i)
    BY <1>2 DEF Written
  <1>4. ASSUME NEW j \in SaveEvents(f), Own(f, j) = Own(f, i) PROVE i = j
    <2>1. f.events[j].table = f.events[i].table /\ f.events[j].version = f.events[i].version
      BY <1>2, <1>4
    <2> QED BY <2>1 DEF Written
  <1>5. f.events[i].version \in 1..i
    BY DEF Written
  <1> QED BY <1>1, <1>2, <1>3, <1>4, <1>5

\* What the ladder finds for a save has the save's key, or is the one revision of its reading of the clock.
LEMMA ResolvedBy ==
  ASSUME NEW f \in Files, NEW i \in SaveEvents(f), ResolveRevisions(f)[i] # Nil
  PROVE  /\ ResolveRevisions(f)[i] \in f.revisions
         /\ i \in Exact(f) => /\ ResolveRevisions(f)[i].name = f.events[i].name /\ ResolveRevisions(f)[i].version = i
                              /\ ResolveRevisions(f)[i] \in Claimed(f)
         /\ i \notin Exact(f) => /\ ByClock(f, i) = {ResolveRevisions(f)[i]}
                                 /\ {r \in f.revisions : r.ts = f.events[i].ts} = {ResolveRevisions(f)[i]}
                                 /\ ResolveRevisions(f)[i] \notin Claimed(f)
                                 /\ \A j \in SaveEvents(f) \ Exact(f) : f.events[j].ts = f.events[i].ts => i <= j
  <1> DEFINE r == ResolveRevisions(f)[i]
             found == IF i \in Exact(f) THEN RevisionAt(f, f.events[i].name, i) ELSE ByClock(f, i)
  <1>1. r = IF found = {} THEN Nil ELSE CHOOSE q \in found : TRUE
    BY DEF ResolveRevisions
  <1>2. r \in found
    <2> HIDE DEF found
    <2> QED BY <1>1
  <1> HIDE DEF r
  <1>3. CASE i \in Exact(f)
    <2>1. r \in RevisionAt(f, f.events[i].name, i)
      BY <1>2, <1>3
    <2>2. r \in Claimed(f)
      BY <1>3, <2>1 DEF Claimed
    <2> QED BY <1>3, <2>1, <2>2 DEF RevisionAt, r
  <1>4. CASE i \notin Exact(f)
    <2> DEFINE at == {q \in f.revisions : q.ts = f.events[i].ts}
    <2>1. r \in ByClock(f, i)
      BY <1>2, <1>4
    <2>2. /\ ByClock(f, i) = at /\ Cardinality(at) = 1 /\ at \cap Claimed(f) = {}
          /\ \A j \in SaveEvents(f) \ Exact(f) : f.events[j].ts = f.events[i].ts => i <= j
      BY <2>1, Zenon DEF ByClock
    <2>3. IsFiniteSet(at)
      BY FS_Subset DEF Files
    <2>4. PICK q : at = {q}
      <3> HIDE DEF at
      <3> QED BY <2>2, <2>3, FS_Singleton
    <2> QED BY <1>4, <2>1, <2>2, <2>4 DEF r
  <1> QED BY <1>3, <1>4

\* Two saves are never taken to have written the same revision.
LEMMA ResolvedApart ==
  ASSUME NEW f \in Files, NEW i \in SaveEvents(f), NEW j \in SaveEvents(f),
         ResolveRevisions(f)[i] # Nil, ResolveRevisions(f)[i] = ResolveRevisions(f)[j]
  PROVE  i = j
  <1>1. i \in Nat /\ j \in Nat
    BY DEF SaveEvents, Files
  <1>2. CASE i \in Exact(f) /\ j \in Exact(f)
    BY <1>2, ResolvedBy
  <1>3. CASE i \in Exact(f) <=> j \notin Exact(f)
    BY <1>3, ResolvedBy
  <1>4. CASE i \notin Exact(f) /\ j \notin Exact(f)
    <2>1. f.events[i].ts = f.events[j].ts
      BY <1>4, ResolvedBy
    <2> QED BY <1>1, <1>4, <2>1, ResolvedBy
  <1> QED BY <1>2, <1>3, <1>4

\* So, where every save is found one, it is the one it wrote: the newest save that had another's would
\* have that of a newer one, which has its own.
LEMMA ResolvedIsOwn ==
  ASSUME NEW f \in Files, Written(f), \A i \in SaveEvents(f) : ResolveRevisions(f)[i] # Nil
  PROVE  \A i \in SaveEvents(f) : ResolveRevisions(f)[i] = Own(f, i)
  <1> DEFINE T == {i \in SaveEvents(f) : ResolveRevisions(f)[i] # Own(f, i)}
  <1> SUFFICES ASSUME T # {} PROVE FALSE
    OBVIOUS
  <1>1. T \subseteq 0..Len(f.events) /\ Len(f.events) \in Nat
    BY DEF SaveEvents, Files
  <1> DEFINE m == Max(T)
  <1>2. m \in T /\ \A y \in T : y <= m
    <2> HIDE DEF T
    <2> QED BY <1>1, MaxIsIn
  <1> HIDE DEF m
  <1> DEFINE r == ResolveRevisions(f)[m]
  <1>3. m \in SaveEvents(f) /\ r # Own(f, m) /\ r # Nil /\ r \in f.revisions
    BY <1>2, ResolvedBy
  <1>4. m \in Exact(f)
    <2> SUFFICES ASSUME m \notin Exact(f) PROVE FALSE
      OBVIOUS
    <2>1. {q \in f.revisions : q.ts = f.events[m].ts} = {r}
      BY <1>3, ResolvedBy
    <2>2. Own(f, m) \in f.revisions /\ Own(f, m).ts = f.events[m].ts
      BY <1>3, OwnIs
    <2> QED BY <1>3, <2>1, <2>2
  <1>5. r.version = m
    BY <1>3, <1>4, ResolvedBy
  <1>6. PICK i \in SaveEvents(f) : r.name = f.events[i].table /\ r.version = f.events[i].version
    BY <1>3 DEF Written
  <1>7. r = Own(f, i) /\ i # m /\ f.events[i].version \in 1..i /\ i \in Nat /\ m \in Nat
    <2>1. r = Own(f, i) /\ f.events[i].version \in 1..i /\ i \in 1..Len(f.events) /\ m \in 1..Len(f.events)
      BY <1>3, <1>6, OwnIs
    <2> QED BY <1>3, <2>1
  <1>8. i > m
    BY <1>5, <1>6, <1>7
  <1>9. i \notin T
    <2> HIDE DEF T
    <2> QED BY <1>2, <1>7, <1>8
  <1>10. ResolveRevisions(f)[i] = r
    BY <1>7, <1>9
  <1> QED BY <1>3, <1>7, <1>10, ResolvedApart

\* A delete cuts the app it deleted, where the names of that app are its own.
LEMMA CutsIts ==
  ASSUME NEW f \in Files, Written(f), \A i \in SaveEvents(f) : ResolveRevisions(f)[i] # Nil,
         NEW app, OwnName(f, app), NEW j \in Deletes(f)
  PROVE  Cuts(f, j, app) <=> f.events[j].table = app
  <1> DEFINE name == f.events[j].name
             renamed == {i \in SaveEvents(f) \ Exact(f) : /\ f.events[i].name = name /\ ByClock(f, i) # {}
                                                          /\ \A r \in ByClock(f, i) : r.name # name}
  <1>1. Cuts(f, j, app) <=> Alias(f, name) = app
    <2>1. j \in DOMAIN f.events /\ j \notin SaveEvents(f)
      BY DEF Deletes
    <2>2. f.events[j] \in Events
      BY <2>1 DEF Files
    <2>3. f.events[j].type = "component_deleted"
      BY <2>1, <2>2 DEF SaveEvents, Events
    <2> QED BY <2>3 DEF Cuts
  <1>2. Alias(f, name) = IF renamed = {} THEN name ELSE (CHOOSE r \in ByClock(f, Max(renamed)) : TRUE).name
    BY DEF Alias
  \* The saves of a renamed app, under its old name.
  <1>3. ASSUME NEW i \in SaveEvents(f)
        PROVE  i \in renamed <=> f.events[i].name = name /\ f.events[i].table # name
    <2>1. /\ ResolveRevisions(f)[i] = Own(f, i) /\ Own(f, i).name = f.events[i].table
      BY ResolvedIsOwn, OwnIs
    <2>2. CASE i \in Exact(f)
      <3>1. Own(f, i).name = f.events[i].name
        BY <2>1, <2>2, ResolvedBy
      <3> QED BY <2>1, <2>2, <3>1
    <2>3. CASE i \notin Exact(f)
      <3>1. ByClock(f, i) = {Own(f, i)}
        BY <2>1, <2>3, ResolvedBy
      <3> QED BY <2>1, <2>3, <3>1
    <2> QED BY <2>2, <2>3
  <1>4. renamed \subseteq SaveEvents(f) /\ renamed \subseteq 0..Len(f.events) /\ Len(f.events) \in Nat
    BY DEF SaveEvents, Files
  <1> DEFINE m == Max(renamed)
  <1>5. renamed # {} => m \in renamed /\ Alias(f, name) = f.events[m].table
    <2> SUFFICES ASSUME renamed # {} PROVE m \in renamed /\ Alias(f, name) = f.events[m].table
      OBVIOUS
    <2>1. m \in renamed
      <3> HIDE DEF renamed
      <3> QED BY <1>4, MaxIsIn
    <2>2. m \in SaveEvents(f) /\ m \notin Exact(f)
      BY <2>1
    <2>3. ResolveRevisions(f)[m] = Own(f, m) /\ Own(f, m).name = f.events[m].table
      BY <2>2, ResolvedIsOwn, OwnIs
    <2>4. ByClock(f, m) = {Own(f, m)}
      BY <2>2, <2>3, ResolvedBy
    <2> QED BY <1>2, <2>1, <2>3, <2>4
  <1> HIDE DEF renamed, m
  <1>6. \/ name = f.events[j].table
        \/ \E i \in SaveEvents(f) : f.events[i].name = name /\ f.events[i].table = f.events[j].table
    BY DEF Written
  <1>7. ASSUME f.events[j].table = app PROVE Alias(f, name) = app
    <2>1. CASE renamed = {}
      BY <1>2, <1>3, <1>6, <1>7, <2>1
    <2>2. CASE renamed # {}
      <3>1. f.events[m].name = f.events[j].name /\ m \in SaveEvents(f)
        BY <1>3, <1>4, <1>5, <2>2
      <3>2. f.events[m].table = f.events[j].table
        BY <1>7, <3>1 DEF OwnName
      <3> QED BY <1>5, <1>7, <2>2, <3>2
    <2> QED BY <2>1, <2>2
  <1>8. ASSUME Alias(f, name) = app PROVE f.events[j].table = app
    <2>1. CASE renamed = {}
      BY <1>2, <1>3, <1>6, <1>8, <2>1
    <2>2. CASE renamed # {}
      <3>1. f.events[m].name = f.events[j].name /\ m \in SaveEvents(f) /\ f.events[m].table = app
        BY <1>3, <1>4, <1>5, <1>8, <2>2
      <3> QED BY <3>1 DEF OwnName
    <2> QED BY <2>1, <2>2
  <1> QED BY <1>1, <1>7, <1>8

\* The newest save of an app is the newest the ladder finds.
LEMMA HeadIsNewest ==
  ASSUME NEW f \in Files, Written(f), \A i \in SaveEvents(f) : ResolveRevisions(f)[i] # Nil, NEW name
  PROVE  /\ HeadEvent(f, name) = IF SavesOf(f, name) = {} THEN 0 ELSE Max(SavesOf(f, name))
         /\ HeadEvent(f, name) > 0 <=> SavesOf(f, name) # {}
         /\ SavesOf(f, name) # {} =>
              /\ Max(SavesOf(f, name)) \in SavesOf(f, name)
              /\ \A i \in SavesOf(f, name) : i <= Max(SavesOf(f, name))
  <1>1. {i \in SaveEvents(f) : ResolveRevisions(f)[i] # Nil /\ ResolveRevisions(f)[i].name = name} = SavesOf(f, name)
    BY ResolvedIsOwn, OwnIs DEF SavesOf
  <1>2. HeadEvent(f, name) = IF SavesOf(f, name) = {} THEN 0 ELSE Max(SavesOf(f, name))
    BY <1>1, Zenon DEF HeadEvent
  <1>3. SavesOf(f, name) \subseteq 1..Len(f.events) /\ SavesOf(f, name) \subseteq 0..Len(f.events) /\ Len(f.events) \in Nat
    BY DEF SavesOf, SaveEvents, Files
  <1>4. SavesOf(f, name) # {} =>
          /\ Max(SavesOf(f, name)) \in SavesOf(f, name)
          /\ \A i \in SavesOf(f, name) : i <= Max(SavesOf(f, name))
    BY <1>3, MaxIsIn
  <1> QED BY <1>2, <1>3, <1>4

\* The saves that stated something, of those since the app was last deleted.
Stated(f, i) ==
  {j \in 1 .. i : /\ j \in SavesOf(f, f.events[i].table) /\ Own(f, j).block # "absent"
                  /\ \A k \in j .. i : ~ (k \in Deletes(f) /\ f.events[k].table = f.events[i].table)}

LEMMA InForceIs ==
  ASSUME NEW f, NEW i
  PROVE  InForce(f, i) = IF Stated(f, i) # {} /\ Own(f, Max(Stated(f, i))).block \in Declarations
                         THEN Own(f, Max(Stated(f, i))).block ELSE Nil
  BY Zenon DEF InForce, Stated

\* A save that states nothing leaves in force what the app's save before it did, if no delete came between.
LEMMA InForceStays ==
  ASSUME NEW f \in Files, Written(f), NEW i \in SaveEvents(f), NEW m \in SaveEvents(f), m < i,
         f.events[m].table = f.events[i].table, Own(f, i).block = "absent",
         \A k \in m + 1 .. i - 1 : f.events[k].table # f.events[i].table
  PROVE  InForce(f, i) = InForce(f, m)
  <1>1. i \in Nat /\ m \in Nat /\ i \in 1..Len(f.events) /\ m \in 1..Len(f.events)
    BY OwnIs
  <1>2. i \notin Deletes(f) /\ m \notin Deletes(f)
    BY DEF Deletes
  <1>3. ASSUME NEW j \in 1..i, j \in SavesOf(f, f.events[i].table), Own(f, j).block # "absent"
        PROVE  j \in 1..m
    <2>1. j # i /\ f.events[j].table = f.events[i].table
      BY <1>3 DEF SavesOf
    <2> QED BY <1>1, <1>3, <2>1
  <1>4. Stated(f, i) \subseteq Stated(f, m)
    BY <1>1, <1>3 DEF Stated
  <1>5. Stated(f, m) \subseteq Stated(f, i)
    BY <1>1, <1>2 DEF Stated
  <1>6. Stated(f, i) = Stated(f, m)
    BY <1>4, <1>5
  <1>7. InForce(f, m) = IF Stated(f, i) # {} /\ Own(f, Max(Stated(f, i))).block \in Declarations
                        THEN Own(f, Max(Stated(f, i))).block ELSE Nil
    BY <1>6, InForceIs, Zenon
  <1> QED BY <1>7, InForceIs, Zenon

\* A save that states something has it in force, and one with nothing of the app's before it only that.
LEMMA InForceStarts ==
  ASSUME NEW f \in Files, Written(f), NEW i \in SaveEvents(f)
  PROVE  /\ Own(f, i).block # "absent" =>
              InForce(f, i) = IF Own(f, i).block \in Declarations THEN Own(f, i).block ELSE Nil
         /\ \A m \in 0 .. i - 1 :
              /\ Own(f, i).block = "absent" /\ (m = 0 \/ (m \in Deletes(f) /\ f.events[m].table = f.events[i].table))
              /\ \A k \in m + 1 .. i - 1 : k \notin SavesOf(f, f.events[i].table)
              => InForce(f, i) = Nil
  <1>1. i \in Nat /\ i \in 1..i /\ i \in SavesOf(f, f.events[i].table) /\ i \notin Deletes(f)
    BY OwnIs DEF SavesOf, Deletes
  <1>2. ASSUME Own(f, i).block # "absent"
        PROVE  InForce(f, i) = IF Own(f, i).block \in Declarations THEN Own(f, i).block ELSE Nil
    <2>1. i \in Stated(f, i) /\ Stated(f, i) \subseteq 0..i
      BY <1>1, <1>2 DEF Stated
    <2>2. Max(Stated(f, i)) \in Stated(f, i) /\ \A j \in Stated(f, i) : j <= Max(Stated(f, i))
      BY <1>1, <2>1, MaxIsIn
    <2>3. Max(Stated(f, i)) = i
      BY <1>1, <2>1, <2>2
    <2> QED BY <2>1, <2>3, InForceIs
  <1>3. ASSUME NEW m \in 0 .. i - 1, Own(f, i).block = "absent",
               m = 0 \/ (m \in Deletes(f) /\ f.events[m].table = f.events[i].table),
               \A k \in m + 1 .. i - 1 : k \notin SavesOf(f, f.events[i].table)
        PROVE  InForce(f, i) = Nil
    <2>1. ASSUME NEW j \in Stated(f, i) PROVE FALSE
      <3>1. j \in 1..i /\ j # i /\ j \in SavesOf(f, f.events[i].table)
        BY <1>3, <2>1 DEF Stated
      <3>2. j <= m
        BY <1>1, <1>3, <3>1
      <3>3. m # 0 /\ m \in j..i
        BY <1>1, <3>1, <3>2
      <3> QED BY <1>3, <2>1, <3>3 DEF Stated
    <2> QED BY <2>1, InForceIs
  <1> QED BY <1>2, <1>3

\* A ledger that is not refused: every save has a revision, and what its document says can be read.
LEMMA Accepted ==
  ASSUME NEW f \in Files, ~ RefusedV5toV6(f)
  PROVE  /\ \A i \in SaveEvents(f) : ResolveRevisions(f)[i] # Nil
         /\ Written(f) => \A i \in SaveEvents(f) : Own(f, i).block \in {"absent", "empty"} \cup Declarations
         /\ \A a \in f.apps : HeadSlot(f, a).ok
  <1>1. \A i \in SaveEvents(f) : ResolveRevisions(f)[i] # Nil /\ ~ Unreadable(ResolveRevisions(f)[i].block)
    BY Zenon DEF RefusedV5toV6
  <1>2. \A r \in f.revisions : r.block # "huge"
    BY Zenon DEF RefusedV5toV6
  <1>3. \A a \in f.apps : HeadSlot(f, a).ok
    BY Zenon DEF RefusedV5toV6
  <1>4. ASSUME Written(f), NEW i \in SaveEvents(f)
        PROVE  Own(f, i).block \in {"absent", "empty"} \cup Declarations
    <2>1. Own(f, i) = ResolveRevisions(f)[i] /\ Own(f, i) \in Revisions /\ Own(f, i) \in f.revisions
      BY <1>1, <1>4, ResolvedIsOwn, OwnIs
    <2>2. Own(f, i).block \in Blocks /\ Own(f, i).block # "huge" /\ Own(f, i).block # "bad"
      BY <1>1, <1>2, <2>1 DEF Revisions, Unreadable
    <2> QED BY <2>2 DEF Blocks
  <1> QED BY <1>1, <1>3, <1>4

\* The replay of the ledger comes to what was in force.
LEMMA DerivedIsInForce ==
  ASSUME NEW f \in Files, Written(f), ~ RefusedV5toV6(f)
  PROVE  \A i \in SaveEvents(f) : OwnName(f, f.events[i].table) => Derived(f)[i] = InForce(f, i)
  <1> DEFINE T == {i \in SaveEvents(f) : OwnName(f, f.events[i].table) /\ Derived(f)[i] # InForce(f, i)}
  <1> SUFFICES ASSUME T # {} PROVE FALSE
    OBVIOUS
  <1>0. DOMAIN f.events = 1..Len(f.events) /\ Len(f.events) \in Nat /\ SaveEvents(f) \subseteq 1..Len(f.events)
    BY DEF SaveEvents, Files
  <1>1. PICK m \in T : \A j \in T : m <= j
    <2>1. T \subseteq Nat
      BY <1>0
    <2> HIDE DEF T
    <2> QED BY <2>1, LeastNat
  <1> DEFINE app == f.events[m].table
  <1>2. /\ m \in SaveEvents(f) /\ OwnName(f, app) /\ Derived(f)[m] # InForce(f, m)
        /\ \A j \in SaveEvents(f) : j < m /\ f.events[j].table = app => Derived(f)[j] = InForce(f, j)
    <2>1. m \in SaveEvents(f) /\ OwnName(f, app) /\ Derived(f)[m] # InForce(f, m)
      OBVIOUS
    <2>2. ASSUME NEW j \in SaveEvents(f), j < m, f.events[j].table = app PROVE Derived(f)[j] = InForce(f, j)
      <3>1. j \notin T
        <4> HIDE DEF T
        <4>1. m \in Nat /\ j \in Nat
          BY <1>0, <2>1
        <4> QED BY <1>1, <2>2, <4>1
      <3> QED BY <2>1, <2>2, <3>1
    <2> QED BY <2>1, <2>2
  <1> HIDE DEF T, app
  <1>3. \A i \in SaveEvents(f) : ResolveRevisions(f)[i] # Nil /\ ResolveRevisions(f)[i] = Own(f, i)
                                   /\ Own(f, i).name = f.events[i].table
    BY Accepted, ResolvedIsOwn, OwnIs
  <1>4. m \in 1..Len(f.events) /\ m \in Nat /\ Own(f, m).name = app
    BY <1>0, <1>2, <1>3 DEF app
  <1> DEFINE B == Before(f, m)
             inherited == IF B = {} \/ Max(B) \notin SaveEvents(f) THEN Nil ELSE Derived(f)[Max(B)]
  <1>5. Derived(f)[m] = DeriveLegacyManifest(Own(f, m).block, inherited)
    <2>1. Derived(f)[m] = DerivedAt(f, Derived(f), m)
      BY <1>0, <1>4, DerivedIs
    <2> QED BY <1>2, <1>3, <2>1, Zenon DEF DerivedAt
  <1>6. B = {j \in 1 .. m - 1 : j \in SavesOf(f, app) \/ (j \in Deletes(f) /\ f.events[j].table = app)}
    <2>1. ResolveRevisions(f)[m].name = app
      BY <1>2, <1>3, <1>4
    <2>2. ASSUME NEW j \in 1 .. m - 1
          PROVE  /\ j \in SaveEvents(f) => ~ Cuts(f, j, app)
                 /\ j \notin SaveEvents(f) => j \in Deletes(f)
      BY <1>0, <1>4 DEF Cuts, SaveEvents, Deletes
    <2>3. \A j \in Deletes(f) : Cuts(f, j, app) <=> f.events[j].table = app
      BY <1>2, <1>3, CutsIts
    <2>4. \A j \in Deletes(f) : j \notin SaveEvents(f)
      BY DEF Deletes
    <2>5. B = {j \in 1 .. m - 1 : Cuts(f, j, app)
                 \/ (j \in SaveEvents(f) /\ ResolveRevisions(f)[j] # Nil /\ ResolveRevisions(f)[j].name = app)}
      BY <2>1, Zenon DEF Before
    <2>6. ASSUME NEW j \in 1 .. m - 1
          PROVE  (Cuts(f, j, app) \/ (j \in SaveEvents(f) /\ ResolveRevisions(f)[j] # Nil /\ ResolveRevisions(f)[j].name = app))
                 <=> (j \in SavesOf(f, app) \/ (j \in Deletes(f) /\ f.events[j].table = app))
      BY <1>3, <2>2, <2>3, <2>4 DEF SavesOf
    <2> QED BY <2>5, <2>6
  <1>7. Own(f, m).block \in {"absent", "empty"} \cup Declarations
    BY <1>2, Accepted
  <1>8. CASE Own(f, m).block # "absent"
    <2>1. InForce(f, m) = IF Own(f, m).block \in Declarations THEN Own(f, m).block ELSE Nil
      BY <1>2, <1>8, InForceStarts
    <2>2. "empty" \notin Declarations
      BY DeclarationsApart
    <2> QED BY <1>2, <1>5, <1>7, <1>8, <2>1, <2>2 DEF DeriveLegacyManifest
  <1>9. CASE Own(f, m).block = "absent"
    <2>1. Derived(f)[m] = inherited
      BY <1>5, <1>9 DEF DeriveLegacyManifest
    <2>2. CASE B = {}
      <3>1. inherited = Nil
        BY <2>2
      <3>2. 0 \in 0 .. m - 1 /\ \A k \in 0 + 1 .. m - 1 : k \notin SavesOf(f, app)
        BY <1>4, <1>6, <2>2
      <3>3. InForce(f, m) = Nil
        BY <1>2, <1>9, <3>2, InForceStarts DEF app
      <3> QED BY <1>2, <2>1, <3>1, <3>3
    <2>3. CASE B # {}
      <3> DEFINE p == Max(B)
      <3>1. B \subseteq 0 .. m - 1 /\ m - 1 \in Nat
        BY <1>4, <1>6
      <3> HIDE DEF B
      <3>2. p \in B /\ \A j \in B : j <= p
        BY <2>3, <3>1, MaxIsIn
      <3> HIDE DEF p
      <3>3. p \in 1 .. m - 1 /\ (p \in SavesOf(f, app) \/ (p \in Deletes(f) /\ f.events[p].table = app))
        BY <1>6, <3>2
      <3>4. ASSUME NEW k \in p + 1 .. m - 1 PROVE f.events[k].table # app /\ k \notin SavesOf(f, app)
        <4>1. k \in 1 .. m - 1 /\ k \notin B
          BY <1>4, <3>2, <3>3
        <4>2. k \in SaveEvents(f) \/ k \in Deletes(f)
          BY <1>0, <1>4, <4>1 DEF Deletes
        <4> QED BY <1>6, <4>1, <4>2 DEF SavesOf
      <3>5. CASE p \in SavesOf(f, app)
        <4>1. p \in SaveEvents(f) /\ f.events[p].table = app /\ p < m
          BY <1>4, <3>3, <3>5 DEF SavesOf
        <4>2. inherited = Derived(f)[p]
          BY <2>3, <4>1 DEF p
        <4>3. InForce(f, m) = InForce(f, p)
          BY <1>2, <1>9, <3>4, <4>1, InForceStays DEF app
        <4> QED BY <1>2, <2>1, <4>1, <4>2, <4>3
      <3>6. CASE p \in Deletes(f) /\ f.events[p].table = app
        <4>1. inherited = Nil
          BY <3>6 DEF p, Deletes
        <4>2. p \in 0 .. m - 1
          BY <3>3
        <4>3. InForce(f, m) = Nil
          BY <1>2, <1>9, <3>4, <3>6, <4>2, InForceStarts DEF app
        <4> QED BY <1>2, <2>1, <4>1, <4>3
      <3> QED BY <3>3, <3>5, <3>6
    <2> QED BY <2>2, <2>3
  <1> QED BY <1>8, <1>9

\* How a head row is reconciled, where it is.
LEMMA SlotIs ==
  ASSUME NEW f, NEW a, HeadSlot(f, a).ok
  PROVE  /\ HeadSlot(f, a).manifest =
              IF Wanted(f, a) = a.manifest \/ a.manifest = Nil THEN Wanted(f, a)
              ELSE IF a.manifest = "{}" THEN Nil ELSE a.manifest
         /\ HeadSlot(f, a).fromColumn <=> Wanted(f, a) # a.manifest /\ a.manifest \notin {Nil, "{}"}
         /\ Wanted(f, a) # a.manifest /\ a.manifest # Nil => Wanted(f, a) = Nil
  <1> DEFINE want == Wanted(f, a)
             have == a.manifest
  <1>1. HeadSlot(f, a) = Reconciled(want, have)
    BY DEF HeadSlot
  <1> HIDE DEF want, have
  <1>2. Reconciled(want, have).ok
    BY <1>1
  <1>3. /\ Reconciled(want, have).manifest =
              IF want = have \/ have = Nil THEN want ELSE IF have = "{}" THEN Nil ELSE have
        /\ Reconciled(want, have).fromColumn <=> want # have /\ have \notin {Nil, "{}"}
        /\ want # have /\ have # Nil => want = Nil
    <2>1. CASE want = have
      BY <2>1 DEF Reconciled
    <2>2. CASE want # have
      <3>1. Reconciled(want, have) = ReconcileHead(want, have)
        BY <2>2 DEF Reconciled
      <3>2. CASE have = Nil
        BY <2>2, <3>1, <3>2 DEF ReconcileHead
      <3>3. CASE have # Nil
        <4>1. want = Nil /\ have # "junk"
          <5> SUFFICES ASSUME want # Nil \/ have = "junk" PROVE FALSE
            OBVIOUS
          <5>1. ReconcileHead(want, have) = [ok |-> FALSE]
            BY <3>3 DEF ReconcileHead
          <5>2. Reconciled(want, have) = [ok |-> FALSE]
            BY <3>1, <5>1, Zenon
          <5>3. Reconciled(want, have).ok = FALSE
            BY <5>2
          <5> QED BY <1>2, <5>3, Zenon
        <4>2. CASE have = "{}"
          <5>1. ReconcileHead(want, have) = [ok |-> TRUE, manifest |-> Nil, fromColumn |-> FALSE]
            BY <3>3, <4>1, <4>2 DEF ReconcileHead
          <5>2. Reconciled(want, have) = [ok |-> TRUE, manifest |-> Nil, fromColumn |-> FALSE]
            BY <3>1, <5>1, Zenon
          <5>3. Reconciled(want, have).fromColumn = FALSE /\ Reconciled(want, have).manifest = Nil
            BY <5>2
          <5> QED BY <2>2, <3>3, <4>1, <4>2, <5>3, Zenon
        <4>3. CASE have # "{}"
          <5>1. ReconcileHead(want, have) = [ok |-> TRUE, manifest |-> have, fromColumn |-> TRUE]
            BY <3>3, <4>1, <4>3 DEF ReconcileHead
          <5>2. Reconciled(want, have) = [ok |-> TRUE, manifest |-> have, fromColumn |-> TRUE]
            BY <3>1, <5>1, Zenon
          <5>3. Reconciled(want, have).fromColumn = TRUE /\ Reconciled(want, have).manifest = have
            BY <5>2
          <5> QED BY <2>2, <3>3, <4>1, <4>3, <5>3, Zenon
        <4> QED BY <4>2, <4>3
      <3> QED BY <3>2, <3>3
    <2> QED BY <2>1, <2>2
  <1> QED BY <1>1, <1>3 DEF want, have

\* What the rung makes of the revision a save wrote, and of a row.
MovedWord(f, i) ==
  IF CarriesTheColumn(f, Own(f, i)) THEN HeadSlot(f, CHOOSE a \in f.apps : a.name = f.events[i].table).manifest
  ELSE Derived(f)[i]

LEMMA MovedIs ==
  ASSUME NEW f \in Files, Written(f), ~ RefusedV5toV6(f)
  PROVE  /\ MigrateV5toV6(f).revisions =
              {[Own(f, i) EXCEPT !.block = "absent", !.manifest = MovedWord(f, i)] : i \in SaveEvents(f)}
         /\ MigrateV5toV6(f).apps =
              {[a EXCEPT !.block = "absent", !.manifest = HeadSlot(f, a).manifest] : a \in f.apps}
         /\ MigrateV5toV6(f).events = f.events /\ MigrateV5toV6(f).version = f.version
         /\ MigrateV5toV6(f).shape = (f.shape \ {"html"}) \cup {"ui", "app_history.manifest"} \cup NewTables
  <1> DEFINE at == ResolveRevisions(f)
             declared(r) == Derived(f)[CHOOSE i \in SaveEvents(f) : at[i] = r]
             row(name) == CHOOSE a \in f.apps : a.name = name
             word(r) == IF CarriesTheColumn(f, r) THEN HeadSlot(f, row(r.name)).manifest ELSE declared(r)
             revision(r) == IF \A i \in SaveEvents(f) : at[i] # r THEN r
                            ELSE [r EXCEPT !.block = "absent", !.manifest = word(r)]
             shape == (f.shape \ {"html"}) \cup {"ui", "app_history.manifest"}
             revisions == {revision(r) : r \in f.revisions}
             apps == {[a EXCEPT !.block = "absent", !.manifest = HeadSlot(f, a).manifest] : a \in f.apps}
             moved == [f EXCEPT !.shape = shape, !.revisions = revisions, !.apps = apps]
             carried(i) == [Own(f, i) EXCEPT !.block = "absent", !.manifest = MovedWord(f, i)]
  <1>1. MigrateV5toV6(f) = Schema(moved)
    BY Zenon DEF MigrateV5toV6
  <1>2. /\ MigrateV5toV6(f).revisions = revisions /\ MigrateV5toV6(f).apps = apps
        /\ MigrateV5toV6(f).events = f.events /\ MigrateV5toV6(f).version = f.version
        /\ MigrateV5toV6(f).shape = shape \cup NewTables
    <2> HIDE DEF shape, revisions, apps
    <2>1. /\ moved.revisions = revisions /\ moved.apps = apps /\ moved.events = f.events /\ moved.version = f.version
          /\ moved.shape = shape /\ moved = [f EXCEPT !.shape = shape, !.revisions = revisions, !.apps = apps]
      BY DEF Files
    <2>2. Schema(moved).shape = shape \cup NewTables
      BY <2>1 DEF Schema, Files
    <2>3. /\ Schema(moved).revisions = moved.revisions /\ Schema(moved).apps = moved.apps
          /\ Schema(moved).events = moved.events /\ Schema(moved).version = moved.version
      BY DEF Schema, Files
    <2> QED BY <1>1, <2>1, <2>2, <2>3
  <1>3. \A i \in SaveEvents(f) : at[i] = Own(f, i) /\ Own(f, i) \in f.revisions /\ Own(f, i).name = f.events[i].table
    BY Accepted, ResolvedIsOwn, OwnIs
  <1>4. ASSUME NEW i \in SaveEvents(f) PROVE revision(Own(f, i)) = carried(i)
    <2>1. (CHOOSE j \in SaveEvents(f) : at[j] = Own(f, i)) = i
      <3>1. \A j \in SaveEvents(f) : at[j] = Own(f, i) => j = i
        BY <1>3, OwnIs
      <3> QED BY <1>3, <3>1
    <2>2. word(Own(f, i)) = MovedWord(f, i)
      <3>1. declared(Own(f, i)) = Derived(f)[i]
        BY <2>1
      <3>2. MovedWord(f, i) = IF CarriesTheColumn(f, Own(f, i)) THEN HeadSlot(f, row(f.events[i].table)).manifest
                              ELSE Derived(f)[i]
        BY DEF MovedWord
      <3> HIDE DEF row, declared
      <3> QED BY <1>3, <3>1, <3>2
    <2> HIDE DEF word
    <2> QED BY <1>3, <2>2
  <1>5. \A r \in f.revisions : \E i \in SaveEvents(f) : r = Own(f, i)
    BY OwnIs DEF Written
  <1>6. revisions = {carried(i) : i \in SaveEvents(f)}
    <2> HIDE DEF revision, carried
    <2>1. \A r \in revisions : \E i \in SaveEvents(f) : r = carried(i)
      BY <1>4, <1>5
    <2>2. \A i \in SaveEvents(f) : carried(i) \in revisions
      BY <1>3, <1>4
    <2> QED BY <2>1, <2>2
  <1> QED BY <1>2, <1>6

\* The revision of a save, after the rung.
LEMMA AfterIs ==
  ASSUME NEW f \in Files, Written(f), ~ RefusedV5toV6(f), NEW i \in SaveEvents(f)
  PROVE  (CHOOSE s \in MigrateV5toV6(f).revisions : s.name = f.events[i].table /\ s.version = f.events[i].version)
           = [Own(f, i) EXCEPT !.block = "absent", !.manifest = MovedWord(f, i)]
  <1> DEFINE carried(j) == [Own(f, j) EXCEPT !.block = "absent", !.manifest = MovedWord(f, j)]
             R == MigrateV5toV6(f).revisions
  <1>1. R = {carried(j) : j \in SaveEvents(f)}
    BY MovedIs
  <1>2. \A j \in SaveEvents(f) : carried(j).name = f.events[j].table /\ carried(j).version = f.events[j].version
    <2> SUFFICES ASSUME NEW j \in SaveEvents(f)
                 PROVE  carried(j).name = f.events[j].table /\ carried(j).version = f.events[j].version
      OBVIOUS
    <2>1. Own(f, j) \in Revisions /\ Own(f, j).name = f.events[j].table /\ Own(f, j).version = f.events[j].version
      BY OwnIs
    <2> QED BY <2>1 DEF Revisions
  <1> HIDE DEF carried, R
  <1>3. carried(i) \in R /\ carried(i).name = f.events[i].table /\ carried(i).version = f.events[i].version
    BY <1>1, <1>2
  <1>4. ASSUME NEW s \in R, s.name = f.events[i].table, s.version = f.events[i].version PROVE s = carried(i)
    <2>1. PICK j \in SaveEvents(f) : s = carried(j)
      BY <1>1
    <2>2. f.events[j].table = f.events[i].table /\ f.events[j].version = f.events[i].version
      BY <1>2, <1>4, <2>1
    <2>3. i = j
      BY <2>2 DEF Written
    <2> QED BY <2>1, <2>3
  <1>5. (CHOOSE s \in R : s.name = f.events[i].table /\ s.version = f.events[i].version) = carried(i)
    BY <1>3, <1>4
  <1> QED BY <1>5 DEF carried, R

\* Which revision carries the column: the head's, of the row whose column alone spoke.
LEMMA CarriesIs ==
  ASSUME NEW f \in Files, Written(f), ~ RefusedV5toV6(f), NEW i \in SaveEvents(f)
  PROVE  /\ CarriesTheColumn(f, Own(f, i)) <=>
              \E a \in f.apps : /\ HeadSlot(f, a).fromColumn /\ a.name = f.events[i].table
                                /\ i = Max(SavesOf(f, a.name))
         /\ \A a \in f.apps : a.name = f.events[i].table => (CHOOSE b \in f.apps : b.name = f.events[i].table) = a
  <1>1. \A j \in SaveEvents(f) : ResolveRevisions(f)[j] # Nil /\ ResolveRevisions(f)[j] = Own(f, j)
    BY Accepted, ResolvedIsOwn
  <1>2. \A a \in f.apps : /\ HeadEvent(f, a.name) > 0 <=> SavesOf(f, a.name) # {}
                          /\ SavesOf(f, a.name) # {} => /\ HeadEvent(f, a.name) = Max(SavesOf(f, a.name))
                                                        /\ HeadEvent(f, a.name) \in SavesOf(f, a.name)
    BY <1>1, HeadIsNewest
  <1>3. ASSUME NEW a \in f.apps
        PROVE  HeadEvent(f, a.name) > 0 /\ Own(f, i) = ResolveRevisions(f)[HeadEvent(f, a.name)]
                 <=> a.name = f.events[i].table /\ i = Max(SavesOf(f, a.name))
    <2>1. ASSUME HeadEvent(f, a.name) > 0, Own(f, i) = ResolveRevisions(f)[HeadEvent(f, a.name)]
          PROVE  a.name = f.events[i].table /\ i = Max(SavesOf(f, a.name))
      <3>1. HeadEvent(f, a.name) \in SaveEvents(f) /\ f.events[HeadEvent(f, a.name)].table = a.name
            /\ HeadEvent(f, a.name) = Max(SavesOf(f, a.name))
        BY <1>2, <2>1 DEF SavesOf
      <3>2. HeadEvent(f, a.name) = i
        BY <1>1, <2>1, <3>1, OwnIs
      <3> QED BY <3>1, <3>2
    <2>2. ASSUME a.name = f.events[i].table, i = Max(SavesOf(f, a.name))
          PROVE  HeadEvent(f, a.name) > 0 /\ Own(f, i) = ResolveRevisions(f)[HeadEvent(f, a.name)]
      <3>1. i \in SavesOf(f, a.name)
        BY <2>2 DEF SavesOf
      <3>2. HeadEvent(f, a.name) = i /\ HeadEvent(f, a.name) > 0
        BY <1>2, <2>2, <3>1
      <3> QED BY <1>1, <3>2
    <2> QED BY <2>1, <2>2
  <1>4. CarriesTheColumn(f, Own(f, i)) <=>
          \E a \in f.apps : HeadSlot(f, a).fromColumn /\ HeadEvent(f, a.name) > 0
                            /\ Own(f, i) = ResolveRevisions(f)[HeadEvent(f, a.name)]
    BY Zenon DEF CarriesTheColumn
  <1>5. CarriesTheColumn(f, Own(f, i)) <=>
          \E a \in f.apps : HeadSlot(f, a).fromColumn /\ a.name = f.events[i].table /\ i = Max(SavesOf(f, a.name))
    BY <1>3, <1>4
  <1>6. \A a \in f.apps : a.name = f.events[i].table => (CHOOSE b \in f.apps : b.name = f.events[i].table) = a
    BY DEF Written
  <1> QED BY <1>5, <1>6

\* What ClimbKeeps asks of a climb from before v6.
After(f, h, i) == CHOOSE s \in h.revisions : s.name = f.events[i].table /\ s.version = f.events[i].version

RevisionsCarry(f, h) ==
  \A i \in SaveEvents(f) : OwnName(f, f.events[i].table) /\ After(f, h, i).manifest # InForce(f, i) =>
    /\ InForce(f, i) = Nil /\ i = Max(SavesOf(f, f.events[i].table))
    /\ \E a \in f.apps : a.name = f.events[i].table /\ After(f, h, i).manifest = a.manifest

HeadsCarry(f, h) ==
  \A a \in f.apps, b \in h.apps : b.name = a.name =>
    /\ SavesOf(f, a.name) # {} => After(f, h, Max(SavesOf(f, a.name))).manifest = b.manifest
    /\ OwnName(f, a.name) => /\ {a.manifest, Stands(f, a)} \cap Declarations \subseteq {b.manifest}
                             /\ b.manifest \in {Nil, a.manifest, Stands(f, a)}

AllThere(f, h) ==
  /\ h.events = f.events
  /\ {<<s.name, s.version, s.ts>> : s \in h.revisions} = {<<r.name, r.version, r.ts>> : r \in f.revisions}
  /\ {b.name : b \in h.apps} = {a.name : a \in f.apps}
  /\ \A s \in h.revisions \cup h.apps : s.block = "absent"

LEMMA ClimbKeepsIs ==
  ASSUME NEW f, NEW h
  PROVE  ClimbKeeps(f, h) <=>
           IF f.version > 5 THEN h.events = f.events /\ h.revisions = f.revisions /\ h.apps = f.apps
           ELSE AllThere(f, h) /\ RevisionsCarry(f, h) /\ HeadsCarry(f, h)
  BY Zenon DEF ClimbKeeps, AllThere, RevisionsCarry, HeadsCarry, After

LEMMA RungLosesNothing ==
  ASSUME NEW f \in Files, Written(f), ~ RefusedV5toV6(f), NEW h, h.events = f.events,
         h.revisions = MigrateV5toV6(f).revisions, h.apps = MigrateV5toV6(f).apps
  PROVE  AllThere(f, h)
  <1> DEFINE carried(i) == [Own(f, i) EXCEPT !.block = "absent", !.manifest = MovedWord(f, i)]
             row(a) == [a EXCEPT !.block = "absent", !.manifest = HeadSlot(f, a).manifest]
  <1>1. h.revisions = {carried(i) : i \in SaveEvents(f)} /\ h.apps = {row(a) : a \in f.apps}
    BY MovedIs
  <1>2. ASSUME NEW i \in SaveEvents(f)
        PROVE  /\ carried(i).name = Own(f, i).name /\ carried(i).version = Own(f, i).version /\ carried(i).ts = Own(f, i).ts
               /\ carried(i).block = "absent" /\ Own(f, i) \in f.revisions
    <2>1. Own(f, i) \in Revisions /\ Own(f, i) \in f.revisions
      BY OwnIs
    <2> QED BY <2>1 DEF Revisions
  <1>3. ASSUME NEW a \in f.apps PROVE row(a).name = a.name /\ row(a).block = "absent"
    <2>1. a \in Apps
      BY DEF Files
    <2> QED BY <2>1 DEF Apps
  <1>4. \A r \in f.revisions : \E i \in SaveEvents(f) : r = Own(f, i)
    BY OwnIs DEF Written
  <1> HIDE DEF carried, row
  <1>5. {<<s.name, s.version, s.ts>> : s \in h.revisions} = {<<r.name, r.version, r.ts>> : r \in f.revisions}
    <2>1. ASSUME NEW s \in h.revisions
          PROVE  <<s.name, s.version, s.ts>> \in {<<r.name, r.version, r.ts>> : r \in f.revisions}
      <3>1. PICK i \in SaveEvents(f) : s = carried(i)
        BY <1>1
      <3> QED BY <1>2, <3>1
    <2>2. ASSUME NEW r \in f.revisions
          PROVE  <<r.name, r.version, r.ts>> \in {<<s.name, s.version, s.ts>> : s \in h.revisions}
      <3>1. PICK i \in SaveEvents(f) : r = Own(f, i)
        BY <1>4
      <3>2. carried(i) \in h.revisions
        BY <1>1
      <3> QED BY <1>2, <3>1, <3>2
    <2> QED BY <2>1, <2>2
  <1>6. {b.name : b \in h.apps} = {a.name : a \in f.apps}
    BY <1>1, <1>3
  <1>7. \A s \in h.revisions \cup h.apps : s.block = "absent"
    BY <1>1, <1>2, <1>3
  <1> QED BY <1>5, <1>6, <1>7 DEF AllThere

\* What stands at a head is what the ladder wants there.
LEMMA WantedStands ==
  ASSUME NEW f \in Files, Written(f), ~ RefusedV5toV6(f), NEW a \in f.apps
  PROVE  /\ SavesOf(f, a.name) # {} => Wanted(f, a) = Derived(f)[Max(SavesOf(f, a.name))]
         /\ OwnName(f, a.name) => Wanted(f, a) = Stands(f, a)
  <1>1. /\ HeadEvent(f, a.name) = IF SavesOf(f, a.name) = {} THEN 0 ELSE Max(SavesOf(f, a.name))
        /\ HeadEvent(f, a.name) > 0 <=> SavesOf(f, a.name) # {}
        /\ SavesOf(f, a.name) # {} => Max(SavesOf(f, a.name)) \in SavesOf(f, a.name)
    BY Accepted, HeadIsNewest
  <1>2. SavesOf(f, a.name) # {} => Wanted(f, a) = Derived(f)[Max(SavesOf(f, a.name))]
    BY <1>1, Zenon DEF Wanted
  <1>3. SavesOf(f, a.name) = {} => Wanted(f, a) = DeriveLegacyManifest(a.block, a.manifest)
    BY <1>1, Zenon DEF Wanted
  <1>4. ASSUME OwnName(f, a.name), SavesOf(f, a.name) # {}
        PROVE  Derived(f)[Max(SavesOf(f, a.name))] = InForce(f, Max(SavesOf(f, a.name)))
    <2>1. Max(SavesOf(f, a.name)) \in SaveEvents(f) /\ f.events[Max(SavesOf(f, a.name))].table = a.name
      BY <1>1, <1>4 DEF SavesOf
    <2> QED BY <1>4, <2>1, DerivedIsInForce
  <1> QED BY <1>2, <1>3, <1>4 DEF Stands

LEMMA RungCarriesRevisions ==
  ASSUME NEW f \in Files, Written(f), ~ RefusedV5toV6(f), NEW h, h.revisions = MigrateV5toV6(f).revisions
  PROVE  /\ \A i \in SaveEvents(f) : After(f, h, i).manifest = MovedWord(f, i)
         /\ RevisionsCarry(f, h)
  <1>1. ASSUME NEW i \in SaveEvents(f) PROVE After(f, h, i).manifest = MovedWord(f, i)
    <2>1. After(f, h, i) = [Own(f, i) EXCEPT !.block = "absent", !.manifest = MovedWord(f, i)]
      BY AfterIs DEF After
    <2>2. Own(f, i) \in Revisions
      BY OwnIs
    <2> QED BY <2>1, <2>2 DEF Revisions
  <1>2. ASSUME NEW i \in SaveEvents(f), OwnName(f, f.events[i].table), MovedWord(f, i) # InForce(f, i)
        PROVE  /\ InForce(f, i) = Nil /\ i = Max(SavesOf(f, f.events[i].table))
               /\ \E a \in f.apps : a.name = f.events[i].table /\ MovedWord(f, i) = a.manifest
    <2>1. Derived(f)[i] = InForce(f, i)
      BY <1>2, DerivedIsInForce
    <2>2. CarriesTheColumn(f, Own(f, i))
      BY <1>2, <2>1 DEF MovedWord
    <2>3. PICK a \in f.apps : HeadSlot(f, a).fromColumn /\ a.name = f.events[i].table /\ i = Max(SavesOf(f, a.name))
      BY <2>2, CarriesIs
    <2>4. MovedWord(f, i) = HeadSlot(f, a).manifest
      BY <2>2, <2>3, CarriesIs DEF MovedWord
    <2>5. HeadSlot(f, a).ok
      BY Accepted
    <2>6. Wanted(f, a) = Nil /\ HeadSlot(f, a).manifest = a.manifest
      BY <2>3, <2>5, SlotIs
    <2>7. SavesOf(f, a.name) # {}
      BY <2>3 DEF SavesOf
    <2>8. Wanted(f, a) = Derived(f)[i]
      BY <2>3, <2>7, WantedStands
    <2> QED BY <2>1, <2>3, <2>4, <2>6, <2>8
  <1> QED BY <1>1, <1>2 DEF RevisionsCarry

LEMMA RungCarriesHeads ==
  ASSUME NEW f \in Files, Written(f), ~ RefusedV5toV6(f), NEW h,
         h.revisions = MigrateV5toV6(f).revisions, h.apps = MigrateV5toV6(f).apps
  PROVE  HeadsCarry(f, h)
  <1> SUFFICES ASSUME NEW a \in f.apps, NEW b \in h.apps, b.name = a.name
               PROVE  /\ SavesOf(f, a.name) # {} => After(f, h, Max(SavesOf(f, a.name))).manifest = b.manifest
                      /\ OwnName(f, a.name) =>
                           /\ {a.manifest, Stands(f, a)} \cap Declarations \subseteq {b.manifest}
                           /\ b.manifest \in {Nil, a.manifest, Stands(f, a)}
    BY DEF HeadsCarry
  <1>1. b.manifest = HeadSlot(f, a).manifest
    <2>0. h.apps = {[c EXCEPT !.block = "absent", !.manifest = HeadSlot(f, c).manifest] : c \in f.apps}
      BY MovedIs
    <2>1. PICK c \in f.apps : b = [c EXCEPT !.block = "absent", !.manifest = HeadSlot(f, c).manifest]
      BY <2>0
    <2>2. c \in Apps
      BY DEF Files
    <2>3. b.name = c.name /\ b.manifest = HeadSlot(f, c).manifest
      BY <2>1, <2>2 DEF Apps
    <2>4. c = a
      BY <2>3 DEF Written
    <2> QED BY <2>3, <2>4
  <1> DEFINE want == Wanted(f, a)
             have == a.manifest
  <1>2. HeadSlot(f, a).ok
    BY Accepted
  <1>3. /\ b.manifest = IF want = have \/ have = Nil THEN want ELSE IF have = "{}" THEN Nil ELSE have
        /\ HeadSlot(f, a).fromColumn <=> want # have /\ have \notin {Nil, "{}"}
        /\ want # have /\ have # Nil => want = Nil
    <2>1. HeadSlot(f, a).manifest = IF want = have \/ have = Nil THEN want ELSE IF have = "{}" THEN Nil ELSE have
      BY <1>2, SlotIs, Zenon
    <2>2. /\ HeadSlot(f, a).fromColumn <=> want # have /\ have \notin {Nil, "{}"}
          /\ want # have /\ have # Nil => want = Nil
      BY <1>2, SlotIs, Zenon
    <2> HIDE DEF want, have
    <2> QED BY <1>1, <2>1, <2>2, Zenon
  <1>4. ASSUME SavesOf(f, a.name) # {} PROVE After(f, h, Max(SavesOf(f, a.name))).manifest = b.manifest
    <2> DEFINE i == Max(SavesOf(f, a.name))
    <2>1. i \in SaveEvents(f) /\ f.events[i].table = a.name
      BY <1>4, Accepted, HeadIsNewest DEF SavesOf
    <2>2. After(f, h, i).manifest = MovedWord(f, i)
      BY <2>1, RungCarriesRevisions
    <2>3. Derived(f)[i] = want
      BY <1>4, WantedStands
    <2>4. CASE HeadSlot(f, a).fromColumn
      <3>1. CarriesTheColumn(f, Own(f, i))
        BY <2>1, <2>4, CarriesIs
      <3>2. (CHOOSE c \in f.apps : c.name = f.events[i].table) = a
        BY <2>1, CarriesIs
      <3> QED BY <1>1, <2>2, <3>1, <3>2, Zenon DEF MovedWord
    <2>5. CASE ~ HeadSlot(f, a).fromColumn
      <3>1. ~ CarriesTheColumn(f, Own(f, i))
        <4> SUFFICES ASSUME NEW c \in f.apps, c.name = a.name, HeadSlot(f, c).fromColumn PROVE FALSE
          BY <2>1, CarriesIs
        <4>1. c = a
          BY DEF Written
        <4> QED BY <2>5, <4>1
      <3>2. MovedWord(f, i) = want
        BY <2>3, <3>1, Zenon DEF MovedWord
      <3> QED BY <1>3, <2>2, <2>5, <3>2
    <2> QED BY <2>4, <2>5
  <1>5. ASSUME OwnName(f, a.name)
        PROVE  /\ {a.manifest, Stands(f, a)} \cap Declarations \subseteq {b.manifest}
               /\ b.manifest \in {Nil, a.manifest, Stands(f, a)}
    <2>1. Stands(f, a) = want
      BY <1>5, WantedStands
    <2>2. Nil \notin Declarations /\ "{}" \notin Declarations
      BY DeclarationsApart
    <2> HIDE DEF want, have
    <2>3. {have, want} \cap Declarations \subseteq {b.manifest} /\ b.manifest \in {Nil, have, want}
      BY <1>3, <2>2
    <2> QED BY <2>1, <2>3 DEF have
  <1> QED BY <1>4, <1>5

\* The measure is taken of the events, the revisions and the rows alone.
LEMMA SameRows ==
  ASSUME NEW f, NEW g, NEW h, g.events = f.events, g.revisions = f.revisions, g.apps = f.apps
  PROVE  /\ Written(g) <=> Written(f)
         /\ AllThere(g, h) => AllThere(f, h)
         /\ RevisionsCarry(g, h) => RevisionsCarry(f, h)
         /\ HeadsCarry(g, h) => HeadsCarry(f, h)
  <1>1. SaveEvents(g) = SaveEvents(f)
    BY DEF SaveEvents
  <1>2. Deletes(g) = Deletes(f) /\ \A name : SavesOf(g, name) = SavesOf(f, name)
    BY <1>1 DEF Deletes, SavesOf
  <1>3. \A i : Own(g, i) = Own(f, i) /\ After(g, h, i) = After(f, h, i)
    BY Zenon DEF Own, After
  <1>4. \A name : OwnName(g, name) <=> OwnName(f, name)
    BY <1>1, <1>2 DEF OwnName
  <1>5. ASSUME NEW i PROVE InForce(g, i) = InForce(f, i)
    <2>1. Stated(g, i) = Stated(f, i)
      BY <1>2, <1>3 DEF Stated
    <2>2. /\ InForce(f, i) = IF Stated(f, i) # {} /\ Own(f, Max(Stated(f, i))).block \in Declarations
                             THEN Own(f, Max(Stated(f, i))).block ELSE Nil
          /\ InForce(g, i) = IF Stated(g, i) # {} /\ Own(g, Max(Stated(g, i))).block \in Declarations
                             THEN Own(g, Max(Stated(g, i))).block ELSE Nil
      BY InForceIs
    <2>3. Own(g, Max(Stated(g, i))) = Own(f, Max(Stated(f, i)))
      BY <1>3, <2>1
    <2> QED BY <2>1, <2>2, <2>3
  <1>6. \A a : Stands(g, a) = Stands(f, a)
    BY <1>2, <1>5 DEF Stands
  <1>7. Written(g) <=> Written(f)
    BY <1>1, <1>2 DEF Written
  <1>8. AllThere(g, h) => AllThere(f, h)
    BY DEF AllThere
  <1>9. RevisionsCarry(g, h) => RevisionsCarry(f, h)
    BY <1>1, <1>2, <1>3, <1>4, <1>5 DEF RevisionsCarry
  <1>10. HeadsCarry(g, h) => HeadsCarry(f, h)
    BY <1>2, <1>3, <1>4, <1>6 DEF HeadsCarry
  <1> QED BY <1>7, <1>8, <1>9, <1>10

\* The rungs from v6 on touch the shape alone.
LEMMA LaterRungs ==
  ASSUME NEW g \in Files, NEW h, h = [MigrateV8toV9(From7(From6(g))) EXCEPT !.version = SCHEMA_VERSION]
  PROVE  /\ h.events = g.events /\ h.revisions = g.revisions /\ h.apps = g.apps /\ h.version = SCHEMA_VERSION
         /\ h.shape = g.shape \cup NewTables \cup SkillColumns
                        \cup (IF g.version <= 7 THEN {"change_event.principal"} ELSE {})
  <1> DEFINE a == From6(g)
             b == From7(a)
             c == MigrateV8toV9(b)
  <1>1. /\ a \in Files /\ a.events = g.events /\ a.revisions = g.revisions /\ a.apps = g.apps /\ a.version = g.version
        /\ a.shape \in {g.shape, g.shape \cup NewTables}
    BY SchemaTyped DEF From6, MigrateV6toV7, Schema, Files
  <1> HIDE DEF a
  <1> DEFINE p == [a EXCEPT !.shape = a.shape \cup {"change_event.principal"}]
  <1>2. /\ p \in Files /\ p.events = a.events /\ p.revisions = a.revisions /\ p.apps = a.apps /\ p.version = a.version
        /\ p.shape = a.shape \cup {"change_event.principal"}
    <2>1. a.shape \cup {"change_event.principal"} \in Shapes
      BY <1>1 DEF Files, Shapes, Reservations
    <2> QED BY <1>1, <2>1, ReshapedTyped DEF Files
  <1>3. b = IF a.version <= 7 THEN Schema(p) ELSE a
    BY DEF From7, MigrateV7toV8
  <1> HIDE DEF p, b
  <1>4. /\ b \in Files /\ b.events = g.events /\ b.revisions = g.revisions /\ b.apps = g.apps
        /\ a.version <= 7 => b.shape = a.shape \cup {"change_event.principal"} \cup NewTables
        /\ ~(a.version <= 7) => b.shape = a.shape
    <2>1. CASE a.version <= 7
      <3>1. b = Schema(p)
        BY <1>3, <2>1
      <3>2. b \in Files
        BY <1>2, <3>1, SchemaTyped
      <3>3. b.events = p.events /\ b.revisions = p.revisions /\ b.apps = p.apps /\ b.shape = p.shape \cup NewTables
        BY <1>2, <3>1 DEF Schema, Files
      <3> QED BY <1>1, <1>2, <2>1, <3>2, <3>3
    <2>2. CASE ~(a.version <= 7)
      BY <1>1, <1>3, <2>2
    <2> QED BY <2>1, <2>2
  <1>5. /\ c.events = b.events /\ c.revisions = b.revisions /\ c.apps = b.apps
        /\ c.shape = b.shape \cup SkillColumns \cup NewTables
        /\ [c EXCEPT !.version = SCHEMA_VERSION].version = SCHEMA_VERSION
        /\ \A x \in {"events", "revisions", "apps", "shape"} : [c EXCEPT !.version = SCHEMA_VERSION][x] = c[x]
    BY <1>4 DEF MigrateV8toV9, Schema, Files
  <1>6. h = [c EXCEPT !.version = SCHEMA_VERSION]
    BY Zenon DEF c, b, a
  <1> HIDE DEF c
  <1>7. h.events = c.events /\ h.revisions = c.revisions /\ h.apps = c.apps /\ h.shape = c.shape /\ h.version = SCHEMA_VERSION
    BY <1>5, <1>6
  <1> QED BY <1>1, <1>4, <1>5, <1>7

\* The climb, from any version a build speaks of.
LEMMA ClimbIsKept ==
  ASSUME NEW f \in Files, f.version \in 4 .. SCHEMA_VERSION - 1, AsBuilt(f), ~ RefusedClimb(f)
  PROVE  ClimbKeeps(f, Climb(f)) /\ AsBuilt(Climb(f))
  <1> DEFINE g == From4(f)
             k == From5(g)
             h == Climb(f)
  <1>1. /\ g \in Files /\ g.events = f.events /\ g.revisions = f.revisions /\ g.apps = f.apps /\ g.version = f.version
        /\ g.shape = IF f.version = 4 THEN f.shape \ (Reservations \cup SideTables) ELSE f.shape
    <2>1. f.shape \ (Reservations \cup SideTables) \in Shapes
      BY DEF Files, Shapes
    <2> QED BY <2>1, ReshapedTyped DEF From4, MigrateV4toV5, Files
  <1>2. f.shape = ShapeOf(f.version) /\ (f.version <= 5 => Written(f))
    BY DEF AsBuilt, Spoken, SCHEMA_VERSION
  <1>3. f.version \in {4, 5, 6, 7, 8}
    BY DEF SCHEMA_VERSION
  <1>4. h = [MigrateV8toV9(From7(From6(k))) EXCEPT !.version = SCHEMA_VERSION]
    BY DEF Climb
  <1>5. f.version <= 5 => ~ RefusedV5toV6(g)
    BY DEF RefusedClimb
  <1>6. k = IF f.version <= 5 THEN MigrateV5toV6(g) ELSE g
    BY <1>1 DEF From5
  <1> HIDE DEF g, k, h
  <1>a. k \in Files =>
          /\ h.events = k.events /\ h.revisions = k.revisions /\ h.apps = k.apps /\ h.version = SCHEMA_VERSION
          /\ h.shape = k.shape \cup NewTables \cup SkillColumns
                         \cup (IF k.version <= 7 THEN {"change_event.principal"} ELSE {})
    BY <1>4, LaterRungs, Zenon
  <1>7. CASE f.version \in {4, 5}
    <2>1. ~ RefusedV5toV6(g) /\ k = MigrateV5toV6(g) /\ k \in Files
      BY <1>1, <1>5, <1>6, <1>7, MovedTyped
    <2>2. Written(g)
      BY <1>1, <1>2, <1>7, SameRows
    <2>3. k.events = g.events /\ k.version = f.version /\ k.shape = (g.shape \ {"html"}) \cup {"ui", "app_history.manifest"} \cup NewTables
      BY <1>1, <2>1, <2>2, MovedIs
    <2>4. /\ h.events = g.events /\ h.revisions = MigrateV5toV6(g).revisions /\ h.apps = MigrateV5toV6(g).apps
          /\ h.version = SCHEMA_VERSION
          /\ h.shape = k.shape \cup NewTables \cup SkillColumns \cup {"change_event.principal"}
      BY <1>a, <1>7, <2>1, <2>3
    <2>5. AllThere(g, h) /\ RevisionsCarry(g, h) /\ HeadsCarry(g, h)
      BY <1>1, <2>1, <2>2, <2>4, RungLosesNothing, RungCarriesRevisions, RungCarriesHeads
    <2>6. ClimbKeeps(f, h)
      BY <1>1, <1>7, <2>5, SameRows, ClimbKeepsIs
    <2>7. g.shape = {"html"}
      BY <1>1, <1>2, <1>7 DEF ShapeOf, Reservations, SideTables
    <2>8. h.shape = ShapeOf(SCHEMA_VERSION)
      BY <2>3, <2>4, <2>7 DEF ShapeOf, SCHEMA_VERSION
    <2>9. AsBuilt(h)
      BY <2>4, <2>8 DEF AsBuilt, SCHEMA_VERSION
    <2> QED BY <2>6, <2>9 DEF h
  <1>8. CASE f.version \in {6, 7, 8}
    <2>1. k = g /\ f.version > 5
      BY <1>6, <1>8
    <2>2. /\ h.events = f.events /\ h.revisions = f.revisions /\ h.apps = f.apps /\ h.version = SCHEMA_VERSION
          /\ h.shape = f.shape \cup NewTables \cup SkillColumns
                         \cup (IF f.version <= 7 THEN {"change_event.principal"} ELSE {})
      BY <1>1, <1>a, <1>8, <2>1
    <2>3. ClimbKeeps(f, h)
      BY <2>1, <2>2, ClimbKeepsIs
    <2>4. h.shape = ShapeOf(SCHEMA_VERSION)
      BY <1>2, <1>8, <2>2 DEF ShapeOf, SCHEMA_VERSION, NewTables
    <2>5. AsBuilt(h)
      BY <2>2, <2>4 DEF AsBuilt, SCHEMA_VERSION
    <2> QED BY <2>3, <2>5 DEF h
  <1> QED BY <1>3, <1>7, <1>8

\* The engine before this release leaves what it found, and what it adds is its own.
LEMMA OldDeleteWritten ==
  ASSUME NEW f \in Files, Written(f), NEW name \in AppNames, NEW table \in AppNames,
         name # table => \E i \in SavesOf(f, table) : f.events[i].name = name
  PROVE  Written(OldDelete(f, name, table))
  <1> DEFINE n == Len(f.events)
             event == [type |-> "component_deleted", name |-> name, ts |-> n + 1, table |-> table, version |-> 0]
             g == OldDelete(f, name, table)
  <1>1. g.events = Append(f.events, event) /\ g.revisions = f.revisions /\ g.apps = f.apps \ RowsOf(f, table)
    BY DEF OldDelete, Files
  <1> HIDE DEF g
  <1>2. f.events \in Seq(Events) /\ n \in Nat /\ DOMAIN f.events = 1..n
    BY DEF Files
  <1>3. DOMAIN g.events = 1..(n + 1) /\ g.events[n + 1] = event /\ \A i \in 1..n : g.events[i] = f.events[i]
    BY <1>1, <1>2
  <1>4. event.type # "component_saved" /\ event.name = name /\ event.table = table
    OBVIOUS
  <1> HIDE DEF event
  <1>5. SaveEvents(g) = SaveEvents(f) /\ Deletes(g) = Deletes(f) \cup {n + 1} /\ SaveEvents(f) \subseteq 1..n
    <2>1. \A i \in 1..(n + 1) : i = n + 1 \/ i \in 1..n
      BY <1>2
    <2>2. SaveEvents(g) = SaveEvents(f)
      BY <1>2, <1>3, <1>4, <2>1 DEF SaveEvents
    <2> QED BY <1>2, <1>3, <2>1, <2>2 DEF Deletes, SaveEvents
  <1>6. \A i \in SaveEvents(f) : g.events[i] = f.events[i]
    BY <1>3, <1>5
  <1>7. ASSUME NEW i \in Deletes(g)
        PROVE  \/ g.events[i].name = g.events[i].table
               \/ \E j \in SaveEvents(g) : /\ j < i /\ g.events[j].name = g.events[i].name
                                           /\ g.events[j].table = g.events[i].table
    <2>1. CASE i = n + 1
      <3> SUFFICES ASSUME name # table
                   PROVE  \E j \in SaveEvents(g) : j < i /\ g.events[j].name = name /\ g.events[j].table = table
        BY <1>3, <1>4, <2>1
      <3>1. PICK j \in SaveEvents(f) : f.events[j].table = table /\ f.events[j].name = name
        BY DEF SavesOf
      <3>2. j \in 1..n
        BY <1>5
      <3> QED BY <1>2, <1>5, <1>6, <2>1, <3>1, <3>2
    <2>2. CASE i # n + 1
      <3>1. i \in Deletes(f) /\ g.events[i] = f.events[i]
        BY <1>2, <1>3, <1>5, <2>2 DEF Deletes
      <3> QED BY <1>5, <1>6, <3>1 DEF Written
    <2> QED BY <2>1, <2>2
  <1>8. ASSUME NEW i \in SaveEvents(g)
        PROVE  /\ g.events[i].version \in 1 .. i
               /\ \E r \in g.revisions : /\ r.name = g.events[i].table /\ r.version = g.events[i].version
                                         /\ r.ts = g.events[i].ts
               /\ \A j \in SaveEvents(g) :
                    g.events[j].table = g.events[i].table /\ g.events[j].version = g.events[i].version => i = j
    BY <1>1, <1>5, <1>6 DEF Written
  <1>9. \A r \in g.revisions : \E i \in SaveEvents(g) : r.name = g.events[i].table /\ r.version = g.events[i].version
    BY <1>1, <1>5, <1>6 DEF Written
  <1>10. /\ \A r, s \in g.revisions : r.name = s.name /\ r.version = s.version => r = s
         /\ \A a, b \in g.apps : a.name = b.name => a = b
    BY <1>1 DEF Written
  <1>11. Written(g)
    BY <1>7, <1>8, <1>9, <1>10 DEF Written
  <1> QED BY <1>11 DEF g

LEMMA OldSaveWritten ==
  ASSUME NEW f \in Files, Written(f), NEW name \in AppNames, NEW table \in AppNames, NEW counted \in BOOLEAN,
         NEW block, NEW column, NEW sameTick \in BOOLEAN
  PROVE  Written(OldSave(f, name, table, counted, block, column, sameTick))
  <1> DEFINE n == Len(f.events)
             at == Len(f.events) + 1
             ts == IF sameTick /\ at > 1 THEN f.events[at - 1].ts ELSE at
             version == IF counted THEN 1 + Max({0} \cup Numbers(f, table)) ELSE at
             event == [type |-> "component_saved", name |-> name, ts |-> ts, table |-> table, version |-> version]
             row == [name |-> table, version |-> version, ts |-> ts, block |-> block, manifest |-> Nil]
             head == [name |-> table, block |-> block, manifest |-> column]
             g == OldSave(f, name, table, counted, block, column, sameTick)
  <1>1. /\ g.events = Append(f.events, event) /\ g.revisions = f.revisions \cup {row}
        /\ g.apps = (f.apps \ RowsOf(f, table)) \cup {head}
    <2>1. g = [f EXCEPT !.events = Append(f.events, event), !.revisions = f.revisions \cup {row},
                        !.apps = (f.apps \ RowsOf(f, table)) \cup {head}]
      <3> HIDE DEF ts, version
      <3> QED BY Zenon DEF OldSave, ts, version
    <2> HIDE DEF event, row, head, g
    <2> QED BY <2>1 DEF Files
  <1> HIDE DEF g
  <1>2. f.events \in Seq(Events) /\ n \in Nat /\ DOMAIN f.events = 1..n
    BY DEF Files
  <1>3. \A y \in Numbers(f, table) : y \in 1..n
    <2> SUFFICES ASSUME NEW r \in f.revisions, r.name = table PROVE r.version \in 1..n
      BY DEF Numbers
    <2>1. PICK i \in SaveEvents(f) : r.version = f.events[i].version
      BY DEF Written
    <2>2. i \in 1..n /\ f.events[i].version \in 1..i
      BY <2>1, OwnIs
    <2> QED BY <1>2, <2>1, <2>2
  <1>4. version \in 1 .. n + 1 /\ version \notin Numbers(f, table)
    <2>1. /\ Max({0} \cup Numbers(f, table)) \in {0} \cup Numbers(f, table)
          /\ \A y \in Numbers(f, table) : y <= Max({0} \cup Numbers(f, table))
      BY NextNumber
    <2> DEFINE m == Max({0} \cup Numbers(f, table))
    <2>a. m \in {0} \cup Numbers(f, table) /\ \A y \in Numbers(f, table) : y <= m
      BY <2>1
    <2> HIDE DEF m
    <2>2. m \in 0..n /\ \A y \in Numbers(f, table) : y <= m
      BY <1>2, <1>3, <2>a
    <2>3. version = IF counted THEN 1 + m ELSE n + 1
      BY DEF m
    <2> HIDE DEF version
    <2> QED BY <1>2, <1>3, <2>2, <2>3
  <1> HIDE DEF ts, version
  <1>5. /\ event.type = "component_saved" /\ event.name = name /\ event.table = table /\ event.version = version
        /\ event.ts = ts
        /\ row.name = table /\ row.version = version /\ row.ts = ts /\ head.name = table
    OBVIOUS
  <1> HIDE DEF event, row, head
  <1>6. DOMAIN g.events = 1..(n + 1) /\ g.events[n + 1] = event /\ \A i \in 1..n : g.events[i] = f.events[i]
    BY <1>1, <1>2
  <1>7. /\ SaveEvents(g) = SaveEvents(f) \cup {n + 1} /\ Deletes(g) = Deletes(f)
        /\ SaveEvents(f) \subseteq 1..n /\ Deletes(f) \subseteq 1..n
    <2>1. \A i \in 1..(n + 1) : i = n + 1 \/ i \in 1..n
      BY <1>2
    <2>2. SaveEvents(g) = SaveEvents(f) \cup {n + 1}
      BY <1>2, <1>5, <1>6, <2>1 DEF SaveEvents
    <2> QED BY <1>2, <1>6, <2>1, <2>2 DEF Deletes, SaveEvents
  <1>8. ASSUME NEW r \in f.revisions, r.name = table, r.version = version PROVE FALSE
    BY <1>4, <1>8 DEF Numbers
  <1>9. \A i \in SaveEvents(f) : ~(f.events[i].table = table /\ f.events[i].version = version)
    BY <1>8, OwnIs
  <1>10. \A r, s \in g.revisions : r.name = s.name /\ r.version = s.version => r = s
    BY <1>1, <1>5, <1>8 DEF Written
  <1>11. \A a, b \in g.apps : a.name = b.name => a = b
    BY <1>1, <1>5 DEF Written, RowsOf
  <1>12. ASSUME NEW i \in SaveEvents(g)
         PROVE  /\ g.events[i].version \in 1 .. i
                /\ \E r \in g.revisions : /\ r.name = g.events[i].table /\ r.version = g.events[i].version
                                          /\ r.ts = g.events[i].ts
                /\ \A j \in SaveEvents(g) :
                     g.events[j].table = g.events[i].table /\ g.events[j].version = g.events[i].version => i = j
    <2>1. CASE i = n + 1
      <3>1. \A j \in SaveEvents(f) : g.events[j] = f.events[j]
        BY <1>6, <1>7
      <3> QED BY <1>1, <1>4, <1>5, <1>6, <1>7, <1>9, <2>1, <3>1
    <2>2. CASE i # n + 1
      <3>1. i \in SaveEvents(f) /\ g.events[i] = f.events[i] /\ \A j \in SaveEvents(f) : g.events[j] = f.events[j]
        BY <1>6, <1>7, <2>2
      <3>2. f.events[i].version \in 1..i
        BY <3>1 DEF Written
      <3>3. \E r \in g.revisions : r.name = f.events[i].table /\ r.version = f.events[i].version /\ r.ts = f.events[i].ts
        BY <1>1, <3>1 DEF Written
      <3>4. ASSUME NEW j \in SaveEvents(g), g.events[j].table = f.events[i].table, g.events[j].version = f.events[i].version
            PROVE  i = j
        <4>1. j # n + 1
          BY <1>5, <1>6, <1>9, <3>1, <3>4
        <4>2. j \in SaveEvents(f)
          BY <1>7, <4>1
        <4> QED BY <3>1, <3>4, <4>2 DEF Written
      <3> QED BY <3>1, <3>2, <3>3, <3>4
    <2> QED BY <2>1, <2>2
  <1>13. ASSUME NEW r \in g.revisions
         PROVE  \E i \in SaveEvents(g) : r.name = g.events[i].table /\ r.version = g.events[i].version
    <2>1. CASE r = row
      BY <1>5, <1>6, <1>7, <2>1
    <2>2. CASE r \in f.revisions
      <3>1. PICK i \in SaveEvents(f) : r.name = f.events[i].table /\ r.version = f.events[i].version
        BY <2>2 DEF Written
      <3> QED BY <1>6, <1>7, <3>1
    <2> QED BY <1>1, <2>1, <2>2
  <1>14. ASSUME NEW i \in Deletes(g)
         PROVE  \/ g.events[i].name = g.events[i].table
                \/ \E j \in SaveEvents(g) : /\ j < i /\ g.events[j].name = g.events[i].name
                                            /\ g.events[j].table = g.events[i].table
    <2>1. i \in Deletes(f) /\ g.events[i] = f.events[i] /\ \A j \in SaveEvents(f) : g.events[j] = f.events[j]
      BY <1>6, <1>7
    <2> QED BY <1>7, <2>1 DEF Written
  <1>15. Written(g)
    BY <1>10, <1>11, <1>12, <1>13, <1>14 DEF Written
  <1> QED BY <1>15 DEF g

----------------------------------------------------------------------------
(* Whoever opens the store first: the machine's stores are as builds leave *)
(* them, and one that climbed kept what it declared.                       *)

ClimbInv ==
  /\ store # Nil => AsBuilt(store.file)
  /\ clone # Nil => AsBuilt(clone.db.file) /\ (clone.wal # Nil => AsBuilt(clone.wal.file))
  /\ store = Nil => origin = Nil
  /\ tool.pc = "copy wal" /\ "store" \notin excused => origin = Nil
  /\ store # Nil /\ store.file.version = SCHEMA_VERSION /\ "store" \notin excused /\ origin # Nil =>
       ClimbKeeps(origin, store.file)

\* The versions: those that climb, the schema's own, and those the code does not speak.
LEMMA VersionsAre ==
  /\ \A v \in 4 .. SCHEMA_VERSION - 1 : v < SCHEMA_VERSION
  /\ ~ (SCHEMA_VERSION < SCHEMA_VERSION)
  /\ \A v \in Nat : v \notin 4 .. SCHEMA_VERSION - 1 /\ v # SCHEMA_VERSION => v \notin Spoken
  BY DEF SCHEMA_VERSION, Spoken

LEMMA CurrentShape == ASSUME NEW f, AsBuilt(f), f.version = SCHEMA_VERSION PROVE f.shape = ShapeOf(SCHEMA_VERSION)
  <1>1. SCHEMA_VERSION \in Spoken
    BY DEF Spoken, SCHEMA_VERSION
  <1>2. f.version \in Spoken
    BY <1>1
  <1>3. f.shape = ShapeOf(f.version)
    BY <1>2 DEF AsBuilt
  <1> QED BY <1>3

LEMMA ShapeOfNine ==
  ShapeOf(SCHEMA_VERSION) = {"ui", "app_history.manifest", "change_event.principal"} \cup NewTables \cup SkillColumns
  BY DEF ShapeOf, SCHEMA_VERSION

LEMMA FreshIsAsBuilt == AsBuilt(FreshStore)
  <1>1. FreshStore.version = SCHEMA_VERSION /\ FreshStore.shape = ShapeOf(SCHEMA_VERSION)
    BY DEF FreshStore
  <1>2. ~ (FreshStore.version <= 5)
    BY <1>1 DEF SCHEMA_VERSION
  <1> QED BY <1>1, <1>2 DEF AsBuilt

LEMMA ClimbInvSuffices == ClimbInv => ClimbKeepsDeclarations
  BY CurrentShape DEF ClimbInv, ClimbKeepsDeclarations

LEMMA ClimbInitInv == MachineInit => ClimbInv
  <1> SUFFICES ASSUME NEW configs, NEW block, NEW shared, NEW cloned,
                      StartsWith(configs, block, shared, cloned),
                      shared # Nil => AsBuilt(shared.file),
                      cloned # Nil => AsBuilt(cloned.db.file) /\ (cloned.wal # Nil => AsBuilt(cloned.wal.file))
               PROVE  ClimbInv
    BY DEF MachineInit
  <1>1. store = shared /\ clone = cloned /\ origin = Nil
    BY DEF StartsWith
  <1> QED BY <1>1 DEF ClimbInv

\* A step that leaves the stores as they are.
LEMMA ClimbStays ==
  ASSUME ClimbInv, UNCHANGED <<store, clone, origin>>, excused \subseteq excused',
         tool'.pc = "copy wal" => tool.pc = "copy wal"
  PROVE  ClimbInv'
  BY DEF ClimbInv

\* Opening the store.
LEMMA ClimbOnOpening ==
  ASSUME MachineInv, ClimbInv, ~ ClimbRefused(store), NEW s \in Stores, s.file = OpenStore(store).file, store' = s,
         origin' = IF store # Nil /\ store.file.version < SCHEMA_VERSION THEN store.file ELSE origin,
         clone' = clone, excused \subseteq excused', tool'.pc = "copy wal" => "store" \in excused'
  PROVE  ClimbInv'
  <1>1. s # Nil /\ store \in Stores \cup {Nil}
    BY StoresAre DEF MachineInv, MachineTypes
  <1> SUFFICES /\ AsBuilt(s.file)
               /\ "store" \notin excused /\ origin' # Nil /\ s.file.version = SCHEMA_VERSION => ClimbKeeps(origin', s.file)
    BY <1>1 DEF ClimbInv
  <1>2. CASE store = Nil
    <2>1. s.file = FreshStore /\ origin' = Nil
      BY <1>2 DEF ClimbInv, OpenStore, Rows
    <2> QED BY <2>1, FreshIsAsBuilt
  <1>3. CASE store # Nil
    <2> DEFINE f == store.file
    <2>1. f \in Files /\ f # Nil /\ f.version \in Nat /\ AsBuilt(f) /\ store \in Stores
      BY <1>1, <1>3, StoresAre, NilIsNothing DEF Files, ClimbInv
    <2>2. s.file = Opened(f)
      BY <1>3, <2>1 DEF OpenStore, Stores
    <2> HIDE DEF f
    <2>3. CASE f.version \in 4 .. SCHEMA_VERSION - 1
      <3>0. f.version < SCHEMA_VERSION
        BY <2>3, VersionsAre
      <3>1. ~ RefusedClimb(f) /\ origin' = f
        BY <1>3, <3>0 DEF ClimbRefused, f
      <3>2. s.file = Climb(f)
        BY <2>1, <2>2, <2>3 DEF Opened
      <3> QED BY <2>1, <2>3, <3>1, <3>2, ClimbIsKept
    <2>4. CASE f.version \notin 4 .. SCHEMA_VERSION - 1
      <3>1. s.file = Schema(f)
        BY <2>1, <2>2, <2>4 DEF Opened
      <3>2. CASE f.version = SCHEMA_VERSION
        <4>1. f.shape = ShapeOf(SCHEMA_VERSION)
          BY <2>1, <3>2, CurrentShape
        <4>2. f.shape \cup NewTables = f.shape
          BY <4>1, ShapeOfNine DEF NewTables
        <4>3. Schema(f) = f
          BY <2>1, <4>2 DEF Schema, Files
        <4>a. ~ (store.file.version < SCHEMA_VERSION)
          BY <3>2, VersionsAre DEF f
        <4>4. origin' = origin
          BY <4>a
        <4> QED BY <1>3, <2>1, <3>1, <4>3, <4>4 DEF ClimbInv, f
      <3>3. CASE f.version # SCHEMA_VERSION
        <4>1. s.file.version = f.version
          BY <2>1, <3>1, SchemaTyped
        <4>2. f.version \notin Spoken
          BY <2>1, <2>4, <3>3, VersionsAre
        <4> QED BY <3>3, <4>1, <4>2 DEF AsBuilt
      <3> QED BY <3>2, <3>3
    <2> QED BY <2>3, <2>4
  <1> QED BY <1>2, <1>3

\* A server, a push or the installer's own build opens it; a copy or a purge replaces it.
LEMMA ClimbOnServer ==
  ASSUME MachineInv, ClimbInv, NEW x \in Servers, ServerGate(x) \/ ServerOpens(x) \/ ServerStops(x)
  PROVE  ClimbInv'
  <1>1. CASE ServerGate(x) \/ ServerStops(x)
    BY <1>1, ClimbStays DEF ServerGate, ServerStops, machine
  <1>2. CASE ServerOpens(x)
    <2>1. /\ ~ ClimbRefused(store) /\ store' = OpenStore(store) /\ UNCHANGED <<clone, tool>>
          /\ origin' = IF store # Nil /\ store.file.version < SCHEMA_VERSION THEN store.file ELSE origin
          /\ excused' = excused \cup (IF tool.pc \in {"copy", "copy wal"} THEN {"store"} ELSE {})
      BY <1>2 DEF ServerOpens, Open, HalfCopied
    <2>2. OpenStore(store) \in Stores
      BY <2>1, OpenTyped DEF MachineInv, MachineTypes
    <2> QED BY <2>1, <2>2, ClimbOnOpening
  <1> QED BY <1>1, <1>2

LEMMA ClimbOnPush ==
  ASSUME MachineInv, ClimbInv, NEW p \in Pushers,
         \/ \E build \in Pushes : StartPush(p, build)
         \/ PutAsset(p) \/ SaveTemplate(p) \/ PruneOne(p) \/ Pushed(p) \/ PushDies(p)
  PROVE  ClimbInv'
  <1>1. CASE \E build \in Pushes : StartPush(p, build)
    <2>1. /\ ~ ClimbRefused(store) /\ store' = OpenStore(store) /\ UNCHANGED <<clone, tool>>
          /\ origin' = IF store # Nil /\ store.file.version < SCHEMA_VERSION THEN store.file ELSE origin
          /\ excused' = excused \cup (IF tool.pc \in {"copy", "copy wal"} THEN {"store"} ELSE {})
      BY <1>1 DEF StartPush, Open, HalfCopied
    <2>2. OpenStore(store) \in Stores
      BY <2>1, OpenTyped DEF MachineInv, MachineTypes
    <2> QED BY <2>1, <2>2, ClimbOnOpening
  <1>2. CASE PutAsset(p) \/ SaveTemplate(p) \/ PruneOne(p) \/ Pushed(p) \/ PushDies(p)
    BY <1>2, ClimbStays DEF PutAsset, SaveTemplate, PruneOne, Pushed, PushDies, machineVars, machine
  <1> QED BY <1>1, <1>2

LEMMA ClimbOnPlacing ==
  ASSUME MachineInv, ClimbInv, CopyDb \/ CopyWal \/ Build \/ PurgeStore
  PROVE  ClimbInv'
  <1>1. CASE CopyDb
    <2>1. store' = clone.db /\ origin' = Nil /\ UNCHANGED <<clone, excused>>
      BY <1>1 DEF CopyDb
    <2>2. clone # Nil
      BY <1>1 DEF CopyDb, MachineInv, RowsKept
    <2> QED BY <2>1, <2>2 DEF ClimbInv
  <1>2. CASE CopyWal
    <2>1. store' = clone.wal /\ tool' = [tool EXCEPT !.pc = "build"] /\ UNCHANGED <<clone, excused, origin>>
          /\ tool.pc = "copy wal"
      BY <1>2 DEF CopyWal
    <2>2. clone # Nil /\ clone.wal # Nil
      BY <2>1 DEF MachineInv, RowsKept
    <2>3. tool'.pc = "build"
      BY <2>1 DEF MachineInv, MachineTypes, Runs
    <2> QED BY <2>1, <2>2, <2>3 DEF ClimbInv
  <1>3. CASE Build
    <2>1. /\ ~ ClimbRefused(store) /\ store' = OpenStore(store) /\ UNCHANGED <<clone, excused>>
          /\ origin' = IF store # Nil /\ store.file.version < SCHEMA_VERSION THEN store.file ELSE origin
          /\ tool' = [tool EXCEPT !.pc = "hosts"]
      BY <1>3 DEF Build, Open
    <2>2. OpenStore(store) \in Stores
      BY <2>1, OpenTyped DEF MachineInv, MachineTypes
    <2>3. tool'.pc = "hosts"
      BY <2>1 DEF MachineInv, MachineTypes, Runs
    <2> QED BY <2>1, <2>2, <2>3, ClimbOnOpening
  <1>4. CASE PurgeStore
    BY <1>4 DEF PurgeStore, ClimbInv
  <1> QED BY <1>1, <1>2, <1>3, <1>4

LEMMA ClimbOnOldEngine == ASSUME MachineInv, ClimbInv, OldEngine PROVE ClimbInv'
  <1> DEFINE f == store.file
  <1>1. store # Nil /\ f.version = 4 /\ UNCHANGED <<clone, tool, excused, origin>>
    BY DEF OldEngine
  <1>2. store \in Stores /\ f \in Files /\ f.shape = ShapeOf(4) /\ Written(f)
    <2>1. store \in Stores /\ f \in Files
      BY <1>1 DEF MachineInv, MachineTypes, Stores
    <2>2. f.version \in Spoken /\ f.version <= 5
      BY <1>1 DEF Spoken, SCHEMA_VERSION
    <2>3. AsBuilt(f)
      BY <1>1 DEF ClimbInv
    <2> HIDE DEF f
    <2> QED BY <1>1, <2>1, <2>2, <2>3 DEF AsBuilt
  <1>3. PICK name, table \in {"a", "b"} :
          \/ \E block \in Blocks, counted, sameTick \in BOOLEAN :
               \E column \in Projections(f, table, block) :
                 store' = [store EXCEPT !.file = OldSave(f, name, table, counted, block, column, sameTick)]
          \/ /\ name # table => \E i \in SavesOf(f, table) : f.events[i].name = name
             /\ store' = [store EXCEPT !.file = OldDelete(f, name, table)]
    BY DEF OldEngine
  <1>4. name \in AppNames /\ table \in AppNames
    BY <1>3, OldNames
  <1> HIDE DEF f
  <1>5. PICK g : g \in Files /\ store' = [store EXCEPT !.file = g] /\ Written(g) /\ g.shape = f.shape /\ g.version = f.version
    <2>1. CASE \E block \in Blocks, counted, sameTick \in BOOLEAN :
                 \E column \in Projections(f, table, block) :
                   store' = [store EXCEPT !.file = OldSave(f, name, table, counted, block, column, sameTick)]
      <3>1. PICK block \in Blocks, counted \in BOOLEAN, sameTick \in BOOLEAN :
                 \E column \in Projections(f, table, block) :
                   store' = [store EXCEPT !.file = OldSave(f, name, table, counted, block, column, sameTick)]
        BY <2>1
      <3>2. PICK column \in Projections(f, table, block) :
                   store' = [store EXCEPT !.file = OldSave(f, name, table, counted, block, column, sameTick)]
        BY <3>1
      <3> DEFINE g == OldSave(f, name, table, counted, block, column, sameTick)
      <3>3. g \in Files /\ Written(g)
        BY <1>2, <1>4, OldSaveTyped, OldSaveWritten
      <3>4. g.shape = f.shape /\ g.version = f.version
        BY <1>2 DEF OldSave, Files
      <3> HIDE DEF g
      <3>5. store' = [store EXCEPT !.file = g]
        BY <3>2 DEF g
      <3> QED BY <3>3, <3>4, <3>5
    <2>2. CASE /\ name # table => \E i \in SavesOf(f, table) : f.events[i].name = name
               /\ store' = [store EXCEPT !.file = OldDelete(f, name, table)]
      <3> DEFINE g == OldDelete(f, name, table)
      <3>1. g \in Files /\ Written(g)
        BY <1>2, <1>4, <2>2, OldDeleteTyped, OldDeleteWritten
      <3>2. g.shape = f.shape /\ g.version = f.version
        BY <1>2 DEF OldDelete, Files
      <3> HIDE DEF g
      <3>3. store' = [store EXCEPT !.file = g]
        BY <2>2 DEF g
      <3> QED BY <3>1, <3>2, <3>3
    <2> QED BY <1>3, <2>1, <2>2
  <1>6. store'.file = g
    BY <1>2, <1>5 DEF Stores
  <1>7. AsBuilt(g) /\ g.version # SCHEMA_VERSION
    BY <1>1, <1>2, <1>5 DEF AsBuilt, SCHEMA_VERSION, f
  <1>8. store' # Nil
    <2>1. store' \in Stores
      BY <1>2, <1>5 DEF Stores
    <2> QED BY <2>1, StoresAre
  <1> QED BY <1>1, <1>6, <1>7, <1>8 DEF ClimbInv

\* The seeders and the user write rows; the file's apps and ledger are not among them.
LEMMA ClimbOnRows ==
  ASSUME MachineInv, SeedersHold, ClimbInv,
         \/ \E x \in Openers : LookAtRetired(x) \/ RetireRenamed(x) \/ LookAtSystemApp(x) \/ SaveSystemApp(x)
         \/ \E s \in Servers, r \in {"app", "library"}, row \in {Users, Nil} : UserSaves(s, r, row)
  PROVE  ClimbInv'
  <1>1. UNCHANGED <<clone, tool, origin>> /\ excused \subseteq excused'
    BY DEF LookAtRetired, RetireRenamed, LookAtSystemApp, SaveSystemApp, UserSaves, machine
  <1>2. store \in Stores /\ store # Nil
    BY StoresAre DEF LookAtRetired, RetireRenamed, LookAtSystemApp, SaveSystemApp, UserSaves, SeedersHold,
                     MachineInv, MachineTypes
  <1>3. store'.file = store.file /\ store' # Nil
    <2>1. CASE store' = store
      BY <1>2, <2>1
    <2>2. CASE store' # store
      <3>1. \E r, row : SetsRow(store, store', r, row)
        <4>0. store.seeded \in SUBSET (Pages \cup {"seed"})
          BY <1>2 DEF Stores
        <4>1. CASE \E x \in Openers : RetireRenamed(x)
          <5> DEFINE seeded == store.seeded \cup {"seed"}
          <5>1. store' = [store EXCEPT !.library = Nil, !.seeded = seeded]
            BY <2>2, <4>1 DEF RetireRenamed
          <5>2. seeded \in SUBSET (Pages \cup {"seed"})
            BY <4>0
          <5> HIDE DEF seeded
          <5>3. SetsRow(store, store', "library", Nil)
            BY <1>2, <5>1, <5>2, LibrarySet
          <5> QED BY <5>3
        <4>2. CASE \E x \in Openers : SaveSystemApp(x)
          <5>1. PICK x \in Openers : SaveSystemApp(x)
            BY <4>2
          <5> DEFINE page == PageOf(x)
                     seeded == store.seeded \cup {page}
          <5>2. store' = [store EXCEPT !.app = page, !.seeded = seeded]
            BY <2>2, <5>1 DEF SaveSystemApp
          <5>3. seeded \in SUBSET (Pages \cup {"seed"}) /\ page \in Pages
            BY <4>0, PageIs
          <5> HIDE DEF page, seeded
          <5>4. SetsRow(store, store', "app", page)
            BY <1>2, <5>2, <5>3, AppSet
          <5> QED BY <5>4
        <4>3. CASE \E s \in Servers, r \in {"app", "library"}, row \in {Users, Nil} : UserSaves(s, r, row)
          <5>1. PICK r \in {"app", "library"}, row \in {Users, Nil} : store' = [store EXCEPT ![r] = row]
            BY <4>3 DEF UserSaves
          <5> QED BY <1>2, <5>1, UserSets
        <4> QED BY <2>2, <4>1, <4>2, <4>3 DEF LookAtRetired, LookAtSystemApp, machine
      <3>2. store' \in Stores /\ store'.file = store.file
        BY <3>1 DEF SetsRow
      <3> QED BY <3>2, StoresAre
    <2> QED BY <2>1, <2>2
  <1> QED BY <1>1, <1>2, <1>3 DEF ClimbInv

\* The other steps of the tools and the user.
LEMMA ClimbElsewhere ==
  ASSUME MachineInv, ClimbInv,
         \/ \E selected \in SUBSET Detected : \/ \E fresh \in BOOLEAN : StartInstall(selected, fresh)
                                              \/ \E purge \in BOOLEAN : StartUninstall(selected, purge)
         \/ BuildFails \/ AddFails \/ Crash \/ Read \/ Kept \/ ReadHost \/ Summary
         \/ WriteDesktop \/ ApplyByCli \/ AddByCli \/ RemoveHost
         \/ \E x \in Detected, env \in {e \in Envs : ~ CarriesStaleEnv(e)}, others \in BOOLEAN : Edit(x, env, others)
  PROVE  ClimbInv'
  <1>0. tool \in Runs
    BY DEF MachineInv, MachineTypes
  <1>1. CASE \E selected \in SUBSET Detected : \/ \E fresh \in BOOLEAN : StartInstall(selected, fresh)
                                              \/ \E purge \in BOOLEAN : StartUninstall(selected, purge)
    BY <1>0, <1>1, ClimbStays DEF StartInstall, StartUninstall, Idle, machine
  <1>2. CASE BuildFails \/ AddFails \/ Crash \/ Read \/ Kept
    <2>1. UNCHANGED <<store, clone, origin>> /\ excused \subseteq excused' /\ tool' = Idle
      BY <1>2 DEF BuildFails, AddFails, Crash, Read, Kept, machine
    <2>2. Idle.pc # "copy wal"
      BY DEF Idle
    <2> QED BY <2>1, <2>2, ClimbStays
  <1>3. CASE ReadHost \/ Summary
    <2>1. UNCHANGED <<store, clone, origin>> /\ excused \subseteq excused'
      BY <1>3 DEF ReadHost, Summary, machine
    <2>2. tool'.pc # "copy wal"
      BY <1>0, <1>3 DEF ReadHost, Summary, Runs
    <2> QED BY <2>1, <2>2, ClimbStays
  <1>4. CASE WriteDesktop \/ ApplyByCli \/ AddByCli
    <2>1. \A t \in Runs : HostDone(t).pc = "hosts"
      BY DEF HostDone, Runs
    <2>2. ASSUME WriteDesktop \/ AddByCli PROVE ClimbInv'
      BY <1>0, <2>1, <2>2, ClimbStays DEF WriteDesktop, AddByCli
    <2>3. ASSUME ApplyByCli PROVE ClimbInv'
      <3>1. UNCHANGED <<store, clone, origin, excused>>
        BY <2>3 DEF ApplyByCli
      <3>2. tool'.pc \in {"add", "hosts"}
        <4> DEFINE byHand == IF tool.state.unreadable /\ tool.state.status = "stale" THEN tool.byHand \cup {host} ELSE tool.byHand
        <4>1. tool' = [tool EXCEPT !.pc = "add"] \/ tool' = HostDone([tool EXCEPT !.byHand = byHand])
          BY <2>3 DEF ApplyByCli
        <4>2. [tool EXCEPT !.pc = "add"].pc = "add"
          BY <1>0 DEF Runs
        <4> HIDE DEF byHand
        <4>3. HostDone([tool EXCEPT !.byHand = byHand]).pc = "hosts"
          BY <1>0 DEF HostDone, Runs
        <4> QED BY <4>1, <4>2, <4>3
      <3> QED BY <3>1, <3>2, ClimbStays
    <2> QED BY <1>4, <2>2, <2>3
  <1>5. CASE RemoveHost
    BY <1>0, <1>5, ClimbStays DEF RemoveHost, Runs
  <1>6. CASE \E x \in Detected, env \in {e \in Envs : ~ CarriesStaleEnv(e)}, others \in BOOLEAN : Edit(x, env, others)
    BY <1>6, ClimbStays DEF Edit
  <1> QED BY <1>1, <1>2, <1>3, <1>4, <1>5, <1>6

\* openStore's ladder: however the old engine wrote its apps, and whichever server, push or installer opens
\* the store first, what the documents declared is what the store declares after the climb.
THEOREM DeclarationsAreKept == MachineSpec => []ClimbKeepsDeclarations
  <1>1. MachineInit => ClimbInv
    BY ClimbInitInv
  <1>2. ASSUME MachineInv, SeedersHold, ClimbInv, InstallNext PROVE ClimbInv'
    BY <1>2, ClimbOnPlacing, ClimbOnServer, ClimbOnOldEngine, ClimbOnRows, ClimbElsewhere DEF InstallNext
  <1>3. ASSUME MachineInv, SeedersHold, ClimbInv, [MachineNext]_allVars PROVE ClimbInv'
    <2>1. CASE UNCHANGED allVars
      BY <1>3, <2>1, ClimbStays DEF allVars, machineVars, machine
    <2> QED BY <1>2, <1>3, <2>1, ClimbOnPush DEF MachineNext, Tools
  <1>4. ClimbInv => ClimbKeepsDeclarations
    BY ClimbInvSuffices
  <1> QED BY <1>1, <1>3, <1>4, MachineInvariance, PTL DEF MachineSpec

=============================================================================
