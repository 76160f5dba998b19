------------------------- MODULE FileChannelProofs -------------------------
(***************************************************************************)
(* The file channel for any number of paths, contents, operations and      *)
(* crashes: types, and that a file is left without its bytes only in the   *)
(* two windows the model names.                                            *)
(*                                                                         *)
(* A put that found its blob missing leans on the age guard: the blob it   *)
(* writes is fresh while the put is under way, and a GC that looks at it   *)
(* leaves it alone.  A put that found the blob there leans on its second   *)
(* write.  What can still unlink the bytes is a GC that has counted no ref *)
(* and has seen the blob old, and then the ref's put is yet to write.      *)
(***************************************************************************)
EXTENDS FileChannel, FiniteSetTheorems, TLAPS

Referred(s) == \E p \in Paths : ref[p] = s

\* The put of o found no blob, or has forgotten what it found: it will only look again.
Wrote(o) == At(o, "recheck") \/ (At(o, "commit") /\ op[o].had = FALSE)
Writing(s) == \E o \in Ops : At(o, "rewrite") /\ op[o].sha = s

\* A blob a GC took that it had not looked at is gone until it is written again.
RacedIsGone == \A s \in raced : blob[s] = None

\* While a put of a missing blob is under way the blob is young,
YoungWhilePut ==
  /\ \A o \in Ops : At(o, "stage") /\ op[o].had = FALSE => blob[op[o].sha] # "old"
  /\ \A o \in Ops : Wrote(o) => blob[op[o].sha] = "fresh" \/ op[o].sha \in raced

\* and what a GC is about to unlink, if it is what it looked at, is not.
UnlinksTheOld == \A o \in Ops : At(o, "unlink") /\ op[o].same = TRUE => blob[op[o].sha] # "fresh"

\* A file whose blob a GC has not counted a ref to will have its blob written.
CountedTooEarly ==
  \A o \in Ops, s \in Shas :
    /\ At(o, "stat") \/ (At(o, "unlink") /\ op[o].same = TRUE)
    /\ op[o].sha = s /\ Referred(s) /\ blob[s] = "old"
    => Writing(s) \/ s \in cut

\* LostOnlyInWindows, said of refs and not of their number.
Accounted ==
  \A s \in Shas : Referred(s) /\ blob[s] = None => Rescued(s) \/ s \in raced \/ s \in cut

Inv == TypeOK /\ RacedIsGone /\ YoungWhilePut /\ UnlinksTheOld /\ CountedTooEarly /\ Accounted

LEMMA RefcountIs ==
  ASSUME NEW s PROVE (Refcount(s) > 0 <=> Referred(s)) /\ (Refcount(s) = 0 <=> ~Referred(s))
  <1> DEFINE refs == {p \in Paths : ref[p] = s}
  <1>1. IsFiniteSet(refs)
    BY FilesAreFinite, FS_Subset
  <1>2. Cardinality(refs) \in Nat /\ (Cardinality(refs) = 0 <=> refs = {})
    BY <1>1, FS_CardinalityType, FS_EmptySet
  <1> QED BY <1>2 DEF Refcount, Referred

Places == {"stage", "commit", "recheck", "rewrite", "count", "stat", "unlink"}

LEMMA ShapeOf ==
  ASSUME TypeOK, NEW o \in Ops, op[o] # None
  PROVE  /\ op[o].at \in Places /\ op[o].sha \in Shas
         /\ op[o].at \in {"stage", "commit"} => op[o] \in PutAt
         /\ op[o].at \in {"recheck", "rewrite"} => op[o] \in AfterAt
         /\ op[o].at \in {"count", "stat", "unlink"} => op[o] \in GCAt
  <1>1. op[o] \in PutAt \cup AfterAt \cup GCAt
    BY DEF TypeOK
  <1> QED BY <1>1 DEF PutAt, AfterAt, GCAt, Places

LEMMA StepIs ==
  ASSUME TypeOK, NEW o \in Ops, NEW r, Step(o, r)
  PROVE  op'[o] = r /\ \A q \in Ops : q # o => op'[q] = op[q]
  BY DEF Step, TypeOK

\* What a GC or a put hands on to.
LEMMA HandsOn ==
  ASSUME NEW s \in Shas, NEW todo \in SUBSET Shas, NEW freed \in Shas \cup {None}
  PROVE  /\ GC(s, todo) \in GCAt /\ GC(s, todo).at = "count" /\ GC(s, todo).sha = s /\ GC(s, todo).same = TRUE
         /\ GC(s, todo) # None
         /\ LetGo(freed) = None \/ (LetGo(freed) # None /\ LetGo(freed) \in GCAt /\ LetGo(freed).at = "count"
                                    /\ LetGo(freed).same = TRUE)
  <1>1. \A x \in Shas, y \in SUBSET Shas :
          GC(x, y) \in GCAt /\ GC(x, y).at = "count" /\ GC(x, y).sha = x /\ GC(x, y).same = TRUE
    BY DEF GC, GCAt
  <1>2. \A x \in GCAt : x # None
    BY NoneIsNothing
  <1>3. freed = None => LetGo(freed) = None
    BY DEF LetGo
  <1>4. freed # None => LetGo(freed) = GC(freed, {})
    BY DEF LetGo
  <1> HIDE DEF GC
  <1> QED BY <1>1, <1>2, <1>3, <1>4

LEMMA DoneIs ==
  ASSUME TypeOK, NEW o \in Ops, op[o] # None, op[o] \in GCAt, Done(o)
  PROVE  \E r : /\ Step(o, r)
                /\ r = None \/ (r # None /\ r \in GCAt /\ r.at = "count" /\ r.same = TRUE)
  <1>1. op[o].todo \in SUBSET Shas
    BY DEF GCAt
  <1>2. CASE op[o].todo = {}
    <2>1. Step(o, None)
      BY <1>2 DEF Done
    <2> QED BY <2>1
  <1>3. CASE op[o].todo # {}
    <2>1. PICK s \in op[o].todo : Step(o, GC(s, op[o].todo \ {s}))
      BY <1>3 DEF Done
    <2>2. s \in Shas /\ op[o].todo \ {s} \in SUBSET Shas
      BY <1>1, <2>1
    <2>3. GC(s, op[o].todo \ {s}) \in GCAt /\ GC(s, op[o].todo \ {s}).at = "count"
          /\ GC(s, op[o].todo \ {s}).same = TRUE /\ GC(s, op[o].todo \ {s}) # None
      BY <2>2, HandsOn
    <2> QED BY <2>1, <2>3
  <1> QED BY <1>2, <1>3

LEMMA ReassertIs ==
  ASSUME NEW had \in BOOLEAN
  PROVE  (had = TRUE /\ Reassert(had) = "rewrite") \/ (had = FALSE /\ Reassert(had) = "recheck")
  <1>1. CASE had = TRUE
    BY <1>1, Zenon DEF Reassert
  <1>2. CASE had = FALSE
    BY <1>2, Zenon DEF Reassert
  <1> QED BY <1>1, <1>2

----------------------------------------------------------------------------
(* Types.                                                                  *)

Descriptors == PutAt \cup AfterAt \cup GCAt \cup {None}

\* A GC doubts its blob only before it unlinks.
Sure(r) == r \in GCAt => r.same = TRUE \/ r.at = "unlink"

LEMMA TypeInit == Init => TypeOK
  BY FilesAreFinite, NoneIsNothing DEF Init, TypeOK

\* One operation moves on, to a state an operation can be in.
LEMMA TypeMoves ==
  ASSUME TypeOK, NEW o \in Ops, NEW r \in Descriptors, Sure(r), Step(o, r)
  PROVE  op' \in [Ops -> Descriptors] /\ \A q \in Ops : op'[q] \in GCAt => op'[q].same \/ op'[q].at = "unlink"
  <1>1. op' \in [Ops -> Descriptors]
    BY DEF Step, TypeOK, Descriptors
  <1>2. \A q \in Ops : q # o => op'[q] = op[q]
    BY StepIs
  <1>3. op'[o] = r
    BY StepIs
  <1>4. r \in GCAt => r.same \/ r.at = "unlink"
    BY Zenon DEF Sure
  <1>5. \A q \in Ops : op'[q] \in GCAt => op'[q].same \/ op'[q].at = "unlink"
    BY <1>2, <1>3, <1>4, Zenon DEF TypeOK
  <1> QED BY <1>1, <1>5

LEMMA LandsIs ==
  ASSUME TypeOK, NEW o \in Ops, NEW s \in Shas, NEW r \in Descriptors, Sure(r), Lands(o, s, r)
  PROVE  /\ blob' = [blob EXCEPT ![s] = "fresh"] /\ raced' = raced \ {s} /\ cut' = cut \ {s}
         /\ op' \in [Ops -> Descriptors] /\ \A q \in Ops : op'[q] \in GCAt => op'[q].same \/ op'[q].at = "unlink"
         /\ op'[o] = r
         /\ \A q \in Ops : q # o =>
              \/ ~(At(q, "unlink") /\ op[q].sha = s) /\ op'[q] = op[q]
              \/ /\ At(q, "unlink") /\ op[q].sha = s
                 /\ op'[q] # None /\ op'[q].at = "unlink" /\ op'[q].sha = s /\ op'[q].same = FALSE
  <1> DEFINE hit(q) == At(q, "unlink") /\ op[q].sha = s
  <1>1. op' = [q \in Ops |-> IF q = o THEN r ELSE IF hit(q) THEN [op[q] EXCEPT !.same = FALSE] ELSE op[q]]
    BY DEF Lands
  <1>2. ASSUME NEW q \in Ops, hit(q)
        PROVE  LET d == [op[q] EXCEPT !.same = FALSE]
               IN  d \in GCAt /\ d # None /\ d.at = "unlink" /\ d.sha = s /\ d.same = FALSE
    <2>1. op[q] \in GCAt /\ op[q].at = "unlink" /\ op[q].sha = s
      BY <1>2, ShapeOf DEF At
    <2>2. [op[q] EXCEPT !.same = FALSE] \in GCAt
      BY <2>1 DEF GCAt
    <2> QED BY <2>1, <2>2, NoneIsNothing DEF GCAt
  <1>3. \A q \in Ops : op[q] \in Descriptors
    BY DEF TypeOK, Descriptors
  <1>4. op' \in [Ops -> Descriptors]
    BY <1>1, <1>2, <1>3 DEF Descriptors
  <1>5. \A q \in Ops : op'[q] = IF q = o THEN r ELSE IF hit(q) THEN [op[q] EXCEPT !.same = FALSE] ELSE op[q]
    BY <1>1
  <1>6. \A q \in Ops : op'[q] \in GCAt => op'[q].same \/ op'[q].at = "unlink"
    <2> SUFFICES ASSUME NEW q \in Ops, op'[q] \in GCAt PROVE op'[q].same \/ op'[q].at = "unlink"
      OBVIOUS
    <2>1. CASE q = o
      BY <1>5, <2>1, Zenon DEF Sure
    <2>2. CASE q # o /\ hit(q)
      <3>1. op'[q] = [op[q] EXCEPT !.same = FALSE]
        BY <1>5, <2>2
      <3>2. op'[q].at = "unlink"
        BY <1>2, <2>2, <3>1
      <3> QED BY <3>2, Zenon
    <2>3. CASE q # o /\ ~hit(q)
      <3>1. op'[q] = op[q]
        BY <1>5, <2>3
      <3> QED BY <3>1, Zenon DEF TypeOK
    <2> QED BY <2>1, <2>2, <2>3
  <1>7. ASSUME NEW q \in Ops, q # o
        PROVE  \/ ~hit(q) /\ op'[q] = op[q]
               \/ /\ hit(q)
                  /\ op'[q] # None /\ op'[q].at = "unlink" /\ op'[q].sha = s /\ op'[q].same = FALSE
    BY <1>2, <1>5, <1>7
  <1> QED BY <1>4, <1>5, <1>6, <1>7 DEF Lands

----------------------------------------------------------------------------
(* How the invariant is kept, by what a step does to the folder.           *)

\* A state an operation may be in now.
Fits(r) ==
  /\ r.at = "stage" /\ r.had = FALSE => blob[r.sha] # "old"
  /\ r.at = "recheck" \/ (r.at = "commit" /\ r.had = FALSE) => blob[r.sha] = "fresh" \/ r.sha \in raced
  /\ r.at = "unlink" /\ r.same = TRUE => blob[r.sha] # "fresh"
  /\ r.at = "stat" \/ (r.at = "unlink" /\ r.same = TRUE) =>
       (Referred(r.sha) /\ blob[r.sha] = "old" => Writing(r.sha) \/ r.sha \in cut)

\* The put that has just committed s will write it, or has.
Backs(r, s) ==
  /\ r # None /\ r.sha = s
  /\ r.at = "rewrite" \/ (r.at = "recheck" /\ (blob[s] = "fresh" \/ s \in raced))

\* One operation moves on and the folder stays.
LEMMA QuietMove ==
  ASSUME Inv, NEW o \in Ops, NEW r \in Descriptors, Sure(r), Step(o, r), UNCHANGED <<blob, raced>>,
         ref' \in [Paths -> Shas \cup {None}], written' \subseteq Paths \X Shas,
         cut' \subseteq Shas, cut \subseteq cut', crashes' \in 0..MaxCrashes,
         r # None => Fits(r),
         At(o, "rewrite") => op[o].sha \in cut',
         \A s \in Shas : Referred(s)' => Referred(s) \/ Backs(r, s)
  PROVE  Inv'
  <1>1. op'[o] = r /\ \A q \in Ops : q # o => op'[q] = op[q]
    BY StepIs DEF Inv
  <1>2. TypeOK'
    BY TypeMoves DEF Inv, TypeOK, Descriptors
  <1>3. RacedIsGone' /\ (\A s \in raced : blob[s] = None)
    BY DEF Inv, RacedIsGone
  <1>4. YoungWhilePut' /\ UnlinksTheOld'
    BY <1>1 DEF Inv, YoungWhilePut, UnlinksTheOld, Wrote, At, Fits
  <1>5. \A q \in Ops : op[q] # None => op[q].sha \in Shas
    BY ShapeOf DEF Inv
  <1>6. \A q \in Ops : op'[q] # None => op'[q].sha \in Shas
    BY <1>2, ShapeOf DEF TypeOK, Descriptors, PutAt, AfterAt, GCAt
  <1>7. \A s \in Shas : Writing(s) => Writing(s)' \/ s \in cut'
    BY <1>1 DEF Writing, At
  <1>8. \A s \in Shas : Backs(r, s) => Rescued(s)' /\ (blob[s] = "old" => Writing(s)')
    BY <1>1, <1>3, NoneIsNothing DEF Backs, Rescued, Writing, At
  <1>9. CountedTooEarly'
    <2> SUFFICES ASSUME NEW q \in Ops, NEW x \in Shas, At(q, "stat")' \/ (At(q, "unlink")' /\ op'[q].same = TRUE),
                        op'[q].sha = x, Referred(x)', blob[x] = "old"
                 PROVE  Writing(x)' \/ x \in cut'
      BY DEF CountedTooEarly
    <2>1. CASE Backs(r, x)
      BY <1>8, <2>1
    <2>2. CASE Referred(x) /\ q = o
      <3>1. r # None /\ r.sha = x /\ (r.at = "stat" \/ (r.at = "unlink" /\ r.same = TRUE))
        BY <1>1, <2>2 DEF At
      <3>2. Writing(x) \/ x \in cut
        BY <2>2, <3>1 DEF Fits
      <3> QED BY <1>7, <3>2
    <2>3. CASE Referred(x) /\ q # o
      <3>1. Writing(x) \/ x \in cut
        BY <1>1, <2>3 DEF Inv, CountedTooEarly, At
      <3> QED BY <1>7, <3>1
    <2> QED BY <2>1, <2>2, <2>3
  <1>10. Accounted'
    <2> SUFFICES ASSUME NEW s \in Shas, Referred(s)', blob[s] = None
                 PROVE  Rescued(s)' \/ s \in raced \/ s \in cut'
      BY DEF Accounted
    <2>1. CASE Backs(r, s)
      BY <1>8, <2>1
    <2>2. CASE Referred(s)
      <3>1. Rescued(s) \/ s \in raced \/ s \in cut
        BY <2>2 DEF Inv, Accounted
      <3>2. ASSUME NEW q \in Ops, op[q] # None, op[q].sha = s, op[q].at \in {"recheck", "rewrite"}
            PROVE  Rescued(s)' \/ s \in raced \/ s \in cut'
        <4>1. CASE q # o
          BY <1>1, <3>2, <4>1 DEF Rescued
        <4>2. CASE q = o /\ op[q].at = "rewrite"
          BY <3>2, <4>2 DEF At
        <4>3. CASE q = o /\ op[q].at = "recheck"
          BY <3>2, <2>2, <4>3, NoneIsNothing DEF Inv, YoungWhilePut, Wrote, At
        <4> QED BY <3>2, <4>1, <4>2, <4>3
      <3> QED BY <3>1, <3>2 DEF Rescued
    <2> QED BY <2>1, <2>2
  <1> QED BY <1>2, <1>3, <1>4, <1>9, <1>10 DEF Inv

\* Bytes land.
LEMMA LandMove ==
  ASSUME Inv, NEW o \in Ops, NEW s \in Shas, NEW r \in Descriptors, Sure(r), Lands(o, s, r),
         UNCHANGED <<ref, written, crashes>>,
         r # None => r.at = "count" \/ (r.at = "commit" /\ r.sha = s),
         At(o, "rewrite") \/ At(o, "recheck") => op[o].sha = s
  PROVE  Inv'
  <1>0. TypeOK
    BY DEF Inv
  <1>1. /\ blob' = [blob EXCEPT ![s] = "fresh"] /\ raced' = raced \ {s} /\ cut' = cut \ {s}
        /\ op' \in [Ops -> Descriptors] /\ \A q \in Ops : op'[q] \in GCAt => op'[q].same \/ op'[q].at = "unlink"
        /\ op'[o] = r
        /\ \A q \in Ops : q # o =>
             \/ ~(At(q, "unlink") /\ op[q].sha = s) /\ op'[q] = op[q]
             \/ /\ At(q, "unlink") /\ op[q].sha = s
                /\ op'[q] # None /\ op'[q].at = "unlink" /\ op'[q].sha = s /\ op'[q].same = FALSE
    BY <1>0, LandsIs
  <1>2. blob'[s] = "fresh" /\ \A x \in Shas : x # s => blob'[x] = blob[x]
    BY <1>0, <1>1 DEF TypeOK
  <1>3. TypeOK'
    BY <1>0, <1>1 DEF TypeOK, Descriptors
  <1>4. RacedIsGone'
    BY <1>0, <1>1, <1>2 DEF Inv, RacedIsGone, TypeOK
  <1>5. \A q \in Ops : op'[q] # None => op'[q].sha \in Shas
    BY <1>3, ShapeOf DEF TypeOK, PutAt, AfterAt, GCAt
  <1>6. YoungWhilePut' /\ UnlinksTheOld'
    <2>1. ASSUME NEW q \in Ops
          PROVE  /\ At(q, "stage")' /\ op'[q].had = FALSE => blob'[op'[q].sha] # "old"
                 /\ Wrote(q)' => blob'[op'[q].sha] = "fresh" \/ op'[q].sha \in raced'
                 /\ At(q, "unlink")' /\ op'[q].same = TRUE => blob'[op'[q].sha] # "fresh"
      <3>1. CASE q = o
        BY <1>1, <1>2, <3>1 DEF At, Wrote
      <3>2. CASE q # o /\ ~(At(q, "unlink") /\ op[q].sha = s)
        <4>1. op'[q] = op[q]
          BY <1>1, <3>2
        <4> QED BY <1>1, <1>2, <1>5, <3>2, <4>1 DEF Inv, YoungWhilePut, UnlinksTheOld, Wrote, At
      <3>3. CASE q # o /\ At(q, "unlink") /\ op[q].sha = s
        BY <1>1, <3>3 DEF At, Wrote
      <3> QED BY <3>1, <3>2, <3>3
    <2> QED BY <2>1 DEF YoungWhilePut, UnlinksTheOld
  <1>7. \A x \in Shas : x # s => /\ Writing(x) => Writing(x)'
                                 /\ Rescued(x) => Rescued(x)'
    <2>1. \A q \in Ops : op[q] # None /\ op[q].at \in {"recheck", "rewrite"} /\ op[q].sha # s => op'[q] = op[q]
      BY <1>1 DEF At
    <2> QED BY <2>1 DEF Writing, Rescued, At
  <1>8. \A x \in Shas : Referred(x)' = Referred(x)
    BY DEF Referred
  <1>9. CountedTooEarly'
    <2> SUFFICES ASSUME NEW q \in Ops, NEW x \in Shas, At(q, "stat")' \/ (At(q, "unlink")' /\ op'[q].same = TRUE),
                        op'[q].sha = x, Referred(x)', blob'[x] = "old"
                 PROVE  Writing(x)' \/ x \in cut'
      BY DEF CountedTooEarly
    <2>1. x # s
      BY <1>2
    <2>2. q # o /\ op'[q] = op[q]
      BY <1>1, <2>1 DEF At
    <2>3. Writing(x) \/ x \in cut
      BY <1>2, <1>8, <2>1, <2>2 DEF Inv, CountedTooEarly, At
    <2> QED BY <1>1, <1>7, <2>1, <2>3
  <1>10. Accounted'
    <2> SUFFICES ASSUME NEW x \in Shas, Referred(x)', blob'[x] = None
                 PROVE  Rescued(x)' \/ x \in raced' \/ x \in cut'
      BY DEF Accounted
    <2>1. x # s /\ blob[x] = None
      BY <1>2, NoneIsNothing
    <2> QED BY <1>1, <1>7, <1>8, <2>1 DEF Inv, Accounted
  <1> QED BY <1>3, <1>4, <1>6, <1>9, <1>10 DEF Inv

LEMMA UnlinkStep == ASSUME Inv, NEW o \in Ops, Unlink(o) PROVE Inv'
  <1> DEFINE s == op[o].sha
  <1>0. TypeOK
    BY DEF Inv
  <1>1. /\ op[o] # None /\ op[o].at = "unlink" /\ op[o] \in GCAt /\ s \in Shas
        /\ blob' = [blob EXCEPT ![s] = None] /\ UNCHANGED <<ref, written, cut, crashes>>
    BY <1>0, ShapeOf DEF Unlink, At
  <1>2. PICK r : /\ Step(o, r)
                 /\ r = None \/ (r # None /\ r \in GCAt /\ r.at = "count" /\ r.same = TRUE)
    BY <1>0, <1>1, DoneIs DEF Unlink
  <1>3. op'[o] = r /\ \A q \in Ops : q # o => op'[q] = op[q]
    BY <1>0, <1>2, StepIs
  <1>4. blob'[s] = None /\ \A x \in Shas : x # s => blob'[x] = blob[x]
    BY <1>0, <1>1 DEF TypeOK
  <1>5. \/ op[o].same = TRUE /\ raced' = raced
        \/ raced' = raced \cup {s}
    <2>1. raced' = IF op[o].same THEN raced ELSE raced \cup {s}
      BY DEF Unlink
    <2>2. op[o].same \in BOOLEAN
      BY <1>1 DEF GCAt
    <2>3. CASE op[o].same = TRUE
      BY <2>1, <2>3, Zenon
    <2>4. CASE op[o].same = FALSE
      BY <2>1, <2>4, Zenon
    <2> QED BY <2>2, <2>3, <2>4
  <1>6. TypeOK'
    <2>1. r \in Descriptors /\ Sure(r)
      BY <1>2, NoneIsNothing DEF Descriptors, Sure
    <2>2. op' \in [Ops -> Descriptors] /\ \A q \in Ops : op'[q] \in GCAt => op'[q].same \/ op'[q].at = "unlink"
      BY <1>0, <1>2, <2>1, TypeMoves
    <2> QED BY <1>0, <1>1, <1>5, <2>2 DEF TypeOK, Descriptors
  <1>7. RacedIsGone'
    BY <1>0, <1>4, <1>5 DEF Inv, RacedIsGone, TypeOK
  <1>8. \A q \in Ops : op[q] # None => op[q].sha \in Shas
    BY <1>0, ShapeOf
  <1>9. YoungWhilePut' /\ UnlinksTheOld'
    <2>1. ASSUME NEW q \in Ops
          PROVE  /\ At(q, "stage")' /\ op'[q].had = FALSE => blob'[op'[q].sha] # "old"
                 /\ Wrote(q)' => blob'[op'[q].sha] = "fresh" \/ op'[q].sha \in raced'
                 /\ At(q, "unlink")' /\ op'[q].same = TRUE => blob'[op'[q].sha] # "fresh"
      <3>1. CASE q = o
        BY <1>2, <1>3, <3>1 DEF At, Wrote
      <3>2. CASE q # o
        <4>1. op'[q] = op[q]
          BY <1>3, <3>2
        <4>2. At(q, "stage") /\ op[q].had = FALSE => blob'[op[q].sha] # "old"
          BY <1>4, <1>8, NoneIsNothing DEF Inv, YoungWhilePut, At
        <4>3. Wrote(q) => blob'[op[q].sha] = "fresh" \/ op[q].sha \in raced'
          <5> SUFFICES ASSUME Wrote(q) PROVE blob'[op[q].sha] = "fresh" \/ op[q].sha \in raced'
            OBVIOUS
          <5>1. op[q].sha \in Shas /\ (blob[op[q].sha] = "fresh" \/ op[q].sha \in raced)
            BY <1>8 DEF Inv, YoungWhilePut, Wrote, At
          <5>2. op[o].same = TRUE => blob[s] # "fresh"
            BY <1>1 DEF Inv, UnlinksTheOld, At
          <5> QED BY <1>4, <1>5, <5>1, <5>2
        <4>4. At(q, "unlink") /\ op[q].same = TRUE => blob'[op[q].sha] # "fresh"
          BY <1>4, <1>8, NoneIsNothing DEF Inv, UnlinksTheOld, At
        <4> QED BY <4>1, <4>2, <4>3, <4>4 DEF At, Wrote
      <3> QED BY <3>1, <3>2
    <2> QED BY <2>1 DEF YoungWhilePut, UnlinksTheOld
  <1>10. \A x \in Shas : (Writing(x) => Writing(x)') /\ (Rescued(x) => Rescued(x)') /\ Referred(x)' = Referred(x)
    BY <1>1, <1>3 DEF Writing, Rescued, Referred, At
  <1>11. CountedTooEarly'
    <2> SUFFICES ASSUME NEW q \in Ops, NEW x \in Shas, At(q, "stat")' \/ (At(q, "unlink")' /\ op'[q].same = TRUE),
                        op'[q].sha = x, Referred(x)', blob'[x] = "old"
                 PROVE  Writing(x)' \/ x \in cut'
      BY DEF CountedTooEarly
    <2>1. q # o /\ op'[q] = op[q]
      BY <1>2, <1>3 DEF At
    <2>2. x # s
      BY <1>4, NoneIsNothing
    <2> QED BY <1>1, <1>4, <1>10, <2>1, <2>2 DEF Inv, CountedTooEarly, At
  <1>12. Accounted'
    <2> SUFFICES ASSUME NEW x \in Shas, Referred(x)', blob'[x] = None
                 PROVE  Rescued(x)' \/ x \in raced' \/ x \in cut'
      BY DEF Accounted
    <2>1. CASE blob[x] = None
      BY <1>1, <1>5, <1>10, <2>1 DEF Inv, Accounted
    <2>2. CASE blob[x] # None
      <3>1. x = s
        BY <1>4, <2>2
      <3>2. CASE op[o].same = TRUE
        <4>1. blob[x] = "old"
          BY <1>0, <1>1, <2>2, <3>1, <3>2 DEF Inv, UnlinksTheOld, At, TypeOK
        <4>2. Writing(x) \/ x \in cut
          BY <1>1, <1>10, <3>1, <3>2, <4>1 DEF Inv, CountedTooEarly, At
        <4> QED BY <1>1, <1>10, <4>2 DEF Writing, Rescued, At
      <3> QED BY <1>5, <3>1, <3>2
    <2> QED BY <2>1, <2>2
  <1> QED BY <1>6, <1>7, <1>9, <1>11, <1>12 DEF Inv

LEMMA AgeStep == ASSUME Inv, NEW s \in Shas, Age(s) PROVE Inv'
  <1>1. /\ blob[s] = "fresh" /\ blob'[s] = "old" /\ \A x \in Shas : x # s => blob'[x] = blob[x]
        /\ blob' \in [Shas -> {"fresh", "old", None}]
        /\ UNCHANGED <<ref, op, written, raced, cut, crashes>>
        /\ \A q \in Ops : op[q] # None /\ op[q].at # "count" => op[q].sha # s
    BY DEF Age, InHand, Inv, TypeOK
  <1>2. \A q \in Ops : op[q] # None => op[q].sha \in Shas
    BY ShapeOf DEF Inv
  <1>3. \A q \in Ops : op[q] # None /\ op[q].at # "count" => blob'[op[q].sha] = blob[op[q].sha]
    BY <1>1, <1>2
  <1>4. TypeOK'
    BY <1>1 DEF Inv, TypeOK
  <1>5. RacedIsGone'
    BY <1>1, NoneIsNothing DEF Inv, RacedIsGone, TypeOK
  <1>6. YoungWhilePut' /\ UnlinksTheOld'
    BY <1>1, <1>3 DEF Inv, YoungWhilePut, UnlinksTheOld, Wrote, At
  <1>7. \A x \in Shas : Writing(x)' = Writing(x) /\ Rescued(x)' = Rescued(x) /\ Referred(x)' = Referred(x)
    BY <1>1 DEF Writing, Rescued, Referred, At
  <1>8. CountedTooEarly'
    BY <1>1, <1>2, <1>3, <1>7 DEF Inv, CountedTooEarly, At
  <1>9. Accounted'
    BY <1>1, <1>7, NoneIsNothing DEF Inv, Accounted
  <1> QED BY <1>4, <1>5, <1>6, <1>8, <1>9 DEF Inv

----------------------------------------------------------------------------
(* The operations.                                                         *)

LEMMA InvInit == Init => Inv
  <1> SUFFICES ASSUME Init PROVE Inv
    OBVIOUS
  <1>1. TypeOK
    BY TypeInit
  <1>2. \A s \in Shas : ~Referred(s)
    BY NoneIsNothing DEF Init, Referred
  <1>3. \A o \in Ops : op[o] = None
    BY DEF Init
  <1> QED BY <1>1, <1>2, <1>3
          DEF Init, Inv, RacedIsGone, YoungWhilePut, UnlinksTheOld, CountedTooEarly, Accounted, Wrote, At

LEMMA PutStep == ASSUME Inv, NEW o \in Ops, NEW p \in Paths, NEW s \in Shas, Put(o, p, s) PROVE Inv'
  <1> DEFINE r == [at |-> "stage", path |-> p, sha |-> s, had |-> blob[s] # None]
  <1>1. Step(o, r) /\ op[o] = None /\ UNCHANGED <<ref, blob, written, raced, cut, crashes>>
    BY DEF Put
  <1>2. r \in PutAt
    BY DEF PutAt
  <1>3. r \in Descriptors /\ Sure(r)
    BY <1>2 DEF Descriptors, Sure, GCAt
  <1>4. r.had = FALSE => blob[s] # "old"
    BY NoneIsNothing, Zenon
  <1>5. r # None => Fits(r)
    BY <1>4 DEF Fits
  <1> HIDE DEF r
  <1>6. \A x \in Shas : Referred(x)' => Referred(x)
    BY <1>1 DEF Referred
  <1> QED BY <1>1, <1>3, <1>5, <1>6, QuietMove DEF Inv, TypeOK, At

LEMMA StageStep == ASSUME Inv, NEW o \in Ops, Stage(o) PROVE Inv'
  <1> DEFINE r == [op[o] EXCEPT !.at = "commit"]
  <1>1. /\ At(o, "stage") /\ op[o] # None /\ op[o] \in PutAt /\ op[o].sha \in Shas /\ op[o].had \in BOOLEAN
        /\ UNCHANGED <<ref, written, crashes>>
    <2>1. op[o] # None /\ op[o].at = "stage"
      BY DEF Stage, At
    <2> QED BY <2>1, ShapeOf DEF Stage, At, Inv, PutAt
  <1>2. r \in PutAt /\ r.at = "commit" /\ r.sha = op[o].sha /\ r.had = op[o].had
    BY <1>1 DEF PutAt
  <1>3. r \in Descriptors /\ Sure(r) /\ r # None
    BY <1>2, NoneIsNothing DEF Descriptors, Sure, GCAt
  <1>4. \/ Lands(o, op[o].sha, r)
        \/ /\ op[o].had = TRUE \/ blob[op[o].sha] # None
           /\ Step(o, r) /\ UNCHANGED <<blob, raced, cut>>
    <2>1. op[o].had <=> op[o].had = TRUE
      BY <1>1, Zenon
    <2> QED BY <2>1 DEF Stage
  <1> HIDE DEF r
  <1>5. CASE Lands(o, op[o].sha, r)
    BY <1>1, <1>2, <1>3, <1>5, LandMove DEF At
  <1>6. CASE (op[o].had = TRUE \/ blob[op[o].sha] # None) /\ Step(o, r) /\ UNCHANGED <<blob, raced, cut>>
    <2>1. Fits(r)
      <3>1. r.had = FALSE => blob[r.sha] = "fresh"
        BY <1>1, <1>2, <1>6 DEF Inv, YoungWhilePut, TypeOK
      <3> QED BY <1>2, <3>1 DEF Fits
    <2>2. \A x \in Shas : Referred(x)' => Referred(x)
      BY <1>1 DEF Referred
    <2> QED BY <1>1, <1>3, <1>6, <2>1, <2>2, QuietMove DEF Inv, TypeOK, At
  <1> QED BY <1>4, <1>5, <1>6

\* After its commit a put of s, or its replay, is about to write, or has written.
LEMMA CommittedIs ==
  ASSUME Inv, NEW o \in Ops, At(o, "commit"), NEW freed \in Shas \cup {None}
  PROVE  /\ op[o] # None /\ op[o] \in PutAt /\ op[o].sha \in Shas /\ op[o].path \in Paths
         /\ LET r == [at |-> Reassert(op[o].had), sha |-> op[o].sha, freed |-> freed]
            IN  r \in Descriptors /\ Sure(r) /\ Fits(r) /\ Backs(r, op[o].sha)
  <1> DEFINE r == [at |-> Reassert(op[o].had), sha |-> op[o].sha, freed |-> freed]
  <1>1. op[o] # None /\ op[o] \in PutAt /\ op[o].sha \in Shas /\ op[o].had \in BOOLEAN /\ op[o].path \in Paths
    <2>1. op[o] # None /\ op[o].at = "commit"
      BY DEF At
    <2> QED BY <2>1, ShapeOf DEF Inv, PutAt
  <1>2. (op[o].had = TRUE /\ r.at = "rewrite") \/ (op[o].had = FALSE /\ r.at = "recheck")
    BY <1>1, ReassertIs
  <1>3. r \in AfterAt
    BY <1>1, <1>2 DEF AfterAt
  <1>4. r.sha = op[o].sha
    OBVIOUS
  <1> HIDE DEF r
  <1>5. r \in Descriptors /\ Sure(r) /\ r # None
    BY <1>2, <1>3, NoneIsNothing DEF Descriptors, Sure, GCAt
  <1>6. r.at = "recheck" => blob[r.sha] = "fresh" \/ r.sha \in raced
    BY <1>2, <1>4 DEF Inv, YoungWhilePut, Wrote
  <1>7. Fits(r) /\ Backs(r, op[o].sha)
    BY <1>2, <1>4, <1>5, <1>6 DEF Fits, Backs
  <1> QED BY <1>1, <1>5, <1>7 DEF r

LEMMA CommitStep ==
  ASSUME Inv, NEW o \in Ops, Commit(o) \/ CommitReplay(o) \/ CommitRefused(o) PROVE Inv'
  <1>1. At(o, "commit") /\ UNCHANGED <<blob, raced, cut, crashes>> /\ ~At(o, "rewrite")
    BY DEF Commit, CommitReplay, CommitRefused, At
  <1>2. op[o] # None /\ op[o] \in PutAt /\ op[o].sha \in Shas /\ op[o].path \in Paths
    BY <1>1, CommittedIs
  <1>3. CASE Commit(o)
    <2> DEFINE p == op[o].path
               s == op[o].sha
               freed == IF ref[p] = s THEN None ELSE ref[p]
               r == [at |-> Reassert(op[o].had), sha |-> s, freed |-> freed]
    <2>1. ref' = [ref EXCEPT ![p] = s] /\ written' = written \cup {<<p, s>>} /\ Step(o, r)
      BY <1>3 DEF Commit
    <2>2. freed \in Shas \cup {None}
      BY <1>2 DEF Inv, TypeOK
    <2>3. r \in Descriptors /\ Sure(r) /\ Fits(r) /\ Backs(r, s)
      BY <1>1, <2>2, CommittedIs
    <2> HIDE DEF r
    <2>4. \A x \in Shas : Referred(x)' => Referred(x) \/ Backs(r, x)
      <3>1. \A q \in Paths : ref'[q] = ref[q] \/ ref'[q] = s
        BY <1>2, <2>1 DEF Inv, TypeOK
      <3> QED BY <2>3, <3>1 DEF Referred
    <2>5. ref' \in [Paths -> Shas \cup {None}] /\ written' \subseteq Paths \X Shas
      BY <1>2, <2>1 DEF Inv, TypeOK
    <2> QED BY <1>1, <2>1, <2>3, <2>4, <2>5, QuietMove DEF Inv, TypeOK
  <1>4. CASE CommitReplay(o)
    <2> DEFINE r == [at |-> Reassert(op[o].had), sha |-> op[o].sha, freed |-> None]
    <2>1. Step(o, r) /\ UNCHANGED <<ref, written>>
      BY <1>4 DEF CommitReplay
    <2>2. r \in Descriptors /\ Sure(r) /\ Fits(r)
      BY <1>1, CommittedIs
    <2> HIDE DEF r
    <2>3. \A x \in Shas : Referred(x)' => Referred(x)
      BY <2>1 DEF Referred
    <2> QED BY <1>1, <2>1, <2>2, <2>3, QuietMove DEF Inv, TypeOK
  <1>5. CASE CommitRefused(o)
    <2> DEFINE r == IF op[o].had THEN None ELSE GC(op[o].sha, {})
    <2>1. Step(o, r) /\ UNCHANGED <<ref, written>>
      BY <1>5 DEF CommitRefused
    <2>2. r = None \/ (r \in GCAt /\ r.at = "count" /\ r.same = TRUE)
      BY <1>2, HandsOn
    <2> HIDE DEF r
    <2>3. r \in Descriptors /\ Sure(r) /\ (r # None => Fits(r))
      BY <2>2, NoneIsNothing DEF Descriptors, Sure, Fits
    <2>4. \A x \in Shas : Referred(x)' => Referred(x)
      BY <2>1 DEF Referred
    <2> QED BY <1>1, <2>1, <2>3, <2>4, QuietMove DEF Inv, TypeOK
  <1> QED BY <1>3, <1>4, <1>5

LEMMA RecheckStep == ASSUME Inv, NEW o \in Ops, Recheck(o) \/ Rewrite(o) PROVE Inv'
  <1>1. op[o] # None /\ op[o] \in AfterAt /\ op[o].sha \in Shas /\ op[o].freed \in Shas \cup {None}
    <2>1. op[o] # None /\ op[o].at \in {"recheck", "rewrite"}
      BY DEF Recheck, Rewrite, At
    <2> QED BY <2>1, ShapeOf DEF Inv, AfterAt
  <1>2. /\ LetGo(op[o].freed) \in Descriptors /\ Sure(LetGo(op[o].freed))
        /\ LetGo(op[o].freed) # None => Fits(LetGo(op[o].freed)) /\ LetGo(op[o].freed).at = "count"
    BY <1>1, HandsOn, NoneIsNothing DEF Descriptors, Sure, Fits
  <1>3. CASE Recheck(o)
    <2> DEFINE again == [op[o] EXCEPT !.at = "rewrite"]
               r == IF blob[op[o].sha] # None THEN LetGo(op[o].freed) ELSE again
    <2>1. Step(o, r) /\ UNCHANGED <<ref, blob, written, raced, cut, crashes>> /\ At(o, "recheck")
      BY <1>3 DEF Recheck
    <2>2. again \in AfterAt /\ again.at = "rewrite"
      BY <1>1 DEF AfterAt
    <2> HIDE DEF again
    <2>3. again \in Descriptors /\ Sure(again) /\ Fits(again)
      BY <2>2 DEF Descriptors, Sure, Fits, GCAt
    <2>4. r \in Descriptors /\ Sure(r) /\ (r # None => Fits(r))
      BY <1>2, <2>3
    <2> HIDE DEF r
    <2>5. \A x \in Shas : Referred(x)' => Referred(x)
      BY <2>1 DEF Referred
    <2> QED BY <2>1, <2>4, <2>5, QuietMove DEF Inv, TypeOK, At
  <1>4. CASE Rewrite(o)
    <2>1. Lands(o, op[o].sha, LetGo(op[o].freed)) /\ UNCHANGED <<ref, written, crashes>>
      BY <1>4 DEF Rewrite
    <2> QED BY <1>1, <1>2, <2>1, LandMove
  <1> QED BY <1>3, <1>4

LEMMA DeleteStep ==
  ASSUME Inv, NEW o \in Ops, (\E p \in Paths : Del(o, p)) \/ (\E s \in Shas : Sweep(o, s)) PROVE Inv'
  <1>1. op[o] = None /\ UNCHANGED <<blob, written, raced, cut, crashes>>
    BY DEF Del, Sweep
  <1>2. \E s \in Shas, todo \in SUBSET Shas : Step(o, GC(s, todo))
    <2>1. CASE \E s \in Shas : Sweep(o, s)
      BY <2>1 DEF Sweep, Stored
    <2>2. CASE \E p \in Paths : Del(o, p)
      <3>1. PICK p \in Paths : Del(o, p)
        BY <2>2
      <3>2. ref[p] \in Shas
        BY <3>1 DEF Del, Inv, TypeOK
      <3> QED BY <3>1, <3>2 DEF Del
    <2> QED BY <2>1, <2>2
  <1>3. PICK s \in Shas, todo \in SUBSET Shas : Step(o, GC(s, todo))
    BY <1>2
  <1>4. GC(s, todo) \in Descriptors /\ Sure(GC(s, todo)) /\ Fits(GC(s, todo))
    BY HandsOn DEF Descriptors, Sure, Fits
  <1>5. ref' \in [Paths -> Shas \cup {None}] /\ \A p \in Paths : ref'[p] = ref[p] \/ ref'[p] = None
    BY DEF Del, Sweep, Inv, TypeOK
  <1>6. \A x \in Shas : Referred(x)' => Referred(x)
    BY <1>5, NoneIsNothing DEF Referred
  <1> QED BY <1>1, <1>3, <1>4, <1>5, <1>6, QuietMove DEF Inv, TypeOK, At

LEMMA CountStep == ASSUME Inv, NEW o \in Ops, Count(o) \/ Stat(o) PROVE Inv'
  <1>1. /\ op[o] # None /\ op[o] \in GCAt /\ op[o].sha \in Shas /\ op[o].at \in {"count", "stat"}
        /\ op[o].same = TRUE
        /\ UNCHANGED <<ref, blob, written, raced, cut, crashes>>
    <2>1. op[o] # None /\ op[o].at \in {"count", "stat"}
      BY DEF Count, Stat, At
    <2>2. op[o] \in GCAt
      BY <2>1, ShapeOf DEF Inv
    <2>3. op[o].same \/ op[o].at = "unlink"
      BY <2>2, Zenon DEF Inv, TypeOK
    <2>4. op[o].same = TRUE
      BY <2>1, <2>2, <2>3 DEF GCAt
    <2> QED BY <2>1, <2>2, <2>4, ShapeOf DEF Inv, Count, Stat
  <1> DEFINE Next1(r) == /\ Step(o, r) /\ r \in Descriptors /\ Sure(r)
                         /\ r # None => Fits(r)
  <1>2. Done(o) => \E r : Next1(r)
    <2> SUFFICES ASSUME Done(o) PROVE \E r : Next1(r)
      OBVIOUS
    <2>1. PICK r : Step(o, r) /\ (r = None \/ (r # None /\ r \in GCAt /\ r.at = "count" /\ r.same = TRUE))
      BY <1>1, DoneIs DEF Inv
    <2>2. r \in Descriptors /\ Sure(r) /\ (r # None => Fits(r))
      BY <2>1, NoneIsNothing DEF Descriptors, Sure, Fits
    <2> QED BY <2>1, <2>2
  <1>3. \E r : Next1(r)
    <2>1. CASE Count(o) /\ Refcount(op[o].sha) = 0
      <3> DEFINE r == [op[o] EXCEPT !.at = "stat"]
      <3>1. Step(o, r)
        BY <2>1 DEF Count
      <3>2. r \in GCAt /\ r.at = "stat" /\ r.sha = op[o].sha /\ r.same = TRUE
        BY <1>1 DEF GCAt
      <3> HIDE DEF r
      <3>3. ~Referred(r.sha)
        BY <2>1, <3>2, RefcountIs
      <3>4. r \in Descriptors /\ Sure(r) /\ Fits(r)
        BY <3>2, <3>3 DEF Descriptors, Sure, Fits
      <3> QED BY <3>1, <3>4
    <2>2. CASE Stat(o) /\ OldEnough(op[o].sha)
      <3> DEFINE r == [op[o] EXCEPT !.at = "unlink"]
      <3>1. Step(o, r) /\ blob[op[o].sha] = "old" /\ At(o, "stat")
        BY <2>2 DEF Stat, OldEnough
      <3>2. r \in GCAt /\ r.at = "unlink" /\ r.sha = op[o].sha /\ r.same = TRUE
        BY <1>1 DEF GCAt
      <3> HIDE DEF r
      <3>3. Referred(r.sha) => Writing(r.sha) \/ r.sha \in cut
        BY <1>1, <3>1, <3>2 DEF Inv, CountedTooEarly
      <3>4. r \in Descriptors /\ Sure(r) /\ Fits(r)
        BY <3>1, <3>2, <3>3 DEF Descriptors, Sure, Fits
      <3> QED BY <3>1, <3>4
    <2>3. (Count(o) /\ Refcount(op[o].sha) = 0) \/ (Stat(o) /\ OldEnough(op[o].sha)) \/ Done(o)
      BY DEF Count, Stat
    <2> HIDE DEF Next1
    <2> QED BY <1>2, <2>1, <2>2, <2>3
  <1>4. \A x \in Shas : Referred(x)' => Referred(x)
    BY <1>1 DEF Referred
  <1>5. ~At(o, "rewrite")
    BY <1>1 DEF At
  <1> QED BY <1>1, <1>3, <1>4, <1>5, QuietMove DEF Inv, TypeOK

LEMMA CrashStep == ASSUME Inv, NEW o \in Ops, Crash(o) PROVE Inv'
  <1>1. /\ Step(o, None) /\ UNCHANGED <<ref, blob, written, raced>> /\ op[o] # None
        /\ crashes' = crashes + 1 /\ crashes < MaxCrashes
        /\ cut' = IF At(o, "rewrite") THEN cut \cup {op[o].sha} ELSE cut
    BY DEF Crash
  <1>2. op[o].sha \in Shas
    BY <1>1, ShapeOf DEF Inv
  <1>3. None \in Descriptors /\ Sure(None)
    BY NoneIsNothing DEF Descriptors, Sure
  <1>4. \A x \in Shas : Referred(x)' => Referred(x)
    BY <1>1 DEF Referred
  <1>5. cut' \subseteq Shas /\ cut \subseteq cut' /\ (At(o, "rewrite") => op[o].sha \in cut')
    BY <1>1, <1>2 DEF Inv, TypeOK
  <1>6. crashes' \in 0..MaxCrashes
    BY <1>1, FilesAreFinite DEF Inv, TypeOK
  <1> QED BY <1>1, <1>3, <1>4, <1>5, <1>6, QuietMove DEF Inv, TypeOK

LEMMA InvStep == Inv /\ [Next]_vars => Inv'
  <1> SUFFICES ASSUME Inv, [Next]_vars PROVE Inv'
    OBVIOUS
  <1>1. CASE UNCHANGED vars
    BY <1>1 DEF vars, Inv, TypeOK, RacedIsGone, YoungWhilePut, UnlinksTheOld, CountedTooEarly, Accounted,
                Referred, Wrote, Writing, Rescued, At
  <1>2. CASE Next
    BY <1>2, PutStep, StageStep, CommitStep, RecheckStep, DeleteStep, CountStep, UnlinkStep, CrashStep, AgeStep
       DEF Next, Runs
  <1> QED BY <1>1, <1>2

----------------------------------------------------------------------------
(* The theorems.                                                           *)

\* What holds the file channel together, whatever runs and dies.
THEOREM FileInvariance == Spec => []Inv
  BY InvInit, InvStep, PTL DEF Spec

\* Each operation is at one of its steps, and the folder and the table hold what they should.
THEOREM FileTypes == Spec => []TypeOK
  <1>1. Inv => TypeOK
    BY DEF Inv
  <1> QED BY <1>1, FileInvariance, PTL

\* For any number of processes that put, delete and sweep at once, a file of the table has its bytes,
\* or its put is about to write them, or one of the two named windows took them.
THEOREM BytesAreLostOnlyInWindows == Spec => []LostOnlyInWindows
  <1>1. Inv => LostOnlyInWindows
    <2> SUFFICES ASSUME Inv, NEW s \in Shas, Dangling(s) PROVE Rescued(s) \/ s \in raced \/ s \in cut
      BY DEF LostOnlyInWindows
    <2>1. Referred(s) /\ blob[s] = None
      BY RefcountIs DEF Dangling
    <2> QED BY <2>1 DEF Inv, Accounted
  <1> QED BY <1>1, FileInvariance, PTL
=============================================================================
