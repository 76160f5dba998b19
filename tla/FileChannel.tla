---------------------------- MODULE FileChannel ----------------------------
(***************************************************************************)
(* The file channel of one app (src/src/files.mjs) over the ref index of   *)
(* the store (write_file and delete_file in src/src/store.mjs).  Bytes lie *)
(* in a folder under their hash, refs in the database: a put writes the    *)
(* blob first and the ref second, a delete drops the ref first and the     *)
(* blob second, and each disk call is a step other operations can slip in  *)
(* between.  The operations run in one process or in several that share    *)
(* the data directory; any of them can die between two steps.              *)
(*                                                                         *)
(* A blob is fresh for GC_AGE_GUARD_MS after it was written, then old.     *)
(***************************************************************************)
EXTENDS Integers, FiniteSets

CONSTANTS
  Paths,  \* file paths of the app
  Shas,   \* contents, named by their hash
  Ops,    \* operations that can run at the same time
  MaxCrashes,  \* bound: operations that die half way
  None

ASSUME FilesAreFinite == IsFiniteSet(Paths) /\ MaxCrashes \in Nat

\* An operation between two of its steps: a put before its commit and after it, a GC.
PutAt == [at : {"stage", "commit"}, path : Paths, sha : Shas, had : BOOLEAN]
AfterAt == [at : {"recheck", "rewrite"}, sha : Shas, freed : Shas \cup {None}]
GCAt == [at : {"count", "stat", "unlink"}, sha : Shas, same : BOOLEAN, todo : SUBSET Shas]

ASSUME NoneIsNothing == None \notin Shas \cup {"fresh", "old"} \cup PutAt \cup AfterAt \cup GCAt

VARIABLES
  ref,      \* the file table: path -> sha, or None
  blob,     \* the folder: sha -> "fresh", "old" or None
  op,       \* the operation each slot runs, or None
  written,  \* (path, sha) pairs some write_file has committed: a retry finds its event
  raced,    \* (history) shas unlinked by a GC that looked at an earlier writing of the blob
  cut,      \* (history) shas whose put died between its commit and its second write
  crashes   \* (bound) operations that died

vars == <<ref, blob, op, written, raced, cut, crashes>>

Refcount(s) == Cardinality({p \in Paths : ref[p] = s})
Stored == {s \in Shas : blob[s] # None}
Step(o, r) == op' = [op EXCEPT ![o] = r]
At(o, place) == op[o] # None /\ op[o].at = place

\* A GC in flight, `same` while the blob it looked at is the one that lies there.
GC(s, todo) == [at |-> "count", sha |-> s, same |-> TRUE, todo |-> todo]

\* putBlob's rename: fresh bytes at the address; a GC between its two calls looked at others.
Lands(o, s, r) ==
  /\ blob' = [blob EXCEPT ![s] = "fresh"]
  /\ op' = [q \in Ops |->
       IF q = o THEN r
       ELSE IF At(q, "unlink") /\ op[q].sha = s THEN [op[q] EXCEPT !.same = FALSE] ELSE op[q]]
  /\ raced' = raced \ {s}
  /\ cut' = cut \ {s}

----------------------------------------------------------------------------
(* put                                                                     *)

Put(o, p, s) ==
  /\ op[o] = None
  /\ Step(o, [at |-> "stage", path |-> p, sha |-> s, had |-> blob[s] # None])
  /\ UNCHANGED <<ref, blob, written, raced, cut, crashes>>

\* The blob goes first, unless hasBlob found it.  (putBlob looks once more, and may still skip.)
Stage(o) ==
  /\ At(o, "stage")
  /\ LET r == [op[o] EXCEPT !.at = "commit"]
     IN  \/ ~op[o].had /\ Lands(o, op[o].sha, r)
         \/ (op[o].had \/ blob[op[o].sha] # None) /\ Step(o, r) /\ UNCHANGED <<blob, raced, cut>>
  /\ UNCHANGED <<ref, written, crashes>>

\* (bug) bytes that are there need no second write.
ReassertNever(had) == "recheck"

\* After the commit: a put that found the blob writes it again, one that wrote it looks again.
Reassert(had) == IF had THEN "rewrite" ELSE "recheck"

\* write_file commits the ref and reports the sha it freed.
Commit(o) ==
  /\ At(o, "commit")
  /\ LET p == op[o].path
         freed == IF ref[p] = op[o].sha THEN None ELSE ref[p]
     IN  /\ ref' = [ref EXCEPT ![p] = op[o].sha]
         /\ written' = written \cup {<<p, op[o].sha>>}
         /\ Step(o, [at |-> Reassert(op[o].had), sha |-> op[o].sha, freed |-> freed])
  /\ UNCHANGED <<blob, raced, cut, crashes>>

\* A retry whose event is in the ledger answers ok and changes no ref.
CommitReplay(o) ==
  /\ At(o, "commit")
  /\ <<op[o].path, op[o].sha>> \in written
  /\ Step(o, [at |-> Reassert(op[o].had), sha |-> op[o].sha, freed |-> None])
  /\ UNCHANGED <<ref, blob, written, raced, cut, crashes>>

\* Quota or version: the ref is refused, and a blob this put wrote is let go of.
CommitRefused(o) ==
  /\ At(o, "commit")
  /\ Step(o, IF op[o].had THEN None ELSE GC(op[o].sha, {}))
  /\ UNCHANGED <<ref, blob, written, raced, cut, crashes>>

\* The put is through with its own blob, and lets go of the one it freed.
LetGo(freed) == IF freed = None THEN None ELSE GC(freed, {})

Recheck(o) ==
  /\ At(o, "recheck")
  /\ Step(o, IF blob[op[o].sha] # None THEN LetGo(op[o].freed) ELSE [op[o] EXCEPT !.at = "rewrite"])
  /\ UNCHANGED <<ref, blob, written, raced, cut, crashes>>

Rewrite(o) ==
  /\ At(o, "rewrite")
  /\ Lands(o, op[o].sha, LetGo(op[o].freed))
  /\ UNCHANGED <<ref, written, crashes>>

----------------------------------------------------------------------------
(* del, the sweep, and the GC all three end in.                            *)

Del(o, p) ==
  /\ op[o] = None
  /\ ref[p] # None
  /\ ref' = [ref EXCEPT ![p] = None]
  /\ Step(o, GC(ref[p], {}))
  /\ UNCHANGED <<blob, written, raced, cut, crashes>>

\* sweepOrphans: every blob in the folder, one after the other.
Sweep(o, s) ==
  /\ op[o] = None
  /\ s \in Stored
  /\ Step(o, GC(s, Stored \ {s}))
  /\ UNCHANGED <<ref, blob, written, raced, cut, crashes>>

\* What a GC does when it is through with a blob: the sweep goes on to the next.
Done(o) ==
  LET todo == op[o].todo
  IN  IF todo = {} THEN Step(o, None)
      ELSE \E s \in todo : Step(o, GC(s, todo \ {s}))

Count(o) ==
  /\ At(o, "count")
  /\ IF Refcount(op[o].sha) = 0 THEN Step(o, [op[o] EXCEPT !.at = "stat"]) ELSE Done(o)
  /\ UNCHANGED <<ref, blob, written, raced, cut, crashes>>

\* (bug) the age is compared the wrong way round.
YoungEnough(s) == blob[s] = "fresh"

\* The age guard of deleteBlob.
OldEnough(s) == blob[s] = "old"

Stat(o) ==
  /\ At(o, "stat")
  /\ IF OldEnough(op[o].sha) THEN Step(o, [op[o] EXCEPT !.at = "unlink"]) ELSE Done(o)
  /\ UNCHANGED <<ref, blob, written, raced, cut, crashes>>

Unlink(o) ==
  /\ At(o, "unlink")
  /\ blob' = [blob EXCEPT ![op[o].sha] = None]
  /\ raced' = IF op[o].same THEN raced ELSE raced \cup {op[o].sha}
  /\ Done(o)
  /\ UNCHANGED <<ref, written, cut, crashes>>

----------------------------------------------------------------------------
(* Time and crashes.                                                       *)

\* Some operation has looked at s, or written it, and is not through with it.
InHand(s) == \E o \in Ops : op[o] # None /\ op[o].sha = s /\ op[o].at # "count"

\* A minute passes over a blob.  No operation takes that long from its first look at it to its end.
Age(s) ==
  /\ blob[s] = "fresh"
  /\ ~InHand(s)
  /\ blob' = [blob EXCEPT ![s] = "old"]
  /\ UNCHANGED <<ref, op, written, raced, cut, crashes>>

Crash(o) ==
  /\ op[o] # None
  /\ crashes < MaxCrashes
  /\ crashes' = crashes + 1
  /\ Step(o, None)
  /\ cut' = IF At(o, "rewrite") THEN cut \cup {op[o].sha} ELSE cut
  /\ UNCHANGED <<ref, blob, written, raced>>

----------------------------------------------------------------------------
Init ==
  /\ ref = [p \in Paths |-> None]
  /\ blob = [s \in Shas |-> None]
  /\ op = [o \in Ops |-> None]
  /\ written = {}
  /\ raced = {}
  /\ cut = {}
  /\ crashes = 0

Runs(o) ==
  \/ Stage(o) \/ Commit(o) \/ CommitReplay(o) \/ CommitRefused(o) \/ Recheck(o) \/ Rewrite(o)
  \/ Count(o) \/ Stat(o) \/ Unlink(o)

Next ==
  \/ \E o \in Ops :
       \/ \E p \in Paths : Del(o, p) \/ \E s \in Shas : Put(o, p, s)
       \/ \E s \in Shas : Sweep(o, s)
       \/ Runs(o)
       \/ Crash(o)
  \/ \E s \in Shas : Age(s)

Spec == Init /\ [][Next]_vars

\* A disk call returns.  Time passes whatever runs, so a minute in pieces is a minute (hence SF).
Fairness == (\A o \in Ops : WF_vars(Runs(o))) /\ (\A s \in Shas : SF_vars(Age(s)))
FairSpec == Spec /\ Fairness

----------------------------------------------------------------------------
(* Properties.                                                             *)

\* The variables have their types; a GC doubts its blob only between stat and unlink.
TypeOK ==
  /\ ref \in [Paths -> Shas \cup {None}]
  /\ blob \in [Shas -> {"fresh", "old", None}]
  /\ op \in [Ops -> PutAt \cup AfterAt \cup GCAt \cup {None}]
  /\ \A o \in Ops : op[o] \in GCAt => op[o].same \/ op[o].at = "unlink"
  /\ written \subseteq Paths \X Shas
  /\ raced \subseteq Shas /\ cut \subseteq Shas /\ crashes \in 0..MaxCrashes

\* A put of s has committed and is about to write the bytes.
Rescued(s) == \E o \in Ops : op[o] # None /\ op[o].sha = s /\ op[o].at \in {"recheck", "rewrite"}

Dangling(s) == Refcount(s) > 0 /\ blob[s] = None

\* A ref is never left without its bytes, but for two windows: a GC whose stat saw an older
\* writing than its unlink removes, and a put that died between its commit and its second write.
LostOnlyInWindows ==
  \A s \in Shas : Dangling(s) => Rescued(s) \/ s \in raced \/ s \in cut

\* The comment in put has no such exceptions: once the second write has landed, "a straggler can
\* no longer remove" the bytes.
BytesStay == \A s \in Shas : Dangling(s) => Rescued(s)

Orphan(s) == blob[s] # None /\ Refcount(s) = 0
Swept(s) == \E o \in Ops : op[o] \in GCAt /\ op[o].sha = s
PutRuns(s) == \E o \in Ops : op[o] \notin GCAt \cup {None} /\ op[o].sha = s

\* Disk hygiene is eventual: a blob nothing refers to goes away, whatever put it there and left,
\* as long as sweeps keep coming to it and leave it alone for a minute now and then.  Puts of the
\* same content have to stop: the retry of one whose file is deleted writes the blob again.
OrphansReclaimed ==
  \A s \in Shas :
    []<>(Swept(s) \/ ~Orphan(s)) /\ []<>~InHand(s) /\ <>[]~PutRuns(s) => []<>~Orphan(s)
=============================================================================
