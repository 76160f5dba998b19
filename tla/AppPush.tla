------------------------------ MODULE AppPush ------------------------------
(***************************************************************************)
(* Pushing an app from a file (src/install-app.mjs) into the store of a    *)
(* machine: the bundle's files first, one by one, into the app's file      *)
(* plane, then the template in one transaction, and, where the user asked  *)
(* for it, the files of older builds last, from the list shown before      *)
(* anything was written.  Several pushes may be under way, and any may     *)
(* die.  One app; of a template the model keeps the files it references.   *)
(***************************************************************************)
EXTENDS Install

CONSTANTS
  Pushers,    \* processes of the CLI
  Paths,      \* paths of the file plane
  Pushes      \* builds to push: [refs, assets, prune]

ASSUME PushesShape ==
  /\ IsFiniteSet(Paths)
  /\ Pushes \subseteq [refs : SUBSET Paths, assets : SUBSET Paths, prune : BOOLEAN]

ASSUME NilIsNoRow == Nil \notin [version : Nat, refs : SUBSET Paths]

VARIABLES
  pushed,  \* row of the app: [version, refs], or Nil
  plane,   \* the paths stored for it
  push,    \* pusher -> the push under way, or Nil
  told,    \* history variable: the references a push said nothing stands behind
  raced    \* history variable: the paths pruned while another push was under way or had landed

pushing == <<pushed, plane, push, told, raced>>
allVars == <<machineVars, pushing>>

Version == IF pushed = Nil THEN 0 ELSE pushed.version

----------------------------------------------------------------------------
\* (bug) only what is pushed is kept.
OrphansOfTheBundle(build) == IF build.prune THEN plane \ build.assets ELSE {}

\* What a prune would remove: stored, and neither pushed nor referenced.
PruneCandidates(build) == IF build.prune THEN plane \ (build.assets \cup build.refs) ELSE {}

\* Opened for writing, so the store climbs; nothing is seeded here.
StartPush(p, build) ==
  /\ push[p] = Nil /\ budget.pushes > 0
  /\ MayOpen(store) /\ ~ ClimbRefused(store)
  /\ Open
  /\ budget' = [budget EXCEPT !.pushes = @ - 1]
  /\ push' = [push EXCEPT ![p] =
       [pc |-> "assets", build |-> build, todo |-> SetToSeq(build.assets), saw |-> Version,
        orphans |-> PruneCandidates(build), unbacked |-> build.refs \ (build.assets \cup plane)]]
  /\ HalfCopied
  /\ UNCHANGED <<config, features, clone, tool, servers, own, pushed, plane, told, raced>>

\* The plane does not ask whether the app exists.
PutAsset(p) ==
  /\ push[p] # Nil /\ push[p].pc = "assets" /\ push[p].todo # <<>>
  /\ plane' = plane \cup {Head(push[p].todo)}
  /\ raced' = raced \ {Head(push[p].todo)}
  /\ push' = [push EXCEPT ![p].todo = Tail(@)]
  /\ UNCHANGED <<machineVars, pushed, told>>

\* A push of a new app names no version, and so replaces what has been created meanwhile.
Lands(saw) == saw \in {0, Version}

SaveTemplate(p) ==
  /\ push[p] # Nil /\ push[p].pc = "assets" /\ push[p].todo = <<>>
  /\ IF Lands(push[p].saw)
     THEN /\ pushed' = [version |-> Version + 1, refs |-> push[p].build.refs]
          /\ push' = [push EXCEPT ![p].pc = "prune", ![p].saw = Version + 1]
          /\ told' = push[p].unbacked
     ELSE push' = [push EXCEPT ![p] = Nil] /\ UNCHANGED <<pushed, told>>
  /\ UNCHANGED <<machineVars, plane, raced>>

\* Another push is under way, or has landed since this one did.
Overlapped(p) == Version # push[p].saw \/ \E q \in Pushers \ {p} : push[q] # Nil

\* The list is the one that was shown; a file that cannot be pruned is left.
PruneOne(p) ==
  /\ push[p] # Nil /\ push[p].pc = "prune"
  /\ \E x \in push[p].orphans :
       /\ plane' \in {plane, plane \ {x}}
       /\ push' = [push EXCEPT ![p].orphans = @ \ {x}]
       /\ raced' = IF Overlapped(p) THEN raced \cup {x} ELSE raced
  /\ UNCHANGED <<machineVars, pushed, told>>

Pushed(p) ==
  /\ push[p] # Nil /\ push[p].pc = "prune" /\ push[p].orphans = {}
  /\ push' = [push EXCEPT ![p] = Nil]
  /\ UNCHANGED <<machineVars, pushed, plane, told, raced>>

\* An asset that cannot be stored, a kill, a reboot.
PushDies(p) ==
  /\ push[p] # Nil /\ budget.crashes > 0
  /\ budget' = [budget EXCEPT !.crashes = @ - 1]
  /\ push' = [push EXCEPT ![p] = Nil]
  /\ UNCHANGED <<machine, tool, servers, own, excused, origin, pushed, plane, told, raced>>

----------------------------------------------------------------------------
PushInit ==
  /\ pushed = Nil /\ plane = {} /\ told = {} /\ raced = {}
  /\ push = [p \in Pushers |-> Nil]

\* The other tools; a purge while nothing is being pushed takes the app and its files with the store.
Tools ==
  /\ InstallNext
  /\ IF tool.pc = "remove, purge" /\ store # Nil /\ store' = Nil
     THEN /\ \A p \in Pushers : push[p] = Nil
          /\ pushed' = Nil /\ plane' = {} /\ told' = {} /\ raced' = {} /\ UNCHANGED push
     ELSE UNCHANGED pushing

MachineNext ==
  \/ Tools
  \/ \E p \in Pushers : \/ \E build \in Pushes : StartPush(p, build)
                        \/ PutAsset(p) \/ SaveTemplate(p) \/ PruneOne(p) \/ Pushed(p) \/ PushDies(p)

\* Pushes on a machine in whatever state.
PushSpec == PushInit /\ [][MachineNext]_allVars

\* The same from any machine that a user may have.
MachineSpec == MachineInit /\ PushInit /\ [][MachineNext]_allVars

----------------------------------------------------------------------------
(* Properties.                                                             *)

\* Every file the installed template references is stored, at every moment of every push and after
\* whatever death, save those the push itself said were missing and those that a prune, worked out
\* before another push, took from under that one.
ReferencesStand == pushed # Nil => pushed.refs \subseteq plane \cup told \cup raced
=============================================================================
