--------------------------- MODULE VersionedTable ---------------------------
(***************************************************************************)
(* What the store promises the readers of its items: a table that changes  *)
(* only in commits, where every row a commit leaves different carries a    *)
(* version above all that were ever seen, and no two rows share one.       *)
(***************************************************************************)
EXTENDS Integers

CONSTANTS Ids, None

VARIABLES
  table,  \* id -> a row with a version, or None
  seq     \* the highest version any commit has used up

Init ==
  /\ table = [i \in Ids |-> None]
  /\ seq = 0

Commit ==
  /\ seq' > seq
  /\ \A i \in Ids : table'[i] \in {table[i], None} \/ table'[i].version \in (seq + 1)..seq'
  /\ \A i, j \in Ids : table'[i] # None /\ table'[j] # None /\ i # j =>
       table'[i].version # table'[j].version

Spec == Init /\ [][Commit]_<<table, seq>>
=============================================================================
