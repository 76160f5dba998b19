---------------------------- MODULE MCItemStore ----------------------------
(***************************************************************************)
(* Small instances of ItemStore for TLC.  Nothing in the store tells one   *)
(* id, key or value from another, so they are symmetric; every property    *)
(* run with the symmetry is an invariant or an action property.            *)
(***************************************************************************)
EXTENDS ItemStore, TLC

Symmetry == Permutations(Ids) \cup Permutations(Keys) \cup Permutations(Vals)
=============================================================================
