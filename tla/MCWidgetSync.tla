---------------------------- MODULE MCWidgetSync ----------------------------
(* Small instances of WidgetSync for TLC. *)
EXTENDS WidgetSync, TLC

\* Two calls in flight, and two checks, are alike.
Symmetry == Permutations(Writes) \cup Permutations(Checks)
=============================================================================
