--------------------------- MODULE MCAppRegistry ---------------------------
(* Small instances of AppRegistry for TLC, for its two counterexamples. *)
EXTENDS AppRegistry

Cmd(n, who, ui, m) == [name |-> n, actor |-> who, ui |-> ui, manifest |-> m]

\* a is written by the AI and pushed by hand; b, unreviewed, declares a's collection.
MCSaves ==
  {Cmd("a", "agent", "d1", Omitted), Cmd("a", "human", "built", {"a"}), Cmd("b", "guest", "d1", {"a"})}

\* a is the AI's alone.
MCAgentSaves == {Cmd("a", "agent", "d1", Omitted), Cmd("a", "agent", Omitted, {"a"})}
=============================================================================
