----------------------------- MODULE MCSharing -----------------------------
(* Sharing for TLC, in corners: the wall before the owner's store, with two  *)
(* grants and a clock that stands or with one grant, no App Store and a      *)
(* clock that runs; the copies of a shared app; its widget.  A corner's half *)
(* of the variables moves; the other half stands.                            *)
EXTENDS ShareScope, SharedUse

VARIABLE corner

\* The wall: one app that declares a second collection or not, and is replaced by an unreviewed one
\* of its name.  The App Store offers it too, in two versions.
Cmd(n, who, ui, m) == [name |-> n, actor |-> who, ui |-> ui, manifest |-> m]
MCSaves == {Cmd("a", "agent", Omitted, None), Cmd("a", "guest", "d1", {"x"})}
MCEntries == {[name |-> "a", ui |-> "d1", manifest |-> m] : m \in {None, {"x"}}}

Bare == [c \in Collections |-> IF c = "bare" THEN "g" ELSE Nil]

\* x is the name of an app of the viewer's own.
MCSpellings ==
  [k |-> [h |-> <<"k", "k2">>, g |-> <<"x", "x2", "x3">>], l |-> [h |-> <<"l", "l2">>, g |-> <<"x", "x2", "x3">>]]

Ask(tool, c, id) ==
  [tool |-> tool, app |-> "other", collection |-> c, id |-> id, actor |-> "agent", via |-> Nil, confirm |-> FALSE]

MCRequests ==
  {Ask(tool, c, 1) : tool \in {"data_update_item", "data_delete_item"}, c \in {Nil, "x"}}
   \cup {Ask("data_move_item", Nil, 2), Ask("data_add_item", "bare", 1), Ask("data_changes", "k", 1), Ask("file_read", Nil, 1), Ask("save_app", Nil, 1)}

NoBudget == [owner |-> 0, copies |-> 0, deaths |-> 0, reads |-> 0, calls |-> 0]
Row(c, pos) == [coll |-> c, pos |-> pos, by |-> "owner"]
ShelfOf(a, b, d) == [i \in Rows |-> IF i = 1 THEN a ELSE IF i = 2 THEN b ELSE d]

Child(policies) == ComputeCaps("unreviewed", [call_tools |-> {"data_changes", "data_update_item", "save_app"}], policies)
MCGuards ==
  {NewGuard("app", "h", SharedCaps(r, colls), {}) : r \in {"viewer", "editor"}, colls \in {{"h"}, {"h", "g"}}}
  \cup {NewGuard("app", "x", Child(own), {3}) : own \in {<<>>, [call_tools |-> {All}, delete_items |-> "confirm"]}}

CopyCorner ==
  \E d \in {Row("g", 0), Row("h", 1), Nil}, own \in {{}, {1}, {2}} :
    UseStarts(ShelfOf(Row("h", 0), Row("h", 0), d), {"h", "g"}, "viewer", own,
              NewGuard("app", "h", Nothing, {}), [NoBudget EXCEPT !.owner = 1, !.copies = 2, !.deaths = 1])

WidgetCorner ==
  \E d \in {Row("g", 0), Nil}, own \in {{}, {1, 2}}, g \in MCGuards :
    UseStarts(ShelfOf(Row("h", 0), Row("h", 0), d), {"h", "g"}, "editor", own, g,
              [NoBudget EXCEPT !.owner = 2, !.reads = 2, !.calls = 2])

AtRest == UseStarts(ShelfOf(Nil, Nil, Nil), {"h"}, "viewer", {}, NewGuard("app", "h", Nothing, {}), NoBudget)

MCInit ==
  \/ corner = "wall" /\ ShareStarts(0, MaxTicks) /\ AtRest
  \/ corner = "hour" /\ ShareStarts(1, 0) /\ AtRest
  \/ corner = "copy" /\ ShareInit /\ CopyCorner
  \/ corner = "widget" /\ ShareInit /\ WidgetCorner

MCNext ==
  /\ \/ corner = "wall" /\ ShareNext /\ UNCHANGED useVars
     \/ corner = "hour" /\ ShareNext /\ UNCHANGED <<found, useVars>>
     \/ corner \in {"copy", "widget"} /\ UseNext /\ UNCHANGED allVars
  /\ UNCHANGED corner

MCSpec == MCInit /\ [][MCNext]_<<allVars, useVars, corner>>
=============================================================================
