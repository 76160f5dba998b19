----------------------------- MODULE LiveRegion -----------------------------
(***************************************************************************)
(* The live pointer and the "@live" region that follows it: touchLiveApp   *)
(* in src/src/store.mjs, the /events stream in src/src/http.mjs, embedLive *)
(* in src/src/shell-runtime.js.  The store keeps which app was opened last *)
(* and a counter; the stream tells every display; the region fetches the   *)
(* app and mounts it, and gives up on a fetch that a later switch has      *)
(* overtaken.                                                              *)
(***************************************************************************)
EXTENDS Naturals, Sequences

CONSTANTS
  Apps,       \* names in the registry
  Displays,   \* those that declare live_frame, a subset of Apps
  MaxOpens,   \* bound on how often apps are opened
  MaxCommits, \* bound on the commits that make the stream repeat itself
  MaxFaults,  \* bound on failed fetches and dropped streams
  None

VARIABLES
  pointer,  \* the row of live_pointer: [app, n]
  told,     \* the n the open stream last sent a frame for, or None while it reconnects
  stream,   \* pointers on the wire, in order
  shown,    \* the app that is mounted, or None for a tile
  gen,      \* the region's count of switches
  fetches,  \* get_app_html calls under way: [app, gen, found]
  retries,  \* timers of failed fetches: [app, gen]
  opens, commits, faults

store == <<pointer, opens, commits>>
feed == <<told, stream>>
region == <<shown, gen, fetches, retries>>
vars == <<store, feed, region, faults>>

Idle == [app |-> None, n |-> 0]

\* A host renders an app: its resource is read, or the loader mounts it.  A display leaves the
\* pointer alone.
Open(a) ==
  /\ opens < MaxOpens /\ a \notin Displays
  /\ opens' = opens + 1
  /\ pointer' = [app |-> a, n |-> pointer.n + 1]
  /\ UNCHANGED <<commits, feed, region, faults>>

\* send: a frame carries the pointer of now, whatever it was sent for.
Send == stream' = Append(stream, pointer.app)

\* The "live" event of this process, or the probe of another's.
Notify ==
  /\ told # None /\ told # pointer.n
  /\ Send /\ told' = pointer.n
  /\ UNCHANGED <<store, region, faults>>

\* A commit moves the seq: a frame as well, with the pointer in it.
Commit ==
  /\ told # None /\ commits < MaxCommits
  /\ commits' = commits + 1
  /\ Send
  /\ UNCHANGED <<pointer, opens, told, region, faults>>

Disconnect ==
  /\ told # None /\ faults < MaxFaults
  /\ told' = None /\ stream' = <<>> /\ faults' = faults + 1
  /\ UNCHANGED <<store, region>>

\* EventSource comes back by itself, and is told the current state whole.
Connect == told = None /\ Send /\ told' = pointer.n /\ UNCHANGED <<store, region, faults>>

\* go: the same app again is no switch; another one starts a fetch of its own.
Go(a) ==
  IF shown = a THEN UNCHANGED region
  ELSE /\ gen' = gen + 1
       /\ fetches' = fetches \cup {[app |-> a, gen |-> gen + 1, found |-> a \notin Displays]}
       /\ UNCHANGED <<shown, retries>>

\* A frame arrives.  A pointer that names nothing yet leaves the region waiting.
Frame ==
  /\ stream # <<>>
  /\ stream' = Tail(stream)
  /\ IF Head(stream) = None THEN UNCHANGED region ELSE Go(Head(stream))
  /\ UNCHANGED <<store, told, faults>>

\* An answer that a later switch has overtaken is abandoned; a display is never mounted in one.
Fetched(f) ==
  /\ fetches' = fetches \ {f}
  /\ shown' = IF f.gen # gen THEN shown ELSE IF f.found THEN f.app ELSE None
  /\ UNCHANGED <<store, feed, gen, retries, faults>>

\* A fetch that fails takes the region down and tries again.
FetchFails(f) ==
  /\ faults < MaxFaults /\ faults' = faults + 1
  /\ fetches' = fetches \ {f}
  /\ IF f.gen = gen
     THEN shown' = None /\ retries' = retries \cup {[app |-> f.app, gen |-> f.gen]}
     ELSE UNCHANGED <<shown, retries>>
  /\ UNCHANGED <<store, feed, gen>>

\* The timer of a failure; a switch since then supersedes it.
Retry(r) ==
  /\ shown' = shown
  /\ IF r.gen = gen /\ shown # r.app
     THEN /\ gen' = gen + 1
          /\ fetches' = fetches \cup {[app |-> r.app, gen |-> gen + 1, found |-> r.app \notin Displays]}
     ELSE UNCHANGED <<gen, fetches>>
  /\ retries' = retries \ {r}
  /\ UNCHANGED <<store, feed, faults>>

Init ==
  /\ pointer = Idle /\ told = None /\ stream = <<>>
  /\ shown = None /\ gen = 0 /\ fetches = {} /\ retries = {}
  /\ opens = 0 /\ commits = 0 /\ faults = 0

Next ==
  \/ \E a \in Apps : Open(a)
  \/ Notify \/ Commit \/ Disconnect \/ Connect \/ Frame
  \/ \E f \in fetches : Fetched(f) \/ FetchFails(f)
  \/ \E r \in retries : Retry(r)

Spec == Init /\ [][Next]_vars

----------------------------------------------------------------------------
AtRest == told = pointer.n /\ stream = <<>> /\ fetches = {} /\ retries = {}

\* "A region showing whatever app the AI opened last, swapping by itself as it opens others": once
\* every frame has arrived and every fetch has been answered, the mounted app is the pointer's.
ShowsTheLastOpened == AtRest => shown = pointer.app
=============================================================================
