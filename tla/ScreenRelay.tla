---------------------------- MODULE ScreenRelay ----------------------------
(***************************************************************************)
(* The screen relay: src/src/tools/screen.mjs on the server, screenRelay   *)
(* in src/src/shell-runtime.js in the widget.  The model's call becomes a  *)
(* job; an open widget long-polls, receives the job, runs it and sends the *)
(* answer with its next poll.  Requests and responses are delayed,         *)
(* reordered and lost; a poll the widget gave up on may still arrive, and  *)
(* may still be the one that waits at the server.                          *)
(*                                                                         *)
(* Timers fire whenever they like: 15 s for a call, 20 s for a waiting     *)
(* poll, 40 s for the widget's, 35 s without a poll for a session.  Which  *)
(* of the live widgets a call means (the one touched last) is left open.   *)
(***************************************************************************)
EXTENDS Naturals, Sequences

CONSTANTS
  Widgets,   \* open widgets, a session each
  Settings,  \* those that show the settings app
  Jobs,      \* calls of screen_read and screen_act
  Polls,     \* names for the polls under way, reused when free
  MaxFaults, \* bound: messages lost, polls given up or refused
  None

ASSUME SettingsAreWidgets == Settings \subseteq Widgets

ASSUME NoneIsNoName == None \notin Jobs /\ None \notin Polls

ASSUME FaultBound == MaxFaults \in Nat

VARIABLES
  wid,      \* widget -> what its loop is at, the poll it waits for, the answer it holds
  learned,  \* widgets that know which app they show (compName)
  sess,     \* widget -> its session on the server
  call,     \* job -> where the model's call stands
  reqs,     \* polls on their way to the server
  resps,    \* answers on their way back
  runs,     \* (history) job -> how many times it was carried out
  lost,     \* (history) jobs whose delivery, or whose answer, never reached the other side
  faults    \* (bound) failures so far

vars == <<wid, learned, sess, call, reqs, resps, runs, lost, faults>>

MaxFails == 3  \* failed polls in a row that end the widget's loop

AppOf(w) == IF w \notin learned THEN "" ELSE IF w \in Settings THEN "settings" ELSE "app"

InUse(w) == {m.poll : m \in {x \in reqs \cup resps : x.w = w}} \cup {sess[w].waiter, wid[w].poll}

Answer(w, poll, job) == [w |-> w, poll |-> poll, job |-> job]

----------------------------------------------------------------------------
(* The server.                                                             *)

\* The waiting poll, if there is one, is answered empty-handed.
Released(w) == IF sess[w].waiter = None THEN {} ELSE {Answer(w, sess[w].waiter, None)}

\* (bug) the poll takes its place without looking at the queue.
TakesBlindly(s) == None

\* The job an arriving poll carries off at once.
Takes(s) == IF s.queue = <<>> THEN None ELSE Head(s.queue)

\* (bug) the poll looks at the first job and leaves it there.
RestWhole(q) == q

\* (bug) the queue is emptied into one poll.
RestNothing(q) == <<>>

\* What a poll that took a job leaves.
Rest(q) == Tail(q)

\* screen_poll: the answer it brings settles its call, if that still waits; it supersedes the poll
\* that waits, and takes the first job or waits itself.
ScreenPoll(m) ==
  LET w == m.w
      s == sess[w]
      job == Takes(s)
  IN  /\ m \in reqs
      /\ reqs' = reqs \ {m}
      /\ call' = IF m.done # None /\ call[m.done] = "waits" THEN [call EXCEPT ![m.done] = "answered"] ELSE call
      /\ resps' = resps \cup Released(w) \cup (IF job = None THEN {} ELSE {Answer(w, m.poll, job)})
      /\ sess' = [sess EXCEPT ![w] =
           [live |-> TRUE, app |-> m.app, waiter |-> IF job = None THEN m.poll ELSE None,
            queue |-> IF job = None THEN s.queue ELSE Rest(s.queue)]]
      /\ UNCHANGED <<wid, learned, runs, lost, faults>>

HoldExpires(w) ==
  /\ sess[w].waiter # None
  /\ resps' = resps \cup Released(w)
  /\ sess' = [sess EXCEPT ![w].waiter = None]
  /\ UNCHANGED <<wid, learned, call, reqs, runs, lost, faults>>

\* send: the job goes to the poll that waits, or into the queue.  The settings app is refused.
Send(j, w) ==
  /\ call[j] = "new"
  /\ sess[w].live
  /\ IF sess[w].app = "settings"
     THEN call' = [call EXCEPT ![j] = "refused"] /\ UNCHANGED <<sess, resps>>
     ELSE /\ call' = [call EXCEPT ![j] = "waits"]
          /\ IF sess[w].waiter # None
             THEN /\ resps' = resps \cup {Answer(w, sess[w].waiter, j)}
                  /\ sess' = [sess EXCEPT ![w].waiter = None]
             ELSE sess' = [sess EXCEPT ![w].queue = Append(@, j)] /\ UNCHANGED resps
  /\ UNCHANGED <<wid, learned, reqs, runs, lost, faults>>

SendNowhere(j) ==
  /\ call[j] = "new"
  /\ \A w \in Widgets : ~sess[w].live
  /\ call' = [call EXCEPT ![j] = "refused"]
  /\ UNCHANGED <<wid, learned, sess, reqs, resps, runs, lost, faults>>

\* The call stops waiting.  Its job stays where it is.
JobExpires(j) ==
  /\ call[j] = "waits"
  /\ call' = [call EXCEPT ![j] = "expired"]
  /\ UNCHANGED <<wid, learned, sess, reqs, resps, runs, lost, faults>>

\* LIVE_MS without a poll; one that waits keeps its session alive.
Quiet(w) ==
  /\ sess[w].live /\ sess[w].waiter = None
  /\ sess' = [sess EXCEPT ![w].live = FALSE]
  /\ UNCHANGED <<wid, learned, call, reqs, resps, runs, lost, faults>>

----------------------------------------------------------------------------
(* The widget's loop.                                                      *)

Learn(w) ==
  /\ w \notin learned /\ wid[w].at # "closed"
  /\ learned' = learned \cup {w}
  /\ UNCHANGED <<wid, sess, call, reqs, resps, runs, lost, faults>>

Poll(w) ==
  /\ wid[w].at = "idle"
  /\ Polls \ InUse(w) # {}
  /\ LET p == CHOOSE p \in Polls \ InUse(w) : TRUE
     IN  /\ reqs' = reqs \cup {[w |-> w, poll |-> p, app |-> AppOf(w), done |-> wid[w].done]}
         /\ wid' = [wid EXCEPT ![w].at = "asked", ![w].poll = p]
  /\ UNCHANGED <<learned, sess, call, resps, runs, lost, faults>>

\* A ping reports the app at once and leaves the polls alone.
Ping(w) ==
  /\ wid[w].at # "closed" /\ sess[w].live
  /\ sess[w].app # AppOf(w)
  /\ sess' = [sess EXCEPT ![w].app = AppOf(w)]
  /\ UNCHANGED <<wid, learned, call, reqs, resps, runs, lost, faults>>

\* A settings widget declines, whatever the server knew of it when it handed the job out.
Declines(w) == AppOf(w) = "settings"

\* The answer to the poll the widget waits for.  The answer it sent along is off its hands.
Hear(r) ==
  LET w == r.w
      Turn(at, job, done) == [at |-> at, poll |-> None, job |-> job, done |-> done, fails |-> 0]
  IN  /\ r \in resps
      /\ wid[w].at = "asked" /\ wid[w].poll = r.poll
      /\ resps' = resps \ {r}
      /\ \/ /\ r.job = None \/ Declines(w)
            /\ wid' = [wid EXCEPT ![w] = Turn("idle", None, r.job)]
            /\ UNCHANGED runs
         \/ /\ r.job # None /\ ~Declines(w)
            /\ wid' = [wid EXCEPT ![w] = Turn("run", r.job, None)]
            /\ runs' = [runs EXCEPT ![r.job] = @ + 1]
      /\ UNCHANGED <<learned, sess, call, reqs, lost, faults>>

\* The app has done it, or failed at it: either way there is an answer.
Finish(w) ==
  /\ wid[w].at = "run"
  /\ wid' = [wid EXCEPT ![w].at = "idle", ![w].done = wid[w].job, ![w].job = None]
  /\ UNCHANGED <<learned, sess, call, reqs, resps, runs, lost, faults>>

Failed(w, done) ==
  /\ wid[w].at = "asked"
  /\ wid' = [wid EXCEPT ![w].at = IF wid[w].fails + 1 = MaxFails THEN "closed" ELSE "idle",
                        ![w].poll = None, ![w].done = done, ![w].fails = @ + 1]

Fault == faults < MaxFaults /\ faults' = faults + 1

UnderWay(w) == \/ sess[w].waiter = wid[w].poll
               \/ \E m \in reqs \cup resps : m.w = w /\ m.poll = wid[w].poll

\* The poll throws: the answer is kept and goes with the next one.
GiveUp(w) ==
  /\ Failed(w, wid[w].done)
  /\ IF UnderWay(w) THEN Fault ELSE UNCHANGED faults
  /\ UNCHANGED <<learned, sess, call, reqs, resps, runs, lost>>

\* The poll comes back as an error: the answer it carried is not sent again.
ErrorBack(w) ==
  /\ Failed(w, None)
  /\ Fault
  /\ lost' = lost \cup ({wid[w].done} \ {None})
  /\ UNCHANGED <<learned, sess, call, reqs, resps, runs>>

Close(w) ==
  /\ wid[w].at # "closed"
  /\ wid' = [wid EXCEPT ![w].at = "closed"]
  /\ lost' = lost \cup ({wid[w].job, wid[w].done} \ {None})
  /\ UNCHANGED <<learned, sess, call, reqs, resps, runs, faults>>

----------------------------------------------------------------------------
(* The wire.                                                               *)

LoseRequest(m) ==
  /\ m \in reqs
  /\ Fault
  /\ reqs' = reqs \ {m}
  /\ UNCHANGED <<wid, learned, sess, call, resps, runs, lost>>

\* An answer to a poll nobody waits for any more falls on the floor, with the job it carries.
Stale(r) == wid[r.w].at # "asked" \/ wid[r.w].poll # r.poll

DropResponse(r) ==
  /\ r \in resps
  /\ IF Stale(r) THEN UNCHANGED faults ELSE Fault
  /\ resps' = resps \ {r}
  /\ lost' = lost \cup ({r.job} \ {None})
  /\ UNCHANGED <<wid, learned, sess, call, reqs, runs>>

----------------------------------------------------------------------------
Init ==
  /\ wid = [w \in Widgets |-> [at |-> "idle", poll |-> None, job |-> None, done |-> None, fails |-> 0]]
  /\ learned = {}
  /\ sess = [w \in Widgets |-> [live |-> FALSE, app |-> "", waiter |-> None, queue |-> <<>>]]
  /\ call = [j \in Jobs |-> "new"]
  /\ reqs = {} /\ resps = {}
  /\ runs = [j \in Jobs |-> 0]
  /\ lost = {}
  /\ faults = 0

Arrives(w) == \E m \in reqs : m.w = w /\ ScreenPoll(m)
Returns(w) == \E r \in resps : r.w = w /\ (Hear(r) \/ DropResponse(r))
Loop(w) == Poll(w) \/ Finish(w) \/ (~UnderWay(w) /\ GiveUp(w))

Next ==
  \/ \E w \in Widgets :
       \/ Poll(w) \/ Finish(w) \/ GiveUp(w) \/ ErrorBack(w) \/ Close(w) \/ Learn(w) \/ Ping(w)
       \/ HoldExpires(w) \/ Quiet(w)
       \/ \E j \in Jobs : Send(j, w)
  \/ \E j \in Jobs : SendNowhere(j) \/ JobExpires(j)
  \/ \E m \in reqs : ScreenPoll(m) \/ LoseRequest(m)
  \/ \E r \in resps : Hear(r) \/ DropResponse(r)

Spec == Init /\ [][Next]_vars

\* An open widget keeps its loop going, and what is on the wire arrives unless it is lost.
Fairness == \A w \in Widgets : WF_vars(Loop(w)) /\ WF_vars(Arrives(w)) /\ WF_vars(Returns(w))
FairSpec == Spec /\ Fairness

----------------------------------------------------------------------------
(* Properties.                                                             *)

OptJob == Jobs \cup {None}
OptPoll == Polls \cup {None}
Apps == {"", "app", "settings"}

\* The variables have their types; a widget that asked waits for a poll, one that runs has a job,
\* and its loop ends with the last failure it is allowed.
TypeOK ==
  /\ wid \in [Widgets -> [at : {"idle", "asked", "run", "closed"}, poll : OptPoll, job : OptJob,
                         done : OptJob, fails : 0..MaxFails]]
  /\ \A w \in Widgets : /\ wid[w].at = "asked" => wid[w].poll # None
                        /\ wid[w].at = "run" => wid[w].job # None
                        /\ wid[w].at # "closed" => wid[w].fails < MaxFails
  /\ learned \subseteq Widgets
  /\ sess \in [Widgets -> [live : BOOLEAN, app : Apps, waiter : OptPoll, queue : Seq(Jobs)]]
  /\ call \in [Jobs -> {"new", "waits", "answered", "expired", "refused"}]
  /\ reqs \subseteq [w : Widgets, poll : Polls, app : Apps, done : OptJob]
  /\ resps \subseteq [w : Widgets, poll : Polls, job : OptJob]
  /\ runs \in [Jobs -> Nat] /\ lost \subseteq Jobs /\ faults \in 0..MaxFaults

\* Polls that are superseded, given up, repeated or late never make a press happen twice.
RunsAtMostOnce == \A j \in Jobs : runs[j] <= 1

Queued(j) == \E w \in Widgets : \E i \in DOMAIN sess[w].queue : sess[w].queue[i] = j
OnTheWire(j) == (\E r \in resps : r.job = j) \/ (\E m \in reqs : m.done = j)
InHand(j) == \E w \in Widgets : j \in {wid[w].job, wid[w].done}

\* The server drops nothing: the job of a call that waits is queued, on its way, in a widget, or
\* was lost on the wire or with a widget that closed.
NothingStranded == \A j \in Jobs : call[j] = "waits" => Queued(j) \/ OnTheWire(j) \/ InHand(j) \/ j \in lost

\* No job sits in the queue while a poll waits for one.
NoIdleWait == \A w \in Widgets : sess[w].waiter # None => sess[w].queue = <<>>

\* A queued job is fetched, as long as the widget stays open.
QueueDrains == \A w \in Widgets : sess[w].queue # <<>> ~> sess[w].queue = <<>> \/ wid[w].at = "closed"
=============================================================================
