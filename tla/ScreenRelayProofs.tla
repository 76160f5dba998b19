------------------------- MODULE ScreenRelayProofs -------------------------
(***************************************************************************)
(* The screen relay for any number of widgets, calls and polls: types, no  *)
(* job twice, no idle wait, nothing stranded.                              *)
(*                                                                         *)
(* Neither side remembers the jobs it has seen, and names of polls come    *)
(* back.  What holds the relay together is that a job is in one place at a *)
(* time, that a poll is in one place at a time, and that the answer a      *)
(* widget holds has reached the server once the poll that carried it is    *)
(* answered.                                                               *)
(***************************************************************************)
EXTENDS ScreenRelay, TLAPS

In(q, j) == \E i \in DOMAIN q : q[i] = j
Distinct(q) == \A i1, i2 \in DOMAIN q : q[i1] = q[i2] => i1 = i2

\* A call that has not been made has left no trace.
NewCallsAreNowhere ==
  \A j \in Jobs : call[j] = "new" =>
    /\ runs[j] = 0
    /\ \A w \in Widgets : ~In(sess[w].queue, j) /\ wid[w].job # j /\ wid[w].done # j
    /\ \A r \in resps : r.job # j

\* A job that is still to be run, in a queue or in an answer, is in no other.
OnePlace ==
  /\ \A w \in Widgets : Distinct(sess[w].queue)
  /\ \A w1, w2 \in Widgets, j \in Jobs : In(sess[w1].queue, j) /\ In(sess[w2].queue, j) => w1 = w2
  /\ \A w \in Widgets, r \in resps : ~In(sess[w].queue, r.job)
  /\ \A r1, r2 \in resps : r1.job # None /\ r1.job = r2.job => r1 = r2

\* It has not been run.
NotYetRun ==
  /\ \A w \in Widgets, j \in Jobs : In(sess[w].queue, j) => runs[j] = 0
  /\ \A r \in resps : r.job # None => runs[r.job] = 0

\* A poll is a request, or waits, or is an answer.
OnePoll ==
  /\ \A m1, m2 \in reqs : m1.w = m2.w /\ m1.poll = m2.poll => m1 = m2
  /\ \A r1, r2 \in resps : r1.w = r2.w /\ r1.poll = r2.poll => r1 = r2
  /\ \A m \in reqs, r \in resps : m.w = r.w => m.poll # r.poll
  /\ \A m \in reqs : sess[m.w].waiter # m.poll
  /\ \A r \in resps : sess[r.w].waiter # r.poll

\* The poll a widget waits for carries the answer it holds, and has settled its call once it arrived.
Carried ==
  \A w \in Widgets : wid[w].at = "asked" =>
    /\ \A m \in reqs : m.w = w /\ m.poll = wid[w].poll => m.done = wid[w].done
    /\ wid[w].done # None /\ (sess[w].waiter = wid[w].poll \/ \E r \in resps : r.w = w /\ r.poll = wid[w].poll)
         => call[wid[w].done] # "waits"

\* A widget has one thing in hand.
OneInHand ==
  \A w \in Widgets : /\ wid[w].at = "run" => wid[w].done = None
                     /\ wid[w].at \in {"idle", "asked"} => wid[w].job = None

\* NothingStranded, without the requests: a widget keeps an answer until it was settled.
Kept ==
  \A j \in Jobs : call[j] = "waits" => Queued(j) \/ (\E r \in resps : r.job = j) \/ InHand(j) \/ j \in lost

Places == NewCallsAreNowhere /\ OnePlace /\ NotYetRun
Answers == OnePoll /\ Carried /\ OneInHand /\ Kept

Inv == TypeOK /\ Places /\ Answers /\ RunsAtMostOnce /\ NoIdleWait

----------------------------------------------------------------------------
(* Queues.                                                                 *)

LEMMA QueueTail ==
  ASSUME NEW q \in Seq(Jobs), q # <<>>
  PROVE  /\ Head(q) \in Jobs /\ Tail(q) \in Seq(Jobs)
         /\ In(q, Head(q))
         /\ \A j \in Jobs : In(Tail(q), j) => In(q, j)
         /\ \A j \in Jobs : In(q, j) => j = Head(q) \/ In(Tail(q), j)
         /\ Distinct(q) => Distinct(Tail(q)) /\ ~In(Tail(q), Head(q))
  <1>1. /\ Head(q) \in Jobs /\ Tail(q) \in Seq(Jobs)
        /\ Head(q) = q[1] /\ 1 \in DOMAIN q
        /\ DOMAIN q = 1 .. Len(q) /\ DOMAIN Tail(q) = 1 .. (Len(q) - 1) /\ Len(q) \in Nat \ {0}
    OBVIOUS
  <1>2. \A i \in DOMAIN Tail(q) : i + 1 \in DOMAIN q /\ i + 1 # 1 /\ Tail(q)[i] = q[i + 1]
    BY <1>1
  <1>3. \A i \in DOMAIN q : i # 1 => i - 1 \in DOMAIN Tail(q) /\ q[i] = Tail(q)[i - 1]
    BY <1>1
  <1>4. In(q, Head(q))
    BY <1>1 DEF In
  <1>5. \A j \in Jobs : In(Tail(q), j) => In(q, j)
    BY <1>2 DEF In
  <1>6. \A j \in Jobs : In(q, j) => j = Head(q) \/ In(Tail(q), j)
    BY <1>1, <1>3 DEF In
  <1>7. ASSUME Distinct(q) PROVE Distinct(Tail(q)) /\ ~In(Tail(q), Head(q))
    <2>1. ASSUME NEW i1 \in DOMAIN Tail(q), NEW i2 \in DOMAIN Tail(q), Tail(q)[i1] = Tail(q)[i2] PROVE i1 = i2
      <3>1. i1 + 1 = i2 + 1
        BY <1>2, <1>7, <2>1 DEF Distinct
      <3> QED BY <1>1, <3>1
    <2>2. ASSUME NEW i \in DOMAIN Tail(q), Tail(q)[i] = Head(q) PROVE FALSE
      BY <1>1, <1>2, <1>7, <2>2 DEF Distinct
    <2> QED BY <2>1, <2>2 DEF Distinct, In
  <1> QED BY <1>1, <1>4, <1>5, <1>6, <1>7

LEMMA QueueAppend ==
  ASSUME NEW q \in Seq(Jobs), NEW x \in Jobs
  PROVE  /\ Append(q, x) \in Seq(Jobs)
         /\ \A j \in Jobs : In(Append(q, x), j) <=> In(q, j) \/ j = x
         /\ Distinct(q) /\ ~In(q, x) => Distinct(Append(q, x))
  <1> DEFINE longer == Append(q, x)
  <1>1. /\ longer \in Seq(Jobs) /\ Len(q) \in Nat
        /\ DOMAIN q = 1 .. Len(q) /\ DOMAIN longer = 1 .. (Len(q) + 1)
        /\ longer[Len(q) + 1] = x
        /\ \A i \in DOMAIN q : longer[i] = q[i]
    OBVIOUS
  <1>2. \A i \in DOMAIN longer : i = Len(q) + 1 \/ i \in DOMAIN q
    BY <1>1
  <1>3. DOMAIN q \subseteq DOMAIN longer /\ Len(q) + 1 \in DOMAIN longer
    BY <1>1
  <1> HIDE DEF longer
  <1>4. \A j \in Jobs : In(longer, j) <=> In(q, j) \/ j = x
    BY <1>1, <1>2, <1>3 DEF In
  <1>5. Distinct(q) /\ ~In(q, x) => Distinct(longer)
    BY <1>1, <1>2 DEF In, Distinct
  <1> QED BY <1>1, <1>4, <1>5 DEF longer

----------------------------------------------------------------------------
(* What the server does with a poll and a call.                            *)

\* A poll that is answered empty-handed is the one that waited.
LEMMA ReleasedIs ==
  ASSUME NEW w \in Widgets, NEW r \in Released(w)
  PROVE  /\ sess[w].waiter # None
         /\ r = [w |-> w, poll |-> sess[w].waiter, job |-> None]
         /\ r.w = w /\ r.poll = sess[w].waiter /\ r.job = None
  BY DEF Released, Answer

\* Either the poll waits, and the queue is empty, or it carries off the first job.
LEMMA ScreenPollDoes ==
  ASSUME TypeOK, NEW m \in reqs, ScreenPoll(m)
  PROVE  /\ m \in [w : Widgets, poll : Polls, app : Apps, done : OptJob]
         /\ m.w \in Widgets /\ m.poll \in Polls
         /\ reqs' = reqs \ {m}
         /\ UNCHANGED <<wid, learned, runs, lost, faults>>
         /\ call' = IF m.done # None /\ call[m.done] = "waits" THEN [call EXCEPT ![m.done] = "answered"] ELSE call
         /\ sess' \in [Widgets -> [live : BOOLEAN, app : Apps, waiter : OptPoll, queue : Seq(Jobs)]]
         /\ \A v \in Widgets : v # m.w => sess'[v] = sess[v]
         /\ \/ /\ sess[m.w].queue = <<>> /\ sess'[m.w].queue = <<>>
               /\ sess'[m.w].waiter = m.poll
               /\ resps' = resps \cup Released(m.w)
            \/ /\ sess[m.w].queue # <<>> /\ sess'[m.w].queue = Tail(sess[m.w].queue)
               /\ Head(sess[m.w].queue) \in Jobs
               /\ sess'[m.w].waiter = None
               /\ resps' = resps \cup Released(m.w) \cup
                             {[w |-> m.w, poll |-> m.poll, job |-> Head(sess[m.w].queue)]}
  <1> USE NoneIsNoName DEF OptJob, OptPoll
  <1>1. m \in [w : Widgets, poll : Polls, app : Apps, done : OptJob]
    BY DEF TypeOK
  <1>2. sess[m.w] \in [live : BOOLEAN, app : Apps, waiter : OptPoll, queue : Seq(Jobs)]
    BY <1>1 DEF TypeOK
  <1>3. CASE sess[m.w].queue = <<>>
    <2>1. Takes(sess[m.w]) = None
      BY <1>3 DEF Takes
    <2>2. sess' = [sess EXCEPT ![m.w] = [live |-> TRUE, app |-> m.app, waiter |-> m.poll, queue |-> <<>>]]
      BY <1>3, <2>1 DEF ScreenPoll
    <2>3. resps' = resps \cup Released(m.w)
      BY <2>1 DEF ScreenPoll
    <2>4. <<>> \in Seq(Jobs)
      OBVIOUS
    <2> QED BY <1>1, <1>2, <1>3, <2>2, <2>3, <2>4 DEF ScreenPoll, TypeOK
  <1>4. CASE sess[m.w].queue # <<>>
    <2> DEFINE q == sess[m.w].queue
    <2>1. q \in Seq(Jobs) /\ Head(q) \in Jobs /\ Tail(q) \in Seq(Jobs)
      BY <1>2, <1>4, QueueTail
    <2>2. Takes(sess[m.w]) = Head(q) /\ Head(q) # None
      BY <1>4, <2>1 DEF Takes
    <2>3. sess' = [sess EXCEPT ![m.w] = [live |-> TRUE, app |-> m.app, waiter |-> None, queue |-> Tail(q)]]
      BY <2>2 DEF ScreenPoll, Rest
    <2>4. resps' = resps \cup Released(m.w) \cup {[w |-> m.w, poll |-> m.poll, job |-> Head(q)]}
      BY <2>2 DEF ScreenPoll, Answer
    <2>5. [live |-> TRUE, app |-> m.app, waiter |-> None, queue |-> Tail(q)]
            \in [live : BOOLEAN, app : Apps, waiter : OptPoll, queue : Seq(Jobs)]
      BY <1>1, <2>1
    <2>6. /\ sess' \in [Widgets -> [live : BOOLEAN, app : Apps, waiter : OptPoll, queue : Seq(Jobs)]]
          /\ \A v \in Widgets : v # m.w => sess'[v] = sess[v]
          /\ sess'[m.w].queue = Tail(q) /\ sess'[m.w].waiter = None
      <3> HIDE DEF q
      <3>1. sess \in [Widgets -> [live : BOOLEAN, app : Apps, waiter : OptPoll, queue : Seq(Jobs)]]
        BY DEF TypeOK
      <3>2. /\ sess'[m.w] = [live |-> TRUE, app |-> m.app, waiter |-> None, queue |-> Tail(q)]
            /\ \A v \in Widgets : v # m.w => sess'[v] = sess[v]
        BY <1>1, <2>3, <3>1
      <3> QED BY <1>1, <2>3, <2>5, <3>1, <3>2
    <2> QED BY <1>1, <1>4, <2>1, <2>4, <2>6 DEF ScreenPoll
  <1> QED BY <1>3, <1>4

\* Either the call is refused, or its job leaves with the poll that waited, or it joins the queue.
LEMMA SendDoes ==
  ASSUME TypeOK, NEW j \in Jobs, NEW w \in Widgets, Send(j, w)
  PROVE  /\ call[j] = "new"
         /\ UNCHANGED <<wid, learned, reqs, runs, lost, faults>>
         /\ sess' \in [Widgets -> [live : BOOLEAN, app : Apps, waiter : OptPoll, queue : Seq(Jobs)]]
         /\ \/ call' = [call EXCEPT ![j] = "refused"] /\ UNCHANGED <<sess, resps>>
            \/ /\ call' = [call EXCEPT ![j] = "waits"]
               /\ sess[w].waiter # None
               /\ sess' = [sess EXCEPT ![w].waiter = None]
               /\ resps' = resps \cup {[w |-> w, poll |-> sess[w].waiter, job |-> j]}
            \/ /\ call' = [call EXCEPT ![j] = "waits"]
               /\ sess[w].waiter = None
               /\ sess' = [sess EXCEPT ![w].queue = Append(@, j)]
               /\ UNCHANGED resps
  <1>1. sess[w] \in [live : BOOLEAN, app : Apps, waiter : OptPoll, queue : Seq(Jobs)]
    BY DEF TypeOK
  <1>2. Append(sess[w].queue, j) \in Seq(Jobs)
    BY <1>1, QueueAppend
  <1>3. CASE sess' = sess
    BY <1>3 DEF Send, Answer, TypeOK
  <1>4. CASE sess' = [sess EXCEPT ![w].waiter = None]
    BY <1>4, <1>1 DEF Send, Answer, TypeOK, OptPoll
  <1>5. CASE sess' = [sess EXCEPT ![w].queue = Append(@, j)]
    BY <1>5, <1>1, <1>2 DEF Send, Answer, TypeOK
  <1> QED BY <1>3, <1>4, <1>5 DEF Send

----------------------------------------------------------------------------
(* Types.                                                                  *)

LEMMA TypeInit == Init => TypeOK
  <1>1. <<>> \in Seq(Jobs)
    OBVIOUS
  <1>2. Init => wid \in [Widgets -> [at : {"idle", "asked", "run", "closed"}, poll : OptPoll, job : OptJob,
                                     done : OptJob, fails : 0..MaxFails]]
    <2>1. [at |-> "idle", poll |-> None, job |-> None, done |-> None, fails |-> 0]
            \in [at : {"idle", "asked", "run", "closed"}, poll : OptPoll, job : OptJob, done : OptJob, fails : 0..MaxFails]
      BY DEF OptJob, OptPoll, MaxFails
    <2> QED BY <2>1 DEF Init
  <1>3. Init => sess \in [Widgets -> [live : BOOLEAN, app : Apps, waiter : OptPoll, queue : Seq(Jobs)]]
    <2> DEFINE blank == [live |-> FALSE, app |-> "", waiter |-> None, queue |-> <<>>]
    <2>1. blank \in [live : BOOLEAN, app : Apps, waiter : OptPoll, queue : Seq(Jobs)]
      BY <1>1 DEF OptPoll, Apps
    <2>2. Init => sess = [w \in Widgets |-> blank]
      BY DEF Init
    <2> HIDE DEF blank
    <2> QED BY <2>1, <2>2
  <1>4. Init => \A w \in Widgets : wid[w].at = "idle" /\ wid[w].fails = 0
    <2> DEFINE blank == [at |-> "idle", poll |-> None, job |-> None, done |-> None, fails |-> 0]
    <2>1. blank.at = "idle" /\ blank.fails = 0
      OBVIOUS
    <2>2. Init => wid = [w \in Widgets |-> blank]
      BY DEF Init
    <2> HIDE DEF blank
    <2> QED BY <2>1, <2>2
  <1>5. Init => /\ learned = {} /\ reqs = {} /\ resps = {} /\ lost = {} /\ faults = 0
                /\ call = [j \in Jobs |-> "new"] /\ runs = [j \in Jobs |-> 0]
    BY DEF Init
  <1> QED BY <1>2, <1>3, <1>4, <1>5, FaultBound DEF TypeOK, MaxFails

LEMMA TypeStep == TypeOK /\ [Next]_vars => TypeOK'
  <1> SUFFICES ASSUME TypeOK, [Next]_vars PROVE TypeOK'
    OBVIOUS
  <1> USE NoneIsNoName DEF OptJob, OptPoll
  <1>1. ASSUME NEW m \in reqs, ScreenPoll(m) PROVE TypeOK'
    <2> USE <1>1 DEF TypeOK
    <2>1. resps' \subseteq [w : Widgets, poll : Polls, job : OptJob]
      <3>1. Released(m.w) \subseteq [w : Widgets, poll : Polls, job : OptJob]
        BY ScreenPollDoes DEF Released, Answer
      <3>2. CASE resps' = resps \cup Released(m.w)
        BY <3>1, <3>2
      <3>3. CASE /\ Head(sess[m.w].queue) \in Jobs
                 /\ resps' = resps \cup Released(m.w) \cup
                             {[w |-> m.w, poll |-> m.poll, job |-> Head(sess[m.w].queue)]}
        <4>1. [w |-> m.w, poll |-> m.poll, job |-> Head(sess[m.w].queue)] \in [w : Widgets, poll : Polls, job : OptJob]
          BY <3>3, ScreenPollDoes
        <4> QED BY <3>1, <3>3, <4>1
      <3> QED BY <3>2, <3>3, ScreenPollDoes
    <2>2. call' \in [Jobs -> {"new", "waits", "answered", "expired", "refused"}]
      BY ScreenPollDoes
    <2> QED BY <2>1, <2>2, ScreenPollDoes
  <1>2. ASSUME NEW m \in reqs, LoseRequest(m) PROVE TypeOK'
    BY FaultBound, <1>2 DEF TypeOK, LoseRequest, Fault
  <1>3. ASSUME NEW r \in resps, Hear(r) PROVE TypeOK'
    <2>1. r \in [w : Widgets, poll : Polls, job : OptJob]
      BY DEF TypeOK
    <2>2. CASE wid' = [wid EXCEPT ![r.w] = [at |-> "idle", poll |-> None, job |-> None, done |-> r.job, fails |-> 0]]
      BY <1>3, <2>1, <2>2 DEF TypeOK, Hear, MaxFails
    <2>3. CASE /\ r.job # None
               /\ wid' = [wid EXCEPT ![r.w] = [at |-> "run", poll |-> None, job |-> r.job, done |-> None, fails |-> 0]]
      <3>1. [at |-> "run", poll |-> None, job |-> r.job, done |-> None, fails |-> 0]
              \in [at : {"idle", "asked", "run", "closed"}, poll : OptPoll, job : OptJob, done : OptJob, fails : 0..MaxFails]
        BY <2>1, <2>3 DEF MaxFails
      <3>2. /\ wid' \in [Widgets -> [at : {"idle", "asked", "run", "closed"}, poll : OptPoll, job : OptJob,
                                     done : OptJob, fails : 0..MaxFails]]
            /\ \A v \in Widgets : v # r.w => wid'[v] = wid[v]
            /\ wid'[r.w] = [at |-> "run", poll |-> None, job |-> r.job, done |-> None, fails |-> 0]
        BY <2>1, <2>3, <3>1 DEF TypeOK
      <3>3. runs' \in [Jobs -> Nat]
        <4>1. runs' = runs \/ runs' = [runs EXCEPT ![r.job] = @ + 1]
          BY <1>3 DEF Hear
        <4>2. r.job \in Jobs /\ runs \in [Jobs -> Nat]
          BY <2>1, <2>3 DEF TypeOK
        <4> QED BY <4>1, <4>2
      <3>4. \A v \in Widgets : /\ wid'[v].at = "asked" => wid'[v].poll # None
                               /\ wid'[v].at = "run" => wid'[v].job # None
                               /\ wid'[v].at # "closed" => wid'[v].fails < MaxFails
        BY <2>1, <2>3, <3>2 DEF TypeOK, MaxFails
      <3>5. resps' \subseteq resps /\ UNCHANGED <<learned, sess, call, reqs, lost, faults>>
        BY <1>3 DEF Hear
      <3> QED BY <3>2, <3>3, <3>4, <3>5 DEF TypeOK
    <2> QED BY <1>3, <2>2, <2>3 DEF Hear
  <1>4. ASSUME NEW r \in resps, DropResponse(r) PROVE TypeOK'
    BY FaultBound, <1>4 DEF TypeOK, DropResponse, Fault, Stale
  <1>5. ASSUME NEW j \in Jobs, NEW w \in Widgets, Send(j, w) PROVE TypeOK'
    <2>1. call' \in [Jobs -> {"new", "waits", "answered", "expired", "refused"}]
      BY <1>5, SendDoes DEF TypeOK
    <2>2. resps' \subseteq [w : Widgets, poll : Polls, job : OptJob]
      <3>1. resps \subseteq [w : Widgets, poll : Polls, job : OptJob] /\ sess[w].waiter \in OptPoll
        BY DEF TypeOK
      <3>2. sess[w].waiter # None =>
              [w |-> w, poll |-> sess[w].waiter, job |-> j] \in [w : Widgets, poll : Polls, job : OptJob]
        BY <3>1
      <3> QED BY <1>5, <3>1, <3>2, SendDoes
    <2> QED BY <1>5, <2>1, <2>2, SendDoes DEF TypeOK
  <1>6. ASSUME NEW j \in Jobs, SendNowhere(j) PROVE TypeOK'
    BY <1>6 DEF TypeOK, SendNowhere
  <1>7. ASSUME NEW j \in Jobs, JobExpires(j) PROVE TypeOK'
    BY <1>7 DEF TypeOK, JobExpires
  <1>8. ASSUME NEW w \in Widgets, Poll(w) PROVE TypeOK'
    <2>1. PICK p \in Polls \ InUse(w) :
            /\ reqs' = reqs \cup {[w |-> w, poll |-> p, app |-> AppOf(w), done |-> wid[w].done]}
            /\ wid' = [wid EXCEPT ![w].at = "asked", ![w].poll = p]
      BY <1>8 DEF Poll
    <2>2. AppOf(w) \in Apps
      BY DEF AppOf, Apps
    <2>3. reqs' \subseteq [w : Widgets, poll : Polls, app : Apps, done : OptJob]
      BY <2>1, <2>2 DEF TypeOK
    <2>4. /\ wid' \in [Widgets -> [at : {"idle", "asked", "run", "closed"}, poll : OptPoll, job : OptJob,
                                   done : OptJob, fails : 0..MaxFails]]
          /\ \A v \in Widgets : /\ wid'[v].at = "asked" => wid'[v].poll # None
                                /\ wid'[v].at = "run" => wid'[v].job # None
                                /\ wid'[v].at # "closed" => wid'[v].fails < MaxFails
      <3>1. wid[w] \in [at : {"idle", "asked", "run", "closed"}, poll : OptPoll, job : OptJob, done : OptJob,
                        fails : 0..MaxFails]
        BY DEF TypeOK
      <3>2. wid'[w] = [wid[w] EXCEPT !.at = "asked", !.poll = p] /\ \A v \in Widgets : v # w => wid'[v] = wid[v]
        BY <2>1 DEF TypeOK
      <3>3. wid'[w] \in [at : {"idle", "asked", "run", "closed"}, poll : OptPoll, job : OptJob, done : OptJob,
                         fails : 0..MaxFails]
        BY <3>1, <3>2
      <3> QED BY <1>8, <2>1, <3>1, <3>2, <3>3 DEF TypeOK, Poll
    <2> QED BY <1>8, <2>3, <2>4 DEF TypeOK, Poll
  <1>9. ASSUME NEW w \in Widgets, Finish(w) PROVE TypeOK'
    BY <1>9 DEF TypeOK, Finish
  <1>10. ASSUME NEW w \in Widgets, GiveUp(w) PROVE TypeOK'
    BY FaultBound, <1>10 DEF TypeOK, GiveUp, Failed, Fault, MaxFails
  <1>11. ASSUME NEW w \in Widgets, ErrorBack(w) PROVE TypeOK'
    BY FaultBound, <1>11 DEF TypeOK, ErrorBack, Failed, Fault, MaxFails
  <1>12. ASSUME NEW w \in Widgets, Close(w) PROVE TypeOK'
    BY <1>12 DEF TypeOK, Close
  <1>13. ASSUME NEW w \in Widgets, Learn(w) PROVE TypeOK'
    BY <1>13 DEF TypeOK, Learn
  <1>14. ASSUME NEW w \in Widgets, Ping(w) PROVE TypeOK'
    BY <1>14 DEF TypeOK, Ping, AppOf, Apps
  <1>15. ASSUME NEW w \in Widgets, HoldExpires(w) PROVE TypeOK'
    <2>1. Released(w) \subseteq [w : Widgets, poll : Polls, job : OptJob]
      BY DEF TypeOK, Released, Answer
    <2> QED BY <1>15, <2>1 DEF TypeOK, HoldExpires
  <1>16. ASSUME NEW w \in Widgets, Quiet(w) PROVE TypeOK'
    BY <1>16 DEF TypeOK, Quiet
  <1>17. ASSUME UNCHANGED vars PROVE TypeOK'
    BY <1>17 DEF TypeOK, vars
  <1> QED BY <1>1, <1>2, <1>3, <1>4, <1>5, <1>6, <1>7, <1>8, <1>9, <1>10, <1>11, <1>12, <1>13, <1>14, <1>15, <1>16, <1>17 DEF Next

----------------------------------------------------------------------------
(* A job is in one place, and runs once.                                   *)

\* A step that moves no job, but perhaps inside a widget, or drops an answer.
LEMMA JobsStay ==
  ASSUME TypeOK, Places,
         \A w \in Widgets : sess'[w].queue = sess[w].queue,
         runs' = runs,
         \A r \in resps' : r \in resps \/ r.job = None,
         \A j \in Jobs : call'[j] = "new" => call[j] = "new",
         \A w \in Widgets : /\ wid'[w].job \in {wid[w].job, wid[w].done, None}
                           /\ wid'[w].done \in {wid[w].job, wid[w].done, None}
  PROVE  Places'
  <1> USE NoneIsNoName
  <1>1. NewCallsAreNowhere'
    BY DEF Places, NewCallsAreNowhere
  <1>2. OnePlace'
    <2>1. \A w \in Widgets : Distinct(sess'[w].queue)
      BY DEF Places, OnePlace
    <2>2. \A w1, w2 \in Widgets, j \in Jobs : In(sess'[w1].queue, j) /\ In(sess'[w2].queue, j) => w1 = w2
      BY DEF Places, OnePlace
    <2>3. \A w \in Widgets : ~In(sess[w].queue, None)
      BY DEF In, TypeOK
    <2>4. \A w \in Widgets, r \in resps' : ~In(sess'[w].queue, r.job)
      BY <2>3 DEF Places, OnePlace
    <2>5. \A r1, r2 \in resps' : r1.job # None /\ r1.job = r2.job => r1 = r2
      BY DEF Places, OnePlace
    <2> QED BY <2>1, <2>2, <2>4, <2>5 DEF OnePlace
  <1>3. NotYetRun'
    BY DEF Places, NotYetRun
  <1> QED BY <1>1, <1>2, <1>3 DEF Places

LEMMA PlacesInit == Init => Places /\ RunsAtMostOnce
  <1> SUFFICES ASSUME Init PROVE Places /\ RunsAtMostOnce
    OBVIOUS
  <1>1. /\ \A w \in Widgets : sess[w].queue = <<>> /\ wid[w].job = None /\ wid[w].done = None
        /\ resps = {} /\ \A j \in Jobs : runs[j] = 0
    <2> DEFINE blank == [live |-> FALSE, app |-> "", waiter |-> None, queue |-> <<>>]
               loop == [at |-> "idle", poll |-> None, job |-> None, done |-> None, fails |-> 0]
    <2>1. blank.queue = <<>> /\ loop.job = None /\ loop.done = None
      OBVIOUS
    <2>2. /\ sess = [w \in Widgets |-> blank] /\ wid = [w \in Widgets |-> loop]
          /\ resps = {} /\ runs = [j \in Jobs |-> 0]
      BY DEF Init
    <2> HIDE DEF blank, loop
    <2> QED BY <2>1, <2>2
  <1>2. Distinct(<<>>) /\ \A j : ~In(<<>>, j)
    BY DEF Distinct, In
  <1> QED BY <1>1, <1>2, NoneIsNoName DEF Places, NewCallsAreNowhere, OnePlace, NotYetRun, RunsAtMostOnce

LEMMA PlacesStep == TypeOK /\ Places /\ RunsAtMostOnce /\ [Next]_vars => Places' /\ RunsAtMostOnce'
  <1> SUFFICES ASSUME TypeOK, Places, RunsAtMostOnce, [Next]_vars PROVE Places' /\ RunsAtMostOnce'
    OBVIOUS
  <1> USE NoneIsNoName
  <1> DEFINE Stay == Places' /\ RunsAtMostOnce'
  <1>1. ASSUME NEW m \in reqs, LoseRequest(m) PROVE Stay
    BY <1>1, JobsStay DEF LoseRequest, TypeOK, RunsAtMostOnce
  <1>2. ASSUME NEW r \in resps, DropResponse(r) PROVE Stay
    BY <1>2, JobsStay DEF DropResponse, TypeOK, RunsAtMostOnce
  <1>3. ASSUME NEW j \in Jobs, SendNowhere(j) PROVE Stay
    BY <1>3, JobsStay DEF SendNowhere, TypeOK, RunsAtMostOnce
  <1>4. ASSUME NEW j \in Jobs, JobExpires(j) PROVE Stay
    BY <1>4, JobsStay DEF JobExpires, TypeOK, RunsAtMostOnce
  <1>5. ASSUME NEW w \in Widgets, Poll(w) PROVE Stay
    BY <1>5, JobsStay DEF Poll, TypeOK, RunsAtMostOnce
  <1>6. ASSUME NEW w \in Widgets, Finish(w) PROVE Stay
    BY <1>6, JobsStay DEF Finish, TypeOK, RunsAtMostOnce
  <1>7. ASSUME NEW w \in Widgets, GiveUp(w) PROVE Stay
    BY <1>7, JobsStay DEF GiveUp, TypeOK, RunsAtMostOnce, Failed
  <1>8. ASSUME NEW w \in Widgets, ErrorBack(w) PROVE Stay
    BY <1>8, JobsStay DEF ErrorBack, TypeOK, RunsAtMostOnce, Failed
  <1>9. ASSUME NEW w \in Widgets, Close(w) PROVE Stay
    BY <1>9, JobsStay DEF Close, TypeOK, RunsAtMostOnce
  <1>10. ASSUME NEW w \in Widgets, Learn(w) PROVE Stay
    BY <1>10, JobsStay DEF Learn, TypeOK, RunsAtMostOnce
  <1>11. ASSUME NEW w \in Widgets, Ping(w) PROVE Stay
    BY <1>11, JobsStay DEF Ping, TypeOK, RunsAtMostOnce
  <1>12. ASSUME NEW w \in Widgets, HoldExpires(w) PROVE Stay
    BY <1>12, JobsStay DEF HoldExpires, TypeOK, RunsAtMostOnce, Released, Answer
  <1>13. ASSUME NEW w \in Widgets, Quiet(w) PROVE Stay
    BY <1>13, JobsStay DEF Quiet, TypeOK, RunsAtMostOnce
  <1>14. ASSUME UNCHANGED vars PROVE Stay
    BY <1>14, JobsStay DEF vars, RunsAtMostOnce
  <1>15. ASSUME NEW m \in reqs, ScreenPoll(m) PROVE Stay
    <2> DEFINE q == sess[m.w].queue
    <2>1. m.w \in Widgets /\ q \in Seq(Jobs)
      BY <1>15, ScreenPollDoes DEF TypeOK
    <2>2. /\ UNCHANGED <<wid, runs>>
          /\ \A v \in Widgets : v # m.w => sess'[v] = sess[v]
          /\ \A j \in Jobs : call'[j] = "new" => call[j] = "new"
      BY <1>15, ScreenPollDoes DEF TypeOK
    <2>3. CASE q = <<>> /\ sess'[m.w].queue = <<>> /\ resps' = resps \cup Released(m.w)
      <3>1. \A r \in resps' : r \in resps \/ r.job = None
        BY <2>1, <2>3, ReleasedIs
      <3>2. \A w \in Widgets : sess'[w].queue = sess[w].queue
        BY <2>2, <2>3
      <3>3. Places'
        BY <2>2, <3>1, <3>2, JobsStay
      <3> QED BY <2>2, <3>3 DEF RunsAtMostOnce
    <2>4. CASE /\ q # <<>> /\ Head(q) \in Jobs /\ sess'[m.w].queue = Tail(q)
               /\ resps' = resps \cup Released(m.w) \cup {[w |-> m.w, poll |-> m.poll, job |-> Head(q)]}
      <3> DEFINE h == Head(q)
                 given == [w |-> m.w, poll |-> m.poll, job |-> h]
      <3>1. In(q, h) /\ given.job = h
        BY <2>1, <2>4, QueueTail
      <3>2. call[h] # "new" /\ runs[h] = 0 /\ \A r \in resps : r.job # h
        BY <2>1, <2>4, <3>1 DEF Places, NewCallsAreNowhere, OnePlace, NotYetRun
      <3>3. \A w \in Widgets, j \in Jobs : In(sess'[w].queue, j) => In(sess[w].queue, j) /\ j # h
        <4>1. ASSUME NEW w \in Widgets, NEW j \in Jobs, In(sess'[w].queue, j), w # m.w PROVE In(sess[w].queue, j) /\ j # h
          BY <2>1, <2>2, <3>1, <4>1 DEF Places, OnePlace
        <4>2. ASSUME NEW j \in Jobs, In(Tail(q), j) PROVE In(q, j) /\ j # h
          BY <2>1, <2>4, <4>2, QueueTail DEF Places, OnePlace
        <4> QED BY <2>4, <4>1, <4>2
      <3>4. \A w \in Widgets : Distinct(sess'[w].queue)
        <4>1. Distinct(Tail(q))
          BY <2>1, <2>4, QueueTail DEF Places, OnePlace
        <4> QED BY <2>2, <2>4, <4>1 DEF Places, OnePlace
      <3>5. \A r \in resps' : r \in resps \/ r.job = None \/ r = given
        BY <2>1, <2>4, ReleasedIs
      <3> HIDE DEF h, given
      <3>6. NewCallsAreNowhere'
        <4>1. ASSUME NEW j \in Jobs, call'[j] = "new"
              PROVE  /\ runs'[j] = 0
                     /\ \A w \in Widgets : ~In(sess'[w].queue, j) /\ wid'[w].job # j /\ wid'[w].done # j
                     /\ \A r \in resps' : r.job # j
          BY <2>2, <3>1, <3>2, <3>3, <3>5, <4>1 DEF Places, NewCallsAreNowhere
        <4> QED BY <4>1 DEF NewCallsAreNowhere
      <3>7. OnePlace'
        <4>1. ASSUME NEW w1 \in Widgets, NEW w2 \in Widgets, NEW j \in Jobs, In(sess'[w1].queue, j), In(sess'[w2].queue, j)
              PROVE  w1 = w2
          BY <3>3, <4>1 DEF Places, OnePlace
        <4>2. ASSUME NEW w \in Widgets, NEW r \in resps', In(sess'[w].queue, r.job) PROVE FALSE
          <5>1. r.job \in Jobs
            <6>1. sess'[w].queue \in Seq(Jobs)
              BY <1>15, ScreenPollDoes
            <6> QED BY <4>2, <6>1 DEF In
          <5> QED BY <3>1, <3>3, <3>5, <4>2, <5>1 DEF Places, OnePlace
        <4>3. ASSUME NEW r1 \in resps', NEW r2 \in resps', r1.job # None, r1.job = r2.job PROVE r1 = r2
          BY <3>1, <3>2, <3>5, <4>3 DEF Places, OnePlace
        <4> QED BY <3>4, <4>1, <4>2, <4>3 DEF OnePlace
      <3>8. NotYetRun'
        <4>1. \A w \in Widgets, j \in Jobs : In(sess'[w].queue, j) => runs'[j] = 0
          BY <2>2, <3>3 DEF Places, NotYetRun
        <4>2. \A r \in resps' : r.job # None => runs'[r.job] = 0
          BY <2>2, <3>1, <3>2, <3>5 DEF Places, NotYetRun
        <4> QED BY <4>1, <4>2 DEF NotYetRun
      <3> QED BY <2>2, <3>6, <3>7, <3>8 DEF Places, RunsAtMostOnce
    <2> QED BY <1>15, <2>3, <2>4, ScreenPollDoes
  <1>16. ASSUME NEW r \in resps, Hear(r) PROVE Stay
    <2>1. /\ r.w \in Widgets /\ r.job \in OptJob
          /\ resps' = resps \ {r} /\ UNCHANGED <<sess, call>>
          /\ \A v \in Widgets : v # r.w => wid'[v] = wid[v]
          /\ wid'[r.w].job \in {r.job, None} /\ wid'[r.w].done \in {r.job, None}
      BY <1>16 DEF TypeOK, Hear
    <2>2. r.job # None => call[r.job] # "new" /\ runs[r.job] = 0
      BY <2>1 DEF OptJob, Places, NewCallsAreNowhere, NotYetRun
    <2>3. \/ UNCHANGED runs
          \/ r.job \in Jobs /\ runs' = [runs EXCEPT ![r.job] = 1]
      BY <1>16, <2>1, <2>2 DEF TypeOK, Hear, OptJob
    <2>4. /\ \A j \in Jobs : j # r.job => runs'[j] = runs[j]
          /\ r.job \in Jobs => runs'[r.job] \in {0, 1}
      BY <2>1, <2>2, <2>3 DEF TypeOK, OptJob
    <2>5. NewCallsAreNowhere'
      BY <2>1, <2>2, <2>4 DEF OptJob, Places, NewCallsAreNowhere
    <2>6. OnePlace'
      BY <2>1 DEF Places, OnePlace
    <2>7. \A w \in Widgets, j \in Jobs : In(sess'[w].queue, j) => runs'[j] = 0
      BY <2>1, <2>4 DEF Places, OnePlace, NotYetRun
    <2>8. \A s \in resps' : s.job # None => runs'[s.job] = 0
      <3>1. \A s \in resps' : s.job \in OptJob /\ s \in resps /\ s # r
        BY <2>1 DEF TypeOK
      <3> QED BY <2>4, <3>1 DEF OptJob, Places, OnePlace, NotYetRun
    <2>9. RunsAtMostOnce'
      BY <2>4 DEF RunsAtMostOnce
    <2> QED BY <2>5, <2>6, <2>7, <2>8, <2>9 DEF Places, NotYetRun
  <1>17. ASSUME NEW j \in Jobs, NEW w \in Widgets, Send(j, w) PROVE Stay
    <2>1. /\ call[j] = "new" /\ UNCHANGED <<wid, runs>>
          /\ \A v \in Widgets : sess[v].queue \in Seq(Jobs)
          /\ \A i \in Jobs : call'[i] = "new" => call[i] = "new" /\ i # j
      <3>1. \/ call' = [call EXCEPT ![j] = "refused"]
            \/ call' = [call EXCEPT ![j] = "waits"]
        BY <1>17, SendDoes
      <3>2. call \in [Jobs -> {"new", "waits", "answered", "expired", "refused"}]
        BY DEF TypeOK
      <3>3. \A i \in Jobs : call'[i] = "new" => call[i] = "new" /\ i # j
        BY <3>1, <3>2
      <3> QED BY <1>17, <3>3, SendDoes DEF TypeOK
    <2>2. /\ runs[j] = 0
          /\ \A v \in Widgets : ~In(sess[v].queue, j) /\ wid[v].job # j /\ wid[v].done # j
          /\ \A r \in resps : r.job # j
      BY <2>1 DEF Places, NewCallsAreNowhere
    <2>3. CASE UNCHANGED <<sess, resps>>
      BY <2>1, <2>3, JobsStay DEF RunsAtMostOnce
    <2>4. CASE /\ sess' = [sess EXCEPT ![w].waiter = None]
               /\ resps' = resps \cup {[w |-> w, poll |-> sess[w].waiter, job |-> j]}
      <3> DEFINE given == [w |-> w, poll |-> sess[w].waiter, job |-> j]
      <3>1. given.job = j /\ \A r \in resps' : r \in resps \/ r = given
        BY <2>4
      <3> HIDE DEF given
      <3>2. \A v \in Widgets : sess'[v].queue = sess[v].queue
        BY <2>4 DEF TypeOK
      <3>3. NewCallsAreNowhere'
        BY <2>1, <3>1, <3>2 DEF Places, NewCallsAreNowhere
      <3>4. OnePlace'
        <4>1. \A v \in Widgets, r \in resps' : ~In(sess'[v].queue, r.job)
          BY <2>2, <3>1, <3>2 DEF Places, OnePlace
        <4>2. \A r1, r2 \in resps' : r1.job # None /\ r1.job = r2.job => r1 = r2
          BY <2>2, <3>1 DEF Places, OnePlace
        <4> QED BY <3>2, <4>1, <4>2 DEF Places, OnePlace
      <3>5. NotYetRun'
        BY <2>1, <2>2, <3>1, <3>2 DEF Places, NotYetRun
      <3> QED BY <2>1, <3>3, <3>4, <3>5 DEF Places, RunsAtMostOnce
    <2>5. CASE sess' = [sess EXCEPT ![w].queue = Append(@, j)] /\ UNCHANGED resps
      <3>1. /\ sess'[w].queue = Append(sess[w].queue, j)
            /\ \A v \in Widgets : v # w => sess'[v].queue = sess[v].queue
        BY <2>5 DEF TypeOK
      <3>2. \A v \in Widgets, i \in Jobs : In(sess'[v].queue, i) => In(sess[v].queue, i) \/ (v = w /\ i = j)
        <4>1. \A i \in Jobs : In(Append(sess[w].queue, j), i) => In(sess[w].queue, i) \/ i = j
          BY <2>1, QueueAppend
        <4> QED BY <3>1, <4>1
      <3>3. \A v \in Widgets : Distinct(sess'[v].queue)
        <4>1. Distinct(Append(sess[w].queue, j))
          BY <2>1, <2>2, QueueAppend DEF Places, OnePlace
        <4> QED BY <3>1, <4>1 DEF Places, OnePlace
      <3>4. NewCallsAreNowhere'
        BY <2>1, <2>5, <3>2 DEF Places, NewCallsAreNowhere
      <3>5. OnePlace'
        <4>1. ASSUME NEW w1 \in Widgets, NEW w2 \in Widgets, NEW i \in Jobs, In(sess'[w1].queue, i), In(sess'[w2].queue, i)
              PROVE  w1 = w2
          BY <2>2, <3>2, <4>1 DEF Places, OnePlace
        <4>2. ASSUME NEW v \in Widgets, NEW r \in resps', In(sess'[v].queue, r.job) PROVE FALSE
          <5>1. r.job \in Jobs
            BY <1>17, <4>2, SendDoes DEF In
          <5> QED BY <2>2, <2>5, <3>2, <4>2, <5>1 DEF Places, OnePlace
        <4> QED BY <2>5, <3>3, <4>1, <4>2 DEF Places, OnePlace
      <3>6. NotYetRun'
        BY <2>1, <2>2, <2>5, <3>2 DEF Places, NotYetRun
      <3> QED BY <2>1, <3>4, <3>5, <3>6 DEF Places, RunsAtMostOnce
    <2> QED BY <1>17, <2>3, <2>4, <2>5, SendDoes
  <1> QED BY <1>1, <1>2, <1>3, <1>4, <1>5, <1>6, <1>7, <1>8, <1>9, <1>10, <1>11, <1>12, <1>13, <1>14, <1>15, <1>16, <1>17 DEF Next

----------------------------------------------------------------------------
(* A poll is in one place, and an answer is kept until its call is settled.*)

\* Polls end, widgets stop waiting for them, calls stop waiting.
LEMMA PollsFade ==
  ASSUME TypeOK, OnePoll, Carried,
         reqs' \subseteq reqs, resps' \subseteq resps,
         \A w \in Widgets : sess'[w].waiter \in {sess[w].waiter, None},
         \A w \in Widgets : wid'[w].at = "asked" =>
            wid[w].at = "asked" /\ wid'[w].poll = wid[w].poll /\ wid'[w].done = wid[w].done,
         \A j \in Jobs : call'[j] = "waits" => call[j] = "waits"
  PROVE  OnePoll' /\ Carried'
  <1> USE NoneIsNoName
  <1>1. /\ \A m \in reqs : m.w \in Widgets /\ m.poll \in Polls
        /\ \A r \in resps : r.w \in Widgets /\ r.poll \in Polls
        /\ \A w \in Widgets : wid[w].done \in Jobs \cup {None} /\ (wid[w].at = "asked" => wid[w].poll # None)
    BY DEF TypeOK, OptJob
  <1>2. OnePoll'
    BY <1>1 DEF OnePoll
  <1>3. ASSUME NEW w \in Widgets, wid'[w].at = "asked"
        PROVE  /\ \A m \in reqs' : m.w = w /\ m.poll = wid'[w].poll => m.done = wid'[w].done
               /\ wid'[w].done # None /\ (sess'[w].waiter = wid'[w].poll \/ \E r \in resps' : r.w = w /\ r.poll = wid'[w].poll)
                    => call'[wid'[w].done] # "waits"
    BY <1>1, <1>3 DEF Carried
  <1> QED BY <1>2, <1>3 DEF Carried

\* A call goes on waiting, and what its job depends on goes on as well.
LEMMA KeptStays ==
  ASSUME Kept,
         \A j \in Jobs : call'[j] = "waits" => call[j] = "waits",
         \A w \in Widgets : sess'[w].queue = sess[w].queue,
         \A r \in resps : r \in resps' \/ r.job = None \/ r.job \in lost',
         lost \subseteq lost',
         \A w \in Widgets : {wid[w].job, wid[w].done} \subseteq {wid'[w].job, wid'[w].done, None} \cup lost'
  PROVE  Kept'
  <1> SUFFICES ASSUME NEW j \in Jobs, call'[j] = "waits"
               PROVE  Queued(j)' \/ (\E r \in resps' : r.job = j) \/ InHand(j)' \/ j \in lost'
    BY DEF Kept
  <1>1. CASE Queued(j)
    BY <1>1 DEF Queued
  <1>2. CASE \E r \in resps : r.job = j
    BY <1>2, NoneIsNoName
  <1>3. CASE InHand(j)
    BY <1>3, NoneIsNoName DEF InHand
  <1> QED BY <1>1, <1>2, <1>3 DEF Kept

LEMMA AnswersInit == Init => Answers /\ NoIdleWait
  <1> SUFFICES ASSUME Init PROVE Answers /\ NoIdleWait
    OBVIOUS
  <1>1. \A w \in Widgets : sess[w].queue = <<>> /\ wid[w].at = "idle" /\ wid[w].job = None
    <2> DEFINE blank == [live |-> FALSE, app |-> "", waiter |-> None, queue |-> <<>>]
               loop == [at |-> "idle", poll |-> None, job |-> None, done |-> None, fails |-> 0]
    <2>1. blank.queue = <<>> /\ loop.at = "idle" /\ loop.job = None
      OBVIOUS
    <2>2. sess = [w \in Widgets |-> blank] /\ wid = [w \in Widgets |-> loop]
      BY DEF Init
    <2> HIDE DEF blank, loop
    <2> QED BY <2>1, <2>2
  <1>2. reqs = {} /\ resps = {} /\ call = [j \in Jobs |-> "new"]
    BY DEF Init
  <1> QED BY <1>1, <1>2 DEF Answers, OnePoll, Carried, OneInHand, Kept, NoIdleWait

LEMMA AnswersStep == TypeOK /\ TypeOK' /\ Places /\ Answers /\ [Next]_vars => Answers'
  <1> SUFFICES ASSUME TypeOK, TypeOK', Places, Answers, [Next]_vars PROVE Answers'
    OBVIOUS
  <1> USE NoneIsNoName
  <1>1. ASSUME NEW m \in reqs, LoseRequest(m) PROVE Answers'
    <2>1. OnePoll' /\ Carried'
      BY <1>1, PollsFade DEF Answers, LoseRequest, TypeOK
    <2>2. OneInHand'
      BY <1>1 DEF Answers, OneInHand, LoseRequest, TypeOK
    <2>3. Kept'
      BY <1>1, KeptStays DEF Answers, OneInHand, LoseRequest, TypeOK
    <2> QED BY <2>1, <2>2, <2>3 DEF Answers
  <1>2. ASSUME NEW r \in resps, DropResponse(r) PROVE Answers'
    <2>1. OnePoll' /\ Carried'
      BY <1>2, PollsFade DEF Answers, DropResponse, TypeOK
    <2>2. OneInHand'
      BY <1>2 DEF Answers, OneInHand, DropResponse, TypeOK
    <2>3. Kept'
      BY <1>2, KeptStays DEF Answers, OneInHand, DropResponse, TypeOK
    <2> QED BY <2>1, <2>2, <2>3 DEF Answers
  <1>3. ASSUME NEW j \in Jobs, SendNowhere(j) PROVE Answers'
    <2>1. OnePoll' /\ Carried'
      BY <1>3, PollsFade DEF Answers, SendNowhere, TypeOK
    <2>2. OneInHand'
      BY <1>3 DEF Answers, OneInHand, SendNowhere, TypeOK
    <2>3. Kept'
      BY <1>3, KeptStays DEF Answers, OneInHand, SendNowhere, TypeOK
    <2> QED BY <2>1, <2>2, <2>3 DEF Answers
  <1>4. ASSUME NEW j \in Jobs, JobExpires(j) PROVE Answers'
    <2>1. OnePoll' /\ Carried'
      BY <1>4, PollsFade DEF Answers, JobExpires, TypeOK
    <2>2. OneInHand'
      BY <1>4 DEF Answers, OneInHand, JobExpires, TypeOK
    <2>3. Kept'
      BY <1>4, KeptStays DEF Answers, OneInHand, JobExpires, TypeOK
    <2> QED BY <2>1, <2>2, <2>3 DEF Answers
  <1>5. ASSUME NEW w \in Widgets, Finish(w) PROVE Answers'
    <2>1. OnePoll' /\ Carried'
      BY <1>5, PollsFade DEF Answers, Finish, TypeOK
    <2>2. OneInHand'
      BY <1>5 DEF Answers, OneInHand, Finish, TypeOK
    <2>3. Kept'
      BY <1>5, KeptStays DEF Answers, OneInHand, Finish, TypeOK
    <2> QED BY <2>1, <2>2, <2>3 DEF Answers
  <1>6. ASSUME NEW w \in Widgets, GiveUp(w) PROVE Answers'
    <2>1. OnePoll' /\ Carried'
      BY <1>6, PollsFade DEF Answers, GiveUp, TypeOK, Failed
    <2>2. OneInHand'
      BY <1>6 DEF Answers, OneInHand, GiveUp, TypeOK, Failed
    <2>3. Kept'
      BY <1>6, KeptStays DEF Answers, OneInHand, GiveUp, TypeOK, Failed
    <2> QED BY <2>1, <2>2, <2>3 DEF Answers
  <1>7. ASSUME NEW w \in Widgets, ErrorBack(w) PROVE Answers'
    <2>1. OnePoll' /\ Carried'
      BY <1>7, PollsFade DEF Answers, ErrorBack, TypeOK, Failed
    <2>2. OneInHand'
      BY <1>7 DEF Answers, OneInHand, ErrorBack, TypeOK, Failed
    <2>3. Kept'
      BY <1>7, KeptStays DEF Answers, OneInHand, ErrorBack, TypeOK, Failed
    <2> QED BY <2>1, <2>2, <2>3 DEF Answers
  <1>8. ASSUME NEW w \in Widgets, Close(w) PROVE Answers'
    <2>1. OnePoll' /\ Carried'
      BY <1>8, PollsFade DEF Answers, Close, TypeOK
    <2>2. OneInHand'
      BY <1>8 DEF Answers, OneInHand, Close, TypeOK
    <2>3. Kept'
      BY <1>8, KeptStays DEF Answers, OneInHand, Close, TypeOK
    <2> QED BY <2>1, <2>2, <2>3 DEF Answers
  <1>9. ASSUME NEW w \in Widgets, Learn(w) PROVE Answers'
    <2>1. OnePoll' /\ Carried'
      BY <1>9, PollsFade DEF Answers, Learn, TypeOK
    <2>2. OneInHand'
      BY <1>9 DEF Answers, OneInHand, Learn, TypeOK
    <2>3. Kept'
      BY <1>9, KeptStays DEF Answers, OneInHand, Learn, TypeOK
    <2> QED BY <2>1, <2>2, <2>3 DEF Answers
  <1>10. ASSUME NEW w \in Widgets, Ping(w) PROVE Answers'
    <2>1. OnePoll' /\ Carried'
      BY <1>10, PollsFade DEF Answers, Ping, TypeOK
    <2>2. OneInHand'
      BY <1>10 DEF Answers, OneInHand, Ping, TypeOK
    <2>3. Kept'
      BY <1>10, KeptStays DEF Answers, OneInHand, Ping, TypeOK
    <2> QED BY <2>1, <2>2, <2>3 DEF Answers
  <1>11. ASSUME NEW w \in Widgets, Quiet(w) PROVE Answers'
    <2>1. OnePoll' /\ Carried'
      BY <1>11, PollsFade DEF Answers, Quiet, TypeOK
    <2>2. OneInHand'
      BY <1>11 DEF Answers, OneInHand, Quiet, TypeOK
    <2>3. Kept'
      BY <1>11, KeptStays DEF Answers, OneInHand, Quiet, TypeOK
    <2> QED BY <2>1, <2>2, <2>3 DEF Answers
  <1>12. ASSUME UNCHANGED vars PROVE Answers'
    BY <1>12 DEF vars, Answers, OnePoll, Carried, OneInHand, Kept, Queued, InHand
  <1>13. ASSUME NEW r \in resps, Hear(r) PROVE Answers'
    <2>1. /\ r.w \in Widgets /\ r.poll \in Polls /\ r.job \in OptJob
          /\ wid[r.w].at = "asked" /\ wid[r.w].poll = r.poll
          /\ wid[r.w].done \in OptJob /\ wid[r.w].job = None
          /\ resps' = resps \ {r} /\ UNCHANGED <<sess, call, reqs, lost>>
          /\ \A v \in Widgets : v # r.w => wid'[v] = wid[v]
      BY <1>13 DEF TypeOK, Hear, Answers, OneInHand
    <2>2. \/ wid'[r.w].at = "idle" /\ wid'[r.w].job = None /\ wid'[r.w].done = r.job
          \/ wid'[r.w].at = "run" /\ wid'[r.w].job = r.job /\ wid'[r.w].done = None
      BY <1>13, <2>1 DEF TypeOK, Hear
    <2>3. OnePoll' /\ Carried'
      BY <2>1, <2>2, PollsFade DEF Answers
    <2>4. OneInHand'
      BY <2>1, <2>2 DEF Answers, OneInHand
    <2>5. Kept'
      <3>1. wid[r.w].done # None => call[wid[r.w].done] # "waits"
        BY <2>1 DEF Answers, Carried
      <3> SUFFICES ASSUME NEW j \in Jobs, call'[j] = "waits"
                   PROVE  Queued(j)' \/ (\E s \in resps' : s.job = j) \/ InHand(j)' \/ j \in lost'
        BY DEF Kept
      <3>2. CASE Queued(j) \/ j \in lost
        BY <2>1, <3>2 DEF Queued
      <3>3. CASE \E s \in resps : s.job = j
        BY <2>1, <2>2, <3>3 DEF InHand
      <3>4. CASE InHand(j)
        <4>1. PICK v \in Widgets : j \in {wid[v].job, wid[v].done}
          BY <3>4 DEF InHand
        <4>2. v # r.w
          BY <2>1, <3>1, <4>1
        <4> QED BY <2>1, <4>1, <4>2 DEF InHand
      <3> QED BY <2>1, <3>2, <3>3, <3>4 DEF Answers, Kept
    <2> QED BY <2>3, <2>4, <2>5 DEF Answers
  <1>14. ASSUME NEW w \in Widgets, HoldExpires(w) PROVE Answers'
    <2> DEFINE out == [w |-> w, poll |-> sess[w].waiter, job |-> None]
    <2>1. /\ sess[w].waiter # None /\ resps' = resps \cup {out}
          /\ out.w = w /\ out.poll = sess[w].waiter /\ out.job = None
          /\ UNCHANGED <<wid, call, reqs, lost>>
      BY <1>14 DEF HoldExpires, Released, Answer
    <2>2. /\ sess'[w].waiter = None
          /\ \A v \in Widgets : v # w => sess'[v] = sess[v]
          /\ \A v \in Widgets : sess'[v].queue = sess[v].queue
      BY <1>14 DEF HoldExpires, TypeOK
    <2> HIDE DEF out
    <2>3. /\ \A m \in reqs : m.w \in Widgets /\ m.poll \in Polls
          /\ \A r \in resps : r.w \in Widgets /\ r.poll \in Polls
      BY DEF TypeOK
    <2>4. OnePoll'
      BY <2>1, <2>2, <2>3 DEF Answers, OnePoll
    <2>5. Carried'
      <3>1. \A v \in Widgets : wid[v].at = "asked" => wid[v].poll # None
        BY DEF TypeOK
      <3> QED BY <2>1, <2>2, <2>3, <3>1 DEF Answers, Carried
    <2>6. OneInHand' /\ Kept'
      BY <2>1, <2>2, KeptStays DEF Answers, OneInHand
    <2> QED BY <2>4, <2>5, <2>6 DEF Answers
  <1>15. ASSUME NEW w \in Widgets, Poll(w) PROVE Answers'
    <2>1. PICK p \in Polls \ InUse(w) :
            /\ reqs' = reqs \cup {[w |-> w, poll |-> p, app |-> AppOf(w), done |-> wid[w].done]}
            /\ wid' = [wid EXCEPT ![w].at = "asked", ![w].poll = p]
      BY <1>15 DEF Poll
    <2> DEFINE asked == [w |-> w, poll |-> p, app |-> AppOf(w), done |-> wid[w].done]
    <2>2. /\ asked.w = w /\ asked.poll = p /\ asked.done = wid[w].done
          /\ reqs' = reqs \cup {asked}
      BY <2>1
    <2>3. /\ wid'[w].at = "asked" /\ wid'[w].poll = p /\ wid'[w].done = wid[w].done /\ wid'[w].job = wid[w].job
          /\ \A v \in Widgets : v # w => wid'[v] = wid[v]
          /\ wid[w].at = "idle" /\ UNCHANGED <<sess, call, resps, lost>>
      BY <1>15, <2>1 DEF TypeOK, Poll
    <2>4. /\ \A m \in reqs \cup resps : m.w = w => m.poll # p
          /\ sess[w].waiter # p /\ p # None
      BY <2>1 DEF InUse
    <2> HIDE DEF asked
    <2>5. OnePoll'
      BY <2>2, <2>3, <2>4 DEF Answers, OnePoll
    <2>6. Carried'
      BY <2>2, <2>3, <2>4 DEF Answers, Carried
    <2>7. OneInHand'
      BY <2>3 DEF Answers, OneInHand
    <2>8. Kept'
      <3>1. \A v \in Widgets : wid'[v].job = wid[v].job /\ wid'[v].done = wid[v].done
        BY <2>3
      <3> QED BY <2>3, <3>1, KeptStays DEF Answers
    <2> QED BY <2>5, <2>6, <2>7, <2>8 DEF Answers
  <1>16. ASSUME NEW j \in Jobs, NEW w \in Widgets, Send(j, w) PROVE Answers'
    <2>1. /\ call[j] = "new" /\ UNCHANGED <<wid, reqs, lost>>
          /\ \A i \in Jobs : i # j => call'[i] = call[i]
          /\ \A v \in Widgets : wid[v].job # j /\ wid[v].done # j
      <3>1. \/ call' = [call EXCEPT ![j] = "refused"]
            \/ call' = [call EXCEPT ![j] = "waits"]
        BY <1>16, SendDoes
      <3>2. \A i \in Jobs : i # j => call'[i] = call[i]
        BY <3>1 DEF TypeOK
      <3> QED BY <1>16, <3>2, SendDoes DEF Places, NewCallsAreNowhere
    <2>2. OneInHand'
      BY <2>1 DEF Answers, OneInHand
    <2>3. /\ \A m \in reqs : m.w \in Widgets /\ m.poll \in Polls
          /\ \A r \in resps : r.w \in Widgets /\ r.poll \in Polls
          /\ \A v \in Widgets : /\ wid[v].done \in Jobs \cup {None}
                                /\ wid[v].at = "asked" => wid[v].poll # None
      BY DEF TypeOK, OptJob
    <2>4. CASE call' = [call EXCEPT ![j] = "refused"] /\ UNCHANGED <<sess, resps>>
      <3>1. \A i \in Jobs : call'[i] = "waits" => call[i] = "waits"
        BY <2>4 DEF TypeOK
      <3>2. OnePoll' /\ Carried'
        BY <2>1, <2>4, <3>1, PollsFade DEF Answers
      <3>3. Kept'
        BY <2>1, <2>4, <3>1, KeptStays DEF Answers
      <3> QED BY <2>2, <3>2, <3>3 DEF Answers
    <2>5. CASE /\ sess[w].waiter # None
               /\ sess' = [sess EXCEPT ![w].waiter = None]
               /\ resps' = resps \cup {[w |-> w, poll |-> sess[w].waiter, job |-> j]}
      <3> DEFINE out == [w |-> w, poll |-> sess[w].waiter, job |-> j]
      <3>1. out.w = w /\ out.poll = sess[w].waiter /\ out.job = j /\ resps' = resps \cup {out}
        BY <2>5
      <3>2. /\ sess'[w].waiter = None
            /\ \A v \in Widgets : v # w => sess'[v] = sess[v]
            /\ \A v \in Widgets : sess'[v].queue = sess[v].queue
        BY <2>5 DEF TypeOK
      <3> HIDE DEF out
      <3>3. OnePoll'
        BY <2>1, <2>3, <2>5, <3>1, <3>2 DEF Answers, OnePoll
      <3>4. Carried'
        BY <2>1, <2>3, <2>5, <3>1, <3>2 DEF Answers, Carried
      <3>5. Kept'
        BY <2>1, <3>1, <3>2 DEF Answers, Kept, Queued, InHand
      <3> QED BY <2>2, <3>3, <3>4, <3>5 DEF Answers
    <2>6. CASE sess' = [sess EXCEPT ![w].queue = Append(@, j)] /\ UNCHANGED resps
      <3>1. /\ sess'[w].queue = Append(sess[w].queue, j) /\ sess[w].queue \in Seq(Jobs)
            /\ \A v \in Widgets : v # w => sess'[v].queue = sess[v].queue
            /\ \A v \in Widgets : sess'[v].waiter = sess[v].waiter
        BY <2>6 DEF TypeOK
      <3>2. OnePoll'
        BY <2>1, <2>3, <2>6, <3>1 DEF Answers, OnePoll
      <3>3. Carried'
        BY <2>1, <2>3, <2>6, <3>1 DEF Answers, Carried
      <3>4. In(sess'[w].queue, j) /\ \A i \in Jobs, v \in Widgets : In(sess[v].queue, i) => In(sess'[v].queue, i)
        <4>1. \A i \in Jobs : In(Append(sess[w].queue, j), i) <=> In(sess[w].queue, i) \/ i = j
          BY <3>1, QueueAppend
        <4> QED BY <3>1, <4>1
      <3>5. Kept'
        <4>1. \A i \in Jobs : Queued(i) => Queued(i)'
          BY <3>4 DEF Queued, In
        <4>2. Queued(j)'
          BY <3>4 DEF Queued, In
        <4> QED BY <2>1, <2>6, <4>1, <4>2 DEF Answers, Kept, InHand
      <3> QED BY <2>2, <3>2, <3>3, <3>5 DEF Answers
    <2> QED BY <1>16, <2>4, <2>5, <2>6, SendDoes
  <1>17. ASSUME NEW m \in reqs, ScreenPoll(m) PROVE Answers'
    <2> DEFINE q == sess[m.w].queue
               given == [w |-> m.w, poll |-> m.poll, job |-> Head(q)]
               back == [w |-> m.w, poll |-> sess[m.w].waiter, job |-> None]
    <2>1. /\ m.w \in Widgets /\ m.poll \in Polls /\ m.done \in OptJob
          /\ reqs' = reqs \ {m} /\ UNCHANGED <<wid, runs, lost>>
          /\ \A v \in Widgets : v # m.w => sess'[v] = sess[v]
      BY <1>17, ScreenPollDoes
    <2>2. /\ \A j \in Jobs : call'[j] = "waits" => call[j] = "waits"
          /\ m.done # None => call'[m.done] # "waits"
      <3>1. call' = IF m.done # None /\ call[m.done] = "waits" THEN [call EXCEPT ![m.done] = "answered"] ELSE call
        BY <1>17, ScreenPollDoes
      <3> QED BY <2>1, <3>1 DEF TypeOK, OptJob
    <2>3. /\ given.w = m.w /\ given.poll = m.poll /\ given.job = Head(q)
          /\ \/ q = <<>> /\ sess'[m.w].queue = <<>> /\ sess'[m.w].waiter = m.poll /\ resps' = resps \cup Released(m.w)
             \/ /\ q # <<>> /\ sess'[m.w].queue = Tail(q) /\ sess'[m.w].waiter = None
                /\ resps' = resps \cup Released(m.w) \cup {given}
      BY <1>17, ScreenPollDoes
    <2>4. /\ resps \subseteq resps'
          /\ \A r \in resps' : \/ r \in resps
                               \/ r = back /\ sess[m.w].waiter # None
                               \/ r = given /\ q # <<>> /\ sess'[m.w].waiter = None
          /\ back.w = m.w /\ back.poll = sess[m.w].waiter /\ back.job = None
      BY <2>1, <2>3, ReleasedIs
    <2> HIDE DEF given, back
    <2>5. /\ \A n \in reqs : n.w \in Widgets /\ n.poll \in Polls
          /\ \A r \in resps : r.w \in Widgets /\ r.poll \in Polls
          /\ \A v \in Widgets : /\ wid[v].done \in Jobs \cup {None}
                                /\ wid[v].at = "asked" => wid[v].poll # None
      BY DEF TypeOK, OptJob
    <2>6. OnePoll'
      <3>1. ASSUME NEW r1 \in resps', NEW r2 \in resps', r1.w = r2.w, r1.poll = r2.poll PROVE r1 = r2
        BY <2>1, <2>3, <2>4, <3>1 DEF Answers, OnePoll
      <3>2. ASSUME NEW n \in reqs', NEW r \in resps', n.w = r.w, n.poll = r.poll PROVE FALSE
        BY <2>1, <2>3, <2>4, <3>2 DEF Answers, OnePoll
      <3>3. ASSUME NEW n \in reqs', sess'[n.w].waiter = n.poll PROVE FALSE
        BY <2>1, <2>3, <2>5, <3>3 DEF Answers, OnePoll
      <3>4. ASSUME NEW r \in resps', sess'[r.w].waiter = r.poll PROVE FALSE
        BY <2>1, <2>3, <2>4, <2>5, <3>4 DEF Answers, OnePoll
      <3> QED BY <2>1, <3>1, <3>2, <3>3, <3>4 DEF Answers, OnePoll
    <2>7. Carried'
      <3>1. ASSUME NEW v \in Widgets, wid'[v].at = "asked", wid'[v].done # None,
                   sess'[v].waiter = wid'[v].poll \/ \E r \in resps' : r.w = v /\ r.poll = wid'[v].poll
            PROVE  call'[wid'[v].done] # "waits"
        <4>1. CASE v = m.w /\ wid[v].poll = m.poll
          <5>1. m.done = wid[v].done
            BY <2>1, <3>1, <4>1 DEF Answers, Carried
          <5> QED BY <2>1, <2>2, <3>1, <5>1
        <4>2. CASE ~(v = m.w /\ wid[v].poll = m.poll)
          <5>1. sess[v].waiter = wid[v].poll \/ \E r \in resps : r.w = v /\ r.poll = wid[v].poll
            BY <2>1, <2>3, <2>4, <2>5, <3>1, <4>2
          <5> QED BY <2>1, <2>2, <2>5, <3>1, <5>1 DEF Answers, Carried
        <4> QED BY <4>1, <4>2
      <3>2. ASSUME NEW v \in Widgets, wid'[v].at = "asked"
            PROVE  \A n \in reqs' : n.w = v /\ n.poll = wid'[v].poll => n.done = wid'[v].done
        BY <2>1, <3>2 DEF Answers, Carried
      <3> QED BY <3>1, <3>2 DEF Carried
    <2>8. OneInHand'
      BY <2>1 DEF Answers, OneInHand
    <2>9. Kept'
      <3> SUFFICES ASSUME NEW j \in Jobs, call'[j] = "waits"
                   PROVE  Queued(j)' \/ (\E r \in resps' : r.job = j) \/ InHand(j)' \/ j \in lost'
        BY DEF Kept
      <3>1. CASE (\E r \in resps : r.job = j) \/ InHand(j) \/ j \in lost
        BY <2>1, <2>4, <3>1 DEF InHand
      <3>2. CASE Queued(j)
        <4>1. PICK v \in Widgets : In(sess[v].queue, j)
          BY <3>2 DEF Queued, In
        <4>2. CASE v # m.w \/ q = <<>>
          <5>1. In(sess'[v].queue, j)
            BY <2>1, <2>3, <4>1, <4>2
          <5> QED BY <5>1 DEF Queued, In
        <4>3. CASE v = m.w /\ q # <<>>
          <5>1. j = Head(q) \/ In(Tail(q), j)
            BY <4>1, <4>3, QueueTail DEF TypeOK
          <5>2. CASE j = Head(q)
            BY <2>3, <4>3, <5>2
          <5>3. CASE In(Tail(q), j)
            BY <2>1, <2>3, <4>3, <5>3 DEF Queued, In
          <5> QED BY <5>1, <5>2, <5>3
        <4> QED BY <4>2, <4>3
      <3> QED BY <2>2, <3>1, <3>2 DEF Answers, Kept
    <2> QED BY <2>6, <2>7, <2>8, <2>9 DEF Answers
  <1> QED BY <1>1, <1>2, <1>3, <1>4, <1>5, <1>6, <1>7, <1>8, <1>9, <1>10, <1>11, <1>12, <1>13, <1>14, <1>15, <1>16, <1>17 DEF Next

----------------------------------------------------------------------------
(* A queue is empty while a poll waits.                                    *)

LEMMA NoIdleWaitStep == TypeOK /\ NoIdleWait /\ [Next]_vars => NoIdleWait'
  <1> SUFFICES ASSUME TypeOK, NoIdleWait, [Next]_vars PROVE NoIdleWait'
    OBVIOUS
  <1> DEFINE Calm == \A w \in Widgets : /\ sess'[w].queue = sess[w].queue
                                       /\ sess'[w].waiter \in {sess[w].waiter, None}
  <1>1. Calm => NoIdleWait'
    BY DEF NoIdleWait
  <1>2. ASSUME NEW m \in reqs, ScreenPoll(m) PROVE NoIdleWait'
    BY <1>2, ScreenPollDoes DEF NoIdleWait
  <1>3. ASSUME NEW j \in Jobs, NEW w \in Widgets, Send(j, w) PROVE NoIdleWait'
    <2>1. CASE UNCHANGED sess
      BY <2>1 DEF NoIdleWait
    <2>2. CASE sess' = [sess EXCEPT ![w].waiter = None]
      BY <2>2 DEF NoIdleWait, TypeOK
    <2>3. CASE sess[w].waiter = None /\ sess' = [sess EXCEPT ![w].queue = Append(@, j)]
      BY <2>3 DEF NoIdleWait, TypeOK
    <2> QED BY <1>3, <2>1, <2>2, <2>3, SendDoes
  <1>4. ASSUME NEW w \in Widgets, Ping(w) \/ HoldExpires(w) \/ Quiet(w) PROVE Calm
    <2>1. \/ \E b \in Apps : sess' = [sess EXCEPT ![w].app = b]
          \/ sess' = [sess EXCEPT ![w].waiter = None]
          \/ sess' = [sess EXCEPT ![w].live = FALSE]
      BY <1>4 DEF Ping, HoldExpires, Quiet, AppOf, Apps
    <2>2. sess \in [Widgets -> [live : BOOLEAN, app : Apps, waiter : OptPoll, queue : Seq(Jobs)]]
      BY DEF TypeOK
    <2>3. CASE \E b \in Apps : sess' = [sess EXCEPT ![w].app = b]
      BY <2>2, <2>3
    <2>4. CASE sess' = [sess EXCEPT ![w].waiter = None]
      BY <2>2, <2>4
    <2>5. CASE sess' = [sess EXCEPT ![w].live = FALSE]
      BY <2>2, <2>5
    <2> QED BY <2>1, <2>3, <2>4, <2>5
  <1>5. ASSUME UNCHANGED sess PROVE Calm
    BY <1>5
  <1>6. ASSUME NEW w \in Widgets, Poll(w) \/ Finish(w) \/ GiveUp(w) \/ ErrorBack(w) \/ Close(w) \/ Learn(w)
        PROVE  UNCHANGED sess
    BY <1>6 DEF Poll, Finish, GiveUp, ErrorBack, Close, Learn
  <1>7. ASSUME NEW j \in Jobs, SendNowhere(j) \/ JobExpires(j) PROVE UNCHANGED sess
    BY <1>7 DEF SendNowhere, JobExpires
  <1>8. ASSUME NEW m \in reqs, LoseRequest(m) PROVE UNCHANGED sess
    BY <1>8 DEF LoseRequest
  <1>9. ASSUME NEW r \in resps, Hear(r) \/ DropResponse(r) PROVE UNCHANGED sess
    BY <1>9 DEF Hear, DropResponse
  <1>10. ASSUME UNCHANGED vars PROVE UNCHANGED sess
    BY <1>10 DEF vars
  <1> HIDE DEF Calm
  <1> QED BY <1>1, <1>2, <1>3, <1>4, <1>5, <1>6, <1>7, <1>8, <1>9, <1>10 DEF Next

----------------------------------------------------------------------------
(* The theorems.                                                           *)

\* All of it together is inductive.
THEOREM RelayInvariance == Spec => []Inv
  <1>1. Init => Inv
    BY TypeInit, PlacesInit, AnswersInit DEF Inv
  <1>2. Inv /\ [Next]_vars => Inv'
    BY TypeStep, PlacesStep, AnswersStep, NoIdleWaitStep DEF Inv
  <1> QED BY <1>1, <1>2, PTL DEF Spec

\* The variables keep their types, and a loop ends with its third failure in a row.
THEOREM RelayTypes == Spec => []TypeOK
  <1>1. Inv => TypeOK
    BY DEF Inv
  <1> QED BY <1>1, RelayInvariance, PTL

\* However polls are superseded, repeated or late, no widget carries a job out twice.
THEOREM NoJobRunsTwice == Spec => []RunsAtMostOnce
  <1>1. Inv => RunsAtMostOnce
    BY DEF Inv
  <1> QED BY <1>1, RelayInvariance, PTL

\* A poll does not wait beside a job.
THEOREM NoPollWaitsIdly == Spec => []NoIdleWait
  <1>1. Inv => NoIdleWait
    BY DEF Inv
  <1> QED BY <1>1, RelayInvariance, PTL

\* The job of a call that waits is queued, on its way or in a widget, or was lost with a message or a widget.
THEOREM NoCallIsStranded == Spec => []NothingStranded
  <1>1. Inv => NothingStranded
    BY DEF Inv, Answers, Kept, NothingStranded, OnTheWire
  <1> QED BY <1>1, RelayInvariance, PTL
=============================================================================
