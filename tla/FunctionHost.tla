---------------------------- MODULE FunctionHost ----------------------------
(***************************************************************************)
(* App functions: src/src/functions.mjs on the engine's side of the        *)
(* thread, src/src/function-worker.mjs on the other.  A call waits for a   *)
(* slot, runs its body in a worker thread and ends by an answer, a         *)
(* refusal, a crash or its deadline.  The body reaches the store by        *)
(* blocking round trips; its writes carry ids derived from the call's.     *)
(*                                                                         *)
(* The engine runs one handler at a time; the worker's steps fall between  *)
(* them.  A body is a program: the calls it makes in order, and whether it *)
(* catches the store's refusals.  Two attempts under one command id run    *)
(* the same program.  A remote executor is not modelled.                   *)
(***************************************************************************)
EXTENDS Naturals, Sequences, FiniteSets

CONSTANTS
  Attempts,      \* calls of `call`; a retry is an attempt of its own
  Commands,      \* command ids the callers send
  Programs,      \* bodies: [ops |-> a sequence of "read", "add", "update", "forbidden", catches |-> BOOLEAN]
  Slots,         \* MAX_CONCURRENT_FUNCTION_CALLS
  MaxWrites,     \* FN_WRITE_BUDGET
  MaxReads,      \* FN_READ_BUDGET
  RowMayAppear,  \* whether the row that bodies update may be still to be added by somebody else
  None

ASSUME HostBounds == Slots \in Nat \ {0} /\ MaxWrites \in Nat /\ MaxReads \in Nat

ASSUME ProgramShape ==
  Programs \subseteq [ops : Seq({"read", "add", "update", "forbidden"}), catches : BOOLEAN]

ASSUME NoneIsNothing ==
  None \notin Commands \cup {"read", "add", "update", "forbidden", "ok", "abort", "dead", "value", "failed"}

VARIABLES
  program,   \* command -> the body it runs
  pc,        \* attempt -> idle, waiting, granted, body, ending, done
  key,       \* attempt -> its command id
  running,   \* the counter of the concurrency gate
  waiting,   \* attempts in its queue, oldest first
  reads, writes, \* attempt -> budget spent
  receipts,  \* attempt -> writes the store acknowledged
  outcome,   \* attempt -> how its body ended, once that is settled
  answer,    \* attempt -> what its caller was told
  thread,    \* attempt -> none, run, parked (its body is over) or gone
  step,      \* attempt -> the call its body makes next
  stage,     \* attempt -> how far the round trip of that call is
  flag,      \* attempt -> the shared word the worker sleeps on
  request, reply, \* attempt -> what is on its port, in either direction
  said,      \* attempt -> the message that ends the call, on its way
  ledger,    \* writes that landed: [key, n, step, by]
  rowThere   \* the row that "update" names exists

gate == <<running, waiting>>
host == <<reads, writes, receipts>>
worker == <<thread, step, stage, flag, said>>
vars == <<program, pc, key, gate, host, outcome, answer, worker, request, reply, ledger, rowThere>>

----------------------------------------------------------------------------
(* The concurrency gate.                                                   *)

Holders == {a \in Attempts : pc[a] \in {"granted", "body", "ending"}}

\* acquireSlot, for a call that has passed every check before it.
Begin(a, k) ==
  /\ pc[a] = "idle"
  /\ key' = [key EXCEPT ![a] = k]
  /\ IF running < Slots
     THEN running' = running + 1 /\ pc' = [pc EXCEPT ![a] = "granted"] /\ UNCHANGED waiting
     ELSE waiting' = Append(waiting, a) /\ pc' = [pc EXCEPT ![a] = "waiting"] /\ UNCHANGED running
  /\ UNCHANGED <<program, host, outcome, answer, worker, request, reply, ledger, rowThere>>

\* No such app or function, arguments that do not fit, no body in the document: nothing was run.
Refuse(a, k) ==
  /\ pc[a] = "idle"
  /\ key' = [key EXCEPT ![a] = k]
  /\ pc' = [pc EXCEPT ![a] = "done"]
  /\ answer' = [answer EXCEPT ![a] = [ok |-> FALSE, writes |-> {}]]
  /\ UNCHANGED <<program, gate, host, outcome, worker, request, reply, ledger, rowThere>>

\* (bug) the slot is given back even when it is handed over.
GivesBackAlways(n, q) == n - 1

\* (bug) a freed slot goes to nobody who waits.
NextNobody(q) == {}

\* releaseSlot: who gets the slot, and the counter after it.
NextInLine(q) == IF q = <<>> THEN {} ELSE {Head(q)}
GivesBack(n, q) == IF NextInLine(q) = {} THEN n - 1 ELSE n

----------------------------------------------------------------------------
(* runFunctionBody: one worker from its start to its end.                  *)

\* The timer is armed and the thread starts; or it cannot start, which ends the call.
Start(a) ==
  /\ pc[a] = "granted"
  /\ \/ /\ pc' = [pc EXCEPT ![a] = "body"]
        /\ thread' = [thread EXCEPT ![a] = "run"]
        /\ UNCHANGED outcome
     \/ /\ pc' = [pc EXCEPT ![a] = "ending"]
        /\ outcome' = [outcome EXCEPT ![a] = "failed"]
        /\ UNCHANGED thread
  /\ UNCHANGED <<program, key, gate, host, answer, step, stage, flag, said, request, reply, ledger, rowThere>>

\* finish: the first end counts.  The thread is told to stop and may go on until it has.
Finish(a, kind) ==
  /\ pc[a] = "body"
  /\ pc' = [pc EXCEPT ![a] = "ending"]
  /\ outcome' = [outcome EXCEPT ![a] = kind]
  /\ UNCHANGED <<program, key, gate, host, answer, worker, request, reply, ledger, rowThere>>

Deadline(a) == Finish(a, "failed")

\* The worker's message, error or exit arrives.
HearEnd(a) == said[a] # None /\ Finish(a, said[a])

\* Every other end is an error of its own to the caller, with the writes that landed in it.
Succeeded(a) == outcome[a] = "value"

\* terminate() has resolved: the slot passes on, the caller gets its answer, and all the call held
\* goes with it.
Terminated(a) ==
  /\ pc[a] = "ending"
  /\ pc' = [b \in Attempts |-> IF b = a THEN "done" ELSE IF b \in NextInLine(waiting) THEN "granted" ELSE pc[b]]
  /\ running' = GivesBack(running, waiting)
  /\ waiting' = IF waiting = <<>> THEN <<>> ELSE Tail(waiting)
  /\ answer' = [answer EXCEPT ![a] = [ok |-> Succeeded(a), writes |-> receipts[a]]]
  /\ outcome' = [outcome EXCEPT ![a] = None] /\ said' = [said EXCEPT ![a] = None]
  /\ reads' = [reads EXCEPT ![a] = 0] /\ writes' = [writes EXCEPT ![a] = 0]
  /\ receipts' = [receipts EXCEPT ![a] = {}]
  /\ thread' = [thread EXCEPT ![a] = "gone"]
  /\ step' = [step EXCEPT ![a] = 1] /\ stage' = [stage EXCEPT ![a] = 1]
  /\ flag' = [flag EXCEPT ![a] = 0]
  /\ request' = [request EXCEPT ![a] = None] /\ reply' = [reply EXCEPT ![a] = None]
  /\ UNCHANGED <<program, key, ledger, rowThere>>

----------------------------------------------------------------------------
(* The worker: one blocking round trip per call of its program.            *)

Ops(a) == program[key[a]].ops
Catches(a) == program[key[a]].catches

\* (bug) the request is on the port before the flag is down.
RpcOrderSwapped == <<"post", "reset">>

\* rpc: the flag goes down, then the request goes out, then the thread sleeps.
RpcOrder == <<"reset", "post">>

Asleep(a) == stage[a] > Len(RpcOrder)

Rpc(a) ==
  /\ thread[a] = "run" /\ ~Asleep(a)
  /\ step[a] <= Len(Ops(a))
  /\ IF RpcOrder[stage[a]] = "reset"
     THEN flag' = [flag EXCEPT ![a] = 0] /\ UNCHANGED request
     ELSE request' = [request EXCEPT ![a] = Ops(a)[step[a]]] /\ UNCHANGED flag
  /\ stage' = [stage EXCEPT ![a] = @ + 1]
  /\ UNCHANGED <<program, pc, key, gate, host, outcome, answer, thread, step, said, reply, ledger, rowThere>>

\* The thread wakes and takes the reply.  A refusal the body does not catch ends it, and so does
\* a call that is over.
Wake(a) ==
  LET r == reply[a] IN
  /\ thread[a] = "run" /\ Asleep(a)
  /\ flag[a] = 1 /\ r # None
  /\ reply' = [reply EXCEPT ![a] = None]
  /\ stage' = [stage EXCEPT ![a] = 1]
  /\ IF r = "ok" \/ (r = "abort" /\ Catches(a))
     THEN step' = [step EXCEPT ![a] = @ + 1] /\ UNCHANGED <<thread, said>>
     ELSE /\ thread' = [thread EXCEPT ![a] = "parked"]
          /\ said' = [said EXCEPT ![a] = "failed"]
          /\ UNCHANGED step
  /\ UNCHANGED <<program, pc, key, gate, host, outcome, answer, flag, request, ledger, rowThere>>

\* The body returns, or throws: an error of its own or a refusal it had caught.  The thread stays until it is ended.
BodyEnds(a, kind) ==
  /\ thread[a] = "run" /\ stage[a] = 1
  /\ kind = "value" => step[a] > Len(Ops(a))
  /\ thread' = [thread EXCEPT ![a] = "parked"]
  /\ said' = [said EXCEPT ![a] = kind]
  /\ UNCHANGED <<program, pc, key, gate, host, outcome, answer, step, stage, flag, request, reply, ledger, rowThere>>

\* Out of memory, or process.exit through the seam.
ThreadDies(a) ==
  /\ thread[a] = "run" /\ stage[a] = 1
  /\ thread' = [thread EXCEPT ![a] = "gone"]
  /\ said' = [said EXCEPT ![a] = "failed"]
  /\ UNCHANGED <<program, pc, key, gate, host, outcome, answer, step, stage, flag, request, reply, ledger, rowThere>>

----------------------------------------------------------------------------
(* The engine's side of a round trip.                                      *)

\* The call is settled: the store is closed to its worker.
Closed(a) == pc[a] # "body"

\* (bug) every attempt numbers its writes afresh.
DerivedFresh(a) == Cardinality(ledger)

\* The number in the derived command id: issue order.
Derived(a) == writes[a]

Landed(k, n) == {e \in ledger : e.key = k /\ e.n = n}

\* (bug) the receipt is noted before the store has said yes.
ReceiptAnyway(a, ok) == receipts[a] \cup {[step |-> step[a], n |-> Derived(a), idempotent |-> FALSE]}

\* The receipt of a write the store acknowledged.
Receipt(a, ok) ==
  IF ~ok THEN receipts[a]
  ELSE receipts[a] \cup
       {[step |-> step[a], n |-> Derived(a), idempotent |-> Landed(key[a], Derived(a)) # {}]}

Post(a, r) ==
  /\ request' = [request EXCEPT ![a] = None]
  /\ reply' = [reply EXCEPT ![a] = r]
  /\ flag' = [flag EXCEPT ![a] = 1]

\* A budget is counted no further than one past its limit.
Spend(n, max) == IF n > max THEN n ELSE n + 1

\* The store replays an id it has seen; otherwise it writes, or refuses.
Execute(a) ==
  \/ /\ Landed(key[a], Derived(a)) # {}
     /\ receipts' = [receipts EXCEPT ![a] = Receipt(a, TRUE)]
     /\ Post(a, "ok")
     /\ UNCHANGED ledger
  \/ /\ Landed(key[a], Derived(a)) = {}
     /\ receipts' = [receipts EXCEPT ![a] = Receipt(a, TRUE)]
     /\ ledger' = ledger \cup {[key |-> key[a], n |-> Derived(a), step |-> step[a], by |-> a]}
     /\ Post(a, "ok")
  \/ /\ Landed(key[a], Derived(a)) = {}
     /\ receipts' = [receipts EXCEPT ![a] = Receipt(a, FALSE)]
     /\ Post(a, "abort")
     /\ UNCHANGED ledger

\* FnAbort: a refusal the host words itself.
Abort(a) == Post(a, "abort") /\ UNCHANGED <<receipts, ledger>>

\* write: the budget, then the store.
Write(a) ==
  /\ writes' = [writes EXCEPT ![a] = Spend(@, MaxWrites)]
  /\ IF writes[a] < MaxWrites THEN Execute(a) ELSE Abort(a)

\* rawDispatch.  A collection the app does not hold and a secret are refused before any budget;
\* an update looks for its row, at the price of a read.
Dispatch(a) ==
  LET op == request[a] IN
  /\ op # None
  /\ IF Closed(a) THEN Post(a, "dead") /\ UNCHANGED <<host, ledger>>
     ELSE CASE op = "forbidden" -> Abort(a) /\ UNCHANGED <<reads, writes>>
            [] op = "add" -> Write(a) /\ UNCHANGED reads
            [] op \in {"read", "update"} ->
                 /\ reads' = [reads EXCEPT ![a] = Spend(@, MaxReads)]
                 /\ IF reads[a] >= MaxReads THEN Abort(a) /\ UNCHANGED writes
                    ELSE IF op = "read" THEN Post(a, "ok") /\ UNCHANGED <<writes, receipts, ledger>>
                    ELSE IF rowThere THEN Write(a)
                    ELSE Abort(a) /\ UNCHANGED writes
  /\ UNCHANGED <<program, pc, key, gate, outcome, answer, thread, step, stage, said, rowThere>>

\* Somebody else adds the row that bodies update.
RowAppears ==
  /\ RowMayAppear /\ ~rowThere
  /\ rowThere' = TRUE
  /\ UNCHANGED <<program, pc, key, gate, host, outcome, answer, worker, request, reply, ledger>>

----------------------------------------------------------------------------
Init ==
  /\ program \in [Commands -> Programs]
  /\ pc = [a \in Attempts |-> "idle"] /\ key = [a \in Attempts |-> None]
  /\ running = 0 /\ waiting = <<>>
  /\ reads = [a \in Attempts |-> 0] /\ writes = [a \in Attempts |-> 0]
  /\ receipts = [a \in Attempts |-> {}]
  /\ outcome = [a \in Attempts |-> None] /\ answer = [a \in Attempts |-> None]
  /\ thread = [a \in Attempts |-> "none"] /\ step = [a \in Attempts |-> 1]
  /\ stage = [a \in Attempts |-> 1] /\ flag = [a \in Attempts |-> 0]
  /\ request = [a \in Attempts |-> None] /\ reply = [a \in Attempts |-> None]
  /\ said = [a \in Attempts |-> None]
  /\ ledger = {} /\ rowThere \in BOOLEAN /\ (rowThere \/ RowMayAppear)

\* A result that does not serialise or is too large counts as "failed": the caller gets no value.
Endings == {"value", "failed"}

Next ==
  \/ \E a \in Attempts, k \in Commands : Begin(a, k) \/ Refuse(a, k)
  \/ \E a \in Attempts :
       \/ Start(a) \/ Deadline(a) \/ HearEnd(a) \/ Terminated(a)
       \/ Rpc(a) \/ Wake(a) \/ ThreadDies(a) \/ Dispatch(a)
  \/ \E a \in Attempts, kind \in Endings : BodyEnds(a, kind)
  \/ RowAppears

Spec == Init /\ [][Next]_vars

\* What the engine owes a call at each of its stages.
Progress(a) == Start(a) \/ Deadline(a) \/ Terminated(a)

\* The engine's event loop runs what is ready, and timers fire.  A body may go on for ever.
FairSpec == Spec /\ \A a \in Attempts : WF_vars(Progress(a))

----------------------------------------------------------------------------
(* Properties.                                                             *)

Live == {a \in Attempts : thread[a] \in {"run", "parked"}}

TypeOK ==
  /\ program \in [Commands -> Programs]
  /\ pc \in [Attempts -> {"idle", "waiting", "granted", "body", "ending", "done"}]
  /\ key \in [Attempts -> Commands \cup {None}]
  /\ running \in Nat /\ waiting \in Seq(Attempts)
  /\ reads \in [Attempts -> 0 .. MaxReads + 1] /\ writes \in [Attempts -> 0 .. MaxWrites + 1]
  /\ receipts \in [Attempts -> SUBSET [step : Nat, n : Nat, idempotent : BOOLEAN]]
  /\ request \in [Attempts -> {"read", "add", "update", "forbidden", None}]
  /\ reply \in [Attempts -> {"ok", "abort", "dead", None}]
  /\ thread \in [Attempts -> {"none", "run", "parked", "gone"}]
  /\ step \in [Attempts -> Nat \ {0}] /\ stage \in [Attempts -> 1 .. 3] /\ flag \in [Attempts -> {0, 1}]
  /\ ledger \subseteq [key : Commands, n : Nat, step : Nat, by : Attempts]
  /\ rowThere \in BOOLEAN

\* The count never drifts while slots are handed over: it is the number of calls that hold one, at
\* most Slots of them with a thread that lives, and nobody waits while a slot is free.
SlotsAreCounted ==
  /\ running = Cardinality(Holders)
  /\ running <= Slots
  /\ Live \subseteq Holders
  /\ waiting # <<>> => running = Slots
  /\ {waiting[i] : i \in DOMAIN waiting} = {a \in Attempts : pc[a] = "waiting"}

\* What the header of functions.mjs says of a retry: a write of the body lands once per command id,
\* however often and however concurrently the call is repeated.
LandedOnce ==
  \A e1, e2 \in ledger : e1.key = e2.key /\ e1.step = e2.step => e1 = e2

\* A caller, be it told of a value, a refusal, a crash or a timeout, is told every write its call
\* landed and none that landed for somebody else, and what it is told was already there is the
\* same write of the same body.
AnswerIsWhole ==
  \A a \in Attempts : pc[a] = "done" =>
    /\ {[n |-> e.n, step |-> e.step] : e \in {e \in ledger : e.by = a}}
         = {[n |-> r.n, step |-> r.step] : r \in {r \in answer[a].writes : ~r.idempotent}}
    /\ \A r \in answer[a].writes : \E e \in Landed(key[a], r.n) : e.step = r.step

\* The wake that is never missed: a thread asleep on the flag has its request on the port, or its
\* reply there with the flag up.
SleepersAreHeard ==
  \A a \in Attempts : thread[a] = "run" /\ Asleep(a) =>
    request[a] # None \/ (reply[a] # None /\ flag[a] = 1)

\* Every call that got in line is answered, whatever its body and the bodies before it do.
EveryCallAnswers ==
  \A a \in Attempts : pc[a] # "idle" ~> pc[a] = "done"
=============================================================================
