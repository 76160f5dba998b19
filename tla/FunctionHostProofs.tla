------------------------- MODULE FunctionHostProofs -------------------------
(***************************************************************************)
(* The host of functions for any number of calls, slots and budgets, and   *)
(* any bodies: the gate counts its slots, no thread sleeps past its reply; *)
(* and where the rows that bodies update are there, a write lands once per *)
(* command id and the answer tells of all of them.                         *)
(*                                                                         *)
(* The last two rest on this: attempts under one id run one program, whose *)
(* counters after each of its calls depend on the program alone.  What the *)
(* counters were at each call that any attempt has reached is a sequence   *)
(* per command (Trail), and an id derived from a counter names the call at *)
(* which that counter stood.                                               *)
(***************************************************************************)
EXTENDS FunctionHost, FiniteSetTheorems, TLAPS

----------------------------------------------------------------------------
(* Types, and what a call's worker and port may look like at each stage.   *)

\* A call that holds no slot yet has spent nothing and has no thread.
FreshUntilStarted ==
  \A a \in Attempts : pc[a] \in {"idle", "waiting", "granted"} =>
    /\ thread[a] = "none" /\ step[a] = 1 /\ stage[a] = 1
    /\ reads[a] = 0 /\ writes[a] = 0 /\ receipts[a] = {}
    /\ request[a] = None /\ reply[a] = None

KeyKnown == \A a \in Attempts : pc[a] # "idle" => key[a] \in Commands

\* A thread that lives belongs to a call that holds its slot.
ThreadsHold == \A a \in Attempts : thread[a] \in {"run", "parked"} => pc[a] \in {"body", "ending"}

\* What is on a port belongs to the call of the program its thread sleeps on.
Port ==
  \A a \in Attempts :
    /\ thread[a] = "run" /\ stage[a] > 1 => step[a] \in DOMAIN Ops(a)
    /\ request[a] # None => /\ thread[a] = "run" /\ stage[a] = 3
                            /\ request[a] = Ops(a)[step[a]]
    /\ reply[a] # None => /\ thread[a] = "run" /\ stage[a] = 3
                          /\ request[a] = None

\* The line at the gate is the calls that wait, each once.
InLine ==
  /\ \A i \in DOMAIN waiting : pc[waiting[i]] = "waiting"
  /\ \A a \in Attempts : pc[a] = "waiting" => \E i \in DOMAIN waiting : waiting[i] = a
  /\ \A i1, i2 \in DOMAIN waiting : waiting[i1] = waiting[i2] => i1 = i2

\* The counter is the number of calls that hold a slot, and nobody waits while one is free.
Counted ==
  /\ IsFiniteSet(Holders) /\ running = Cardinality(Holders)
  /\ running <= Slots
  /\ waiting # <<>> => running = Slots

Base == TypeOK /\ InLine /\ Counted /\ KeyKnown /\ FreshUntilStarted /\ ThreadsHold /\ Port

LEMMA RpcIs == Len(RpcOrder) = 2 /\ RpcOrder[1] = "reset" /\ RpcOrder[2] = "post"
  BY DEF RpcOrder

LEMMA OpsAre ==
  ASSUME TypeOK, NEW a \in Attempts, key[a] \in Commands
  PROVE  /\ Ops(a) \in Seq({"read", "add", "update", "forbidden"})
         /\ \A s \in DOMAIN Ops(a) : Ops(a)[s] # None /\ Ops(a)[s] \in {"read", "add", "update", "forbidden"}
         /\ DOMAIN Ops(a) = 1 .. Len(Ops(a)) /\ Len(Ops(a)) \in Nat
  <1>1. program[key[a]] \in [ops : Seq({"read", "add", "update", "forbidden"}), catches : BOOLEAN]
    BY ProgramShape DEF TypeOK
  <1>2. Ops(a) \in Seq({"read", "add", "update", "forbidden"})
    BY <1>1 DEF Ops
  <1>3. DOMAIN Ops(a) = 1 .. Len(Ops(a)) /\ Len(Ops(a)) \in Nat
    BY <1>2
  <1>4. \A s \in DOMAIN Ops(a) : Ops(a)[s] \in {"read", "add", "update", "forbidden"}
    BY <1>2
  <1> QED BY <1>2, <1>3, <1>4, NoneIsNothing

\* What a budget may count.
LEMMA SpendIs ==
  ASSUME NEW max \in Nat, NEW n \in 0 .. max + 1
  PROVE  /\ Spend(n, max) \in 0 .. max + 1 /\ n <= Spend(n, max)
         /\ n < max => Spend(n, max) = n + 1
  BY DEF Spend

LEMMA BaseInit == Init => Base
  <1>1. Init => Counted
    <2> SUFFICES ASSUME Init PROVE Counted
      OBVIOUS
    <2>1. Holders = {}
      BY DEF Init, Holders
    <2> QED BY <2>1, FS_EmptySet, HostBounds DEF Init, Counted
  <1> QED BY <1>1, HostBounds, NoneIsNothing
      DEF Init, Base, TypeOK, InLine, KeyKnown, FreshUntilStarted, ThreadsHold, Port

\* What the store makes of a write: it answers an id it has seen, writes, or refuses.
Replayed(a) ==
  /\ Landed(key[a], writes[a]) # {} /\ ledger' = ledger
  /\ receipts' = [receipts EXCEPT ![a] = @ \cup {[step |-> step[a], n |-> writes[a], idempotent |-> TRUE]}]

Wrote(a) ==
  /\ Landed(key[a], writes[a]) = {}
  /\ ledger' = ledger \cup {[key |-> key[a], n |-> writes[a], step |-> step[a], by |-> a]}
  /\ receipts' = [receipts EXCEPT ![a] = @ \cup {[step |-> step[a], n |-> writes[a], idempotent |-> FALSE]}]

LEMMA ExecuteDoes ==
  ASSUME Base, NEW a \in Attempts, Execute(a)
  PROVE  /\ \E r \in {"ok", "abort"} : Post(a, r)
         /\ Replayed(a) \/ Wrote(a) \/ UNCHANGED <<receipts, ledger>>
  <1>1. receipts \in [Attempts -> SUBSET [step : Nat, n : Nat, idempotent : BOOLEAN]]
    BY DEF Base, TypeOK
  <1>2. receipts = [receipts EXCEPT ![a] = receipts[a]]
    BY <1>1
  <1>3. \E r \in {"ok", "abort"} : Post(a, r)
    BY DEF Execute
  <1>4. CASE Landed(key[a], Derived(a)) # {} /\ receipts' = [receipts EXCEPT ![a] = Receipt(a, TRUE)] /\ ledger' = ledger
    <2>1. (Landed(key[a], Derived(a)) # {}) = TRUE
      BY <1>4
    <2>2. receipts' = [receipts EXCEPT ![a] = receipts[a] \cup {[step |-> step[a], n |-> writes[a], idempotent |-> TRUE]}]
      BY <1>4, <2>1, Zenon DEF Receipt, Derived
    <2>3. Landed(key[a], writes[a]) # {} /\ ledger' = ledger
      BY <1>4, Zenon DEF Derived
    <2> QED BY <1>3, <2>2, <2>3 DEF Replayed
  <1>5. CASE /\ Landed(key[a], Derived(a)) = {}
             /\ receipts' = [receipts EXCEPT ![a] = Receipt(a, TRUE)]
             /\ ledger' = ledger \cup {[key |-> key[a], n |-> Derived(a), step |-> step[a], by |-> a]}
    <2>1. (Landed(key[a], Derived(a)) # {}) = FALSE
      BY <1>5
    <2>2. receipts' = [receipts EXCEPT ![a] = receipts[a] \cup {[step |-> step[a], n |-> writes[a], idempotent |-> FALSE]}]
      BY <1>5, <2>1, Zenon DEF Receipt, Derived
    <2>3. /\ Landed(key[a], writes[a]) = {}
          /\ ledger' = ledger \cup {[key |-> key[a], n |-> writes[a], step |-> step[a], by |-> a]}
      BY <1>5, Zenon DEF Derived
    <2> QED BY <1>3, <2>2, <2>3 DEF Wrote
  <1>6. CASE receipts' = [receipts EXCEPT ![a] = Receipt(a, FALSE)] /\ ledger' = ledger
    <2>1. receipts' = [receipts EXCEPT ![a] = receipts[a]] /\ ledger' = ledger
      BY <1>6, Zenon DEF Receipt
    <2> QED BY <1>2, <1>3, <2>1
  <1> QED BY <1>3, <1>4, <1>5, <1>6 DEF Execute

\* A call of a program, from the counters before it: does it try to write, and what does it leave?
Tries(op, c) == op = "add" \/ (op = "update" /\ c.r < MaxReads)
After(op, c) == [r |-> IF op \in {"read", "update"} THEN Spend(c.r, MaxReads) ELSE c.r,
                 w |-> IF Tries(op, c) THEN Spend(c.w, MaxWrites) ELSE c.w]
Counters(a) == [r |-> reads[a], w |-> writes[a]]

\* A request is answered: the call is over, or it is refused, or carried out.
LEMMA DispatchDoes ==
  ASSUME Base, NEW a \in Attempts, Dispatch(a)
  PROVE  /\ request[a] # None /\ thread[a] = "run" /\ stage[a] = 3 /\ reply[a] = None
         /\ \E r \in {"ok", "abort", "dead"} : Post(a, r)
         /\ UNCHANGED <<program, pc, key, running, waiting, outcome, answer, thread, step, stage, said, rowThere>>
         /\ reads' \in [Attempts -> 0 .. MaxReads + 1] /\ writes' \in [Attempts -> 0 .. MaxWrites + 1]
         /\ \A b \in Attempts : b # a => reads'[b] = reads[b] /\ writes'[b] = writes[b]
         /\ Closed(a) => UNCHANGED <<reads, writes, receipts, ledger>>
         /\ \/ UNCHANGED <<receipts, ledger>>
            \/ /\ ~Closed(a) /\ Tries(request[a], Counters(a)) /\ writes[a] < MaxWrites
               /\ Replayed(a) \/ Wrote(a)
         /\ ~Closed(a) /\ rowThere => [r |-> reads'[a], w |-> writes'[a]] = After(request[a], Counters(a))
  <1> DEFINE op == request[a]
  <1>1. request[a] # None /\ thread[a] = "run" /\ stage[a] = 3 /\ reply[a] = None
    BY DEF Dispatch, Base, Port
  <1>2. UNCHANGED <<program, pc, key, running, waiting, outcome, answer, thread, step, stage, said, rowThere>>
    BY DEF Dispatch, gate
  <1>3. /\ reads \in [Attempts -> 0 .. MaxReads + 1] /\ writes \in [Attempts -> 0 .. MaxWrites + 1]
        /\ op \in {"read", "add", "update", "forbidden"}
    BY <1>1 DEF Base, TypeOK
  <1>4. /\ Spend(reads[a], MaxReads) \in 0 .. MaxReads + 1
        /\ Spend(writes[a], MaxWrites) \in 0 .. MaxWrites + 1
    BY <1>3, HostBounds, SpendIs
  <1>5. ASSUME Write(a)
        PROVE  /\ \E r \in {"ok", "abort"} : Post(a, r)
               /\ writes' = [writes EXCEPT ![a] = Spend(@, MaxWrites)]
               /\ UNCHANGED <<receipts, ledger>> \/ (writes[a] < MaxWrites /\ (Replayed(a) \/ Wrote(a)))
    BY <1>5, ExecuteDoes DEF Write, Abort
  <1>6. CASE Closed(a)
    BY <1>1, <1>2, <1>3, <1>6 DEF Dispatch, host
  <1>7. CASE ~Closed(a) /\ op = "forbidden"
    BY <1>1, <1>2, <1>3, <1>7 DEF Dispatch, Abort, After, Tries, Counters
  <1>8. CASE ~Closed(a) /\ op = "add"
    <2>1. Write(a) /\ UNCHANGED reads
      BY <1>8 DEF Dispatch
    <2>2. Tries(op, Counters(a)) /\ [r |-> reads'[a], w |-> writes'[a]] = After(op, Counters(a))
      BY <1>3, <1>5, <1>8, <2>1 DEF After, Tries, Counters
    <2> QED BY <1>1, <1>2, <1>3, <1>4, <1>5, <1>8, <2>1, <2>2
  <1>9. CASE ~Closed(a) /\ op \in {"read", "update"}
    <2>1. reads' = [reads EXCEPT ![a] = Spend(@, MaxReads)]
      BY <1>9 DEF Dispatch
    <2>2. CASE /\ \E r \in {"ok", "abort"} : Post(a, r)
               /\ UNCHANGED <<writes, receipts, ledger>>
               /\ rowThere => ~(op = "update" /\ reads[a] < MaxReads)
      <3>1. rowThere => [r |-> reads'[a], w |-> writes'[a]] = After(op, Counters(a))
        BY <1>3, <1>9, <2>1, <2>2 DEF After, Tries, Counters
      <3> QED BY <1>1, <1>2, <1>3, <1>4, <1>9, <2>1, <2>2, <3>1
    <2>3. CASE op = "update" /\ reads[a] < MaxReads /\ Write(a)
      <3>1. Tries(op, Counters(a)) /\ [r |-> reads'[a], w |-> writes'[a]] = After(op, Counters(a))
        BY <1>3, <1>5, <1>9, <2>1, <2>3 DEF After, Tries, Counters
      <3> QED BY <1>1, <1>2, <1>3, <1>4, <1>5, <1>9, <2>1, <2>3, <3>1
    <2>4. IF reads[a] >= MaxReads THEN Abort(a) /\ UNCHANGED writes
          ELSE IF op = "read" THEN Post(a, "ok") /\ UNCHANGED <<writes, receipts, ledger>>
          ELSE IF rowThere THEN Write(a)
          ELSE Abort(a) /\ UNCHANGED writes
      BY <1>9 DEF Dispatch
    <2>5. reads[a] \in Nat /\ MaxReads \in Nat
      BY <1>3, HostBounds
    <2>6. CASE reads[a] >= MaxReads
      BY <2>2, <2>4, <2>5, <2>6 DEF Abort
    <2>7. CASE ~(reads[a] >= MaxReads) /\ op = "read"
      BY <2>2, <2>4, <2>7
    <2>8. CASE ~(reads[a] >= MaxReads) /\ op = "update"
      BY <2>2, <2>3, <2>4, <2>5, <2>8 DEF Abort
    <2> QED BY <1>9, <2>6, <2>7, <2>8
  <1> QED BY <1>3, <1>6, <1>7, <1>8, <1>9

\* Who holds the slot a call gives back, and who waits after that.
LEMMA TerminatedDoes ==
  ASSUME Base, NEW a \in Attempts, Terminated(a)
  PROVE  /\ pc[a] = "ending" /\ pc'[a] = "done"
         /\ \/ /\ waiting = <<>> /\ waiting' = <<>> /\ running' = running - 1
               /\ \A b \in Attempts : b # a => pc'[b] = pc[b]
            \/ /\ waiting # <<>> /\ waiting' = Tail(waiting) /\ running' = running
               /\ Head(waiting) \in Attempts /\ Head(waiting) # a
               /\ pc[Head(waiting)] = "waiting" /\ pc'[Head(waiting)] = "granted"
               /\ \A b \in Attempts : b # a /\ b # Head(waiting) => pc'[b] = pc[b]
  <1>1. /\ pc \in [Attempts -> {"idle", "waiting", "granted", "body", "ending", "done"}]
        /\ pc' = [b \in Attempts |-> IF b = a THEN "done" ELSE IF b \in NextInLine(waiting) THEN "granted" ELSE pc[b]]
        /\ pc[a] = "ending" /\ waiting \in Seq(Attempts)
    BY DEF Terminated, Base, TypeOK
  <1>2. CASE waiting = <<>>
    <2>1. NextInLine(waiting) = {} /\ GivesBack(running, waiting) = running - 1
      BY <1>2 DEF NextInLine, GivesBack
    <2> QED BY <1>1, <1>2, <2>1 DEF Terminated
  <1>3. CASE waiting # <<>>
    <2>1. NextInLine(waiting) = {Head(waiting)} /\ GivesBack(running, waiting) = running
      BY <1>3 DEF NextInLine, GivesBack
    <2>2. Head(waiting) \in Attempts /\ 1 \in DOMAIN waiting /\ Head(waiting) = waiting[1]
      BY <1>1, <1>3
    <2>3. pc[Head(waiting)] = "waiting"
      BY <2>2 DEF Base, InLine
    <2> QED BY <1>1, <1>3, <2>1, <2>2, <2>3 DEF Terminated
  <1> QED BY <1>2, <1>3

LEMMA LineStep == Base /\ [Next]_vars => InLine'
  <1> SUFFICES ASSUME Base, [Next]_vars PROVE InLine'
    OBVIOUS
  <1>0. /\ waiting \in Seq(Attempts) /\ DOMAIN waiting = 1 .. Len(waiting) /\ Len(waiting) \in Nat
        /\ pc \in [Attempts -> {"idle", "waiting", "granted", "body", "ending", "done"}]
        /\ \A i \in DOMAIN waiting : waiting[i] \in Attempts
    BY DEF Base, TypeOK
  <1> DEFINE Aside == /\ waiting' = waiting
                      /\ \A b \in Attempts : pc'[b] = "waiting" <=> pc[b] = "waiting"
  <1>1. Aside => InLine'
    BY <1>0 DEF Base, InLine
  <1>2. ASSUME NEW a \in Attempts, NEW k \in Commands, Begin(a, k) PROVE InLine'
    <2>1. CASE waiting' = waiting /\ pc' = [pc EXCEPT ![a] = "granted"]
      <3>1. Aside
        BY <1>0, <1>2, <2>1 DEF Begin
      <3> QED BY <1>1, <3>1
    <2>2. CASE waiting' = Append(waiting, a) /\ pc' = [pc EXCEPT ![a] = "waiting"]
      <3>1. /\ DOMAIN waiting' = 1 .. (Len(waiting) + 1) /\ waiting'[Len(waiting) + 1] = a
            /\ \A i \in DOMAIN waiting : waiting'[i] = waiting[i]
        BY <1>0, <2>2
      <3>2. pc'[a] = "waiting" /\ \A b \in Attempts : b # a => pc'[b] = pc[b]
        BY <1>0, <2>2
      <3>3. \A i \in DOMAIN waiting : waiting[i] # a
        BY <1>0, <1>2 DEF Begin, Base, InLine
      <3>4. \A i \in DOMAIN waiting' : i \in DOMAIN waiting \/ i = Len(waiting) + 1
        BY <1>0, <3>1
      <3>5. DOMAIN waiting \subseteq DOMAIN waiting' /\ Len(waiting) + 1 \in DOMAIN waiting'
        BY <1>0, <3>1
      <3> QED BY <1>0, <3>1, <3>2, <3>3, <3>4, <3>5 DEF Base, InLine
    <2> QED BY <1>2, <2>1, <2>2 DEF Begin
  <1>3. ASSUME NEW a \in Attempts, Terminated(a) PROVE InLine'
    <2>1. CASE waiting = <<>> /\ waiting' = <<>> /\ \A b \in Attempts : b # a => pc'[b] = pc[b]
      <3>1. Aside
        BY <1>0, <1>3, <2>1, TerminatedDoes
      <3> QED BY <1>1, <3>1
    <2>2. CASE /\ waiting # <<>> /\ waiting' = Tail(waiting)
               /\ Head(waiting) # a /\ pc'[Head(waiting)] = "granted"
               /\ \A b \in Attempts : b # a /\ b # Head(waiting) => pc'[b] = pc[b]
      <3>1. /\ DOMAIN waiting' = 1 .. (Len(waiting) - 1) /\ Head(waiting) = waiting[1] /\ 1 \in DOMAIN waiting
            /\ \A i \in DOMAIN waiting' : i + 1 \in DOMAIN waiting /\ i + 1 # 1 /\ waiting'[i] = waiting[i + 1]
            /\ \A i \in DOMAIN waiting : i # 1 => i - 1 \in DOMAIN waiting' /\ waiting'[i - 1] = waiting[i]
        BY <1>0, <2>2
      <3>2. pc[a] = "ending" /\ pc'[a] = "done"
        BY <1>3, TerminatedDoes
      <3>3. \A i \in DOMAIN waiting' : pc'[waiting'[i]] = "waiting"
        <4>1. ASSUME NEW i \in DOMAIN waiting' PROVE pc'[waiting'[i]] = "waiting"
          <5>1. waiting'[i] # Head(waiting) /\ pc[waiting'[i]] = "waiting" /\ waiting'[i] \in Attempts
            BY <1>0, <3>1 DEF Base, InLine
          <5> QED BY <2>2, <3>2, <5>1
        <4> QED BY <4>1
      <3>4. \A b \in Attempts : pc'[b] = "waiting" => \E i \in DOMAIN waiting' : waiting'[i] = b
        <4>1. ASSUME NEW b \in Attempts, pc'[b] = "waiting" PROVE \E i \in DOMAIN waiting' : waiting'[i] = b
          <5>1. b # a /\ b # Head(waiting) /\ pc[b] = "waiting"
            BY <2>2, <3>2, <4>1
          <5>2. PICK i \in DOMAIN waiting : waiting[i] = b
            BY <5>1 DEF Base, InLine
          <5>3. i # 1
            BY <3>1, <5>1, <5>2
          <5> QED BY <3>1, <5>2, <5>3
        <4> QED BY <4>1
      <3>5. ASSUME NEW i1 \in DOMAIN waiting', NEW i2 \in DOMAIN waiting', waiting'[i1] = waiting'[i2] PROVE i1 = i2
        <4>1. i1 + 1 = i2 + 1
          BY <3>1, <3>5 DEF Base, InLine
        <4> QED BY <1>0, <3>1, <4>1
      <3> QED BY <3>3, <3>4, <3>5 DEF InLine
    <2> QED BY <1>3, <2>1, <2>2, TerminatedDoes
  <1>4. ASSUME NEW a \in Attempts,
               (\E k \in Commands : Refuse(a, k)) \/ Start(a) \/ (\E kind \in Endings \cup {said[a]} : Finish(a, kind))
        PROVE  Aside
    BY <1>0, <1>4 DEF Refuse, Start, Finish, gate
  <1>5. ASSUME NEW a \in Attempts,
               Rpc(a) \/ Wake(a) \/ ThreadDies(a) \/ Dispatch(a) \/ (\E kind \in Endings : BodyEnds(a, kind))
        PROVE  Aside
    BY <1>5 DEF Rpc, Wake, ThreadDies, Dispatch, BodyEnds, gate
  <1>6. ASSUME RowAppears \/ UNCHANGED vars PROVE Aside
    BY <1>6 DEF RowAppears, vars, gate
  <1> HIDE DEF Aside
  <1> QED BY <1>1, <1>2, <1>3, <1>4, <1>5, <1>6 DEF Next, Deadline, HearEnd, Endings

LEMMA TypeStep == Base /\ [Next]_vars => TypeOK'
  <1> SUFFICES ASSUME Base, [Next]_vars PROVE TypeOK'
    OBVIOUS
  <1> USE NoneIsNothing, HostBounds
  <1>0. TypeOK
    BY DEF Base
  <1>1. ASSUME NEW a \in Attempts, NEW k \in Commands, Begin(a, k) PROVE TypeOK'
    <2>1. /\ waiting' \in Seq(Attempts) /\ running' \in Nat
          /\ pc' \in [Attempts -> {"idle", "waiting", "granted", "body", "ending", "done"}]
      <3>1. /\ waiting \in Seq(Attempts) /\ running \in Nat
            /\ pc \in [Attempts -> {"idle", "waiting", "granted", "body", "ending", "done"}]
        BY <1>0 DEF TypeOK
      <3>2. CASE running' = running + 1 /\ pc' = [pc EXCEPT ![a] = "granted"] /\ waiting' = waiting
        BY <3>1, <3>2
      <3>3. CASE waiting' = Append(waiting, a) /\ pc' = [pc EXCEPT ![a] = "waiting"] /\ running' = running
        BY <3>1, <3>3
      <3> QED BY <1>1, <3>2, <3>3 DEF Begin
    <2> QED BY <1>0, <1>1, <2>1 DEF TypeOK, Begin, host, worker
  <1>2. ASSUME NEW a \in Attempts, NEW k \in Commands, Refuse(a, k) PROVE TypeOK'
    BY <1>0, <1>2 DEF TypeOK, Refuse, gate, host, worker
  <1>3. ASSUME NEW a \in Attempts, Start(a) PROVE TypeOK'
    BY <1>0, <1>3 DEF TypeOK, Start, gate, host, worker
  <1>4. ASSUME NEW a \in Attempts, NEW kind, Finish(a, kind) PROVE TypeOK'
    BY <1>0, <1>4 DEF TypeOK, Finish, gate, host, worker
  <1>5. ASSUME NEW a \in Attempts, Terminated(a) PROVE TypeOK'
    <2>1. running - 1 \in Nat
      <3>1. a \in Holders
        BY <1>5 DEF Terminated, Holders
      <3>2. Cardinality(Holders) \in Nat /\ Cardinality(Holders) # 0
        BY <3>1, FS_EmptySet, FS_CardinalityType DEF Base, Counted
      <3> QED BY <3>2 DEF Base, Counted
    <2>2. waiting' \in Seq(Attempts) /\ running' \in Nat
      <3>1. waiting \in Seq(Attempts) /\ running \in Nat
        BY <1>0 DEF TypeOK
      <3>2. CASE waiting = <<>> /\ waiting' = <<>> /\ running' = running - 1
        BY <2>1, <3>1, <3>2
      <3>3. CASE waiting # <<>> /\ waiting' = Tail(waiting) /\ running' = running
        BY <3>1, <3>3
      <3> QED BY <1>5, <3>2, <3>3, TerminatedDoes
    <2>3. pc' \in [Attempts -> {"idle", "waiting", "granted", "body", "ending", "done"}]
      BY <1>0, <1>5 DEF TypeOK, Terminated
    <2> QED BY <1>0, <1>5, <2>2, <2>3 DEF TypeOK, Terminated
  <1>6. ASSUME NEW a \in Attempts, Rpc(a) PROVE TypeOK'
    <2>1. stage[a] \in 1 .. 2 /\ stage[a] + 1 \in 1 .. 3
      BY <1>0, <1>6, RpcIs DEF TypeOK, Rpc, Asleep
    <2>2. key[a] \in Commands
      BY <1>6 DEF Base, ThreadsHold, KeyKnown, Rpc
    <2>3. step[a] \in DOMAIN Ops(a)
      BY <1>0, <1>6, <2>2, OpsAre DEF TypeOK, Rpc
    <2>4. Ops(a)[step[a]] \in {"read", "add", "update", "forbidden"}
      BY <1>0, <2>2, <2>3, OpsAre
    <2>5. request' \in [Attempts -> {"read", "add", "update", "forbidden", None}]
      <3>1. request' = request \/ request' = [request EXCEPT ![a] = Ops(a)[step[a]]]
        BY <1>6 DEF Rpc
      <3> QED BY <1>0, <2>4, <3>1 DEF TypeOK
    <2>6. flag' \in [Attempts -> {0, 1}]
      <3>1. flag' = flag \/ flag' = [flag EXCEPT ![a] = 0]
        BY <1>6 DEF Rpc
      <3> QED BY <1>0, <3>1 DEF TypeOK
    <2>7. stage' \in [Attempts -> 1 .. 3]
      BY <1>0, <1>6, <2>1 DEF TypeOK, Rpc
    <2> QED BY <1>0, <1>6, <2>5, <2>6, <2>7 DEF TypeOK, Rpc, gate, host
  <1>7. ASSUME NEW a \in Attempts, Wake(a) PROVE TypeOK'
    <2>1. step' \in [Attempts -> Nat \ {0}]
      <3>1. UNCHANGED step \/ step' = [step EXCEPT ![a] = @ + 1]
        BY <1>7 DEF Wake
      <3>2. step \in [Attempts -> Nat \ {0}] /\ step[a] + 1 \in Nat \ {0}
        BY <1>0 DEF TypeOK
      <3> QED BY <3>1, <3>2
    <2>2. /\ thread' \in [Attempts -> {"none", "run", "parked", "gone"}]
          /\ stage' \in [Attempts -> 1 .. 3]
      <3>1. /\ UNCHANGED thread \/ thread' = [thread EXCEPT ![a] = "parked"]
            /\ stage' = [stage EXCEPT ![a] = 1]
        BY <1>7 DEF Wake
      <3>2. /\ thread \in [Attempts -> {"none", "run", "parked", "gone"}]
            /\ stage \in [Attempts -> 1 .. 3]
        BY <1>0 DEF TypeOK
      <3> QED BY <3>1, <3>2
    <2> QED BY <1>0, <1>7, <2>1, <2>2 DEF TypeOK, Wake, gate, host
  <1>8. ASSUME NEW a \in Attempts, ThreadDies(a) PROVE TypeOK'
    BY <1>0, <1>8 DEF TypeOK, ThreadDies, gate, host, worker
  <1>9. ASSUME NEW a \in Attempts, NEW kind \in Endings, BodyEnds(a, kind) PROVE TypeOK'
    BY <1>0, <1>9 DEF TypeOK, BodyEnds, gate, host, worker
  <1>10. ASSUME NEW a \in Attempts, Dispatch(a) PROVE TypeOK'
    <2>1. /\ request' \in [Attempts -> {"read", "add", "update", "forbidden", None}]
          /\ flag' \in [Attempts -> {0, 1}]
          /\ reply' \in [Attempts -> {"ok", "abort", "dead", None}]
      <3>1. PICK r \in {"ok", "abort", "dead"} : Post(a, r)
        BY <1>10, DispatchDoes
      <3> QED BY <1>0, <3>1 DEF TypeOK, Post
    <2>2. /\ reads[a] \in Nat /\ writes[a] \in Nat /\ step[a] \in Nat
          /\ key[a] \in Commands
      <3>1. thread[a] = "run"
        BY <1>10, DispatchDoes
      <3>2. key[a] \in Commands
        BY <3>1 DEF Base, ThreadsHold, KeyKnown
      <3> QED BY <1>0, <3>2 DEF TypeOK
    <2>3. /\ receipts' \in [Attempts -> SUBSET [step : Nat, n : Nat, idempotent : BOOLEAN]]
          /\ ledger' \subseteq [key : Commands, n : Nat, step : Nat, by : Attempts]
      <3>1. /\ receipts \in [Attempts -> SUBSET [step : Nat, n : Nat, idempotent : BOOLEAN]]
            /\ ledger \subseteq [key : Commands, n : Nat, step : Nat, by : Attempts]
        BY <1>0 DEF TypeOK
      <3>2. \A told \in BOOLEAN : [step |-> step[a], n |-> writes[a], idempotent |-> told] \in [step : Nat, n : Nat, idempotent : BOOLEAN]
        BY <2>2
      <3>3. [key |-> key[a], n |-> writes[a], step |-> step[a], by |-> a] \in [key : Commands, n : Nat, step : Nat, by : Attempts]
        BY <2>2
      <3>4. CASE Replayed(a)
        BY <3>1, <3>2, <3>4 DEF Replayed
      <3>5. CASE Wrote(a)
        BY <3>1, <3>2, <3>3, <3>5 DEF Wrote
      <3> QED BY <1>10, <3>1, <3>4, <3>5, DispatchDoes
    <2> QED BY <1>0, <1>10, <2>1, <2>3, DispatchDoes DEF TypeOK
  <1>11. ASSUME RowAppears PROVE TypeOK'
    BY <1>0, <1>11 DEF TypeOK, RowAppears, gate, host, worker
  <1>12. ASSUME UNCHANGED vars PROVE TypeOK'
    BY <1>0, <1>12 DEF TypeOK, vars, gate, host, worker
  <1> QED BY <1>1, <1>2, <1>3, <1>4, <1>5, <1>6, <1>7, <1>8, <1>9, <1>10, <1>11, <1>12 DEF Next, Deadline, HearEnd

\* A slot changes hands without the counter, and is counted off when nobody waits for it.
LEMMA CountedStep == Base /\ [Next]_vars => Counted'
  <1> SUFFICES ASSUME Base, [Next]_vars PROVE Counted'
    OBVIOUS
  <1>0. /\ pc \in [Attempts -> {"idle", "waiting", "granted", "body", "ending", "done"}]
        /\ running \in Nat /\ Slots \in Nat \ {0} /\ waiting \in Seq(Attempts)
        /\ IsFiniteSet(Holders) /\ running = Cardinality(Holders) /\ running <= Slots
        /\ waiting # <<>> => running = Slots
    BY HostBounds DEF Base, TypeOK, Counted
  <1> DEFINE Aside == Holders' = Holders /\ UNCHANGED <<running, waiting>>
  <1>1. Aside => Counted'
    BY <1>0 DEF Counted
  <1>2. ASSUME NEW a \in Attempts, NEW k \in Commands, Begin(a, k) PROVE Counted'
    <2>1. CASE running < Slots
      <3>1. running' = running + 1 /\ pc' = [pc EXCEPT ![a] = "granted"] /\ waiting' = waiting
        BY <1>2, <2>1 DEF Begin
      <3>2. Holders' = Holders \cup {a} /\ a \notin Holders
        BY <1>0, <1>2, <3>1 DEF Begin, Holders
      <3>3. IsFiniteSet(Holders') /\ Cardinality(Holders') = running + 1
        BY <1>0, <3>2, FS_AddElement
      <3> QED BY <1>0, <2>1, <3>1, <3>3 DEF Counted
    <2>2. CASE ~(running < Slots)
      <3>1. running' = running /\ pc' = [pc EXCEPT ![a] = "waiting"] /\ pc[a] = "idle"
        BY <1>2, <2>2 DEF Begin
      <3>2. Holders' = Holders
        BY <1>0, <3>1 DEF Holders
      <3> QED BY <1>0, <2>2, <3>1, <3>2 DEF Counted
    <2> QED BY <2>1, <2>2
  <1>3. ASSUME NEW a \in Attempts, Terminated(a) PROVE Counted'
    <2>1. a \in Holders /\ IsFiniteSet(Holders \ {a}) /\ Cardinality(Holders \ {a}) = running - 1
      BY <1>0, <1>3, TerminatedDoes, FS_RemoveElement DEF Holders
    <2>2. pc[a] = "ending" /\ pc'[a] = "done"
      BY <1>3, TerminatedDoes
    <2>3. CASE waiting = <<>> /\ waiting' = <<>> /\ running' = running - 1 /\ \A b \in Attempts : b # a => pc'[b] = pc[b]
      <3>1. Holders' = Holders \ {a}
        BY <1>0, <2>2, <2>3 DEF Holders
      <3> QED BY <1>0, <2>1, <2>3, <3>1 DEF Counted
    <2>4. CASE /\ waiting # <<>> /\ running' = running /\ Head(waiting) \in Attempts /\ Head(waiting) # a
               /\ pc[Head(waiting)] = "waiting" /\ pc'[Head(waiting)] = "granted"
               /\ \A b \in Attempts : b # a /\ b # Head(waiting) => pc'[b] = pc[b]
      <3> DEFINE h == Head(waiting)
      <3>1. Holders' = (Holders \ {a}) \cup {h} /\ h \notin Holders \ {a}
        BY <1>0, <2>2, <2>4 DEF Holders
      <3>2. IsFiniteSet(Holders') /\ Cardinality(Holders') = running - 1 + 1
        BY <2>1, <3>1, FS_AddElement
      <3> QED BY <1>0, <2>4, <3>2 DEF Counted
    <2> QED BY <1>3, <2>3, <2>4, TerminatedDoes
  <1>4. ASSUME NEW a \in Attempts, NEW k \in Commands, Refuse(a, k) PROVE Aside
    BY <1>0, <1>4 DEF Refuse, Holders, gate
  <1>5. ASSUME NEW a \in Attempts, Start(a) PROVE Aside
    BY <1>0, <1>5 DEF Start, Holders, gate
  <1>6. ASSUME NEW a \in Attempts, NEW kind, Finish(a, kind) PROVE Aside
    BY <1>0, <1>6 DEF Finish, Holders, gate
  <1>7. ASSUME NEW a \in Attempts,
               Rpc(a) \/ Wake(a) \/ ThreadDies(a) \/ Dispatch(a) \/ (\E kind \in Endings : BodyEnds(a, kind))
        PROVE  Aside
    BY <1>7 DEF Rpc, Wake, ThreadDies, Dispatch, BodyEnds, gate, Holders
  <1>8. ASSUME RowAppears \/ UNCHANGED vars PROVE Aside
    BY <1>8 DEF RowAppears, vars, gate, Holders
  <1> HIDE DEF Aside
  <1> QED BY <1>1, <1>2, <1>3, <1>4, <1>5, <1>6, <1>7, <1>8 DEF Next, Deadline, HearEnd

\* The rest of it, call by call.
LEMMA CallStep == Base /\ [Next]_vars => (KeyKnown /\ FreshUntilStarted /\ ThreadsHold /\ Port)'
  <1> SUFFICES ASSUME Base, [Next]_vars PROVE (KeyKnown /\ FreshUntilStarted /\ ThreadsHold /\ Port)'
    OBVIOUS
  <1> USE NoneIsNothing
  <1> DEFINE Good == KeyKnown' /\ FreshUntilStarted' /\ ThreadsHold' /\ Port'
  <1>0. TypeOK /\ KeyKnown /\ FreshUntilStarted /\ ThreadsHold /\ Port
    BY DEF Base
  <1>1. ASSUME NEW a \in Attempts, NEW k \in Commands, Begin(a, k) PROVE Good
    <2>1. /\ pc[a] = "idle" /\ pc'[a] \in {"granted", "waiting"} /\ key'[a] = k
          /\ \A b \in Attempts : b # a => pc'[b] = pc[b] /\ key'[b] = key[b]
          /\ UNCHANGED <<program, reads, writes, receipts, thread, step, stage, request, reply>>
      <3>1. /\ pc[a] = "idle" /\ key' = [key EXCEPT ![a] = k]
            /\ UNCHANGED <<program, reads, writes, receipts, thread, step, stage, request, reply>>
            /\ pc' = [pc EXCEPT ![a] = "granted"] \/ pc' = [pc EXCEPT ![a] = "waiting"]
        BY <1>1 DEF Begin, host, worker
      <3> QED BY <1>0, <3>1 DEF TypeOK
    <2> QED BY <1>0, <2>1 DEF KeyKnown, FreshUntilStarted, ThreadsHold, Port, Ops
  <1>2. ASSUME NEW a \in Attempts, NEW k \in Commands, Refuse(a, k) PROVE Good
    BY <1>0, <1>2 DEF TypeOK, Refuse, KeyKnown, FreshUntilStarted, ThreadsHold, Port, Ops, gate, host, worker
  <1>3. ASSUME NEW a \in Attempts, Start(a) PROVE Good
    <2>1. /\ pc[a] = "granted" /\ pc'[a] \in {"body", "ending"}
          /\ \A b \in Attempts : b # a => pc'[b] = pc[b] /\ thread'[b] = thread[b]
          /\ thread'[a] \in {"none", "run"} /\ stage[a] = 1
          /\ UNCHANGED <<program, key, reads, writes, receipts, step, stage, request, reply>>
      <3>1. /\ pc[a] = "granted"
            /\ UNCHANGED <<program, key, reads, writes, receipts, step, stage, request, reply>>
            /\ \/ pc' = [pc EXCEPT ![a] = "body"] /\ thread' = [thread EXCEPT ![a] = "run"]
               \/ pc' = [pc EXCEPT ![a] = "ending"] /\ thread' = thread
        BY <1>3 DEF Start, host
      <3> QED BY <1>0, <3>1 DEF TypeOK, FreshUntilStarted
    <2> QED BY <1>0, <2>1 DEF KeyKnown, FreshUntilStarted, ThreadsHold, Port, Ops
  <1>4. ASSUME NEW a \in Attempts, NEW kind, Finish(a, kind) PROVE Good
    BY <1>0, <1>4 DEF TypeOK, Finish, KeyKnown, FreshUntilStarted, ThreadsHold, Port, Ops, gate, host, worker
  <1>5. ASSUME NEW a \in Attempts, Terminated(a) PROVE Good
    <2>1. /\ thread'[a] = "gone" /\ request'[a] = None /\ reply'[a] = None
          /\ \A b \in Attempts : b # a =>
               /\ thread'[b] = thread[b] /\ step'[b] = step[b] /\ stage'[b] = stage[b]
               /\ reads'[b] = reads[b] /\ writes'[b] = writes[b] /\ receipts'[b] = receipts[b]
               /\ request'[b] = request[b] /\ reply'[b] = reply[b]
          /\ UNCHANGED <<program, key>>
      BY <1>0, <1>5 DEF TypeOK, Terminated
    <2>2. /\ pc[a] = "ending" /\ pc'[a] = "done"
          /\ \A b \in Attempts : b # a => pc'[b] = pc[b] \/ (pc[b] = "waiting" /\ pc'[b] = "granted")
      BY <1>5, TerminatedDoes
    <2> QED BY <1>0, <2>1, <2>2 DEF KeyKnown, FreshUntilStarted, ThreadsHold, Port, Ops
  <1>6. ASSUME NEW a \in Attempts, Rpc(a) PROVE Good
    <2>1. /\ thread[a] = "run" /\ stage[a] \in 1 .. 2 /\ step[a] <= Len(Ops(a))
          /\ stage'[a] = stage[a] + 1 /\ \A b \in Attempts : b # a => stage'[b] = stage[b]
          /\ UNCHANGED <<program, pc, key, reads, writes, receipts, thread, step, reply>>
      BY <1>0, <1>6, RpcIs DEF TypeOK, Rpc, Asleep, host
    <2>2. pc[a] \in {"body", "ending"} /\ key[a] \in Commands
      BY <1>0, <2>1 DEF ThreadsHold, KeyKnown
    <2>3. step[a] \in DOMAIN Ops(a)
      BY <1>0, <2>1, <2>2, OpsAre DEF TypeOK
    <2>4. \/ stage[a] = 1 /\ request' = request
          \/ stage[a] = 2 /\ request' = [request EXCEPT ![a] = Ops(a)[step[a]]]
      BY <1>6, <2>1, RpcIs DEF Rpc
    <2>5. /\ \A b \in Attempts : b # a => request'[b] = request[b]
          /\ request'[a] # None => stage'[a] = 3 /\ request'[a] = Ops(a)[step[a]]
          /\ reply[a] = None
      BY <1>0, <2>1, <2>4 DEF TypeOK, Port
    <2> QED BY <1>0, <2>1, <2>2, <2>3, <2>5 DEF KeyKnown, FreshUntilStarted, ThreadsHold, Port, Ops
  <1>7. ASSUME NEW a \in Attempts, Wake(a) PROVE Good
    <2>1. /\ thread[a] = "run" /\ reply[a] # None /\ request[a] = None
          /\ stage'[a] = 1 /\ reply'[a] = None /\ thread'[a] \in {"run", "parked"}
          /\ \A b \in Attempts : b # a =>
               stage'[b] = stage[b] /\ reply'[b] = reply[b] /\ thread'[b] = thread[b] /\ step'[b] = step[b]
          /\ UNCHANGED <<program, pc, key, reads, writes, receipts, request>>
      <3>1. /\ thread[a] = "run" /\ reply[a] # None
            /\ stage' = [stage EXCEPT ![a] = 1] /\ reply' = [reply EXCEPT ![a] = None]
            /\ \/ step' = [step EXCEPT ![a] = @ + 1] /\ thread' = thread
               \/ step' = step /\ thread' = [thread EXCEPT ![a] = "parked"]
            /\ UNCHANGED <<program, pc, key, reads, writes, receipts, request>>
        BY <1>7 DEF Wake, host
      <3>2. DOMAIN reply = Attempts
        BY DEF Base, TypeOK
      <3> QED BY <1>0, <3>1, <3>2 DEF TypeOK, Port
    <2>2. pc[a] \in {"body", "ending"}
      BY <1>0, <2>1 DEF ThreadsHold
    <2> QED BY <1>0, <2>1, <2>2 DEF KeyKnown, FreshUntilStarted, ThreadsHold, Port, Ops
  <1>8. ASSUME NEW a \in Attempts, ThreadDies(a) PROVE Good
    BY <1>0, <1>8 DEF TypeOK, ThreadDies, KeyKnown, FreshUntilStarted, ThreadsHold, Port, Ops, gate, host, worker
  <1>9. ASSUME NEW a \in Attempts, NEW kind \in Endings, BodyEnds(a, kind) PROVE Good
    BY <1>0, <1>9 DEF TypeOK, BodyEnds, KeyKnown, FreshUntilStarted, ThreadsHold, Port, Ops, gate, host, worker
  <1>10. ASSUME NEW a \in Attempts, Dispatch(a) PROVE Good
    <2>1. /\ thread[a] = "run" /\ stage[a] = 3
          /\ request'[a] = None
          /\ \A b \in Attempts : b # a =>
               /\ request'[b] = request[b] /\ reply'[b] = reply[b]
               /\ reads'[b] = reads[b] /\ writes'[b] = writes[b] /\ receipts'[b] = receipts[b]
          /\ UNCHANGED <<program, pc, key, thread, step, stage>>
      <3>1. /\ thread[a] = "run" /\ stage[a] = 3
            /\ \E r \in {"ok", "abort", "dead"} : Post(a, r)
            /\ \A b \in Attempts : b # a => reads'[b] = reads[b] /\ writes'[b] = writes[b]
            /\ UNCHANGED <<program, pc, key, thread, step, stage>>
        BY <1>10, DispatchDoes
      <3>2. \A b \in Attempts : b # a => receipts'[b] = receipts[b]
        <4>1. DOMAIN receipts = Attempts
          BY <1>0 DEF TypeOK
        <4>2. CASE Replayed(a)
          BY <4>1, <4>2 DEF Replayed
        <4>3. CASE Wrote(a)
          BY <4>1, <4>3 DEF Wrote
        <4> QED BY <1>10, <4>2, <4>3, DispatchDoes
      <3> QED BY <1>0, <3>1, <3>2 DEF TypeOK, Post
    <2>2. pc[a] \in {"body", "ending"}
      BY <1>0, <2>1 DEF ThreadsHold
    <2> QED BY <1>0, <2>1, <2>2 DEF KeyKnown, FreshUntilStarted, ThreadsHold, Port, Ops
  <1>11. ASSUME RowAppears PROVE Good
    BY <1>0, <1>11 DEF TypeOK, RowAppears, KeyKnown, FreshUntilStarted, ThreadsHold, Port, Ops, gate, host, worker
  <1>12. ASSUME UNCHANGED vars PROVE Good
    BY <1>0, <1>12 DEF TypeOK, vars, KeyKnown, FreshUntilStarted, ThreadsHold, Port, Ops, gate, host, worker
  <1> QED BY <1>1, <1>2, <1>3, <1>4, <1>5, <1>6, <1>7, <1>8, <1>9, <1>10, <1>11, <1>12 DEF Next, Deadline, HearEnd

LEMMA BaseStep == Base /\ [Next]_vars => Base'
  BY LineStep, TypeStep, CountedStep, CallStep DEF Base

----------------------------------------------------------------------------
(* The wake that is never missed.                                          *)

LEMMA SleepersStep == Base /\ SleepersAreHeard /\ [Next]_vars => SleepersAreHeard'
  <1> SUFFICES ASSUME Base, SleepersAreHeard, [Next]_vars PROVE SleepersAreHeard'
    OBVIOUS
  <1> USE NoneIsNothing, RpcIs DEF Asleep
  <1>0. TypeOK
    BY DEF Base
  <1>1. ASSUME NEW a \in Attempts, Start(a) PROVE SleepersAreHeard'
    <2>1. stage[a] = 1 /\ \A b \in Attempts : b # a => thread'[b] = thread[b]
      <3>1. pc[a] = "granted" /\ (thread' = thread \/ thread' = [thread EXCEPT ![a] = "run"])
        BY <1>1 DEF Start
      <3> QED BY <1>0, <3>1 DEF TypeOK, Base, FreshUntilStarted
    <2>2. UNCHANGED <<stage, request, reply, flag>>
      BY <1>1 DEF Start
    <2> QED BY <2>1, <2>2 DEF SleepersAreHeard
  <1>2. ASSUME NEW a \in Attempts, Terminated(a) PROVE SleepersAreHeard'
    <2>1. /\ thread'[a] = "gone"
          /\ \A b \in Attempts : b # a =>
               /\ thread'[b] = thread[b] /\ stage'[b] = stage[b] /\ request'[b] = request[b]
               /\ reply'[b] = reply[b] /\ flag'[b] = flag[b]
      BY <1>0, <1>2 DEF Terminated, TypeOK
    <2> QED BY <2>1 DEF SleepersAreHeard
  <1>3. ASSUME NEW a \in Attempts, Rpc(a) PROVE SleepersAreHeard'
    <2>1. thread[a] = "run" /\ stage[a] \in 1 .. 2 /\ step[a] <= Len(Ops(a)) /\ step[a] \in Nat \ {0}
      BY <1>0, <1>3 DEF Rpc, TypeOK
    <2>2. key[a] \in Commands
      BY <2>1 DEF Base, ThreadsHold, KeyKnown
    <2>3. Ops(a)[step[a]] # None
      BY <1>0, <2>1, <2>2, OpsAre
    <2>4. /\ stage'[a] = stage[a] + 1 /\ \A b \in Attempts : b # a => stage'[b] = stage[b]
          /\ UNCHANGED <<thread, reply>>
      BY <1>0, <1>3, <2>1 DEF Rpc, TypeOK
    <2>5. \/ stage[a] = 1 /\ flag' = [flag EXCEPT ![a] = 0] /\ request' = request
          \/ stage[a] = 2 /\ flag' = flag /\ request' = [request EXCEPT ![a] = Ops(a)[step[a]]]
      BY <1>3, <2>1 DEF Rpc
    <2>6. /\ stage'[a] > 2 => request'[a] # None
          /\ \A b \in Attempts : b # a => flag'[b] = flag[b] /\ request'[b] = request[b]
      BY <1>0, <2>1, <2>3, <2>4, <2>5 DEF TypeOK
    <2> QED BY <2>4, <2>6 DEF SleepersAreHeard
  <1>4. ASSUME NEW a \in Attempts, Wake(a) PROVE SleepersAreHeard'
    <2>1. /\ stage'[a] = 1
          /\ \A b \in Attempts : b # a => stage'[b] = stage[b] /\ thread'[b] = thread[b] /\ reply'[b] = reply[b]
          /\ UNCHANGED <<request, flag>>
      <3>1. /\ stage' = [stage EXCEPT ![a] = 1] /\ reply' = [reply EXCEPT ![a] = None]
            /\ thread' = thread \/ thread' = [thread EXCEPT ![a] = "parked"]
            /\ UNCHANGED <<request, flag>>
        BY <1>4 DEF Wake
      <3>2. DOMAIN reply = Attempts
        BY <1>0 DEF TypeOK
      <3> QED BY <1>0, <3>1, <3>2 DEF TypeOK
    <2> QED BY <2>1 DEF SleepersAreHeard
  <1>5. ASSUME NEW a \in Attempts, Dispatch(a) PROVE SleepersAreHeard'
    <2>1. PICK r \in {"ok", "abort", "dead"} : Post(a, r)
      BY <1>5, DispatchDoes
    <2>2. /\ reply'[a] # None /\ flag'[a] = 1
          /\ \A b \in Attempts : b # a => reply'[b] = reply[b] /\ flag'[b] = flag[b] /\ request'[b] = request[b]
      BY <1>0, <2>1 DEF Post, TypeOK
    <2>3. UNCHANGED <<thread, stage>>
      BY <1>5, DispatchDoes
    <2> QED BY <2>2, <2>3 DEF SleepersAreHeard
  <1>6. ASSUME NEW a \in Attempts, ThreadDies(a) \/ (\E kind \in Endings : BodyEnds(a, kind)) PROVE SleepersAreHeard'
    <2>1. /\ \A b \in Attempts : thread'[b] = "run" => thread[b] = "run"
          /\ UNCHANGED <<stage, request, reply, flag>>
      BY <1>0, <1>6 DEF ThreadDies, BodyEnds, TypeOK
    <2> QED BY <2>1 DEF SleepersAreHeard
  <1>7. ASSUME NEW a \in Attempts, (\E k \in Commands : Begin(a, k) \/ Refuse(a, k)) \/ (\E kind : Finish(a, kind))
        PROVE  SleepersAreHeard'
    BY <1>7 DEF Begin, Refuse, Finish, worker, SleepersAreHeard
  <1>8. ASSUME RowAppears \/ UNCHANGED vars PROVE SleepersAreHeard'
    BY <1>8 DEF RowAppears, vars, worker, SleepersAreHeard
  <1> QED BY <1>1, <1>2, <1>3, <1>4, <1>5, <1>6, <1>7, <1>8 DEF Next, Deadline, HearEnd

----------------------------------------------------------------------------
(* The counters at each call of a command's program.                       *)

Count == [r : Nat, w : Nat]
Writes(op, c) == Tries(op, c) /\ c.w < MaxWrites

\* T[k][s]: the counters before the call s of k's program, as far as any attempt has come.
Charts(T) ==
  /\ T \in [Commands -> Seq(Count)]
  /\ \A k \in Commands : T[k] # <<>> /\ T[k][1] = [r |-> 0, w |-> 0]
  /\ \A k \in Commands : \A s1, s2 \in DOMAIN T[k] : s1 < s2 =>
       /\ T[k][s1].w <= T[k][s2].w
       /\ Writes(program[k].ops[s1], T[k][s1]) => T[k][s1].w < T[k][s2].w

\* One call further in the program is one further in the chart.
Follows(T) ==
  \A k \in Commands : \A s \in DOMAIN T[k] :
    s + 1 \in DOMAIN T[k] => T[k][s + 1] = After(program[k].ops[s], T[k][s])

\* Every body that runs is on it,
OnIt(T) ==
  \A a \in Attempts : pc[a] = "body" /\ thread[a] = "run" =>
    /\ step[a] \in DOMAIN T[key[a]]
    /\ Counters(a) = IF reply[a] = None THEN T[key[a]][step[a]]
                     ELSE After(Ops(a)[step[a]], T[key[a]][step[a]])

\* and so is every write that landed.
Recorded(T) ==
  \A e \in ledger :
    /\ e.step \in DOMAIN T[e.key] /\ e.n = T[e.key][e.step].w
    /\ Writes(program[e.key].ops[e.step], T[e.key][e.step])

Trail(T) == Charts(T) /\ Follows(T) /\ OnIt(T) /\ Recorded(T)

\* A counter goes up by a call that may write, and never down.
LEMMA AfterIs ==
  ASSUME NEW c \in Count, NEW op
  PROVE  /\ After(op, c) \in Count
         /\ c.w <= After(op, c).w
         /\ Writes(op, c) => c.w < After(op, c).w
  <1>1. Spend(c.r, MaxReads) \in Nat /\ Spend(c.w, MaxWrites) \in Nat /\ c.w <= Spend(c.w, MaxWrites)
    BY HostBounds DEF Count, Spend
  <1>2. c.w < MaxWrites => Spend(c.w, MaxWrites) = c.w + 1
    BY HostBounds DEF Count, Spend
  <1> QED BY <1>1, <1>2 DEF Count, After, Writes

\* A write whose number has been used is the call that used it.
LEMMA NumberNamesTheCall ==
  ASSUME Base, NEW T, Trail(T), NEW a \in Attempts, pc[a] = "body", request[a] # None,
         Tries(request[a], Counters(a)), writes[a] < MaxWrites,
         NEW e \in ledger, e.key = key[a], e.n = writes[a]
  PROVE  e.step = step[a]
  <1> DEFINE k == key[a]
             s == step[a]
  <1>1. /\ thread[a] = "run" /\ reply[a] = None /\ request[a] = program[k].ops[s]
    BY DEF Base, Port, Ops
  <1>2. k \in Commands
    BY DEF Base, KeyKnown
  <1>3. s \in DOMAIN T[k] /\ Counters(a) = T[k][s]
    BY <1>1 DEF Trail, OnIt
  <1>4. writes[a] = T[k][s].w /\ Writes(program[k].ops[s], T[k][s])
    BY <1>1, <1>3 DEF Counters, Writes
  <1>5. e.step \in DOMAIN T[k] /\ e.n = T[k][e.step].w /\ Writes(program[k].ops[e.step], T[k][e.step])
    BY DEF Trail, Recorded
  <1>6. /\ s \in Nat /\ e.step \in Nat /\ T[k][s].w \in Nat /\ T[k][e.step].w \in Nat
    <2>1. T[k] \in Seq(Count)
      BY <1>2 DEF Trail, Charts
    <2>2. DOMAIN T[k] = 1 .. Len(T[k]) /\ Len(T[k]) \in Nat /\ \A i \in DOMAIN T[k] : T[k][i] \in Count
      BY <2>1
    <2> QED BY <1>3, <1>5, <2>2 DEF Count
  <1>7. ~(s < e.step) /\ ~(e.step < s)
    <2>1. T[k][s].w = T[k][e.step].w
      BY <1>4, <1>5
    <2> QED BY <1>2, <1>3, <1>4, <1>5, <1>6, <2>1 DEF Trail, Charts
  <1> QED BY <1>6, <1>7

LEMMA TrailInit == Init => \E T : Trail(T)
  <1> SUFFICES ASSUME Init PROVE \E T : Trail(T)
    OBVIOUS
  <1> DEFINE zero == [r |-> 0, w |-> 0]
             T == [k \in Commands |-> <<zero>>]
  <1>1. zero \in Count
    BY DEF Count
  <1> HIDE DEF zero
  <1>2. <<zero>> \in Seq(Count) /\ <<zero>> # <<>> /\ <<zero>>[1] = zero /\ DOMAIN <<zero>> = {1}
    BY <1>1
  <1>3. Charts(T)
    BY <1>2 DEF Charts, zero
  <1>4. Follows(T)
    BY <1>2 DEF Follows
  <1>5. OnIt(T) /\ Recorded(T)
    BY DEF Init, OnIt, Recorded
  <1>6. Trail(T)
    BY <1>3, <1>4, <1>5 DEF Trail
  <1> QED BY <1>6

\* A step that lets no body begin or go on, and writes nothing.
LEMMA TrailStays ==
  ASSUME Base, NEW T, Trail(T), UNCHANGED <<program, ledger>>,
         \A a \in Attempts : pc'[a] = "body" /\ thread'[a] = "run" =>
           /\ pc[a] = "body" /\ thread[a] = "run" /\ key'[a] = key[a] /\ step'[a] = step[a]
           /\ reads'[a] = reads[a] /\ writes'[a] = writes[a] /\ reply'[a] = reply[a]
  PROVE  Trail(T)'
  <1>1. Charts(T)' /\ Follows(T)' /\ Recorded(T)'
    BY DEF Trail, Charts, Follows, Recorded
  <1>2. OnIt(T)'
    <2> SUFFICES ASSUME NEW a \in Attempts, pc'[a] = "body", thread'[a] = "run"
                 PROVE  /\ step'[a] \in DOMAIN T[key'[a]]
                        /\ Counters(a)' = IF reply'[a] = None THEN T[key'[a]][step'[a]]
                                          ELSE After(program'[key'[a]].ops[step'[a]], T[key'[a]][step'[a]])
      BY DEF OnIt, Ops
    <2> QED BY DEF Trail, OnIt, Counters, Ops
  <1> QED BY <1>1, <1>2 DEF Trail

\* A chart is as long as it was, or longer by the call that the body of a has just made.
LEMMA TrailGrows ==
  ASSUME Base, NEW T, Trail(T), NEW a \in Attempts, Wake(a), pc[a] = "body", step' = [step EXCEPT ![a] = @ + 1]
  PROVE  \E U : Trail(U)'
  <1> DEFINE k == key[a]
             s == step[a]
             op == program[k].ops[s]
             next == After(op, T[k][s])
  <1>1. /\ thread[a] = "run" /\ reply[a] # None /\ reply'[a] = None
        /\ UNCHANGED <<program, pc, key, reads, writes, ledger>>
        /\ \A b \in Attempts : b # a => reply'[b] = reply[b] /\ thread'[b] = thread[b]
    <2>1. /\ thread[a] = "run" /\ reply[a] # None /\ reply' = [reply EXCEPT ![a] = None]
          /\ UNCHANGED <<program, pc, key, reads, writes, ledger>>
          /\ thread' = thread \/ thread' = [thread EXCEPT ![a] = "parked"]
      BY DEF Wake, host
    <2>2. DOMAIN reply = Attempts /\ DOMAIN thread = Attempts
      BY DEF Base, TypeOK
    <2> QED BY <2>1, <2>2
  <1>2. k \in Commands /\ T[k] \in Seq(Count) /\ T \in [Commands -> Seq(Count)]
    BY DEF Base, KeyKnown, Trail, Charts
  <1>3. s \in DOMAIN T[k] /\ Counters(a) = next
    BY <1>1 DEF Trail, OnIt, Ops
  <1>4. /\ step'[a] = s + 1 /\ \A b \in Attempts : b # a => step'[b] = step[b]
        /\ s \in Nat
    BY DEF Base, TypeOK
  <1>5. /\ DOMAIN T[k] = 1 .. Len(T[k]) /\ Len(T[k]) \in Nat
        /\ \A i \in DOMAIN T[k] : T[k][i] \in Count /\ i \in Nat
    BY <1>2
  <1>6. /\ next \in Count /\ T[k][s].w <= next.w
        /\ Writes(op, T[k][s]) => T[k][s].w < next.w
    BY <1>3, <1>5, AfterIs
  <1>7. CASE s + 1 \in DOMAIN T[k]
    <2>1. T[k][s + 1] = next
      BY <1>2, <1>3, <1>7 DEF Trail, Follows
    <2>2. OnIt(T)'
      <3> SUFFICES ASSUME NEW b \in Attempts, pc'[b] = "body", thread'[b] = "run"
                   PROVE  /\ step'[b] \in DOMAIN T[key'[b]]
                          /\ Counters(b)' = IF reply'[b] = None THEN T[key'[b]][step'[b]]
                                            ELSE After(program'[key'[b]].ops[step'[b]], T[key'[b]][step'[b]])
        BY DEF OnIt, Ops
      <3>1. CASE b = a
        BY <1>1, <1>3, <1>4, <1>7, <2>1, <3>1 DEF Counters
      <3>2. CASE b # a
        BY <1>1, <1>4, <3>2 DEF Trail, OnIt, Counters, Ops
      <3> QED BY <3>1, <3>2
    <2>3. Charts(T)' /\ Follows(T)' /\ Recorded(T)'
      BY <1>1 DEF Trail, Charts, Follows, Recorded
    <2>4. Trail(T)'
      BY <2>2, <2>3 DEF Trail
    <2> QED BY <2>4
  <1>8. CASE s + 1 \notin DOMAIN T[k]
    <2> DEFINE row == Append(T[k], next)
    <2>0. PICK U : U = [T EXCEPT ![k] = row]
      OBVIOUS
    <2>1. s = Len(T[k])
      BY <1>3, <1>4, <1>5, <1>8
    <2> HIDE DEF next, op
    <2>2. /\ row \in Seq(Count) /\ DOMAIN row = 1 .. (s + 1) /\ row[s + 1] = next
          /\ \A i \in DOMAIN T[k] : i \in DOMAIN row /\ row[i] = T[k][i] /\ i < s + 1
      BY <1>2, <1>5, <1>6, <2>1
    <2> HIDE DEF row
    <2>3. /\ U \in [Commands -> Seq(Count)] /\ U[k] = row
          /\ \A c \in Commands : c # k => U[c] = T[c]
      BY <1>2, <2>0, <2>2
    <2>4. /\ \A c \in Commands : \A i \in DOMAIN T[c] : i \in DOMAIN U[c] /\ U[c][i] = T[c][i]
          /\ \A i \in DOMAIN U[k] : i \in DOMAIN T[k] \/ i = s + 1
      <3>1. ASSUME NEW c \in Commands, NEW i \in DOMAIN T[c] PROVE i \in DOMAIN U[c] /\ U[c][i] = T[c][i]
        <4>1. CASE c = k
          <5>1. i \in DOMAIN T[k] /\ U[c] = row /\ T[c] = T[k]
            BY <2>3, <4>1
          <5> QED BY <2>2, <5>1
        <4>2. CASE c # k
          BY <2>3, <4>2
        <4> QED BY <4>1, <4>2
      <3>2. ASSUME NEW i \in 1 .. (s + 1) PROVE i \in DOMAIN T[k] \/ i = s + 1
        BY <1>4, <1>5, <2>1
      <3> QED BY <2>2, <2>3, <3>1, <3>2
    <2>5. Charts(U)'
      <3>1. \A c \in Commands : U[c] # <<>> /\ U[c][1] = [r |-> 0, w |-> 0]
        <4>1. 1 \in DOMAIN T[k] /\ row # <<>>
          BY <1>3, <1>5, <2>2
        <4> QED BY <1>2, <2>3, <2>4, <4>1 DEF Trail, Charts
      <3>2. ASSUME NEW c \in Commands, NEW s1 \in DOMAIN U[c], NEW s2 \in DOMAIN U[c], s1 < s2
            PROVE  /\ U[c][s1].w <= U[c][s2].w
                   /\ Writes(program[c].ops[s1], U[c][s1]) => U[c][s1].w < U[c][s2].w
        <4>1. CASE c # k \/ (s1 \in DOMAIN T[k] /\ s2 \in DOMAIN T[k])
          BY <2>3, <2>4, <3>2, <4>1 DEF Trail, Charts
        <4>2. CASE c = k /\ s2 = s + 1 /\ s1 \in DOMAIN T[k]
          <5>1. U[c][s1] = T[k][s1] /\ U[c][s2] = next /\ s1 <= s /\ s1 \in Nat
            BY <1>4, <1>5, <2>2, <2>3, <2>4, <4>2
          <5>2. CASE s1 = s
            BY <1>6, <4>2, <5>1, <5>2 DEF op
          <5>3. CASE s1 < s
            <6>1. /\ T[k][s1].w <= T[k][s].w
                  /\ Writes(program[k].ops[s1], T[k][s1]) => T[k][s1].w < T[k][s].w
              BY <1>2, <1>3, <4>2, <5>3 DEF Trail, Charts
            <6>2. T[k][s1].w \in Nat /\ T[k][s].w \in Nat /\ next.w \in Nat
              BY <1>3, <1>5, <1>6, <4>2 DEF Count
            <6> QED BY <1>6, <4>2, <5>1, <6>1, <6>2
          <5> QED BY <1>4, <5>1, <5>2, <5>3
        <4>3. CASE c = k /\ s1 = s + 1
          <5>1. s2 \in Nat /\ s2 <= s + 1
            BY <1>4, <2>2, <2>3, <4>3
          <5> QED BY <1>4, <3>2, <4>3, <5>1
        <4>4. c = k => (s1 \in DOMAIN T[k] \/ s1 = s + 1) /\ (s2 \in DOMAIN T[k] \/ s2 = s + 1)
          <5> SUFFICES ASSUME c = k
                       PROVE  (s1 \in DOMAIN T[k] \/ s1 = s + 1) /\ (s2 \in DOMAIN T[k] \/ s2 = s + 1)
            OBVIOUS
          <5>1. s1 \in DOMAIN U[k] /\ s2 \in DOMAIN U[k]
            OBVIOUS
          <5> QED BY <2>4, <5>1
        <4> QED BY <4>1, <4>2, <4>3, <4>4
      <3> QED BY <1>1, <2>3, <3>1, <3>2 DEF Charts
    <2>6. Follows(U)'
      <3>1. ASSUME NEW c \in Commands, NEW i \in DOMAIN U[c], i + 1 \in DOMAIN U[c]
            PROVE  U[c][i + 1] = After(program[c].ops[i], U[c][i])
        <4>1. CASE c # k \/ (i \in DOMAIN T[k] /\ i + 1 \in DOMAIN T[k])
          BY <2>3, <2>4, <3>1, <4>1 DEF Trail, Follows
        <4>2. CASE c = k /\ i + 1 = s + 1
          <5>1. i = s
            BY <1>4, <2>2, <2>3, <4>2
          <5> QED BY <1>3, <2>2, <2>3, <2>4, <4>2, <5>1 DEF next, op
        <4>3. CASE c = k /\ i = s + 1
          BY <1>4, <2>2, <2>3, <3>1, <4>3
        <4>4. c = k => (i \in DOMAIN T[k] \/ i = s + 1) /\ (i + 1 \in DOMAIN T[k] \/ i + 1 = s + 1)
          <5> SUFFICES ASSUME c = k
                       PROVE  (i \in DOMAIN T[k] \/ i = s + 1) /\ (i + 1 \in DOMAIN T[k] \/ i + 1 = s + 1)
            OBVIOUS
          <5>1. i \in DOMAIN U[k] /\ i + 1 \in DOMAIN U[k]
            BY <3>1
          <5> QED BY <2>4, <5>1
        <4> QED BY <4>1, <4>2, <4>3, <4>4
      <3> QED BY <1>1, <3>1 DEF Follows
    <2>7. OnIt(U)'
      <3> SUFFICES ASSUME NEW b \in Attempts, pc'[b] = "body", thread'[b] = "run"
                   PROVE  /\ step'[b] \in DOMAIN U[key'[b]]
                          /\ Counters(b)' = IF reply'[b] = None THEN U[key'[b]][step'[b]]
                                            ELSE After(program'[key'[b]].ops[step'[b]], U[key'[b]][step'[b]])
        BY DEF OnIt, Ops
      <3>1. CASE b = a
        BY <1>1, <1>3, <1>4, <2>2, <2>3, <3>1 DEF Counters
      <3>2. CASE b # a
        <4>1. key[b] \in Commands
          BY <1>1 DEF Base, KeyKnown
        <4> QED BY <1>1, <1>4, <2>4, <3>2, <4>1 DEF Trail, OnIt, Counters, Ops
      <3> QED BY <3>1, <3>2
    <2>8. Recorded(U)'
      <3> SUFFICES ASSUME NEW e \in ledger
                   PROVE  /\ e.step \in DOMAIN U[e.key] /\ e.n = U[e.key][e.step].w
                          /\ Writes(program[e.key].ops[e.step], U[e.key][e.step])
        BY <1>1 DEF Recorded
      <3>1. e.key \in Commands
        BY DEF Base, TypeOK
      <3>2. /\ e.step \in DOMAIN T[e.key] /\ e.n = T[e.key][e.step].w
            /\ Writes(program[e.key].ops[e.step], T[e.key][e.step])
        BY DEF Trail, Recorded
      <3>3. e.step \in DOMAIN U[e.key] /\ U[e.key][e.step] = T[e.key][e.step]
        BY <2>4, <3>1, <3>2
      <3> QED BY <3>2, <3>3
    <2>9. Trail(U)'
      BY <2>5, <2>6, <2>7, <2>8 DEF Trail
    <2> QED BY <2>9
  <1> QED BY <1>7, <1>8

\* A request carried out leaves the body on the chart, and what it wrote recorded there.
LEMMA TrailWritten ==
  ASSUME Base, rowThere, NEW T, Trail(T), NEW a \in Attempts, Dispatch(a), pc[a] = "body"
  PROVE  Trail(T)'
  <1> DEFINE k == key[a]
             s == step[a]
  <1>1. /\ thread[a] = "run" /\ reply[a] = None /\ request[a] # None /\ request[a] = program[k].ops[s]
        /\ k \in Commands
    BY DispatchDoes DEF Base, Port, KeyKnown, Ops
  <1>2. s \in DOMAIN T[k] /\ Counters(a) = T[k][s]
    BY <1>1 DEF Trail, OnIt
  <1>3. /\ UNCHANGED <<program, pc, key, thread, step>> /\ ~Closed(a)
        /\ \A b \in Attempts : b # a => reads'[b] = reads[b] /\ writes'[b] = writes[b]
        /\ [r |-> reads'[a], w |-> writes'[a]] = After(request[a], Counters(a))
    BY DispatchDoes DEF Closed
  <1>4. reply'[a] # None /\ \A b \in Attempts : b # a => reply'[b] = reply[b]
    <2>1. PICK r \in {"ok", "abort", "dead"} : Post(a, r)
      BY DispatchDoes
    <2> QED BY <2>1, NoneIsNothing DEF Post, Base, TypeOK
  <1>5. Charts(T)' /\ Follows(T)'
    BY <1>3 DEF Trail, Charts, Follows
  <1>6. OnIt(T)'
    <2> SUFFICES ASSUME NEW b \in Attempts, pc'[b] = "body", thread'[b] = "run"
                 PROVE  /\ step'[b] \in DOMAIN T[key'[b]]
                        /\ Counters(b)' = IF reply'[b] = None THEN T[key'[b]][step'[b]]
                                          ELSE After(program'[key'[b]].ops[step'[b]], T[key'[b]][step'[b]])
      BY DEF OnIt, Ops
    <2>1. CASE b = a
      BY <1>1, <1>2, <1>3, <1>4, <2>1 DEF Counters
    <2>2. CASE b # a
      BY <1>3, <1>4, <2>2 DEF Trail, OnIt, Counters, Ops
    <2> QED BY <2>1, <2>2
  <1>7. Recorded(T)'
    <2>1. CASE ledger' = ledger
      BY <1>3, <2>1 DEF Trail, Recorded
    <2>2. CASE Tries(request[a], Counters(a)) /\ writes[a] < MaxWrites /\ Wrote(a)
      <3> SUFFICES ASSUME NEW e \in ledger'
                   PROVE  /\ e.step \in DOMAIN T[e.key] /\ e.n = T[e.key][e.step].w
                          /\ Writes(program[e.key].ops[e.step], T[e.key][e.step])
        BY <1>3 DEF Recorded
      <3>1. CASE e \in ledger
        BY <3>1 DEF Trail, Recorded
      <3>2. CASE e = [key |-> k, n |-> writes[a], step |-> s, by |-> a]
        <4>1. writes[a] = T[k][s].w /\ Writes(program[k].ops[s], T[k][s])
          BY <1>1, <1>2, <2>2 DEF Writes, Counters
        <4> QED BY <1>2, <3>2, <4>1
      <3> QED BY <2>2, <3>1, <3>2 DEF Wrote
    <2> QED BY <2>1, <2>2, DispatchDoes DEF Replayed
  <1> QED BY <1>5, <1>6, <1>7 DEF Trail

LEMMA TrailStep ==
  ASSUME Base, rowThere, NEW T, Trail(T), [Next]_vars
  PROVE  \E U : Trail(U)'
  <1> DEFINE Aside ==
        /\ UNCHANGED <<program, ledger>>
        /\ \A b \in Attempts : pc'[b] = "body" /\ thread'[b] = "run" =>
             /\ pc[b] = "body" /\ thread[b] = "run" /\ key'[b] = key[b] /\ step'[b] = step[b]
             /\ reads'[b] = reads[b] /\ writes'[b] = writes[b] /\ reply'[b] = reply[b]
  <1>0. TypeOK
    BY DEF Base
  <1>1. Aside => Trail(T)'
    BY TrailStays
  <1> HIDE DEF Aside
  <1>2. ASSUME NEW a \in Attempts, NEW k \in Commands, Begin(a, k) \/ Refuse(a, k) PROVE Aside
    <2>1. pc'[a] # "body" /\ \A b \in Attempts : b # a => pc'[b] = pc[b] /\ key'[b] = key[b]
      BY <1>0, <1>2 DEF Begin, Refuse, TypeOK
    <2>2. UNCHANGED <<program, ledger, thread, step, reads, writes, reply>>
      BY <1>2 DEF Begin, Refuse, host, worker
    <2> QED BY <2>1, <2>2 DEF Aside
  <1>3. ASSUME NEW a \in Attempts, Start(a) PROVE Trail(T)'
    <2>1. CASE pc' = [pc EXCEPT ![a] = "ending"]
      <3>1. pc'[a] # "body" /\ \A b \in Attempts : b # a => pc'[b] = pc[b]
        BY <1>0, <2>1 DEF TypeOK
      <3>2. UNCHANGED <<program, ledger, thread, step, reads, writes, reply, key>>
        BY <1>0, <1>3, <2>1 DEF Start, host, TypeOK
      <3>3. Aside
        BY <3>1, <3>2 DEF Aside
      <3> QED BY <1>1, <3>3
    <2>2. CASE pc' = [pc EXCEPT ![a] = "body"] /\ thread' = [thread EXCEPT ![a] = "run"]
      <3>1. /\ UNCHANGED <<program, key, step, reads, writes, reply, ledger>>
            /\ \A b \in Attempts : b # a => pc'[b] = pc[b] /\ thread'[b] = thread[b]
        BY <1>0, <1>3, <2>2 DEF Start, host, TypeOK
      <3>2. step[a] = 1 /\ reads[a] = 0 /\ writes[a] = 0 /\ reply[a] = None /\ key[a] \in Commands
        BY <1>3 DEF Start, Base, FreshUntilStarted, KeyKnown
      <3>3. 1 \in DOMAIN T[key[a]] /\ T[key[a]][1] = [r |-> 0, w |-> 0]
        <4>1. T[key[a]] \in Seq(Count) /\ T[key[a]] # <<>>
          BY <3>2 DEF Trail, Charts
        <4> QED BY <3>2, <4>1 DEF Trail, Charts
      <3>4. Charts(T)' /\ Follows(T)' /\ Recorded(T)'
        BY <3>1 DEF Trail, Charts, Follows, Recorded
      <3>5. OnIt(T)'
        <4> SUFFICES ASSUME NEW b \in Attempts, pc'[b] = "body", thread'[b] = "run"
                     PROVE  /\ step'[b] \in DOMAIN T[key'[b]]
                            /\ Counters(b)' = IF reply'[b] = None THEN T[key'[b]][step'[b]]
                                              ELSE After(program'[key'[b]].ops[step'[b]], T[key'[b]][step'[b]])
          BY DEF OnIt, Ops
        <4>1. CASE b = a
          BY <3>1, <3>2, <3>3, <4>1 DEF Counters
        <4>2. CASE b # a
          BY <3>1, <4>2 DEF Trail, OnIt, Counters, Ops
        <4> QED BY <4>1, <4>2
      <3> QED BY <3>4, <3>5 DEF Trail
    <2> QED BY <1>3, <2>1, <2>2 DEF Start
  <1>4. ASSUME NEW a \in Attempts, NEW kind, Finish(a, kind) PROVE Aside
    <2>1. pc'[a] # "body" /\ \A b \in Attempts : b # a => pc'[b] = pc[b]
      BY <1>0, <1>4 DEF Finish, TypeOK
    <2>2. UNCHANGED <<program, ledger, thread, step, reads, writes, reply, key>>
      BY <1>4 DEF Finish, host, worker
    <2> QED BY <2>1, <2>2 DEF Aside
  <1>5. ASSUME NEW a \in Attempts, Terminated(a) PROVE Aside
    <2>1. \A b \in Attempts : pc'[b] = "body" => b # a /\ pc[b] = "body"
      BY <1>5, TerminatedDoes
    <2>2. /\ UNCHANGED <<program, key, ledger>>
          /\ \A b \in Attempts : b # a =>
               /\ thread'[b] = thread[b] /\ step'[b] = step[b] /\ reads'[b] = reads[b]
               /\ writes'[b] = writes[b] /\ reply'[b] = reply[b]
      BY <1>0, <1>5 DEF Terminated, TypeOK
    <2> QED BY <2>1, <2>2 DEF Aside
  <1>6. ASSUME NEW a \in Attempts, Rpc(a) PROVE Aside
    BY <1>6 DEF Rpc, host, Aside
  <1>7. ASSUME NEW a \in Attempts, Wake(a) PROVE \E U : Trail(U)'
    <2>1. /\ UNCHANGED <<program, pc, key, reads, writes, ledger>>
          /\ reply' = [reply EXCEPT ![a] = None]
          /\ \/ step' = [step EXCEPT ![a] = @ + 1] /\ thread' = thread
             \/ step' = step /\ thread' = [thread EXCEPT ![a] = "parked"]
      BY <1>7 DEF Wake, host
    <2>2. CASE pc[a] = "body" /\ step' = [step EXCEPT ![a] = @ + 1]
      BY <1>7, <2>2, TrailGrows
    <2>3. CASE pc[a] # "body" \/ thread' = [thread EXCEPT ![a] = "parked"]
      <3>1. \A b \in Attempts : b # a => step'[b] = step[b] /\ thread'[b] = thread[b] /\ reply'[b] = reply[b]
        <4>1. DOMAIN step = Attempts /\ DOMAIN thread = Attempts /\ DOMAIN reply = Attempts
          BY <1>0 DEF TypeOK
        <4> QED BY <2>1, <4>1
      <3>2. ~(pc'[a] = "body" /\ thread'[a] = "run")
        BY <1>0, <2>1, <2>3 DEF TypeOK
      <3>3. Aside
        BY <2>1, <3>1, <3>2 DEF Aside
      <3> QED BY <1>1, <3>3
    <2> QED BY <2>1, <2>2, <2>3
  <1>8. ASSUME NEW a \in Attempts, ThreadDies(a) \/ (\E kind \in Endings : BodyEnds(a, kind)) PROVE Aside
    <2>1. /\ \A b \in Attempts : thread'[b] = "run" => thread[b] = "run"
          /\ UNCHANGED <<program, pc, key, ledger, step, reads, writes, reply>>
      BY <1>0, <1>8 DEF ThreadDies, BodyEnds, TypeOK, host
    <2> QED BY <2>1 DEF Aside
  <1>9. ASSUME NEW a \in Attempts, Dispatch(a) PROVE Trail(T)'
    <2>1. CASE pc[a] = "body"
      BY <1>9, <2>1, TrailWritten
    <2>2. CASE pc[a] # "body"
      <3>1. /\ UNCHANGED <<program, pc, key, thread, step, reads, writes, ledger>>
        BY <1>9, <2>2, DispatchDoes DEF Closed
      <3>2. \A b \in Attempts : b # a => reply'[b] = reply[b]
        <4>1. PICK r \in {"ok", "abort", "dead"} : Post(a, r)
          BY <1>9, DispatchDoes
        <4> QED BY <1>0, <4>1 DEF Post, TypeOK
      <3>3. Aside
        BY <2>2, <3>1, <3>2 DEF Aside
      <3> QED BY <1>1, <3>3
    <2> QED BY <2>1, <2>2
  <1>10. ASSUME RowAppears \/ UNCHANGED vars PROVE Aside
    BY <1>10 DEF RowAppears, vars, worker, host, Aside
  <1> QED BY <1>1, <1>2, <1>3, <1>4, <1>5, <1>6, <1>7, <1>8, <1>9, <1>10 DEF Next, Deadline, HearEnd

----------------------------------------------------------------------------
(* What a caller is told, against what landed.                             *)

Receipts == [step : Nat, n : Nat, idempotent : BOOLEAN]

\* The receipts of a call, its answer's once it has one.
Told(a) == IF pc[a] = "done" THEN answer[a].writes ELSE receipts[a]

\* No two writes of a command carry one number.
NumbersDiffer == \A e1, e2 \in ledger : e1.key = e2.key /\ e1.n = e2.n => e1 = e2

\* A call's own writes are told as its own, and those alone; each write told of is there.
Accounted ==
  /\ DOMAIN answer = Attempts
  /\ \A a \in Attempts : Told(a) \subseteq Receipts
  /\ \A e \in ledger : \E r \in Told(e.by) : r.n = e.n /\ r.step = e.step /\ r.idempotent = FALSE
  /\ \A a \in Attempts : \A r \in Told(a) : r.idempotent = FALSE =>
       \E e \in ledger : e.by = a /\ e.n = r.n /\ e.step = r.step
  /\ \A a \in Attempts : \A r \in Told(a) :
       \E e \in ledger : e.key = key[a] /\ e.n = r.n /\ e.step = r.step

\* A step that writes nothing and tells nobody anything new.
LEMMA AccountStays ==
  ASSUME Base, Accounted, ledger' = ledger, DOMAIN answer' = Attempts,
         \A a \in Attempts : /\ Told(a)' = Told(a)
                             /\ key'[a] = key[a] \/ Told(a) = {}
  PROVE  Accounted'
  <1>1. \A a \in Attempts : Told(a)' \subseteq Receipts
    BY DEF Accounted
  <1>2. \A e \in ledger : e.by \in Attempts
    BY DEF Base, TypeOK
  <1>3. \A e \in ledger : \E r \in Told(e.by)' : r.n = e.n /\ r.step = e.step /\ r.idempotent = FALSE
    BY <1>2 DEF Accounted
  <1>4. \A a \in Attempts : \A r \in Told(a)' : r.idempotent = FALSE =>
          \E e \in ledger : e.by = a /\ e.n = r.n /\ e.step = r.step
    BY DEF Accounted
  <1>5. \A a \in Attempts : \A r \in Told(a)' :
          \E e \in ledger : e.key = key'[a] /\ e.n = r.n /\ e.step = r.step
    BY DEF Accounted
  <1> HIDE DEF Told
  <1> QED BY <1>1, <1>3, <1>4, <1>5 DEF Accounted

\* A write of a body: it is the same write as the one that has its number, or a number is used up.
LEMMA AccountWritten ==
  ASSUME Base, rowThere, NEW T, Trail(T), NumbersDiffer, Accounted, NEW a \in Attempts, Dispatch(a)
  PROVE  Accounted' /\ NumbersDiffer'
  <1> DEFINE s == step[a]
             n == writes[a]
             old == [step |-> s, n |-> n, idempotent |-> TRUE]
             new == [step |-> s, n |-> n, idempotent |-> FALSE]
             e0 == [key |-> key[a], n |-> n, step |-> s, by |-> a]
  <1>0. UNCHANGED <<pc, key, answer>>
    BY DispatchDoes
  <1>1. s \in Nat /\ n \in Nat /\ DOMAIN answer = Attempts
    BY HostBounds DEF Base, TypeOK, Accounted
  <1>2. CASE UNCHANGED <<receipts, ledger>>
    <2>1. Accounted'
      BY <1>0, <1>1, <1>2, AccountStays DEF Told
    <2> QED BY <1>2, <2>1 DEF NumbersDiffer
  <1>3. CASE ~Closed(a) /\ Tries(request[a], Counters(a)) /\ n < MaxWrites /\ Replayed(a)
    <2>1. pc[a] = "body" /\ ledger' = ledger /\ receipts' = [receipts EXCEPT ![a] = @ \cup {old}]
      BY <1>3 DEF Closed, Replayed
    <2>2. PICK e \in ledger : e.key = key[a] /\ e.n = n
      BY <1>3 DEF Replayed, Landed
    <2>3. e.step = s
      BY <1>3, <2>1, <2>2, NumberNamesTheCall, DispatchDoes
    <2>4. Told(a)' = Told(a) \cup {old} /\ \A b \in Attempts : b # a => Told(b)' = Told(b)
      BY <1>0, <2>1 DEF Told, Base, TypeOK
    <2>5. old \in Receipts /\ old.idempotent = TRUE /\ old.n = n /\ old.step = s
      BY <1>1 DEF Receipts
    <2> HIDE DEF old, Told
    <2>6. \A b \in Attempts : Told(b)' \subseteq Receipts
      BY <2>4, <2>5 DEF Accounted
    <2>7. \A d \in ledger : \E r \in Told(d.by)' : r.n = d.n /\ r.step = d.step /\ r.idempotent = FALSE
      <3>1. \A d \in ledger : d.by \in Attempts /\ Told(d.by) \subseteq Told(d.by)'
        BY <2>4 DEF Base, TypeOK
      <3> QED BY <3>1 DEF Accounted
    <2>8. \A b \in Attempts : \A r \in Told(b)' : r.idempotent = FALSE =>
            \E d \in ledger : d.by = b /\ d.n = r.n /\ d.step = r.step
      <3> SUFFICES ASSUME NEW b \in Attempts, NEW r \in Told(b)', r.idempotent = FALSE
                   PROVE  \E d \in ledger : d.by = b /\ d.n = r.n /\ d.step = r.step
        OBVIOUS
      <3>1. r \in Told(b)
        BY <2>4, <2>5
      <3> QED BY <3>1 DEF Accounted
    <2>9. \A b \in Attempts : \A r \in Told(b)' :
            \E d \in ledger : d.key = key[b] /\ d.n = r.n /\ d.step = r.step
      <3> SUFFICES ASSUME NEW b \in Attempts, NEW r \in Told(b)'
                   PROVE  \E d \in ledger : d.key = key[b] /\ d.n = r.n /\ d.step = r.step
        OBVIOUS
      <3>1. CASE r \in Told(b)
        BY <3>1 DEF Accounted
      <3>2. CASE b = a /\ r = old
        BY <2>2, <2>3, <2>5, <3>2
      <3> QED BY <2>4, <3>1, <3>2
    <2>10. Accounted'
      BY <1>0, <1>1, <2>1, <2>6, <2>7, <2>8, <2>9 DEF Accounted
    <2> QED BY <2>1, <2>10 DEF NumbersDiffer
  <1>4. CASE ~Closed(a) /\ Wrote(a)
    <2>1. /\ pc[a] = "body" /\ ledger' = ledger \cup {e0} /\ receipts' = [receipts EXCEPT ![a] = @ \cup {new}]
          /\ Landed(key[a], n) = {}
      BY <1>4 DEF Closed, Wrote
    <2>2. /\ new \in Receipts /\ new.n = n /\ new.step = s /\ new.idempotent = FALSE
          /\ e0.key = key[a] /\ e0.n = n /\ e0.step = s /\ e0.by = a
      BY <1>1 DEF Receipts
    <2>3. Told(a)' = Told(a) \cup {new} /\ \A b \in Attempts : b # a => Told(b)' = Told(b)
      BY <1>0, <2>1 DEF Told, Base, TypeOK
    <2> HIDE DEF new, e0, Told
    <2>4. NumbersDiffer'
      <3>1. \A e \in ledger : ~(e.key = key[a] /\ e.n = n)
        BY <2>1 DEF Landed
      <3> QED BY <2>1, <2>2, <3>1 DEF NumbersDiffer
    <2>5. \A b \in Attempts : Told(b)' \subseteq Receipts
      BY <2>2, <2>3 DEF Accounted
    <2>6. \A d \in ledger' : \E r \in Told(d.by)' : r.n = d.n /\ r.step = d.step /\ r.idempotent = FALSE
      <3> SUFFICES ASSUME NEW d \in ledger'
                   PROVE  \E r \in Told(d.by)' : r.n = d.n /\ r.step = d.step /\ r.idempotent = FALSE
        OBVIOUS
      <3>1. CASE d \in ledger
        <4>1. d.by \in Attempts /\ Told(d.by) \subseteq Told(d.by)'
          BY <2>3, <3>1 DEF Base, TypeOK
        <4> QED BY <3>1, <4>1 DEF Accounted
      <3>2. CASE d = e0
        BY <2>2, <2>3, <3>2
      <3> QED BY <2>1, <3>1, <3>2
    <2>7. \A b \in Attempts : \A r \in Told(b)' : r.idempotent = FALSE =>
            \E d \in ledger' : d.by = b /\ d.n = r.n /\ d.step = r.step
      <3> SUFFICES ASSUME NEW b \in Attempts, NEW r \in Told(b)', r.idempotent = FALSE
                   PROVE  \E d \in ledger' : d.by = b /\ d.n = r.n /\ d.step = r.step
        OBVIOUS
      <3>1. CASE r \in Told(b)
        <4>1. PICK d \in ledger : d.by = b /\ d.n = r.n /\ d.step = r.step
          BY <3>1 DEF Accounted
        <4> QED BY <2>1, <4>1
      <3>2. CASE b = a /\ r = new
        BY <2>1, <2>2, <3>2
      <3> QED BY <2>3, <3>1, <3>2
    <2>8. \A b \in Attempts : \A r \in Told(b)' :
            \E d \in ledger' : d.key = key[b] /\ d.n = r.n /\ d.step = r.step
      <3> SUFFICES ASSUME NEW b \in Attempts, NEW r \in Told(b)'
                   PROVE  \E d \in ledger' : d.key = key[b] /\ d.n = r.n /\ d.step = r.step
        OBVIOUS
      <3>1. CASE r \in Told(b)
        <4>1. PICK d \in ledger : d.key = key[b] /\ d.n = r.n /\ d.step = r.step
          BY <3>1 DEF Accounted
        <4> QED BY <2>1, <4>1
      <3>2. CASE b = a /\ r = new
        BY <2>1, <2>2, <3>2
      <3> QED BY <2>3, <3>1, <3>2
    <2>9. Accounted'
      BY <1>0, <1>1, <2>5, <2>6, <2>7, <2>8 DEF Accounted
    <2> QED BY <2>4, <2>9
  <1> QED BY <1>2, <1>3, <1>4, DispatchDoes

LEMMA AccountStep ==
  ASSUME Base, rowThere, NEW T, Trail(T), NumbersDiffer, Accounted, [Next]_vars
  PROVE  Accounted' /\ NumbersDiffer'
  <1> DEFINE Quiet == /\ ledger' = ledger /\ DOMAIN answer' = Attempts
                      /\ \A a \in Attempts : /\ Told(a)' = Told(a)
                                             /\ key'[a] = key[a] \/ Told(a) = {}
  <1>0. TypeOK /\ DOMAIN answer = Attempts
    BY DEF Base, Accounted
  <1>1. Quiet => Accounted' /\ NumbersDiffer'
    BY AccountStays DEF NumbersDiffer
  <1> HIDE DEF Quiet
  <1>2. ASSUME NEW a \in Attempts, NEW k \in Commands, Begin(a, k) PROVE Quiet
    <2>1. /\ receipts[a] = {} /\ pc[a] = "idle" /\ pc'[a] # "done"
          /\ \A b \in Attempts : b # a => pc'[b] = pc[b] /\ key'[b] = key[b]
      BY <1>0, <1>2 DEF Begin, TypeOK, Base, FreshUntilStarted
    <2>2. UNCHANGED <<ledger, receipts, answer>>
      BY <1>2 DEF Begin, host
    <2> QED BY <1>0, <2>1, <2>2 DEF Quiet, Told
  <1>3. ASSUME NEW a \in Attempts, NEW k \in Commands, Refuse(a, k) PROVE Quiet
    <2>1. /\ receipts[a] = {} /\ pc[a] = "idle" /\ pc'[a] = "done"
          /\ \A b \in Attempts : b # a => pc'[b] = pc[b] /\ key'[b] = key[b]
      BY <1>0, <1>3 DEF Refuse, TypeOK, Base, FreshUntilStarted
    <2>2. /\ UNCHANGED <<ledger, receipts>> /\ DOMAIN answer' = Attempts /\ answer'[a].writes = {}
          /\ \A b \in Attempts : b # a => answer'[b] = answer[b]
      BY <1>0, <1>3 DEF Refuse, host
    <2> QED BY <2>1, <2>2 DEF Quiet, Told
  <1>4. ASSUME NEW a \in Attempts, Start(a) \/ (\E kind : Finish(a, kind)) PROVE Quiet
    <2>1. pc[a] # "done" /\ pc'[a] # "done" /\ \A b \in Attempts : b # a => pc'[b] = pc[b]
      BY <1>0, <1>4 DEF Start, Finish, TypeOK
    <2>2. UNCHANGED <<ledger, receipts, answer, key>>
      BY <1>4 DEF Start, Finish, host
    <2> QED BY <1>0, <2>1, <2>2 DEF Quiet, Told
  <1>5. ASSUME NEW a \in Attempts, Terminated(a) PROVE Quiet
    <2>1. /\ pc[a] = "ending" /\ pc'[a] = "done"
          /\ \A b \in Attempts : b # a => (pc'[b] = "done" <=> pc[b] = "done")
      BY <1>5, TerminatedDoes
    <2>2. /\ UNCHANGED <<ledger, key>> /\ DOMAIN answer' = Attempts /\ answer'[a].writes = receipts[a]
          /\ \A b \in Attempts : b # a => answer'[b] = answer[b] /\ receipts'[b] = receipts[b]
      BY <1>0, <1>5 DEF Terminated, TypeOK
    <2> QED BY <2>1, <2>2 DEF Quiet, Told
  <1>6. ASSUME NEW a \in Attempts,
               Rpc(a) \/ Wake(a) \/ ThreadDies(a) \/ (\E kind \in Endings : BodyEnds(a, kind))
        PROVE  Quiet
    <2>1. UNCHANGED <<pc, key, ledger, receipts, answer>>
      BY <1>6 DEF Rpc, Wake, ThreadDies, BodyEnds, host
    <2> QED BY <1>0, <2>1 DEF Quiet, Told
  <1>7. ASSUME NEW a \in Attempts, Dispatch(a) PROVE Accounted' /\ NumbersDiffer'
    BY <1>7, AccountWritten
  <1>8. ASSUME RowAppears \/ UNCHANGED vars PROVE Quiet
    <2>1. UNCHANGED <<pc, key, ledger, receipts, answer>>
      BY <1>8 DEF RowAppears, vars, host
    <2> QED BY <1>0, <2>1 DEF Quiet, Told
  <1> QED BY <1>1, <1>2, <1>3, <1>4, <1>5, <1>6, <1>7, <1>8 DEF Next, Deadline, HearEnd

----------------------------------------------------------------------------
(* The theorems.                                                           *)

\* The types, the line, the counter and the ports, whatever the calls and bodies do.
THEOREM BaseInvariance == Spec => []Base
  BY BaseInit, BaseStep, PTL DEF Spec

\* The state of the host is well-typed in every reachable state: budgets stop one past their limit,
\* and a thread's position is a call of its program.
THEOREM HostTypes == Spec => []TypeOK
  <1>1. Base => TypeOK
    BY DEF Base
  <1> QED BY <1>1, BaseInvariance, PTL

\* acquireSlot and releaseSlot: for any number of calls and slots the counter is the number of
\* holders, a thread lives only in one of them, and nobody waits while a slot is free.
THEOREM SlotsNeverDrift == Spec => []SlotsAreCounted
  <1>1. Base => SlotsAreCounted
    <2> SUFFICES ASSUME Base PROVE SlotsAreCounted
      OBVIOUS
    <2>1. Live \subseteq Holders
      BY DEF Live, Holders, Base, ThreadsHold
    <2>2. {waiting[i] : i \in DOMAIN waiting} = {a \in Attempts : pc[a] = "waiting"}
      <3>1. \A i \in DOMAIN waiting : waiting[i] \in Attempts
        BY DEF Base, TypeOK
      <3> QED BY <3>1 DEF Base, InLine
    <2> QED BY <2>1, <2>2 DEF Base, Counted, SlotsAreCounted
  <1> QED BY <1>1, BaseInvariance, PTL

\* rpc and Atomics.wait: no thread sleeps on a flag that nobody will raise.
THEOREM NoReplyIsMissed == Spec => []SleepersAreHeard
  <1>1. Init => SleepersAreHeard
    BY DEF Init, SleepersAreHeard
  <1> QED BY <1>1, SleepersStep, BaseInvariance, PTL DEF Spec

\* What the last two theorems rest on.
Whole == Base /\ rowThere = TRUE /\ (\E T : Trail(T)) /\ NumbersDiffer /\ Accounted

\* With the rows that bodies update in place, the trail and the accounts are kept.
THEOREM WholeInvariance == ASSUME RowMayAppear = FALSE PROVE Spec => []Whole
  <1>1. Init => Whole
    <2> SUFFICES ASSUME Init PROVE Whole
      OBVIOUS
    <2>1. rowThere = TRUE /\ NumbersDiffer
      BY DEF Init, NumbersDiffer
    <2>2. Accounted
      <3>1. \A a \in Attempts : Told(a) = {}
        BY DEF Init, Told
      <3>2. DOMAIN answer = Attempts /\ ledger = {}
        BY DEF Init
      <3> HIDE DEF Told
      <3> QED BY <3>1, <3>2 DEF Accounted
    <2> QED BY <2>1, <2>2, BaseInit, TrailInit DEF Whole
  <1>2. Whole /\ [Next]_vars => Whole'
    <2> SUFFICES ASSUME Whole, [Next]_vars PROVE Whole'
      OBVIOUS
    <2>1. PICK T : Trail(T)
      BY DEF Whole
    <2>2. rowThere' = TRUE
      BY DEF Whole, Next, vars, RowAppears, Begin, Refuse, Start, Deadline, HearEnd, Finish, Terminated,
             Rpc, Wake, ThreadDies, BodyEnds, Dispatch
    <2>3. Base' /\ (\E U : Trail(U)') /\ Accounted' /\ NumbersDiffer'
      BY <2>1, BaseStep, TrailStep, AccountStep DEF Whole
    <2> QED BY <2>2, <2>3 DEF Whole
  <1> QED BY <1>1, <1>2, PTL DEF Spec

\* The header's "Idempotent" promise, for any bodies, budgets and number of concurrent attempts: a
\* body's write lands once per command id, provided no row a body updates appears in between.
THEOREM WritesLandOnce == ASSUME RowMayAppear = FALSE PROVE Spec => []LandedOnce
  <1>1. Whole => LandedOnce
    <2> SUFFICES ASSUME Whole, NEW e1 \in ledger, NEW e2 \in ledger, e1.key = e2.key, e1.step = e2.step
                 PROVE  e1 = e2
      BY DEF LandedOnce
    <2>1. PICK T : Trail(T)
      BY DEF Whole
    <2>2. e1.n = e2.n
      BY <2>1 DEF Trail, Recorded
    <2> QED BY <2>2 DEF Whole, NumbersDiffer
  <1> QED BY <1>1, WholeInvariance, PTL

\* The answer of a call, however it ended, tells of exactly the writes that landed for it, and what
\* it calls already there is the same write of the same body.
THEOREM AnswersAreWhole == ASSUME RowMayAppear = FALSE PROVE Spec => []AnswerIsWhole
  <1>1. Whole => AnswerIsWhole
    <2> SUFFICES ASSUME Whole, NEW a \in Attempts, pc[a] = "done"
                 PROVE  /\ {[n |-> e.n, step |-> e.step] : e \in {e \in ledger : e.by = a}}
                             = {[n |-> r.n, step |-> r.step] : r \in {r \in answer[a].writes : ~r.idempotent}}
                        /\ \A r \in answer[a].writes : \E e \in Landed(key[a], r.n) : e.step = r.step
      BY DEF AnswerIsWhole
    <2>1. Told(a) = answer[a].writes
      BY DEF Told
    <2>2. /\ \A r \in answer[a].writes : r.idempotent \in BOOLEAN
          /\ \A e \in ledger : e.by = a =>
               \E r \in answer[a].writes : r.n = e.n /\ r.step = e.step /\ r.idempotent = FALSE
          /\ \A r \in answer[a].writes : r.idempotent = FALSE =>
               \E e \in ledger : e.by = a /\ e.n = r.n /\ e.step = r.step
          /\ \A r \in answer[a].writes :
               \E e \in ledger : e.key = key[a] /\ e.n = r.n /\ e.step = r.step
      BY <2>1 DEF Whole, Accounted, Receipts
    <2>3. \A r \in answer[a].writes : \E e \in Landed(key[a], r.n) : e.step = r.step
      BY <2>2 DEF Landed
    <2> DEFINE own == {e \in ledger : e.by = a}
               told == {r \in answer[a].writes : ~r.idempotent}
               line(x) == [n |-> x.n, step |-> x.step]
    <2>4. ASSUME NEW e \in own
          PROVE  \E r \in told : line(e) = line(r)
      <3>1. PICK r \in answer[a].writes : r.n = e.n /\ r.step = e.step /\ r.idempotent = FALSE
        BY <2>2
      <3>2. r \in told
        BY <3>1, Zenon
      <3> QED BY <3>1, <3>2
    <2>5. ASSUME NEW r \in told
          PROVE  \E e \in own : line(r) = line(e)
      <3>1. r \in answer[a].writes /\ r.idempotent = FALSE
        BY <2>2, Zenon
      <3>2. PICK e \in ledger : e.by = a /\ e.n = r.n /\ e.step = r.step
        BY <2>2, <3>1
      <3> QED BY <3>2
    <2>6. {line(e) : e \in own} = {line(r) : r \in told}
      <3> HIDE DEF own, told, line
      <3> QED BY <2>4, <2>5
    <2> QED BY <2>3, <2>6
  <1> QED BY <1>1, WholeInvariance, PTL
=============================================================================
