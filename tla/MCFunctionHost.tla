--------------------------- MODULE MCFunctionHost ---------------------------
EXTENDS FunctionHost

\* A body that changes a row if there is one and goes on.
Upsert == [ops |-> <<"update", "add">>, catches |-> TRUE]

\* One that only changes it, and one that reaches outside its app.
Late == [ops |-> <<"update">>, catches |-> TRUE]
MCPrograms == { Upsert, Late, [ops |-> <<"forbidden", "read">>, catches |-> FALSE] }

\* The row that Upsert changes is there; the one that Late changes may appear at any time.
MCInit == Init /\ \A k \in Commands : rowThere <=> program[k] # Late
MCFairSpec == MCInit /\ [][Next]_vars /\ \A a \in Attempts : WF_vars(Progress(a))

MCRetry == { Upsert }
=============================================================================
