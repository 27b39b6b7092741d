--------------------------- MODULE SerialDatabase ---------------------------
(***************************************************************************)
(* What the database promises its clients.  There is one committed set of  *)
(* tuples.  A live transaction observes it and keeps its own writes to     *)
(* itself; it may commit only if everything it has observed is still true, *)
(* and then its writes take effect in one step.  Transactions therefore    *)
(* behave as if they ran one after the other in the order of their         *)
(* commits, and an aborted one leaves no trace.                            *)
(***************************************************************************)
CONSTANTS Tid, Tuple, Loaded

VARIABLES
    db,         \* the committed tuples
    status,     \* "absent", "live", "committed" or "aborted"
    reads,      \* what a transaction has observed of each tuple
    writes      \* what it will make of each tuple

serialVars == <<db, status, reads, writes>>

SerialInit ==
    /\ db = Loaded
    /\ status = [t \in Tid |-> "absent"]
    /\ reads = [t \in Tid |-> [x \in Tuple |-> "none"]]
    /\ writes = [t \in Tid |-> [x \in Tuple |-> "none"]]

Committed(x) == IF x \in db THEN "alive" ELSE "dead"

Forget(t) ==
    /\ reads' = [reads EXCEPT ![t] = [x \in Tuple |-> "none"]]
    /\ writes' = [writes EXCEPT ![t] = [x \in Tuple |-> "none"]]

SerialBegin(t) ==
    /\ status[t] = "absent"
    /\ status' = [status EXCEPT ![t] = "live"]
    /\ UNCHANGED <<db, reads, writes>>

\* t observes committed tuples it has not written, and writes.
SerialWork(t) ==
    /\ status[t] = "live"
    /\ reads' = [reads EXCEPT ![t] = reads'[t]]
    /\ writes' = [writes EXCEPT ![t] = writes'[t]]
    /\ \A x \in Tuple :
        /\ \/ reads'[t][x] = reads[t][x]
           \/ reads[t][x] = "none" /\ writes[t][x] = "none" /\ reads'[t][x] = Committed(x)
        /\ writes'[t][x] \in {writes[t][x], "alive", "dead"}
    /\ UNCHANGED <<db, status>>

SerialCommit(t) ==
    /\ status[t] = "live"
    /\ \A x \in Tuple : reads[t][x] \in {"none", Committed(x)}
    /\ db' = {x \in Tuple : writes[t][x] = "alive" \/ (writes[t][x] = "none" /\ x \in db)}
    /\ status' = [status EXCEPT ![t] = "committed"]
    /\ Forget(t)

SerialAbort(t) ==
    /\ status[t] = "live"
    /\ status' = [status EXCEPT ![t] = "aborted"]
    /\ Forget(t)
    /\ UNCHANGED db

SerialNext ==
    \E t \in Tid : SerialBegin(t) \/ SerialWork(t) \/ SerialCommit(t) \/ SerialAbort(t)

SerialSpec == SerialInit /\ [][SerialNext]_serialVars
=============================================================================
