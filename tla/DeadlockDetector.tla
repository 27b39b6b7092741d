-------------------------- MODULE DeadlockDetector --------------------------
(***************************************************************************)
(* The search for a deadlock that runs whenever a transaction is           *)
(* suspended.  Transaction t waits on every other holder of every lock it  *)
(* requires; dfs_tx walks these edges from the suspended transaction.  Its *)
(* recursion is the variable stack, one frame per active call, and         *)
(* visited is visited_tx.                                                  *)
(*                                                                         *)
(* The code records a transaction as VISITING when a call for it starts    *)
(* and as VISITED when the call returns without a cycle, but both with     *)
(* emplace, which leaves an existing entry alone: a transaction stays      *)
(* VISITING for the rest of the search, and visited is just a set.         *)
(*                                                                         *)
(* required_locks is a set ordered by address, so the order in which the   *)
(* locks are tried is arbitrary; the holders of one lock are tried         *)
(* together.                                                               *)
(***************************************************************************)
EXTENDS Locks, Naturals, Sequences

VARIABLES
    bornAt,     \* Transaction::txBornAt
    stack,      \* the active calls of dfs_tx, outermost first
    visited     \* the keys of visited_tx

searchVars == <<stack, visited>>

Edge == [lock : Lock, tid : Tid]
Frame == [tid : Tid, todo : SUBSET Edge, lock : Lock \cup {Wild}]

\* The edges that leave t, in the order-free form the search consumes.
WaitEdgesMutant(t) ==
    {e \in [lock : required[t] \cap exclusive, tid : Tid] : e.tid \in holders[e.lock] \ {t}}
WaitEdges(t) ==
    {e \in [lock : required[t], tid : Tid] : e.tid \in holders[e.lock] \ {t}}

WaitsFor(t, u) == \E l \in required[t] : u \in holders[l] \ {t}

\* The call dfs_tx(t); Wild says that no lock is being followed yet.
Call(t) == [tid |-> t, todo |-> WaitEdges(t), lock |-> Wild]

Top == stack[Len(stack)]
Pop(s) == SubSeq(s, 1, Len(s) - 1)
OnStackMutant == visited
OnStack == {stack[i].tid : i \in DOMAIN stack}

\* The next edge the topmost call looks at: the other holders of the lock it
\* is at come before those of another lock.
NextEdges(f) ==
    LET same == {e \in f.todo : e.lock = f.lock}
    IN  IF same # {} THEN same ELSE f.todo

Follow(e) ==
    [stack EXCEPT ![Len(stack)].todo = @ \ {e}, ![Len(stack)].lock = e.lock]

StartSearch(t) ==
    /\ stack' = <<Call(t)>>
    /\ visited' = {t}

\* A transaction nobody visited yet: a nested call.
Descend(e) ==
    /\ e.tid \notin visited
    /\ stack' = Append(Follow(e), Call(e.tid))
    /\ visited' = visited \cup {e.tid}

\* Every edge of the topmost call led nowhere.
Backtrack ==
    /\ Top.todo = {}
    /\ stack' = Pop(stack)
    /\ UNCHANGED visited

\* The search stops at an edge to a transaction it already visited; every
\* active call then adds itself to the reported cycle.
FoundCycle(e) == e.tid \in visited

=============================================================================
