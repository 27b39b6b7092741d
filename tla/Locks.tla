------------------------------- MODULE Locks --------------------------------
(***************************************************************************)
(* The two kinds of lock and the two lock sets of a transaction.  An SLock *)
(* (group, diagonal, whole relation) is only ever acquired in shared mode, *)
(* which never fails; an edit does not acquire it, it only asks that nobody *)
(* else holds it.  An XSLock (one per tuple) is acquired shared or         *)
(* exclusive.  A transaction keeps the locks to release when it finishes   *)
(* (held) and the locks it was refused (required), the edges of the        *)
(* waits-for graph.                                                        *)
(***************************************************************************)
EXTENDS RelationData

CONSTANT Tid    \* transaction identifiers

VARIABLES
    holders,    \* SLock/XSLock::lock_holders_, by lock
    exclusive,  \* the tuple locks with held_exclusively_
    held,       \* Transaction::held_locks, by transaction
    required    \* Transaction::required_locks, by transaction

lockVars == <<holders, exclusive, held, required>>

LocksTypeOK ==
    /\ holders \in [Lock -> SUBSET Tid]
    /\ exclusive \in SUBSET Tuple
    /\ held \in [Tid -> SUBSET Lock]
    /\ required \in [Tid -> SUBSET Lock]

LocksInit ==
    /\ holders = [l \in Lock |-> {}]
    /\ exclusive = {}
    /\ held = [t \in Tid |-> {}]
    /\ required = [t \in Tid |-> {}]

-----------------------------------------------------------------------------
(* What a lock permits. *)

PermitsEditMutant(l, t) == TRUE
PermitsEdit(l, t) == holders[l] \subseteq {t}

PermitsReadMutant(x, t) == TRUE
PermitsRead(x, t) == x \in exclusive => t \in holders[x]

PermitsExclusiveMutant(x, t) == x \notin exclusive \/ t \in holders[x]
PermitsExclusive(x, t) == holders[x] \subseteq {t}

-----------------------------------------------------------------------------
(* Changes to the lock sets of transaction t. *)

\* t joins the holders of every lock of S.
AcquireShared(t, S) ==
    /\ holders' = [l \in Lock |-> IF l \in S THEN holders[l] \cup {t} ELSE holders[l]]
    /\ held' = [held EXCEPT ![t] = @ \cup S]
    /\ UNCHANGED exclusive

\* t becomes the exclusive holder of tuple lock x, upgrading if it had it shared.
AcquireExclusiveMutant(t, x) ==
    /\ holders' = [holders EXCEPT ![x] = @ \cup {t}]
    /\ held' = [held EXCEPT ![t] = @ \cup {x}]
    /\ UNCHANGED exclusive
AcquireExclusive(t, x) ==
    /\ holders' = [holders EXCEPT ![x] = @ \cup {t}]
    /\ held' = [held EXCEPT ![t] = @ \cup {x}]
    /\ exclusive' = exclusive \cup {x}

\* t gives back every lock it holds.
ReleaseLocksMutant(t) ==
    /\ holders' = [l \in Lock |-> holders[l] \ {t}]
    /\ held' = [held EXCEPT ![t] = {}]
    /\ UNCHANGED exclusive
ReleaseLocks(t) ==
    /\ holders' = [l \in Lock |-> IF l \in held[t] THEN holders[l] \ {t} ELSE holders[l]]
    /\ held' = [held EXCEPT ![t] = {}]
    /\ exclusive' = exclusive \ held[t]

Require(t, S) == required' = [required EXCEPT ![t] = @ \cup S]
ClearRequired(t) == required' = [required EXCEPT ![t] = {}]
=============================================================================
