------------------------- MODULE DatabaseProperties -------------------------
(***************************************************************************)
(* What must be true of the database, as invariants, properties of steps,  *)
(* a refinement of SerialDatabase and liveness.                            *)
(***************************************************************************)
EXTENDS Database

\* Every variable has the type its comment in the modules gives it.
TypeOK ==
    /\ LocksTypeOK
    /\ relations \in SUBSET RelName
    /\ tuples \in SUBSET Tuple
    /\ alive \in SUBSET Tuple
    /\ state \in [Tid -> State]
    /\ bornAt \in [Tid -> Nat]
    /\ original \in [Tid -> [Tuple -> Status]]
    /\ reads \in [Tid -> [Tuple -> Status]]
    /\ edit \in [Tid -> Edit]
    /\ query = [t \in Tid |-> query[t]] /\ \A t \in Tid : IsQuery(query[t])
    /\ pc \in PC
    /\ cur \in Tid \cup {NoTid}
    /\ stage \in Nat
    /\ stack \in Seq(Frame)
    /\ visited \in SUBSET Tid

\* Where the running command is agrees with whose command it is, with that
\* transaction's state and with what it is executing.
ControlOK ==
    /\ pc # "idle" => cur \in Tid
    /\ pc \in {"edit", "edit_tuples"} => state[cur] \in {"EXECUTING_ADD", "EXECUTING_DELETE"}
    /\ pc \in {"next", "pulled", "visit"} =>
        state[cur] = "EXECUTING_QUERY" /\ stage \in 1 .. Len(query[cur].atoms)
    /\ pc = "visit" => KindOf \in Products \cup Joins
    /\ pc \in {"detect", "deadlock"} => state[cur] \in Executing
    /\ pc = "deadlock" => stack # <<>>
    /\ \A t \in Tid :
        /\ state[t] \in {"EXECUTING_ADD", "EXECUTING_DELETE"} => edit[t].rel \in RelName
        /\ state[t] = "EXECUTING_QUERY" => query[t].atoms \in Queries

-----------------------------------------------------------------------------
(* Locks. *)

\* The two records of who holds what agree: release_locks walks held_locks,
\* and every release asserts that the lock knows its holder.
HoldersAgree == \A t \in Tid, l \in Lock : t \in holders[l] <=> l \in held[t]

\* held_exclusively_ => lock_holders_.size() == 1 (XSLock.hpp:12).
ExclusiveAlone == \A x \in exclusive : \E t \in Tid : holders[x] = {t}

\* A finished transaction has given back every lock (release_locks).
FinishedHoldNothing == \A t \in Tid : state[t] \notin Live => held[t] = {}

\* The lock tables of the containers and the lock sets of the transactions
\* stay in step through suspensions, resumptions and rollbacks.
LocksAgree == HoldersAgree /\ ExclusiveAlone /\ FinishedHoldNothing

\* A live transaction holds, alone and exclusively, every tuple it would
\* restore on rollback, so undoing never overwrites the work of another.
UndoProtected ==
    \A t \in Tid, x \in Tuple :
        state[t] \in Live /\ original[t][x] # "none" =>
            x \in exclusive /\ holders[x] = {t} /\ x \in tuples

-----------------------------------------------------------------------------
(* Isolation. *)

\* What x was before t changed it.
Before(t, x) == IF original[t][x] = "none" THEN StatusIn(alive, x) ELSE original[t][x]

\* What a live transaction has observed of a tuple, or of its absence from a
\* container it scanned, stays as it was until the transaction ends, but for
\* its own edits: repeatable reads without phantoms.
ReadsStable ==
    \A t \in Tid, x \in Tuple :
        state[t] \in Live /\ reads[t][x] # "none" => reads[t][x] = Before(t, x)

\* No live transaction has observed an uncommitted change of another.
NoDirtyReads ==
    \A t \in Tid : \A u \in Tid \ {t}, x \in Tuple :
        state[t] \in Live /\ state[u] \in Live /\ reads[t][x] # "none"
            => original[u][x] = "none"

\* The printed answers of a query that ran to its end, over however many
\* suspensions, are its meaning over the tuples alive, each printed once, and
\* stay so while the transaction neither edits nor ends.
AnswersExact ==
    \A t \in Tid :
        LET q     == query[t]
            exact == Eval(q.atoms, alive)
        IN  state[t] = "READY" /\ q.atoms # <<>> =>
                /\ q.answers = exact
                /\ Cardinality(exact) <= MaxAnswers => q.num = Cardinality(exact)

\* A tuple's state only changes under the exclusive lock of one transaction,
\* the one that edits, or gives the lock back in that very step.
ChangesUnderLock ==
    [][\A x \in Tuple : (x \in alive') # (x \in alive) =>
        \/ x \in exclusive'
        \/ /\ x \in exclusive
           /\ \E t \in Tid : /\ holders[x] = {t}
                             /\ state[t] \in Live /\ state'[t] = "ABORTED"]_vars

\* Rolling back a transaction that has already ended changes no tuple
\* ("Rollback can be done from any state without issue", Transaction.hpp:90).
LateRollbackHarmless ==
    [][\A t \in Tid : state[t] \in {"COMMITTED", "ABORTED"} /\ Rollback(t) => alive' = alive]_vars

\* The abstract database: the changes of live transactions are not in it yet.
Serial == INSTANCE SerialDatabase WITH
    db <- {x \in Tuple :
            \/ \E t \in Tid : state[t] \in Live /\ original[t][x] = "alive"
            \/ /\ \A t \in Tid : state[t] \in Live => original[t][x] = "none"
               /\ x \in alive},
    status <- [t \in Tid |-> CASE state[t] = "ABSENT"    -> "absent"
                               [] state[t] = "COMMITTED" -> "committed"
                               [] state[t] = "ABORTED"   -> "aborted"
                               [] OTHER                  -> "live"],
    writes <- [t \in Tid |-> [x \in Tuple |->
                IF state[t] \in Live /\ original[t][x] # "none"
                THEN StatusIn(alive, x) ELSE "none"]]

\* Committed transactions are serializable in the order of their commits, and
\* rolled back ones leave no trace (strict two-phase and predicate locking).
Serializable == Serial!SerialSpec

\* An edit that creates a tuple never disturbs the scan of a suspended query:
\* it is created only after the groups it enters have permitted the edit
\* ("containers to which suspended transactions may hold iterators are not
\* modified", ProjectReport_1075201.typ:544).
EditsSpareScans ==
    [][pc = "edit_tuples" => \A t \in Tid : query'[t].stale \subseteq query[t].stale]_vars

-----------------------------------------------------------------------------
(* Deadlock. *)

\* As required_locks has it, the transactions of S all wait on one another.
Deadlocked(S) == S # {} /\ \A t \in S : \E u \in S : WaitsFor(t, u)

\* The detector only rolls back transactions that were suspended: one that is
\* READY is aborted by nobody but its own client.
ReadyNeverVictim ==
    [][\A t \in Tid : state[t] = "READY" /\ state'[t] = "ABORTED" => pc = "idle"]_vars

\* A search that reports a cycle has met one ("Returns whether a cycle was
\* detected", DeadlockDetector.hpp:15).
ReportedCycleIsReal == pc = "deadlock" => \E S \in SUBSET OnStack : Deadlocked(S)

-----------------------------------------------------------------------------
(* Undefined behaviour. *)

\* No iterator is dereferenced at its end (the assertion of
\* OpenAddrHashMap.hpp:112).
NoEndDereference == pc # "undefined"

-----------------------------------------------------------------------------
(* Liveness. *)

\* The program runs a command on as long as it can; a client that means to
\* finish resumes what is suspended and commits what is ready.
FairSpec == Spec /\ WF_vars(Internal)

FairClientSpec ==
    /\ FairSpec
    /\ \A t \in Tid : SF_vars(Resume(t)) /\ SF_vars(Commit(t))

\* Every command gives control back to the client.
CommandReturns == pc # "idle" ~> pc = "idle"

\* Under a client that resumes and commits, every transaction ends.
TransactionsFinish ==
    \A t \in Tid : state[t] \in Live ~> state[t] \in {"COMMITTED", "ABORTED"}
=============================================================================
