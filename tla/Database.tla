------------------------------ MODULE Database ------------------------------
(***************************************************************************)
(* The database: transactions that lock, edit and query relations on       *)
(* behalf of a client that issues one command at a time.                   *)
(*                                                                         *)
(* The program is single threaded.  A command runs until it finishes or    *)
(* until a lock refuses it, in which case the transaction stays suspended  *)
(* until the client resumes it; transactions interleave only at command    *)
(* boundaries.  pc says where the running command is, cur whose command it *)
(* is, and pc = "idle" means that the program waits for the client:        *)
(*                                                                         *)
(*   "edit"         resume_edit, before the check of the whole relation    *)
(*   "edit_tuples"  resume_edit, at the head of its loop                   *)
(*   "next"         Stage::next of stage number stage has been called      *)
(*   "pulled"       the stage before it has answered OK                    *)
(*   "visit"        the stage is about to look at its iterator             *)
(*   "detect"       on_control, in the search for a deadlock               *)
(*   "deadlock"     on_control, a victim is to be rolled back              *)
(*   "undefined"    the code has dereferenced an iterator at its end       *)
(*                                                                         *)
(* An iterator is the set of tuples it has yet to visit.  A tuple that is  *)
(* created behind the start of a scan stays dead for the rest of it (the   *)
(* scan's lock refuses every edit), so a scan passes over it if it meets it *)
(* at all, and the model leaves such visits out.  What creation can do to  *)
(* a scan is to rehash the table it walks (EnsureTuple, VisitStale).       *)
(***************************************************************************)
EXTENDS DeadlockDetector, Stage, FiniteSets

CONSTANTS
    NoTid,          \* cur between commands
    Batches,        \* contents of the CSV files the client names
    Queries,        \* bodies of the queries the client asks
    Loaded,         \* tuples alive before the first command
    OutOfTurn,      \* the commands the client may issue out of turn
    Growth,         \* sizes at which a group rehashes to take another tuple
    MaxAnswers      \* bound: num_answers counts up to it and stays there

ASSUME DatabaseAssumption ==
    /\ NoTid \notin Tid /\ IsFiniteSet(Tid)
    /\ Batches \subseteq Seq(Value \X Value)
    /\ Queries \subseteq Seq(Atom) \ {<<>>}
    /\ Loaded \subseteq Tuple
    /\ OutOfTurn \subseteq {"rollback_finished", "start_suspended"}
    /\ Growth \subseteq Nat     \* 4, 8, 16, ... in the code
    /\ MaxAnswers \in Nat

VARIABLES
    relations,  \* the names in Database::relations
    tuples,     \* the tuples created so far, dead ones included
    alive,      \* the tuples with DataTuple::alive
    state,      \* Transaction::state; "ABSENT" before BEGIN
    original,   \* Transaction::original_alive, "none" where it has no entry
    edit,       \* target_relation and the rest of incoming_tuples
    query,      \* query_atoms, query_channel, stages and the answers printed
    reads,      \* auxiliary: what each transaction has observed
    pc, cur,    \* the running command
    stage       \* the stage of cur's query that is running, 0 if none

dataVars    == <<relations, tuples, alive>>
txVars      == <<state, bornAt, original, reads>>
jobVars     == <<edit, query>>
controlVars == <<pc, cur, stage, stack, visited>>
holderVars  == <<holders, exclusive, held>>
vars == <<lockVars, dataVars, txVars, jobVars, controlVars>>

Executing == {"EXECUTING_QUERY", "EXECUTING_ADD", "EXECUTING_DELETE"}
Live      == {"READY"} \cup Executing
State     == {"ABSENT", "COMMITTED", "ABORTED"} \cup Live
PC == {"idle", "edit", "edit_tuples", "next", "pulled", "visit",
       "detect", "deadlock", "undefined"}

\* What a transaction may have stored or observed of a tuple.
Status == {"none", "alive", "dead"}
StatusIn(db, x) == IF x \in db THEN "alive" ELSE "dead"

Edit  == [rel : RelName \cup {Wild}, todo : Seq(Value \X Value)]

\* A query with the state of its stages: the container of a stage, what its
\* iterator has yet to visit ({} at its end), whether the stage holds an input
\* it is not done with (call_next is false, group_iter_valid is true), and the
\* stages whose iterator points into a table that was rehashed since.
QueryOn(atoms) ==
    [atoms : {atoms}, channel : [Var -> Value],
     group : [DOMAIN atoms -> Lock], iter : [DOMAIN atoms -> SUBSET Tuple],
     pending : [DOMAIN atoms -> BOOLEAN], stale : SUBSET DOMAIN atoms,
     answers : SUBSET [QueryVars(atoms) -> Value], num : Nat]
IsQuery(q) == \E atoms \in Queries \cup {<<>>} : q \in QueryOn(atoms)

NoEdit  == [rel |-> Wild, todo |-> <<>>]
\* query_channel is zero-filled; nothing reads an entry before it is written.
ZeroChannel == [v \in Var |-> CHOOSE c \in Value : TRUE]
BlankQuery(atoms) ==
    [atoms |-> atoms, channel |-> ZeroChannel,
     group |-> [i \in DOMAIN atoms |-> Container(atoms, i, ZeroChannel)],
     iter |-> [i \in DOMAIN atoms |-> {}], pending |-> [i \in DOMAIN atoms |-> FALSE],
     stale |-> {}, answers |-> {}, num |-> 0]
NoQuery == BlankQuery(<<>>)

Init ==
    /\ LocksInit
    /\ relations = {x.rel : x \in Loaded}
    /\ tuples = Loaded
    /\ alive = Loaded
    /\ state = [t \in Tid |-> "ABSENT"]
    /\ bornAt = [t \in Tid |-> 0]
    /\ original = [t \in Tid |-> [x \in Tuple |-> "none"]]
    /\ reads = [t \in Tid |-> [x \in Tuple |-> "none"]]
    /\ edit = [t \in Tid |-> NoEdit]
    /\ query = [t \in Tid |-> NoQuery]
    /\ pc = "idle" /\ cur = NoTid /\ stage = 0
    /\ stack = <<>> /\ visited = {}

-----------------------------------------------------------------------------
(* Control. *)

\* The client may never look again at what t was executing or has observed:
\* a finished transaction is refused every command that would.
Close(t) ==
    /\ edit' = [edit EXCEPT ![t] = NoEdit]
    /\ query' = [query EXCEPT ![t] = NoQuery]
    /\ reads' = [reads EXCEPT ![t] = [x \in Tuple |-> "none"]]

\* Control goes back to the client.
Return ==
    /\ pc' = "idle" /\ cur' = NoTid /\ stage' = 0
    /\ stack' = <<>> /\ visited' = {}

Goto(label) ==
    /\ pc' = label
    /\ UNCHANGED <<cur, stage, stack, visited>>

\* The operation returns SUSPENDED with the locks S added to required_locks.
Suspend(S) ==
    /\ Require(cur, S)
    /\ pc' = "detect" /\ stage' = 0
    /\ UNCHANGED <<cur, stack, visited>>

\* The operation returns FINISHED: on_control clears required_locks.
Finish(t) == ClearRequired(t) /\ Return

\* A command that finds its transaction in the wrong state only says so, which
\* counts as FINISHED.
Refuse(t) ==
    /\ pc = "idle"
    /\ Finish(t)
    /\ UNCHANGED <<holderVars, dataVars, txVars, jobVars>>

\* t has seen the tuples of S.  What it has written is no news to it, and the
\* first sight counts.
Observe(t, S) ==
    reads' = [reads EXCEPT ![t] = [x \in Tuple |->
                IF x \in S /\ @[x] = "none" /\ original[t][x] = "none"
                THEN StatusIn(alive, x) ELSE @[x]]]

-----------------------------------------------------------------------------
(* Creating tuples. *)

\* The groups that rehash when x is created.
Grown(x) ==
    {l \in GroupLocks(x) : x \notin tuples /\ Cardinality(Members(l, tuples)) \in Growth}

\* The iterators of q into a rehashed group keep their index, which means
\* nothing in the new table.
Disturbed(q, x) ==
    LET scans(i) == \/ Kind(q.atoms, i) \in Products
                    \/ Kind(q.atoms, i) \in Joins /\ q.pending[i]
    IN  [q EXCEPT !.stale = @ \cup {i \in DOMAIN q.atoms : scans(i) /\ q.group[i] \in Grown(x)}]

\* ensure_tuple: x is created, dead and unlocked, unless it is there already.
EnsureTuple(x) ==
    /\ tuples' = tuples \cup {x}
    /\ query' = [t \in Tid |-> Disturbed(query[t], x)]

-----------------------------------------------------------------------------
(* BEGIN, COMMIT, ROLLBACK. *)

\* transactions.size(); a transaction is never erased.
AgeMutant == Cardinality({u \in Tid : state[u] # "ABSENT"}) - 1
Age == Cardinality({u \in Tid : state[u] # "ABSENT"})

Begin(t) ==
    /\ pc = "idle" /\ state[t] = "ABSENT"
    /\ state' = [state EXCEPT ![t] = "READY"]
    /\ bornAt' = [bornAt EXCEPT ![t] = Age]
    /\ UNCHANGED <<lockVars, dataVars, original, reads, jobVars, controlVars>>

Commit(t) ==
    /\ pc = "idle" /\ state[t] = "READY"
    /\ state' = [state EXCEPT ![t] = "COMMITTED"]
    /\ ReleaseLocks(t)
    /\ Finish(t)
    /\ Close(t)
    /\ UNCHANGED <<dataVars, bornAt, original>>

\* COMMIT of a suspended transaction returns SUSPENDED, with the locks it
\* already required: the search for a deadlock runs again.  The mutant is the
\* algorithm of the report, which returns FINISHED.
CommitSuspendedMutant(t) == state[t] \in Executing /\ Refuse(t)
CommitSuspended(t) ==
    /\ pc = "idle" /\ state[t] \in Executing
    /\ pc' = "detect" /\ cur' = t
    /\ UNCHANGED <<lockVars, dataVars, txVars, jobVars, stage, stack, visited>>

CommitFinished(t) == state[t] \in {"COMMITTED", "ABORTED"} /\ Refuse(t)

\* The tuples alive once every change of t is undone.
Undo(t) ==
    {x \in Tuple : \/ original[t][x] = "alive"
                   \/ original[t][x] = "none" /\ x \in alive}

\* Transaction::rollback, which looks at no state and clears neither
\* original_alive nor required_locks.
Abort(t) ==
    /\ state' = [state EXCEPT ![t] = "ABORTED"]
    /\ alive' = Undo(t)
    /\ ReleaseLocks(t)
    /\ Close(t)
    /\ UNCHANGED <<relations, tuples, bornAt, original>>

Rollback(t) ==
    /\ pc = "idle"
    /\ \/ state[t] \in Live
       \/ state[t] # "ABSENT" /\ "rollback_finished" \in OutOfTurn
    /\ Abort(t)
    /\ UNCHANGED <<required, controlVars>>

-----------------------------------------------------------------------------
(* ADD and DELETE. *)

StartEdit(t, r, batch, executing) ==
    /\ pc = "idle" /\ state[t] = "READY"
    /\ state' = [state EXCEPT ![t] = executing]
    /\ edit' = [edit EXCEPT ![t] = [rel |-> r, todo |-> batch]]
    /\ query' = [query EXCEPT ![t] = NoQuery]
    /\ pc' = "edit" /\ cur' = t
    /\ UNCHANGED <<lockVars, tuples, alive, bornAt, original, reads, stage, stack, visited>>

\* ADD creates the relation before it looks at the transaction.
Add(t, r, batch) ==
    /\ StartEdit(t, r, batch, "EXECUTING_ADD")
    /\ relations' = relations \cup {r}

AddRefused(t, r) ==
    /\ pc = "idle"
    /\ \/ state[t] \in {"COMMITTED", "ABORTED"}
       \/ state[t] \in Executing /\ "start_suspended" \in OutOfTurn
    /\ relations' = relations \cup {r}
    /\ Finish(t)
    /\ UNCHANGED <<holderVars, tuples, alive, txVars, jobVars>>

\* DELETE from a relation that does not exist returns before the transaction
\* is looked at: a step that changes nothing.
Delete(t, r, batch) ==
    /\ r \in relations
    /\ StartEdit(t, r, batch, "EXECUTING_DELETE")
    /\ UNCHANGED relations

\* DELETE or QUERY of a transaction that is not READY.
StartRefused(t) ==
    /\ \/ state[t] \in {"COMMITTED", "ABORTED"}
       \/ state[t] \in Executing /\ "start_suspended" \in OutOfTurn
    /\ Refuse(t)

\* resume_edit asks for the whole relation once per batch or resumption, an
\* empty batch included.
CheckRelation ==
    LET whole == WholeRel(edit[cur].rel) IN
    /\ pc = "edit"
    /\ \/ /\ PermitsEdit(whole, cur)
          /\ Goto("edit_tuples")
          /\ UNCHANGED required
       \/ /\ ~PermitsEdit(whole, cur)
          /\ Suspend({whole})
    /\ UNCHANGED <<holderVars, dataVars, txVars, jobVars>>

NextTuple(t) ==
    [rel |-> edit[t].rel, left |-> Head(edit[t].todo)[1], right |-> Head(edit[t].todo)[2]]

\* What the tuple was before the transaction first changed it is kept.
StoreOriginalMutant(t, x) == original' = [original EXCEPT ![t][x] = StatusIn(alive, x)]
StoreOriginal(t, x) ==
    original' = [original EXCEPT ![t][x] = IF @ = "none" THEN StatusIn(alive, x) ELSE @]

Write(t, x, status) ==
    IF StatusIn(alive, x) = status
    THEN UNCHANGED <<alive, original>>
    ELSE /\ alive' = IF status = "alive" THEN alive \cup {x} ELSE alive \ {x}
         /\ StoreOriginal(t, x)

GroupsPermit(t, x) == \A l \in GroupLocks(x) : PermitsEdit(l, t)

AtTuple == pc = "edit_tuples" /\ edit[cur].todo # <<>>

EditTuple ==
    LET x == NextTuple(cur) IN
    /\ AtTuple
    /\ GroupsPermit(cur, x) /\ PermitsExclusive(x, cur)
    /\ EnsureTuple(x)
    /\ AcquireExclusive(cur, x)
    /\ Observe(cur, {x})
    /\ Write(cur, x, IF state[cur] = "EXECUTING_ADD" THEN "alive" ELSE "dead")
    /\ edit' = [edit EXCEPT ![cur].todo = Tail(@)]
    /\ UNCHANGED <<required, relations, state, bornAt, controlVars>>

\* A group refuses the edit: the tuple is not even created.
EditRefusedByGroup ==
    LET x == NextTuple(cur) IN
    /\ AtTuple
    /\ ~GroupsPermit(cur, x)
    /\ Suspend(EditLocks(x))
    /\ UNCHANGED <<holderVars, dataVars, txVars, jobVars>>

EditRefusedByTuple ==
    LET x == NextTuple(cur) IN
    /\ AtTuple
    /\ GroupsPermit(cur, x) /\ ~PermitsExclusive(x, cur)
    /\ EnsureTuple(x)
    /\ Suspend(EditLocks(x) \cup {x})
    /\ UNCHANGED <<holderVars, relations, alive, txVars, edit>>

FinishEdit ==
    /\ pc = "edit_tuples" /\ edit[cur].todo = <<>>
    /\ state' = [state EXCEPT ![cur] = "READY"]
    /\ edit' = [edit EXCEPT ![cur] = NoEdit]
    /\ Finish(cur)
    /\ UNCHANGED <<holderVars, dataVars, bornAt, original, reads, query>>

-----------------------------------------------------------------------------
(* QUERY. *)

RelationsExist(atoms) == \A i \in DOMAIN atoms : atoms[i].rel \in relations

\* The containers whose scan starts with the query: those of the products that
\* have no input.
Initial(atoms, i) == Kind(atoms, i) \in Products /\ InputVars(atoms, i) = {}

\* The stages as their constructors leave them: a product with input starts
\* with its iterator at the end.
NewQuery(atoms) ==
    [BlankQuery(atoms) EXCEPT !.iter = [i \in DOMAIN atoms |->
        IF Initial(atoms, i) THEN Members(Container(atoms, i, ZeroChannel), tuples) ELSE {}]]

\* The tuples a scan of container l that starts now will never meet.
Missing(l) == {x \in Tuple : Covers(l, x)} \ tuples

StartQuery(t, atoms) ==
    /\ pc = "idle" /\ state[t] = "READY" /\ RelationsExist(atoms)
    /\ state' = [state EXCEPT ![t] = "EXECUTING_QUERY"]
    /\ query' = [query EXCEPT ![t] = NewQuery(atoms)]
    /\ AcquireShared(t, SetupLocks(atoms, ZeroChannel))
    /\ Observe(t, UNION {Missing(Container(atoms, i, ZeroChannel)) :
                    i \in {j \in DOMAIN atoms : Initial(atoms, j)}})
    /\ pc' = "next" /\ cur' = t /\ stage' = Len(atoms)
    /\ UNCHANGED <<required, dataVars, bornAt, original, edit, stack, visited>>

QueryNoRelation(t, atoms) ==
    /\ state[t] = "READY" /\ ~RelationsExist(atoms)
    /\ Refuse(t)

\* The running query, its running stage, and the tuple or container it is at.
Q       == query[cur]
KindOf  == Kind(Q.atoms, stage)
Target  == Inst(Q.atoms[stage], Q.channel)
Source  == Q.group[stage]
NoInput == InputVars(Q.atoms, stage) = {}

\* The iterator compares equal to end().
AtEnd == Q.iter[stage] = {} /\ stage \notin Q.stale

\* The scan of container l starts.
Scanning(q, l) ==
    [q EXCEPT !.group[stage] = l, !.iter[stage] = Members(l, tuples), !.stale = @ \ {stage}]

SetQuery(q) == query' = [query EXCEPT ![cur] = q]

\* The last stage has produced a complete assignment: an answer is printed.
Answered(q) ==
    [q EXCEPT !.answers = @ \cup {[v \in QueryVars(q.atoms) |-> q.channel[v]]},
              !.num = IF @ < MaxAnswers THEN @ + 1 ELSE @]

\* The stage returns OK, and q is the query as it leaves it.
ReturnOK(q) ==
    /\ \/ /\ stage = Len(q.atoms)
          /\ SetQuery(Answered(q))
          /\ pc' = "next" /\ UNCHANGED stage
       \/ /\ stage < Len(q.atoms)
          /\ SetQuery(q)
          /\ pc' = "pulled" /\ stage' = stage + 1
    /\ UNCHANGED <<required, cur, stack, visited>>

\* The stage returns FINISHED, and so does every stage after it.  Of the query
\* only what it has printed still matters.
ReturnFinished ==
    /\ state' = [state EXCEPT ![cur] = "READY"]
    /\ SetQuery([BlankQuery(Q.atoms) EXCEPT !.answers = Q.answers, !.num = Q.num])
    /\ Finish(cur)

\* The stage asks the one before it for its next input; INITIAL always has one.
CallPrevious ==
    /\ IF stage = 1 THEN pc' = "pulled" /\ UNCHANGED stage
                    ELSE pc' = "next" /\ stage' = stage - 1
    /\ UNCHANGED <<required, cur, stack, visited>>

\* get_tuple, which a constant atom and a relation filter start with.
GetTuple ==
    /\ \/ pc = "next" /\ KindOf = "CONST_CONST"
       \/ pc = "pulled" /\ KindOf = "RELATION_FILTER"
    /\ Target \notin tuples
    /\ EnsureTuple(Target)
    /\ UNCHANGED <<lockVars, relations, alive, txVars, edit, controlVars>>

\* A constant atom: its tuple is locked; dead, it ends the query without a
\* look at the stages before.
NextConstConst ==
    /\ pc = "next" /\ KindOf = "CONST_CONST" /\ Target \in tuples
    /\ \/ /\ ~PermitsRead(Target, cur)
          /\ Suspend({Target})
          /\ UNCHANGED <<holderVars, state, reads, query>>
       \/ /\ PermitsRead(Target, cur)
          /\ IF cur \in holders[Target] THEN UNCHANGED holderVars
                                        ELSE AcquireShared(cur, {Target})
          /\ Observe(cur, {Target})
          /\ \/ Target \in alive /\ CallPrevious /\ UNCHANGED <<state, query>>
             \/ Target \notin alive /\ ReturnFinished
    /\ UNCHANGED <<dataVars, bornAt, original, edit>>

\* Whether the stage starts by pulling an input.
NeedsInput ==
    \/ KindOf \in Filters \cup Joins /\ ~Q.pending[stage]
    \/ KindOf \in Products /\ (NoInput \/ AtEnd)

NextPull ==
    /\ pc = "next" /\ KindOf # "CONST_CONST" /\ NeedsInput
    /\ CallPrevious
    /\ UNCHANGED <<holderVars, dataVars, txVars, jobVars>>

\* The stage goes on where it was suspended or returned.
NextContinue ==
    /\ pc = "next" /\ KindOf # "CONST_CONST" /\ ~NeedsInput
    /\ Goto(IF KindOf \in Filters THEN "pulled" ELSE "visit")
    /\ UNCHANGED <<lockVars, dataVars, txVars, jobVars>>

PulledConstConst ==
    /\ pc = "pulled" /\ KindOf = "CONST_CONST"
    /\ ReturnOK(Q)
    /\ UNCHANGED <<holderVars, dataVars, txVars, edit>>

\* The running stage keeps its input for the next call, or is done with it.
KeepInputMutant == Q
KeepInput == [Q EXCEPT !.pending[stage] = TRUE]
DropInput == [Q EXCEPT !.pending[stage] = FALSE]

\* A filter looks its input up.  A group filter only finds tuples that exist,
\* a relation filter has created its tuple.
PulledFilter ==
    /\ pc = "pulled" /\ KindOf \in Filters
    /\ KindOf = "RELATION_FILTER" => Target \in tuples
    /\ \/ /\ Target \in tuples /\ ~PermitsRead(Target, cur)
          /\ SetQuery(KeepInput)
          /\ Suspend({Target})
          /\ UNCHANGED reads
       \/ /\ Target \in tuples /\ PermitsRead(Target, cur) /\ Target \in alive
          /\ Observe(cur, {Target})
          /\ ReturnOK(DropInput)
       \/ /\ Target \in tuples => PermitsRead(Target, cur) /\ Target \notin alive
          /\ Observe(cur, {Target})
          /\ SetQuery(DropInput)
          /\ Goto("next")
          /\ UNCHANGED required
    /\ UNCHANGED <<holderVars, dataVars, state, bornAt, original, edit>>

\* A product without input goes on with its one scan, which ends the query;
\* one with input starts a new scan.
PulledProduct ==
    /\ pc = "pulled" /\ KindOf \in Products
    /\ \/ /\ NoInput /\ AtEnd
          /\ ReturnFinished
          /\ UNCHANGED reads
       \/ /\ NoInput /\ ~AtEnd
          /\ Goto("visit")
          /\ UNCHANGED <<required, state, query, reads>>
       \/ /\ ~NoInput
          /\ SetQuery(Scanning(Q, Source))
          /\ Observe(cur, Missing(Source))
          /\ Goto("visit")
          /\ UNCHANGED <<required, state>>
    /\ UNCHANGED <<holderVars, dataVars, bornAt, original, edit>>

\* A join locks and scans the group its input selects.
PulledJoin ==
    LET group == Container(Q.atoms, stage, Q.channel) IN
    /\ pc = "pulled" /\ KindOf \in Joins
    /\ SetQuery(Scanning(KeepInput, group))
    /\ AcquireShared(cur, {group})
    /\ Observe(cur, Missing(group))
    /\ Goto("visit")
    /\ UNCHANGED <<required, dataVars, state, bornAt, original, edit>>

\* The order of a scan is fixed but arbitrary.
Visited == CHOOSE x \in Q.iter[stage] : TRUE
AdvancedMutant == Q
Advanced == [Q EXCEPT !.iter[stage] = @ \ {Visited}]

Visit ==
    /\ pc = "visit" /\ Q.iter[stage] # {} /\ stage \notin Q.stale
    /\ \/ /\ ~PermitsRead(Visited, cur)
          /\ Suspend({Visited})
          /\ UNCHANGED <<query, reads>>
       \/ /\ PermitsRead(Visited, cur) /\ Visited \in alive
          /\ Observe(cur, {Visited})
          /\ ReturnOK([Advanced EXCEPT !.channel = Bind(Q.atoms, stage, @, Visited)])
       \/ /\ PermitsRead(Visited, cur) /\ Visited \notin alive
          /\ Observe(cur, {Visited})
          /\ SetQuery(Advanced)
          /\ Goto(IF KindOf \in Joins THEN "visit" ELSE "next")
          /\ UNCHANGED required
    /\ UNCHANGED <<holderVars, dataVars, state, bornAt, original, edit>>

\* A stale iterator is never at its end: the table has grown beyond its index.
\* The bucket there is empty, or the scan goes on with what the new table
\* happens to hold from there on.
VisitStale ==
    /\ pc = "visit" /\ stage \in Q.stale
    /\ \/ Goto("undefined") /\ UNCHANGED query
       \/ /\ \E rest \in SUBSET Members(Source, tuples) \ {{}} :
               SetQuery([Q EXCEPT !.iter[stage] = rest, !.stale = @ \ {stage}])
          /\ UNCHANGED controlVars
    /\ UNCHANGED <<lockVars, dataVars, txVars, edit>>

\* A join is through with its group and pulls again.
VisitEndJoin ==
    /\ pc = "visit" /\ AtEnd /\ KindOf \in Joins
    /\ SetQuery(DropInput)
    /\ Goto("next")
    /\ UNCHANGED <<lockVars, dataVars, txVars, edit>>

\* A product with input dereferences begin() of its container unchecked: of an
\* empty one it is the end.  Nothing is said about what the program does next.
VisitEndProduct ==
    /\ pc = "visit" /\ AtEnd /\ KindOf \in Products
    /\ Goto("undefined")
    /\ UNCHANGED <<lockVars, dataVars, txVars, jobVars>>

-----------------------------------------------------------------------------
(* RESUME, and what on_control does with a suspended transaction. *)

\* Transaction::resume from where the operation was suspended.  A query is
\* re-entered at its last stage.
Reenter(t) ==
    /\ ClearRequired(t)
    /\ cur' = t
    /\ stack' = <<>> /\ visited' = {}
    /\ \/ /\ state[t] = "EXECUTING_QUERY"
          /\ pc' = "next" /\ stage' = Len(query[t].atoms)
       \/ /\ state[t] \in {"EXECUTING_ADD", "EXECUTING_DELETE"}
          /\ pc' = "edit" /\ stage' = 0

Resume(t) ==
    /\ pc = "idle" /\ state[t] \in Executing
    /\ Reenter(t)
    /\ UNCHANGED <<holderVars, dataVars, txVars, jobVars>>

ResumeRefused(t) ==
    /\ state[t] \in {"READY", "COMMITTED", "ABORTED"}
    /\ Refuse(t)

DetectStart ==
    /\ pc = "detect" /\ stack = <<>>
    /\ StartSearch(cur)
    /\ UNCHANGED <<lockVars, dataVars, txVars, jobVars, pc, cur, stage>>

DetectFollow ==
    /\ pc = "detect" /\ stack # <<>>
    /\ \E e \in NextEdges(Top) :
        \/ FoundCycle(e) /\ Goto("deadlock")
        \/ Descend(e) /\ UNCHANGED <<pc, cur, stage>>
    /\ UNCHANGED <<lockVars, dataVars, txVars, jobVars>>

\* The last call returns: no cycle, and the transaction is left suspended.
DetectBacktrack ==
    /\ pc = "detect" /\ stack # <<>>
    /\ \/ Len(stack) > 1 /\ Backtrack /\ UNCHANGED <<pc, cur, stage>>
       \/ Len(stack) = 1 /\ Top.todo = {} /\ Return
    /\ UNCHANGED <<lockVars, dataVars, txVars, jobVars>>

\* If the victim is not the transaction whose command is running, that one is
\* resumed.
AfterRollbackMutant(victim) == Reenter(cur)
AfterRollback(victim) ==
    \/ victim = cur /\ Return /\ UNCHANGED required
    \/ victim # cur /\ Reenter(cur)

\* The youngest member of the reported cycle is rolled back.
AbortVictim ==
    /\ pc = "deadlock"
    /\ \E victim \in OnStack :
        /\ \A t \in OnStack : bornAt[t] <= bornAt[victim]
        /\ Abort(victim)
        /\ AfterRollback(victim)

-----------------------------------------------------------------------------

Command(t) ==
    \/ Begin(t)
    \/ Commit(t) \/ CommitSuspended(t) \/ CommitFinished(t)
    \/ Rollback(t)
    \/ \E r \in RelName, batch \in Batches : Add(t, r, batch) \/ Delete(t, r, batch)
    \/ \E r \in RelName : AddRefused(t, r)
    \/ StartRefused(t)
    \/ \E atoms \in Queries : StartQuery(t, atoms) \/ QueryNoRelation(t, atoms)
    \/ Resume(t) \/ ResumeRefused(t)

\* The steps of a running command.
Internal ==
    \/ CheckRelation \/ EditTuple \/ EditRefusedByGroup \/ EditRefusedByTuple
    \/ FinishEdit
    \/ GetTuple \/ NextConstConst \/ NextPull \/ NextContinue
    \/ PulledConstConst \/ PulledFilter \/ PulledProduct \/ PulledJoin
    \/ Visit \/ VisitStale \/ VisitEndJoin \/ VisitEndProduct
    \/ DetectStart \/ DetectFollow \/ DetectBacktrack \/ AbortVictim

Next == Internal \/ \E t \in Tid : Command(t)

Spec == Init /\ [][Next]_vars
=============================================================================
