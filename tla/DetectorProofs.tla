--------------------------- MODULE DetectorProofs ---------------------------
(***************************************************************************)
(* The lock tables stay in step with the transactions, and undoing never   *)
(* overwrites the work of another.  Only transactions that wait are rolled *)
(* back by the detector, and tuples only change under the exclusive lock   *)
(* of a transaction that is alive.  All of this for every value of the     *)
(* constants.                                                              *)
(***************************************************************************)
EXTENDS DatabaseProofs, CommandHistory

-----------------------------------------------------------------------------
(* The locks. *)

\* A transaction that has not begun has changed nothing yet.
UnbegunClean ==
    \A t \in Tid, x \in Tuple : state[t] = "ABSENT" => original[t][x] = "none"

\* The inductive invariant: protection of undo depends on the lock tables, and
\* a transaction is protected from its first change on.
LocksInv == LocksAgree /\ UndoProtected /\ UnbegunClean

LEMMA InitLocksInv == Init => LocksInv
  BY DatabaseAssumption
  DEF Init, LocksInit, LocksInv, LocksAgree, HoldersAgree, ExclusiveAlone, FinishedHoldNothing,
      UndoProtected, UnbegunClean, Live, Executing

\* No transaction begins, is forgotten or ends.
SameLives ==
    \A u \in Tid : /\ state'[u] = "ABSENT" => state[u] = "ABSENT"
                   /\ state'[u] \in Live <=> state[u] \in Live

(* A step that leaves the locks alone. *)
LEMMA LocksKept ==
    ASSUME LocksInv, UNCHANGED <<holders, exclusive, held, original>>,
           tuples \subseteq tuples', SameLives
    PROVE  LocksInv'
  BY DEF LocksInv, LocksAgree, HoldersAgree, ExclusiveAlone, FinishedHoldNothing,
     UndoProtected, UnbegunClean, SameLives

(* A shared lock is only taken where nobody holds it exclusively. *)
LEMMA SharedTaken ==
    ASSUME TypeInv, LocksInv, NEW t \in Tid, NEW S \in SUBSET Lock, AcquireShared(t, S),
           S \cap exclusive = {}, state[t] \in Live, UNCHANGED original,
           tuples \subseteq tuples', SameLives
    PROVE  LocksInv'
  <1>1. /\ \A l \in Lock : holders'[l] = IF l \in S THEN holders[l] \cup {t} ELSE holders[l]
        /\ \A u \in Tid : held'[u] = IF u = t THEN held[u] \cup S ELSE held[u]
        /\ exclusive' = exclusive /\ exclusive \subseteq Tuple /\ Tuple \subseteq Lock
    BY LocksAreLocks DEF AcquireShared, TypeInv, TypeOK, LocksTypeOK
  <1>2. HoldersAgree'
    <2>1. ASSUME NEW u \in Tid, NEW l \in Lock PROVE u \in holders'[l] <=> l \in held'[u]
      <3>1. u \in holders[l] <=> l \in held[u]
        BY DEF LocksInv, LocksAgree, HoldersAgree
      <3> QED  BY <1>1, <3>1
    <2> QED  BY <2>1 DEF HoldersAgree
  <1>3. \A x \in exclusive : holders'[x] = holders[x]
    BY <1>1
  <1>4. ExclusiveAlone' /\ UndoProtected'
    BY <1>1, <1>3 DEF LocksInv, LocksAgree, ExclusiveAlone, UndoProtected, SameLives
  <1>5. FinishedHoldNothing' /\ UnbegunClean'
    BY <1>1 DEF LocksInv, LocksAgree, FinishedHoldNothing, UnbegunClean, SameLives
  <1> QED  BY <1>2, <1>4, <1>5 DEF LocksInv, LocksAgree

(* A transaction that ends gives back what it holds and disturbs nobody else. *)
LEMMA LocksReleased ==
    ASSUME TypeInv, LocksInv, NEW t \in Tid, ReleaseLocks(t),
           NEW s \in {"COMMITTED", "ABORTED"}, state' = [state EXCEPT ![t] = s],
           UNCHANGED <<tuples, original>>
    PROVE  LocksInv'
  <1>1. /\ \A l \in Lock : holders'[l] = IF l \in held[t] THEN holders[l] \ {t} ELSE holders[l]
        /\ \A u \in Tid : held'[u] = IF u = t THEN {} ELSE held[u]
        /\ exclusive' = exclusive \ held[t] /\ exclusive \subseteq Tuple /\ Tuple \subseteq Lock
        /\ \A u \in Tid : state'[u] = IF u = t THEN s ELSE state[u]
        /\ s \notin Live /\ s # "ABSENT"
    BY LocksAreLocks DEF ReleaseLocks, TypeInv, TypeOK, LocksTypeOK, Live, Executing
  <1>2. HoldersAgree'
    <2>1. ASSUME NEW u \in Tid, NEW l \in Lock PROVE u \in holders'[l] <=> l \in held'[u]
      <3>1. u \in holders[l] <=> l \in held[u]
        BY DEF LocksInv, LocksAgree, HoldersAgree
      <3> QED  BY <1>1, <3>1
    <2> QED  BY <2>1 DEF HoldersAgree
  <1>3. \A x \in exclusive' : x \in exclusive /\ holders'[x] = holders[x]
    BY <1>1
  <1>4. ExclusiveAlone'
    BY <1>3 DEF LocksInv, LocksAgree, ExclusiveAlone
  <1>5. FinishedHoldNothing' /\ UnbegunClean'
    BY <1>1 DEF LocksInv, LocksAgree, FinishedHoldNothing, UnbegunClean
  <1>6. ASSUME NEW u \in Tid, NEW x \in Tuple, state'[u] \in Live, original'[u][x] # "none"
        PROVE  x \in exclusive' /\ holders'[x] = {u} /\ x \in tuples'
    <2>1. u # t /\ x \in exclusive /\ holders[x] = {u} /\ x \in tuples'
      BY <1>1, <1>6 DEF LocksInv, UndoProtected
    <2>2. x \notin held[t]
      BY <1>1, <2>1 DEF LocksInv, LocksAgree, HoldersAgree
    <2> QED  BY <1>1, <2>1, <2>2
  <1>7. UndoProtected'
    BY <1>6 DEF UndoProtected
  <1> QED  BY <1>2, <1>4, <1>5, <1>7 DEF LocksInv, LocksAgree

-----------------------------------------------------------------------------
(* The steps of an edit. *)

(* A tuple is changed only by its one holder, who keeps it. *)
LEMMA LocksInvEditTuple ==
    ASSUME TypeInv, LocksInv, EditTuple
    PROVE  LocksInv'
  <1> DEFINE x == NextTuple(cur)
  <1>1. cur \in Tid /\ x \in Tuple /\ x \in Lock
    BY EditingType, LocksAreLocks DEF EditTuple
  <1>2. state[cur] \in Live /\ state' = state
    BY DEF EditTuple, AtTuple, TypeInv, ControlOK, Live, Executing
  <1> HIDE DEF x
  <1>3. /\ holders[x] \subseteq {cur} /\ AcquireExclusive(cur, x)
        /\ tuples' = tuples \cup {x}
        /\ \E status : Write(cur, x, status)
    BY DEF EditTuple, PermitsExclusive, EnsureTuple, x
  <1>4. /\ \A l \in Lock : holders'[l] = IF l = x THEN {cur} ELSE holders[l]
        /\ \A u \in Tid : held'[u] = IF u = cur THEN held[u] \cup {x} ELSE held[u]
        /\ exclusive' = exclusive \cup {x} /\ exclusive \subseteq Tuple /\ Tuple \subseteq Lock
    BY <1>1, <1>3, LocksAreLocks DEF AcquireExclusive, TypeInv, TypeOK, LocksTypeOK
  <1>5. HoldersAgree'
    <2>1. ASSUME NEW u \in Tid, NEW l \in Lock PROVE u \in holders'[l] <=> l \in held'[u]
      <3>1. u \in holders[l] <=> l \in held[u]
        BY DEF LocksInv, LocksAgree, HoldersAgree
      <3> QED  BY <1>1, <1>3, <1>4, <3>1
    <2> QED  BY <2>1 DEF HoldersAgree
  <1>6. ExclusiveAlone'
    BY <1>1, <1>4 DEF LocksInv, LocksAgree, ExclusiveAlone
  <1>7. FinishedHoldNothing'
    BY <1>1, <1>2, <1>4 DEF LocksInv, LocksAgree, FinishedHoldNothing
  <1>8. \A u \in Tid, y \in Tuple : original'[u][y] = original[u][y] \/ (u = cur /\ y = x)
    <2>1. original \in [Tid -> [Tuple -> Status]]
      BY DEF TypeInv, TypeOK
    <2>2. \/ original' = original
          \/ original' = [original EXCEPT ![cur][x] = IF @ = "none" THEN StatusIn(alive, x) ELSE @]
      BY <1>3 DEF Write, StoreOriginal
    <2> QED  BY <1>1, <2>1, <2>2
  <1>9. UndoProtected'
    BY <1>1, <1>2, <1>3, <1>4, <1>8 DEF LocksInv, UndoProtected
  <1>10. UnbegunClean'
    BY <1>2, <1>8 DEF LocksInv, UnbegunClean, Live, Executing
  <1> QED  BY <1>5, <1>6, <1>7, <1>9, <1>10 DEF LocksInv, LocksAgree

LEMMA LocksInvEdit ==
    ASSUME TypeInv, LocksInv,
           CheckRelation \/ EditTuple \/ EditRefusedByGroup \/ EditRefusedByTuple \/ FinishEdit
    PROVE  LocksInv'
  <1>1. CASE EditTuple
    BY <1>1, LocksInvEditTuple
  <1>2. CASE CheckRelation \/ EditRefusedByGroup \/ EditRefusedByTuple
    <2>1. UNCHANGED <<holders, exclusive, held, original, state>> /\ tuples \subseteq tuples'
      BY <1>2 DEF CheckRelation, EditRefusedByGroup, EditRefusedByTuple, EnsureTuple,
         holderVars, dataVars, txVars
    <2> QED  BY <2>1, LocksKept DEF SameLives
  <1>3. CASE FinishEdit
    <2>1. /\ UNCHANGED <<holders, exclusive, held, original, tuples>>
          /\ state' = [state EXCEPT ![cur] = "READY"]
      BY <1>3 DEF FinishEdit, holderVars, dataVars
    <2>2. cur \in Tid /\ state[cur] \in Executing /\ state \in [Tid -> State]
      BY <1>3 DEF FinishEdit, TypeInv, ControlOK, TypeOK, Executing
    <2> QED  BY <2>1, <2>2, LocksKept DEF SameLives, Live, Executing
  <1> QED  BY <1>1, <1>2, <1>3

-----------------------------------------------------------------------------
(* The steps of a query. *)

(* Its stages take tuple locks they may read, and locks of containers. *)
LEMMA LocksInvQuery ==
    ASSUME TypeInv, LocksInv,
           \/ GetTuple \/ NextConstConst \/ NextPull \/ NextContinue
           \/ PulledConstConst \/ PulledFilter \/ PulledProduct \/ PulledJoin
           \/ Visit \/ VisitStale \/ VisitEndJoin \/ VisitEndProduct
    PROVE  LocksInv'
  <1>1. /\ pc \in {"next", "pulled", "visit"}
        /\ cur \in Tid /\ Target \in Tuple /\ Target \in Lock
        /\ stage \in DOMAIN Q.atoms /\ Q.atoms \in Seq(Atom) /\ Q.channel \in [Var -> Value]
    <2>1. pc \in {"next", "pulled", "visit"}
      BY DEF GetTuple, NextConstConst, NextPull, NextContinue, PulledConstConst, PulledFilter,
         PulledProduct, PulledJoin, Visit, VisitStale, VisitEndJoin, VisitEndProduct
    <2> QED  BY <2>1, RunningType, QueriesType, LocksAreLocks
  <1>2. state[cur] \in Executing /\ state \in [Tid -> State] /\ exclusive \subseteq Tuple
    BY <1>1 DEF TypeInv, TypeOK, ControlOK, LocksTypeOK, Executing
  <1>3. ASSUME state' = state \/ state' = [state EXCEPT ![cur] = "READY"] PROVE SameLives
    BY <1>1, <1>2, <1>3 DEF SameLives, Live, Executing
  <1>4. /\ UNCHANGED <<original>> /\ tuples \subseteq tuples'
        /\ state' = state \/ state' = [state EXCEPT ![cur] = "READY"]
    BY DEF GetTuple, EnsureTuple, NextConstConst, NextPull, NextContinue, PulledConstConst,
       PulledFilter, PulledProduct, PulledJoin, Visit, VisitStale, VisitEndJoin, VisitEndProduct,
       ReturnFinished, dataVars, txVars
  <1>5. CASE UNCHANGED holderVars
    BY <1>3, <1>4, <1>5, LocksKept DEF holderVars
  <1>6. CASE NextConstConst
    <2>1. CASE AcquireShared(cur, {Target}) /\ cur \notin holders[Target] /\ PermitsRead(Target, cur)
      <3>1. Target \notin exclusive
        BY <2>1 DEF PermitsRead
      <3> QED  BY <1>1, <1>2, <1>3, <1>4, <2>1, <3>1, SharedTaken DEF Live
    <2> QED  BY <1>5, <1>6, <2>1 DEF NextConstConst
  <1>7. CASE PulledJoin
    <2> DEFINE group == Container(Q.atoms, stage, Q.channel)
    <2>1. group \in Lock /\ group \notin Tuple
      BY <1>1, <1>7, ContainerType, ContainerIsNoTuple DEF PulledJoin, KindOf, Joins
    <2>2. AcquireShared(cur, {group})
      BY <1>7 DEF PulledJoin
    <2> QED  BY <1>1, <1>2, <1>3, <1>4, <2>1, <2>2, SharedTaken DEF Live
  <1>8. CASE ~(NextConstConst \/ PulledJoin)
    <2>1. UNCHANGED holderVars
      BY <1>8 DEF GetTuple, NextPull, NextContinue, PulledConstConst, PulledFilter, PulledProduct,
         Visit, VisitStale, VisitEndJoin, VisitEndProduct, lockVars, holderVars
    <2> QED  BY <1>5, <2>1
  <1> QED  BY <1>6, <1>7, <1>8

-----------------------------------------------------------------------------
(* Commands, the search for a deadlock and its victims. *)

LEMMA LocksInvDetect ==
    ASSUME TypeInv, LocksInv, DetectStart \/ DetectFollow \/ DetectBacktrack \/ AbortVictim
    PROVE  LocksInv'
  <1>1. CASE DetectStart \/ DetectFollow \/ DetectBacktrack
    <2>1. UNCHANGED <<holders, exclusive, held, original, state, tuples>>
      BY <1>1 DEF DetectStart, DetectFollow, DetectBacktrack, lockVars, dataVars, txVars
    <2> QED  BY <2>1, LocksKept DEF SameLives
  <1>2. CASE AbortVictim
    <2>1. PICK victim \in Tid : Abort(victim)
      BY <1>2, StackType DEF AbortVictim, TypeInv
    <2> QED  BY <2>1, LocksReleased DEF Abort
  <1> QED  BY <1>1, <1>2

LEMMA LocksInvCommands ==
    ASSUME TypeInv, LocksInv, NEW t \in Tid, Command(t)
    PROVE  LocksInv'
  <1>1. state \in [Tid -> State] /\ exclusive \subseteq Tuple
    BY DEF TypeInv, TypeOK, LocksTypeOK
  <1>2. CASE Begin(t)
    <2>1. /\ UNCHANGED <<holders, exclusive, held, original, tuples>>
          /\ state[t] = "ABSENT" /\ state' = [state EXCEPT ![t] = "READY"]
      BY <1>2 DEF Begin, lockVars, dataVars
    <2> QED
      BY <1>1, <2>1 DEF LocksInv, LocksAgree, HoldersAgree, ExclusiveAlone, FinishedHoldNothing,
         UndoProtected, UnbegunClean, Live
  <1>3. CASE Commit(t)
    BY <1>3, LocksReleased DEF Commit, dataVars
  <1>4. CASE Rollback(t)
    BY <1>4, LocksReleased DEF Rollback, Abort
  <1>5. ASSUME NEW r \in RelName, NEW batch \in Batches, Add(t, r, batch) \/ Delete(t, r, batch)
        PROVE  LocksInv'
    <2>1. PICK s \in Executing : StartEdit(t, r, batch, s)
      BY <1>5 DEF Add, Delete, Executing
    <2> QED
      BY <1>1, <2>1, LocksKept DEF StartEdit, lockVars, SameLives, Live, Executing
  <1>6. ASSUME NEW atoms \in Queries, StartQuery(t, atoms) PROVE LocksInv'
    <2>1. /\ SetupLocks(atoms, ZeroChannel) \subseteq Lock
          /\ SetupLocks(atoms, ZeroChannel) \cap exclusive = {}
      BY <1>1, SetupLocksType, SetupLocksAreNoTuples, ZeroChannelType, QueriesType
    <2>2. /\ AcquireShared(t, SetupLocks(atoms, ZeroChannel))
          /\ UNCHANGED <<original, tuples>>
          /\ state[t] = "READY" /\ state' = [state EXCEPT ![t] = "EXECUTING_QUERY"]
      BY <1>6 DEF StartQuery, dataVars
    <2>3. SameLives /\ state[t] \in Live
      BY <1>1, <2>2 DEF SameLives, Live, Executing
    <2> QED  BY <2>1, <2>2, <2>3, SharedTaken
  <1>7. ASSUME \/ CommitSuspended(t) \/ Refuse(t) \/ Resume(t)
               \/ \E r \in RelName : AddRefused(t, r)
        PROVE  LocksInv'
    <2>1. UNCHANGED <<holders, exclusive, held, original, state, tuples>>
      BY <1>7 DEF CommitSuspended, Refuse, Resume, AddRefused, lockVars, holderVars, dataVars, txVars
    <2> QED  BY <2>1, LocksKept DEF SameLives
  <1> QED
    BY <1>2, <1>3, <1>4, <1>5, <1>6, <1>7
    DEF Command, CommitFinished, StartRefused, QueryNoRelation, ResumeRefused

LEMMA LocksInvStep ==
    ASSUME TypeInv, LocksInv, [Next]_vars
    PROVE  LocksInv'
  <1>1. CASE Internal
    BY <1>1, LocksInvEdit, LocksInvQuery, LocksInvDetect DEF Internal
  <1>2. CASE \E t \in Tid : Command(t)
    BY <1>2, LocksInvCommands
  <1>3. CASE UNCHANGED vars
    BY <1>3, LocksKept DEF vars, lockVars, dataVars, txVars, SameLives
  <1> QED  BY <1>1, <1>2, <1>3 DEF Next

LEMMA LocksInvHolds == Spec => []LocksInv
  BY InitLocksInv, TypeInvHolds, LocksInvStep, PTL DEF Spec

(* What every lock records of its holders and what every transaction records  *)
(* of its locks agree, an exclusive holder is alone and a transaction that    *)
(* has ended holds nothing: every lock is given back once, in the mode it was *)
(* taken, also after an upgrade and whatever the client rolls back.           *)
THEOREM LocksCorrect == Spec => []LocksAgree
  <1>1. LocksInv => LocksAgree
    BY DEF LocksInv
  <1> QED  BY <1>1, LocksInvHolds, PTL

(* A live transaction holds alone, and exclusively, every tuple it would      *)
(* restore, so a rollback never overwrites the work of another transaction.   *)
THEOREM UndoCorrect == Spec => []UndoProtected
  <1>1. LocksInv => UndoProtected
    BY DEF LocksInv
  <1> QED  BY <1>1, LocksInvHolds, PTL

-----------------------------------------------------------------------------
(* The detector. *)

\* A transaction that is not executing anything waits for no lock.
ReadyWaitsForNothing ==
    \A t \in Tid : state[t] \in {"ABSENT", "READY"} => required[t] = {}

\* The active calls of a search are for live transactions and try edges of the
\* waits-for graph; but for the topmost, each is following one of its edges.
FrameOK(f) == f.todo \subseteq WaitEdges(f.tid) /\ state[f.tid] \in Live
StackFollowsEdges ==
    /\ pc \notin {"detect", "deadlock"} => stack = <<>>
    /\ \A i \in 1 .. Len(stack) :
        /\ FrameOK(stack[i])
        /\ i # Len(stack) \/ pc = "deadlock" => required[stack[i].tid] # {}

SearchInv == ReadyWaitsForNothing /\ StackFollowsEdges

LEMMA InitSearchInv == Init => SearchInv
  BY DEF Init, LocksInit, SearchInv, ReadyWaitsForNothing, StackFollowsEdges

(* What a step may do to the locks its transactions wait for. *)
LEMMA WaitsKept ==
    ASSUME SearchInv,
           \A u \in Tid :
               \/ required'[u] = {}
               \/ state'[u] \notin {"ABSENT", "READY"}
               \/ /\ required'[u] = required[u]
                  /\ state'[u] = state[u]
    PROVE  ReadyWaitsForNothing'
  BY DEF SearchInv, ReadyWaitsForNothing

(* No search is going on after the step. *)
LEMMA NoSearch ==
    ASSUME stack' = <<>>
    PROVE  StackFollowsEdges'
  BY DEF StackFollowsEdges

-----------------------------------------------------------------------------

LEMMA SearchInvCommands ==
    ASSUME TypeInv, SearchInv, NEW t \in Tid, Command(t)
    PROVE  SearchInv'
  <1> USE DEF SearchInv
  <1>1. /\ pc = "idle" /\ stack = <<>>
        /\ state \in [Tid -> State] /\ required \in [Tid -> SUBSET Lock]
    BY DEF Command, Begin, Commit, CommitSuspended, CommitFinished, Rollback, Add, Delete, StartEdit,
       AddRefused, StartRefused, StartQuery, QueryNoRelation, Resume, ResumeRefused, Refuse,
       StackFollowsEdges, TypeInv, TypeOK, LocksTypeOK
  <1>2. CASE Begin(t)
    <2>1. /\ UNCHANGED <<required, stack>>
          /\ state[t] = "ABSENT" /\ state' = [state EXCEPT ![t] = "READY"]
      BY <1>2 DEF Begin, lockVars, controlVars
    <2>2. ReadyWaitsForNothing'
      BY <1>1, <2>1 DEF ReadyWaitsForNothing
    <2> QED  BY <1>1, <2>1, <2>2, NoSearch
  <1>3. CASE Commit(t)
    <2>1. required' = [required EXCEPT ![t] = {}] /\ state' = [state EXCEPT ![t] = "COMMITTED"] /\ stack' = <<>>
      BY <1>3 DEF Commit, Finish, Return, ClearRequired
    <2>2. ReadyWaitsForNothing'
      BY <1>1, <2>1, WaitsKept
    <2> QED  BY <2>1, <2>2, NoSearch
  <1>4. CASE Rollback(t)
    <2>1. UNCHANGED <<required, stack>> /\ state' = [state EXCEPT ![t] = "ABORTED"]
      BY <1>4 DEF Rollback, Abort, controlVars
    <2>2. ReadyWaitsForNothing'
      BY <1>1, <2>1, WaitsKept
    <2> QED  BY <1>1, <2>1, <2>2, NoSearch
  <1>5. ASSUME \/ \E r \in RelName, batch \in Batches : Add(t, r, batch) \/ Delete(t, r, batch)
               \/ \E atoms \in Queries : StartQuery(t, atoms)
        PROVE  SearchInv'
    <2>1. /\ UNCHANGED <<required, stack>>
          /\ \E s \in Executing : state' = [state EXCEPT ![t] = s]
      BY <1>5 DEF Add, Delete, StartEdit, StartQuery, lockVars, Executing
    <2>2. ReadyWaitsForNothing'
      BY <1>1, <2>1, WaitsKept DEF Executing
    <2> QED  BY <1>1, <2>1, <2>2, NoSearch
  <1>6. ASSUME \/ CommitSuspended(t) \/ Refuse(t) \/ Resume(t)
               \/ \E r \in RelName : AddRefused(t, r)
        PROVE  SearchInv'
    <2>1. /\ required' = required \/ required' = [required EXCEPT ![t] = {}]
          /\ state' = state /\ stack' = <<>>
      BY <1>1, <1>6 DEF CommitSuspended, Refuse, Resume, Reenter, AddRefused, Finish, Return,
         ClearRequired, lockVars, txVars
    <2>2. ReadyWaitsForNothing'
      BY <1>1, <2>1, WaitsKept
    <2> QED  BY <2>1, <2>2, NoSearch
  <1> QED
    BY <1>2, <1>3, <1>4, <1>5, <1>6
    DEF Command, CommitFinished, StartRefused, QueryNoRelation, ResumeRefused

(* The steps of an edit or a query: the transaction goes on, is suspended on   *)
(* the locks that were refused, or is done and waits for nothing.             *)
LEMMA SearchInvWork ==
    ASSUME TypeInv, SearchInv,
           \/ CheckRelation \/ EditTuple \/ EditRefusedByGroup \/ EditRefusedByTuple \/ FinishEdit
           \/ GetTuple \/ NextConstConst \/ NextPull \/ NextContinue
           \/ PulledConstConst \/ PulledFilter \/ PulledProduct \/ PulledJoin
           \/ Visit \/ VisitStale \/ VisitEndJoin \/ VisitEndProduct
    PROVE  SearchInv'
  <1> DEFINE Goes  == UNCHANGED <<state, required, stack>>
             Waits == UNCHANGED <<state, stack>> /\ \E S : Require(cur, S)
             Finished  == Finish(cur) /\ state' = [state EXCEPT ![cur] = "READY"]
  <1>1. pc \in {"edit", "edit_tuples", "next", "pulled", "visit"}
    BY DEF CheckRelation, EditTuple, EditRefusedByGroup, EditRefusedByTuple, FinishEdit, AtTuple,
       GetTuple, NextConstConst, NextPull, NextContinue, PulledConstConst, PulledFilter,
       PulledProduct, PulledJoin, Visit, VisitStale, VisitEndJoin, VisitEndProduct
  <1>2. /\ cur \in Tid /\ state[cur] \in Executing /\ stack = <<>>
        /\ state \in [Tid -> State] /\ required \in [Tid -> SUBSET Lock]
    BY <1>1 DEF TypeInv, TypeOK, ControlOK, LocksTypeOK, Executing, SearchInv, StackFollowsEdges
  <1>3. Goes \/ Waits \/ Finished
    <2>1. CASE CheckRelation \/ EditTuple \/ EditRefusedByGroup \/ EditRefusedByTuple \/ FinishEdit
      BY <2>1 DEF CheckRelation, EditTuple, EditRefusedByGroup, EditRefusedByTuple, FinishEdit,
         Goto, Suspend, txVars, controlVars
    <2>2. CASE GetTuple \/ NextConstConst \/ NextPull \/ NextContinue
      BY <2>2 DEF GetTuple, NextConstConst, NextPull, NextContinue, CallPrevious, ReturnFinished,
         Goto, Suspend, lockVars, txVars, controlVars
    <2>3. CASE PulledConstConst \/ PulledFilter \/ PulledProduct \/ PulledJoin
      BY <2>3 DEF PulledConstConst, PulledFilter, PulledProduct, PulledJoin, ReturnOK, ReturnFinished,
         Goto, Suspend, txVars
    <2>4. CASE Visit \/ VisitStale \/ VisitEndJoin \/ VisitEndProduct
      BY <2>4 DEF Visit, VisitStale, VisitEndJoin, VisitEndProduct, ReturnOK,
         Goto, Suspend, lockVars, txVars, controlVars
    <2> QED  BY <2>1, <2>2, <2>3, <2>4
  <1>4. CASE Goes
    BY <1>2, <1>4, WaitsKept, NoSearch DEF SearchInv
  <1>5. CASE Waits
    <2>1. ReadyWaitsForNothing'
      BY <1>2, <1>5, WaitsKept DEF Require, Executing
    <2> QED  BY <1>2, <1>5, <2>1, NoSearch DEF SearchInv
  <1>6. CASE Finished
    <2>1. ReadyWaitsForNothing'
      BY <1>2, <1>6, WaitsKept DEF Finish, ClearRequired
    <2> QED  BY <1>6, <2>1, NoSearch DEF SearchInv, Finish, Return
  <1> QED  BY <1>3, <1>4, <1>5, <1>6

-----------------------------------------------------------------------------
(* The search. *)

(* Whoever holds a lock is alive. *)
LEMMA HoldersLive ==
    ASSUME TypeInv, LocksInv, NEW l \in Lock, NEW u \in holders[l]
    PROVE  u \in Tid /\ state[u] \in Live
  BY DEF TypeInv, TypeOK, LocksTypeOK, LocksInv, LocksAgree, HoldersAgree, FinishedHoldNothing

(* The new call is for a live transaction and starts with all its edges. *)
LEMMA CallOK ==
    ASSUME NEW t \in Tid, state[t] \in Live
    PROVE  FrameOK(Call(t)) /\ Call(t).tid = t
  BY DEF FrameOK, Call

(* The edge the topmost call tries next leads to a live transaction. *)
LEMMA NextEdgeOK ==
    ASSUME TypeInv, LocksInv, SearchInv, stack # <<>>, NEW e \in NextEdges(Top)
    PROVE  /\ e \in Edge /\ e.tid \in Tid /\ state[e.tid] \in Live
           /\ required[Top.tid] # {}
  <1>1. stack \in Seq(Frame) /\ Len(stack) \in Nat \ {0}
    BY DEF TypeInv, TypeOK
  <1>2. e \in Top.todo
    BY DEF NextEdges
  <1>3. Top.todo \subseteq WaitEdges(Top.tid)
    BY <1>1 DEF SearchInv, StackFollowsEdges, FrameOK, Top
  <1>4. Top \in Frame
    BY <1>1 DEF Top
  <1>5. e.lock \in required[Top.tid] /\ e.lock \in Lock /\ e.tid \in holders[e.lock]
    BY <1>2, <1>3, <1>4 DEF WaitEdges, Frame, Edge
  <1> QED  BY <1>2, <1>4, <1>5, HoldersLive DEF Frame

(* The stack after a nested call along the edge e: the topmost call has tried *)
(* e and the new call is above it.                                            *)
LEMMA FollowStack ==
    ASSUME TypeInv, stack # <<>>, NEW e \in Edge, stack' = Append(Follow(e), Call(e.tid))
    PROVE  LET n == Len(stack)
           IN  /\ Len(stack') = n + 1 /\ stack'[n + 1] = Call(e.tid)
               /\ \A i \in 1 .. n : stack'[i] =
                    IF i = n THEN [stack[n] EXCEPT !.todo = @ \ {e}, !.lock = e.lock] ELSE stack[i]
  <1> DEFINE n == Len(stack)
             top == [stack[n] EXCEPT !.todo = @ \ {e}, !.lock = e.lock]
             below == [stack EXCEPT ![n] = top]
  <1>1. stack \in Seq(Frame) /\ n \in Nat \ {0} /\ stack[n] \in Frame
    BY DEF TypeInv, TypeOK
  <1>2. top \in Frame
    BY <1>1 DEF Frame, Edge
  <1>3. below \in Seq(Frame) /\ Len(below) = n
    BY <1>1, <1>2, ExceptSeq
  <1>4. \A i \in 1 .. n : below[i] = IF i = n THEN top ELSE stack[i]
    BY <1>1
  <1>5. Call(e.tid) \in Frame
    BY StackType DEF TypeInv, Edge
  <1>6. stack' = Append(below, Call(e.tid))
    BY <1>1 DEF Follow
  <1> HIDE DEF below
  <1> QED  BY <1>1, <1>3, <1>4, <1>5, <1>6, AppendProperties

LEMMA SearchInvDetect ==
    ASSUME TypeInv, LocksInv, SearchInv, DetectStart \/ DetectFollow \/ DetectBacktrack
    PROVE  SearchInv'
  <1>1. /\ UNCHANGED <<holders, required, state>> /\ pc = "detect"
        /\ cur \in Tid /\ state[cur] \in Live /\ stack \in Seq(Frame)
    BY DEF DetectStart, DetectFollow, DetectBacktrack, lockVars, txVars, TypeInv, ControlOK, TypeOK, Live
  <1>2. ReadyWaitsForNothing'
    BY <1>1, WaitsKept
  <1>3. \A f : FrameOK(f)' <=> f.todo \subseteq WaitEdges(f.tid) /\ state[f.tid] \in Live
    BY <1>1 DEF FrameOK, WaitEdges
  <1>4. \A i \in 1 .. Len(stack) :
            FrameOK(stack[i]) /\ (i # Len(stack) => required[stack[i].tid] # {})
    BY DEF SearchInv, StackFollowsEdges
  <1>5. CASE DetectStart
    <2>1. stack' = <<Call(cur)>> /\ pc' = "detect"
      BY <1>1, <1>5 DEF DetectStart, StartSearch
    <2>2. Len(stack') = 1 /\ stack'[1] = Call(cur)
      BY <2>1
    <2>3. FrameOK(Call(cur))
      BY <1>1, CallOK
    <2>4. StackFollowsEdges'
      BY <1>1, <1>3, <2>1, <2>2, <2>3 DEF StackFollowsEdges, FrameOK, WaitEdges
    <2> QED  BY <1>2, <2>4 DEF SearchInv
  <1>6. CASE DetectFollow
    <2>1. Len(stack) \in Nat \ {0}
      BY <1>1, <1>6 DEF DetectFollow
    <2>2. PICK e \in NextEdges(Top) :
            \/ FoundCycle(e) /\ Goto("deadlock")
            \/ Descend(e) /\ UNCHANGED <<pc, cur, stage>>
      BY <1>6 DEF DetectFollow
    <2>3. /\ e \in Edge /\ e.tid \in Tid /\ state[e.tid] \in Live
          /\ required[stack[Len(stack)].tid] # {}
      BY <2>1, <2>2, NextEdgeOK DEF Top
    <2>4. CASE Goto("deadlock")
      <3>1. stack' = stack /\ pc' = "deadlock"
        BY <2>4 DEF Goto
      <3>2. StackFollowsEdges'
        BY <1>1, <1>4, <2>3, <3>1 DEF StackFollowsEdges, FrameOK, WaitEdges
      <3> QED  BY <1>2, <3>2 DEF SearchInv
    <2>5. CASE Descend(e) /\ UNCHANGED pc
      <3> DEFINE n == Len(stack)
                 top == [stack[n] EXCEPT !.todo = @ \ {e}, !.lock = e.lock]
      <3>1. stack[n] \in Frame /\ stack[n].todo \ {e} \subseteq WaitEdges(stack[n].tid)
        BY <1>1, <1>4, <2>1 DEF FrameOK
      <3>2. top.todo = stack[n].todo \ {e} /\ top.tid = stack[n].tid
        BY <3>1 DEF Frame
      <3>5. FrameOK(top)
        BY <1>4, <2>1, <3>1, <3>2 DEF FrameOK
      <3>7. /\ Len(stack') = n + 1 /\ stack'[n + 1] = Call(e.tid)
            /\ \A i \in 1 .. n : stack'[i] = IF i = n THEN top ELSE stack[i]
        BY <1>6, <2>3, <2>5, FollowStack DEF DetectFollow, Descend
      <3>8. FrameOK(Call(e.tid))
        BY <2>3, CallOK
      <3> HIDE DEF top
      <3>9. ASSUME NEW i \in 1 .. Len(stack')
            PROVE  FrameOK(stack'[i]) /\ (i # Len(stack') => required[stack'[i].tid] # {})
        <4>1. CASE i = n + 1
          BY <2>1, <3>7, <3>8, <4>1
        <4>2. CASE i = n
          BY <2>1, <2>3, <3>2, <3>5, <3>7, <4>2
        <4>3. CASE i \in 1 .. (n - 1)
          <5>1. i \in 1 .. n /\ i # n
            BY <2>1, <4>3
          <5>2. stack'[i] = stack[i]
            BY <3>7, <5>1
          <5>3. FrameOK(stack[i]) /\ required[stack[i].tid] # {}
            BY <1>4, <5>1
          <5> QED  BY <5>2, <5>3
        <4> QED  BY <2>1, <3>7, <4>1, <4>2, <4>3
      <3>10. StackFollowsEdges'
        BY <1>1, <2>5, <3>9 DEF StackFollowsEdges, FrameOK, WaitEdges
      <3> QED  BY <1>2, <3>10 DEF SearchInv
    <2> QED  BY <2>2, <2>4, <2>5
  <1>7. CASE DetectBacktrack
    <2>1. CASE Return
      BY <1>2, <2>1, NoSearch DEF Return, SearchInv
    <2>2. CASE Len(stack) > 1 /\ Backtrack /\ UNCHANGED pc
      <3>1. /\ Len(stack') = Len(stack) - 1
            /\ \A i \in 1 .. (Len(stack) - 1) : stack'[i] = stack[i]
        BY <1>1, <2>2, SubSeqProperties DEF Backtrack, Pop
      <3>2. StackFollowsEdges'
        BY <1>1, <1>4, <2>2, <3>1 DEF StackFollowsEdges, FrameOK, WaitEdges
      <3> QED  BY <1>2, <3>2 DEF SearchInv
    <2> QED  BY <1>7, <2>1, <2>2 DEF DetectBacktrack
  <1> QED  BY <1>5, <1>6, <1>7

(* The search is over once its victim is rolled back. *)
LEMMA SearchInvAbortVictim ==
    ASSUME TypeInv, SearchInv, AbortVictim
    PROVE  SearchInv'
  <1>1. PICK victim \in Tid : Abort(victim) /\ AfterRollback(victim)
    BY StackType DEF AbortVictim, TypeInv
  <1>2. /\ cur \in Tid /\ state \in [Tid -> State] /\ required \in [Tid -> SUBSET Lock]
        /\ state' = [state EXCEPT ![victim] = "ABORTED"]
    BY <1>1 DEF AbortVictim, Abort, TypeInv, TypeOK, LocksTypeOK, ControlOK
  <1>3. /\ required' = required \/ required' = [required EXCEPT ![cur] = {}]
        /\ stack' = <<>>
    BY <1>1 DEF AfterRollback, Return, Reenter, ClearRequired
  <1>4. ReadyWaitsForNothing'
    BY <1>2, <1>3, WaitsKept
  <1> QED  BY <1>3, <1>4, NoSearch DEF SearchInv

LEMMA SearchInvStep ==
    ASSUME TypeInv, LocksInv, SearchInv, [Next]_vars
    PROVE  SearchInv'
  <1>1. CASE Internal
    BY <1>1, SearchInvWork, SearchInvDetect, SearchInvAbortVictim DEF Internal
  <1>2. CASE \E t \in Tid : Command(t)
    BY <1>2, SearchInvCommands
  <1>3. CASE UNCHANGED vars
    BY <1>3 DEF vars, lockVars, txVars, controlVars, SearchInv, ReadyWaitsForNothing,
       StackFollowsEdges, FrameOK, WaitEdges
  <1> QED  BY <1>1, <1>2, <1>3 DEF Next

LEMMA SearchInvHolds == Spec => []SearchInv
  BY InitSearchInv, TypeInvHolds, LocksInvHolds, SearchInvStep, PTL DEF Spec

-----------------------------------------------------------------------------
(* What follows for the steps of the database. *)

(* Every member of a reported cycle is suspended. *)
LEMMA VictimWaits ==
    ASSUME TypeInv, SearchInv, AbortVictim
    PROVE  \E victim \in Tid : state[victim] \in Executing /\ Abort(victim)
  <1>1. PICK victim \in OnStack : Abort(victim)
    BY DEF AbortVictim
  <1>2. PICK i \in DOMAIN stack : victim = stack[i].tid
    BY DEF OnStack
  <1>3. i \in 1 .. Len(stack) /\ pc = "deadlock"
    BY DEF AbortVictim, TypeInv, TypeOK
  <1>4. victim \in Tid /\ state[victim] \in Live /\ required[victim] # {}
    BY <1>1, <1>2, <1>3, StackType DEF SearchInv, StackFollowsEdges, FrameOK, TypeInv
  <1>5. state[victim] \in Executing
    BY <1>4 DEF SearchInv, ReadyWaitsForNothing, Live
  <1> QED  BY <1>1, <1>4, <1>5

(* The steps that leave the states of all transactions but one alone. *)
LEMMA OnlyRunningChanges ==
    ASSUME TypeInv, Internal, ~AbortVictim
    PROVE  /\ state' = state \/ state' = [state EXCEPT ![cur] = "READY"]
           /\ EditTuple \/ alive' = alive
  <1>1. CASE CheckRelation \/ EditTuple \/ EditRefusedByGroup \/ EditRefusedByTuple \/ FinishEdit
    BY <1>1 DEF CheckRelation, EditTuple, EditRefusedByGroup, EditRefusedByTuple, FinishEdit,
       dataVars, txVars
  <1>2. CASE GetTuple \/ NextConstConst \/ NextPull \/ NextContinue
    BY <1>2 DEF GetTuple, NextConstConst, NextPull, NextContinue, ReturnFinished, dataVars, txVars
  <1>3. CASE PulledConstConst \/ PulledFilter \/ PulledProduct \/ PulledJoin
    BY <1>3 DEF PulledConstConst, PulledFilter, PulledProduct, PulledJoin, ReturnFinished, dataVars, txVars
  <1>4. CASE Visit \/ VisitStale \/ VisitEndJoin \/ VisitEndProduct
    BY <1>4 DEF Visit, VisitStale, VisitEndJoin, VisitEndProduct, dataVars, txVars
  <1>5. CASE DetectStart \/ DetectFollow \/ DetectBacktrack
    BY <1>5 DEF DetectStart, DetectFollow, DetectBacktrack, dataVars, txVars
  <1> QED  BY <1>1, <1>2, <1>3, <1>4, <1>5 DEF Internal

LEMMA ReadyNeverVictimStep ==
    ASSUME TypeInv, SearchInv, [Next]_vars, NEW t \in Tid, state[t] = "READY", state'[t] = "ABORTED"
    PROVE  pc = "idle"
  <1>1. state \in [Tid -> State]
    BY DEF TypeInv, TypeOK
  <1>2. CASE AbortVictim
    <2>1. PICK victim \in Tid : state[victim] \in Executing /\ state' = [state EXCEPT ![victim] = "ABORTED"]
      BY <1>2, VictimWaits DEF Abort
    <2> QED  BY <1>1, <2>1 DEF Executing
  <1>3. CASE Internal /\ ~AbortVictim
    BY <1>1, <1>3, OnlyRunningChanges
  <1>4. CASE \E u \in Tid : Command(u)
    BY <1>4 DEF Command, Begin, Commit, CommitSuspended, CommitFinished, Rollback, Add, Delete,
       StartEdit, AddRefused, StartRefused, StartQuery, QueryNoRelation, Resume, ResumeRefused, Refuse
  <1>5. CASE UNCHANGED vars
    BY <1>5 DEF vars, txVars
  <1> QED  BY <1>2, <1>3, <1>4, <1>5 DEF Next

(* What the steps that change tuples do: an edit holds the tuple exclusively, *)
(* a rollback of a live transaction restores what it held alone.              *)
LEMMA AbortUndoesOwn ==
    ASSUME TypeInv, LocksInv, NEW t \in Tid, state[t] \in Live, Abort(t),
           NEW x \in Tuple, (x \in alive') # (x \in alive)
    PROVE  /\ x \in exclusive /\ holders[x] = {t}
           /\ state[t] \in Live /\ state'[t] = "ABORTED"
  <1>1. original[t][x] # "none"
    <2>1. SUFFICES ASSUME original[t][x] = "none" PROVE FALSE
      OBVIOUS
    <2>2. alive' = {y \in Tuple : \/ original[t][y] = "alive"
                                  \/ original[t][y] = "none" /\ y \in alive}
      BY DEF Abort, Undo
    <2>3. x \in alive' <=> x \in alive
      BY <2>1, <2>2
    <2> QED  BY <2>3
  <1> QED  BY <1>1 DEF LocksInv, UndoProtected, Abort, TypeInv, TypeOK

LEMMA ChangesUnderLockStep ==
    ASSUME "rollback_finished" \notin OutOfTurn, TypeInv, LocksInv, SearchInv, Next,
           NEW x \in Tuple, (x \in alive') # (x \in alive)
    PROVE  \/ x \in exclusive'
           \/ /\ x \in exclusive
              /\ \E t \in Tid : /\ holders[x] = {t}
                                /\ state[t] \in Live /\ state'[t] = "ABORTED"
  <1>1. CASE EditTuple
    <2>1. /\ exclusive' = exclusive \cup {NextTuple(cur)}
          /\ \E status : Write(cur, NextTuple(cur), status)
      BY <1>1 DEF EditTuple, AcquireExclusive
    <2>2. x = NextTuple(cur)
      BY <2>1 DEF Write
    <2> QED  BY <2>1, <2>2
  <1>2. ASSUME NEW t \in Tid, state[t] \in Live, Abort(t)
        PROVE  /\ x \in exclusive
               /\ \E u \in Tid : /\ holders[x] = {u}
                                 /\ state[u] \in Live /\ state'[u] = "ABORTED"
    BY <1>2, AbortUndoesOwn
  <1>3. CASE AbortVictim
    <2>1. PICK victim \in Tid : state[victim] \in Live /\ Abort(victim)
      BY <1>3, VictimWaits DEF Live
    <2> QED  BY <1>2, <2>1
  <1>4. CASE Internal /\ ~AbortVictim /\ ~EditTuple
    BY <1>4, OnlyRunningChanges
  <1>5. CASE \E t \in Tid : Command(t)
    <2>1. PICK t \in Tid : Command(t)
      BY <1>5
    <2>2. CASE Rollback(t)
      BY <1>2, <2>2 DEF Rollback
    <2>3. CASE ~Rollback(t)
      <3>1. alive' = alive
        BY <2>1, <2>3 DEF Command, Begin, Commit, CommitSuspended, CommitFinished, Add, Delete,
           StartEdit, AddRefused, StartRefused, StartQuery, QueryNoRelation, Resume, ResumeRefused,
           Refuse, dataVars
      <3> QED  BY <3>1
    <2> QED  BY <2>2, <2>3
  <1> QED  BY <1>1, <1>3, <1>4, <1>5 DEF Next

(* The detector only rolls back transactions that wait for a lock, although   *)
(* what it reports as a cycle may be none: a transaction that is READY is     *)
(* aborted by nobody but its own client.                                      *)
THEOREM ReadyIsSafe == Spec => ReadyNeverVictim
  <1>1. TypeInv /\ SearchInv /\ [Next]_vars =>
            [\A t \in Tid : state[t] = "READY" /\ state'[t] = "ABORTED" => pc = "idle"]_vars
    BY ReadyNeverVictimStep
  <1> QED  BY <1>1, TypeInvHolds, SearchInvHolds, PTL DEF Spec, ReadyNeverVictim

(* As long as the client does not roll back what has ended, a tuple changes   *)
(* only under an exclusive lock: the editor's, or that of the transaction     *)
(* whose rollback restores the tuple and gives the lock back in one step.     *)
THEOREM ChangesCorrect ==
    ASSUME "rollback_finished" \notin OutOfTurn
    PROVE  Spec => ChangesUnderLock
  <1>1. TypeInv /\ LocksInv /\ SearchInv /\ [Next]_vars =>
            [\A x \in Tuple : (x \in alive') # (x \in alive) =>
                \/ x \in exclusive'
                \/ /\ x \in exclusive
                   /\ \E t \in Tid : /\ holders[x] = {t}
                                     /\ state[t] \in Live /\ state'[t] = "ABORTED"]_vars
    BY ChangesUnderLockStep
  <1> QED  BY <1>1, TypeInvHolds, LocksInvHolds, SearchInvHolds, PTL DEF Spec, ChangesUnderLock

(***************************************************************************)
(* No deadlock that required_locks shows goes unnoticed, for every number  *)
(* of transactions and for any client.                                     *)
(*                                                                         *)
(* While a command runs only the running transaction gets in the way of    *)
(* others, and it waits for nothing until it is suspended: whatever its    *)
(* command does, a new deadlock contains it.  The search that follows      *)
(* finds it, because a search that meets no transaction twice has walked a *)
(* tree, all of whose edges lead away from where it started.               *)
(***************************************************************************)

\* All transactions but the one whose command is running.
Others == IF pc = "idle" THEN Tid ELSE Tid \ {cur}

\* Every edge of a transaction the search has visited leads to another one it
\* has visited, and not back to the start, or is yet to be tried.
SearchCovers ==
    pc = "detect" /\ stack # <<>> =>
        /\ cur \in visited
        /\ \A t \in visited, u \in Tid : WaitsFor(t, u) =>
               \/ u \in visited \ {cur}
               \/ \E i \in 1 .. Len(stack) :
                      stack[i].tid = t /\ \E e \in stack[i].todo : e.tid = u

DeadlockInv ==
    /\ \A S \in SUBSET Others : ~Deadlocked(S)
    /\ pc \in Working => required[cur] = {}
    /\ SearchCovers

-----------------------------------------------------------------------------
(* Edges between transactions. *)

(* A step that adds no edge among the others of B adds no deadlock within B,   *)
(* if v is left out of B, waits for nothing or is in nobody's way.            *)
LEMMA NoNewDeadlock ==
    ASSUME NEW A, \A S \in SUBSET A : ~Deadlocked(S),
           NEW B, NEW v, B \ {v} \subseteq A,
           \A t, u \in B \ {v} : WaitsFor(t, u)' => WaitsFor(t, u),
           \/ v \notin B
           \/ \A u \in B : ~WaitsFor(v, u)'
           \/ \A t \in B : ~WaitsFor(t, v)'
    PROVE  \A S \in SUBSET B : ~Deadlocked(S)'
  <1> SUFFICES ASSUME NEW S \in SUBSET B, Deadlocked(S)' PROVE FALSE
    OBVIOUS
  <1>1. S # {} /\ \A t \in S : \E u \in S : WaitsFor(t, u)'
    BY DEF Deadlocked
  <1>2. S \ {v} # {} /\ \A t \in S \ {v} : \E u \in S \ {v} : WaitsFor(t, u)'
    BY <1>1
  <1>3. \A t \in S \ {v} : \E u \in S \ {v} : WaitsFor(t, u)
    BY <1>2
  <1> QED  BY <1>2, <1>3 DEF Deadlocked

(* A transaction does not get in the way of others by giving back its locks    *)
(* or by no longer requiring any.                                             *)
LEMMA FewerEdges ==
    ASSUME TypeInv, NEW t \in Tid, NEW u \in Tid, required'[t] \subseteq required[t],
           \A l \in Lock : u \in holders'[l] => u \in holders[l]
    PROVE  WaitsFor(t, u)' => WaitsFor(t, u)
  BY DEF WaitsFor, TypeInv, TypeOK, LocksTypeOK

(* Who has given back all locks is in nobody's way. *)
LEMMA ReleasedInNoWay ==
    ASSUME TypeInv, LocksInv, NEW t \in Tid, ReleaseLocks(t)
    PROVE  /\ \A l \in Lock : t \notin holders'[l] /\ holders'[l] \subseteq holders[l]
           /\ \A u \in Tid : required'[u] \subseteq required[u] => ~WaitsFor(u, t)'
  <1>1. \A l \in Lock : t \notin holders'[l] /\ holders'[l] \subseteq holders[l]
    BY DEF ReleaseLocks, LocksInv, LocksAgree, HoldersAgree
  <1> QED  BY <1>1 DEF WaitsFor, TypeInv, TypeOK, LocksTypeOK

LEMMA InitDeadlockInv == Init => DeadlockInv
  BY DEF Init, LocksInit, DeadlockInv, Deadlocked, WaitsFor, Others, SearchCovers, Working

-----------------------------------------------------------------------------
(* What a step of an edit or a query does to the waits-for graph. *)

Goes     == UNCHANGED <<state, required, cur>> /\ pc' \in Working \cup {"undefined"}
Waits ==
    /\ UNCHANGED <<state, cur, stack>> /\ pc' = "detect"
    /\ \E S \in SUBSET Lock : S # {} /\ Require(cur, S)
Finished == Finish(cur) /\ state' = [state EXCEPT ![cur] = "READY"]

Work ==
    \/ CheckRelation \/ EditTuple \/ EditRefusedByGroup \/ EditRefusedByTuple \/ FinishEdit
    \/ GetTuple \/ NextConstConst \/ NextPull \/ NextContinue
    \/ PulledConstConst \/ PulledFilter \/ PulledProduct \/ PulledJoin
    \/ Visit \/ VisitStale \/ VisitEndJoin \/ VisitEndProduct

\* Only the running transaction becomes the holder of a lock.
OthersHold == \A l \in Lock : holders'[l] \ {cur} = holders[l] \ {cur}

LEMMA WorkIsWorking ==
    ASSUME TypeInv, Work
    PROVE  pc \in Working /\ cur \in Tid /\ state[cur] \in Executing
  <1>1. pc \in Working
    BY DEF Work, CheckRelation, EditTuple, EditRefusedByGroup, EditRefusedByTuple, FinishEdit,
       AtTuple, GetTuple, NextConstConst, NextPull, NextContinue, PulledConstConst, PulledFilter,
       PulledProduct, PulledJoin, Visit, VisitStale, VisitEndJoin, VisitEndProduct, Working
  <1> QED  BY <1>1 DEF Working, TypeInv, ControlOK, Executing

LEMMA SharedHold ==
    ASSUME TypeInv, NEW S, AcquireShared(cur, S)
    PROVE  OthersHold
  BY DEF AcquireShared, OthersHold, TypeInv, TypeOK, LocksTypeOK

(* A suspended transaction waits for at least one lock. *)
LEMMA SuspendWaits ==
    ASSUME NEW S \in SUBSET Lock, S # {}, Suspend(S), UNCHANGED state
    PROVE  Waits
  BY DEF Suspend, Waits

LEMMA WorkEdit ==
    ASSUME TypeInv,
           CheckRelation \/ EditTuple \/ EditRefusedByGroup \/ EditRefusedByTuple \/ FinishEdit
    PROVE  OthersHold /\ (Goes \/ Waits \/ Finished)
  <1>1. CASE CheckRelation
    <2>1. WholeRel(edit[cur].rel) \in Lock
      BY <1>1, LocksAreLocks DEF CheckRelation, TypeInv, ControlOK
    <2>2. Goes \/ Suspend({WholeRel(edit[cur].rel)})
      BY <1>1 DEF CheckRelation, Goto, Goes, Working, txVars
    <2> QED  BY <1>1, <2>1, <2>2, SuspendWaits DEF CheckRelation, OthersHold, holderVars, txVars
  <1>2. CASE EditTuple
    <2>1. NextTuple(cur) \in Lock /\ holders \in [Lock -> SUBSET Tid]
      BY <1>2, EditingType, LocksAreLocks DEF EditTuple, TypeInv, TypeOK, LocksTypeOK
    <2>2. OthersHold
      BY <1>2, <2>1 DEF EditTuple, AcquireExclusive, OthersHold
    <2> QED  BY <1>2, <2>2 DEF EditTuple, AtTuple, Goes, Working, controlVars
  <1>3. CASE EditRefusedByGroup
    <2>1. EditLocks(NextTuple(cur)) \in SUBSET Lock /\ EditLocks(NextTuple(cur)) # {}
      BY <1>3, EditingType, EditLocksAreLocks DEF EditRefusedByGroup, EditLocks
    <2> QED  BY <1>3, <2>1, SuspendWaits DEF EditRefusedByGroup, OthersHold, holderVars, txVars
  <1>4. CASE EditRefusedByTuple
    <2> DEFINE x == NextTuple(cur)
    <2>1. EditLocks(x) \cup {x} \in SUBSET Lock /\ EditLocks(x) \cup {x} # {}
      BY <1>4, EditingType, EditLocksAreLocks, LocksAreLocks DEF EditRefusedByTuple
    <2> QED  BY <1>4, <2>1, SuspendWaits DEF EditRefusedByTuple, OthersHold, holderVars, txVars
  <1>5. CASE FinishEdit
    BY <1>5 DEF FinishEdit, Finished, OthersHold, holderVars
  <1> QED  BY <1>1, <1>2, <1>3, <1>4, <1>5

LEMMA WorkQuery ==
    ASSUME TypeInv, Work,
           \/ GetTuple \/ NextConstConst \/ NextPull \/ NextContinue
           \/ PulledConstConst \/ PulledFilter \/ PulledProduct \/ PulledJoin
           \/ Visit \/ VisitStale \/ VisitEndJoin \/ VisitEndProduct
    PROVE  OthersHold /\ (Goes \/ Waits \/ Finished)
  <1>1. pc \in {"next", "pulled", "visit"}
    BY DEF GetTuple, NextConstConst, NextPull, NextContinue, PulledConstConst, PulledFilter,
       PulledProduct, PulledJoin, Visit, VisitStale, VisitEndJoin, VisitEndProduct
  <1>2. {Target} \in SUBSET Lock
    BY <1>1, RunningType, LocksAreLocks
  <1>3. OthersHold
    <2>1. UNCHANGED holderVars \/ \E S : AcquireShared(cur, S)
      BY DEF GetTuple, NextConstConst, NextPull, NextContinue, PulledConstConst, PulledFilter,
         PulledProduct, PulledJoin, Visit, VisitStale, VisitEndJoin, VisitEndProduct,
         holderVars, lockVars
    <2> QED  BY <2>1, SharedHold DEF OthersHold, holderVars
  <1>4. CASE GetTuple \/ NextPull \/ NextContinue \/ VisitStale \/ VisitEndJoin \/ VisitEndProduct
    BY <1>3, <1>4 DEF GetTuple, NextPull, NextContinue, VisitStale, VisitEndJoin, VisitEndProduct,
       CallPrevious, Goto, Goes, Working, lockVars, txVars, controlVars
  <1>5. CASE NextConstConst
    <2>1. Goes \/ (Suspend({Target}) /\ UNCHANGED state) \/ Finished
      BY <1>5 DEF NextConstConst, CallPrevious, ReturnFinished, Goes, Finished, Working
    <2> QED  BY <1>2, <1>3, <2>1, SuspendWaits
  <1>6. CASE PulledConstConst \/ PulledFilter
    <2>1. Goes \/ (Suspend({Target}) /\ UNCHANGED state)
      BY <1>6 DEF PulledConstConst, PulledFilter, ReturnOK, Goto, Goes, Working, txVars
    <2> QED  BY <1>2, <1>3, <2>1, SuspendWaits
  <1>7. CASE PulledProduct \/ PulledJoin
    BY <1>3, <1>7 DEF PulledProduct, PulledJoin, ReturnFinished, Goto, Goes, Finished, Working
  <1>8. CASE Visit
    <2>1. {Visited} \in SUBSET Lock
      <3>1. Q.iter[stage] \subseteq Tuple /\ Q.iter[stage] # {}
        BY <1>1, <1>8, RunningType DEF Visit
      <3> QED  BY <3>1, LocksAreLocks DEF Visited
    <2>2. Goes \/ (Suspend({Visited}) /\ UNCHANGED state)
      BY <1>8 DEF Visit, ReturnOK, Goto, Goes, Working
    <2> QED  BY <1>3, <2>1, <2>2, SuspendWaits
  <1> QED  BY <1>3, <1>4, <1>5, <1>6, <1>7, <1>8

LEMMA WorkGoesWaitsOrIsDone ==
    ASSUME TypeInv, Work
    PROVE  OthersHold /\ (Goes \/ Waits \/ Finished)
  BY WorkEdit, WorkQuery DEF Work

-----------------------------------------------------------------------------
(* Deadlocks only arise when a transaction is suspended. *)

LEMMA DeadlockInvWork ==
    ASSUME TypeInv, SearchInv, DeadlockInv, Work
    PROVE  DeadlockInv'
  <1>1. /\ pc \in Working /\ cur \in Tid /\ required[cur] = {} /\ stack = <<>>
        /\ Others = Tid \ {cur} /\ required \in [Tid -> SUBSET Lock]
    BY WorkIsWorking DEF DeadlockInv, Others, Working, SearchInv, StackFollowsEdges,
       TypeInv, TypeOK, LocksTypeOK
  <1>2. OthersHold /\ (Goes \/ Waits \/ Finished)
    BY WorkGoesWaitsOrIsDone
  <1>3. \A t \in Tid \ {cur} : required'[t] = required[t]
    BY <1>1, <1>2 DEF Goes, Waits, Finished, Require, Finish, ClearRequired
  <1>4. \A t, u \in Tid \ {cur} : WaitsFor(t, u)' => WaitsFor(t, u)
    BY <1>1, <1>2, <1>3, FewerEdges DEF OthersHold
  <1>5. \A S \in SUBSET (Tid \ {cur}) : ~Deadlocked(S)'
    BY <1>1, <1>4, NoNewDeadlock DEF DeadlockInv
  <1>6. CASE Goes
    BY <1>1, <1>5, <1>6 DEF Goes, DeadlockInv, Others, SearchCovers, Working
  <1>7. CASE Waits
    BY <1>1, <1>5, <1>7 DEF Waits, DeadlockInv, Others, SearchCovers, Working
  <1>8. CASE Finished
    <2>1. pc' = "idle" /\ required'[cur] = {}
      BY <1>1, <1>8 DEF Finished, Finish, Return, ClearRequired
    <2>2. PICK me \in Tid : me = cur
      BY <1>1
    <2>3. \A u \in Tid : ~WaitsFor(me, u)'
      BY <2>1, <2>2 DEF WaitsFor
    <2>4. \A S \in SUBSET Tid : ~Deadlocked(S)'
      BY <1>1, <1>4, <2>2, <2>3, NoNewDeadlock DEF DeadlockInv
    <2> QED  BY <2>1, <2>4 DEF DeadlockInv, Others, SearchCovers, Working
  <1> QED  BY <1>2, <1>6, <1>7, <1>8

(* A command that goes on to run leaves only its own transaction out of the   *)
(* account; one that is over has added no edge.                               *)
LEMMA DeadlockInvCommands ==
    ASSUME TypeInv, LocksInv, SearchInv, DeadlockInv, NEW t \in Tid, Command(t)
    PROVE  DeadlockInv'
  <1>1. /\ pc = "idle" /\ stack = <<>> /\ required \in [Tid -> SUBSET Lock]
        /\ \A S \in SUBSET Tid : ~Deadlocked(S)
    BY DEF Command, Begin, Commit, CommitSuspended, CommitFinished, Rollback, Add, Delete, StartEdit,
       AddRefused, StartRefused, StartQuery, QueryNoRelation, Resume, ResumeRefused, Refuse,
       SearchInv, StackFollowsEdges, TypeInv, TypeOK, LocksTypeOK, DeadlockInv, Others
  <1>2. ASSUME \A u \in Tid : required'[u] \subseteq required[u],
               \A l \in Lock : holders'[l] \subseteq holders[l], pc' = "idle"
        PROVE  DeadlockInv'
    <2>1. \A u, v \in Tid : WaitsFor(u, v)' => WaitsFor(u, v)
      BY <1>2, FewerEdges
    <2>2. \A S \in SUBSET Tid : ~Deadlocked(S)'
      BY <1>1, <2>1 DEF Deadlocked
    <2> QED  BY <1>2, <2>2 DEF DeadlockInv, Others, SearchCovers, Working
  <1>3. ASSUME \A u \in Tid : required'[u] \subseteq required[u],
               \A l \in Lock : holders'[l] \subseteq holders[l] \cup {t}, cur' = t,
               \/ pc' = "detect" /\ stack' = <<>>
               \/ pc' \in Working /\ required'[t] = {}
        PROVE  DeadlockInv'
    <2>1. \A u, v \in Tid \ {t} : WaitsFor(u, v)' => WaitsFor(u, v)
      BY <1>3, FewerEdges
    <2>2. \A S \in SUBSET (Tid \ {t}) : ~Deadlocked(S)'
      BY <1>1, <2>1, NoNewDeadlock
    <2> QED  BY <1>3, <2>2 DEF DeadlockInv, Others, SearchCovers, Working
  <1>4. CASE Begin(t)
    BY <1>1, <1>2, <1>4 DEF Begin, lockVars, controlVars
  <1>5. CASE Commit(t)
    BY <1>1, <1>2, <1>5, ReleasedInNoWay DEF Commit, Finish, Return, ClearRequired
  <1>6. CASE Rollback(t)
    BY <1>1, <1>2, <1>6, ReleasedInNoWay DEF Rollback, Abort, controlVars
  <1>7. CASE Refuse(t) \/ \E r \in RelName : AddRefused(t, r)
    BY <1>1, <1>2, <1>7 DEF Refuse, AddRefused, Finish, Return, ClearRequired, holderVars
  <1>8. CASE CommitSuspended(t)
    BY <1>1, <1>3, <1>8 DEF CommitSuspended, lockVars
  <1>9. CASE \/ \E r \in RelName, batch \in Batches : Add(t, r, batch) \/ Delete(t, r, batch)
             \/ \E atoms \in Queries : StartQuery(t, atoms)
    <2>1. /\ state[t] = "READY" /\ required' = required /\ cur' = t /\ pc' \in Working
          /\ holders' = holders \/ \E S : AcquireShared(t, S)
      BY <1>9 DEF Add, Delete, StartEdit, StartQuery, lockVars, Working
    <2>2. required[t] = {}
      BY <2>1 DEF SearchInv, ReadyWaitsForNothing
    <2>3. \A l \in Lock : holders'[l] \subseteq holders[l] \cup {t}
      BY <2>1 DEF AcquireShared
    <2> QED  BY <1>3, <2>1, <2>2, <2>3
  <1>10. CASE Resume(t)
    BY <1>1, <1>3, <1>10 DEF Resume, Reenter, ClearRequired, holderVars, Working
  <1> QED
    BY <1>4, <1>5, <1>6, <1>7, <1>8, <1>9, <1>10
    DEF Command, CommitFinished, StartRefused, QueryNoRelation, ResumeRefused

(* Whoever is rolled back is in nobody's way any more. *)
LEMMA DeadlockInvAbortVictim ==
    ASSUME TypeInv, LocksInv, DeadlockInv, AbortVictim
    PROVE  DeadlockInv'
  <1>1. PICK victim \in Tid : Abort(victim) /\ AfterRollback(victim)
    BY StackType DEF AbortVictim, TypeInv
  <1>2. /\ pc = "deadlock" /\ cur \in Tid /\ required \in [Tid -> SUBSET Lock]
        /\ \A S \in SUBSET (Tid \ {cur}) : ~Deadlocked(S)
    BY DEF AbortVictim, TypeInv, TypeOK, LocksTypeOK, ControlOK, DeadlockInv, Others
  <1>3. \A u \in Tid : required'[u] \subseteq required[u]
    BY <1>1, <1>2 DEF AfterRollback, Reenter, ClearRequired
  <1>4. /\ \A l \in Lock : holders'[l] \subseteq holders[l]
        /\ \A u \in Tid : ~WaitsFor(u, victim)'
    BY <1>1, <1>3, ReleasedInNoWay DEF Abort
  <1>5. \A t, u \in Tid : WaitsFor(t, u)' => WaitsFor(t, u)
    BY <1>3, <1>4, FewerEdges
  <1>6. CASE victim = cur /\ Return
    <2>1. /\ \A t, u \in Tid \ {victim} : WaitsFor(t, u)' => WaitsFor(t, u)
          /\ Tid \ {victim} = Tid \ {cur}
      BY <1>5, <1>6
    <2>2. \A S \in SUBSET Tid : ~Deadlocked(S)'
      BY <1>2, <1>4, <2>1, NoNewDeadlock
    <2> QED  BY <1>6, <2>2 DEF Return, DeadlockInv, Others, SearchCovers, Working
  <1>7. CASE Reenter(cur)
    <2>1. \A S \in SUBSET (Tid \ {cur}) : ~Deadlocked(S)'
      BY <1>2, <1>5 DEF Deadlocked
    <2>2. cur' = cur /\ required'[cur] = {} /\ pc' \in Working
      BY <1>2, <1>7 DEF Reenter, ClearRequired, Working
    <2> QED  BY <2>1, <2>2 DEF DeadlockInv, Others, SearchCovers, Working
  <1> QED  BY <1>1, <1>6, <1>7 DEF AfterRollback

-----------------------------------------------------------------------------
(* The search. *)

(* At the end of a search that has met nobody twice there is no deadlock: one  *)
(* that contains the start contains another that it does not contain.         *)
LEMMA SearchIsComplete ==
    ASSUME TypeInv, DeadlockInv, pc = "detect", Len(stack) = 1, Top.todo = {}
    PROVE  \A S \in SUBSET Tid : ~Deadlocked(S)
  <1> SUFFICES ASSUME NEW S \in SUBSET Tid, Deadlocked(S) PROVE FALSE
    OBVIOUS
  <1>1. /\ cur \in visited
        /\ \A t \in visited, u \in Tid : WaitsFor(t, u) => u \in visited \ {cur}
    <2>1. stack[1].todo = {}
      BY DEF Top
    <2>2. stack # <<>>
      <3>1. Len(<<>>) = 0
        OBVIOUS
      <3> QED  BY <3>1
    <2> QED  BY <2>1, <2>2 DEF DeadlockInv, SearchCovers
  <1>2. S # {} /\ \A t \in S : \E u \in S : WaitsFor(t, u)
    BY DEF Deadlocked
  <1> DEFINE R == S \cap (visited \ {cur})
  <1>3. cur \in S
    <2>1. \A U \in SUBSET (Tid \ {cur}) : ~Deadlocked(U)
      BY DEF DeadlockInv, Others
    <2> QED  BY <2>1
  <1>4. R # {} /\ \A t \in R : \E u \in R : WaitsFor(t, u)
    BY <1>1, <1>2, <1>3
  <1>5. R \in SUBSET (Tid \ {cur}) /\ Deadlocked(R)
    BY <1>4 DEF Deadlocked
  <1> QED  BY <1>5 DEF DeadlockInv, Others

LEMMA DeadlockInvDetect ==
    ASSUME TypeInv, DeadlockInv, DetectStart \/ DetectFollow \/ DetectBacktrack
    PROVE  DeadlockInv'
  <1>1. /\ UNCHANGED <<holders, required>> /\ pc = "detect"
        /\ cur \in Tid /\ stack \in Seq(Frame) /\ required \in [Tid -> SUBSET Lock]
        /\ holders \in [Lock -> SUBSET Tid]
    BY DEF DetectStart, DetectFollow, DetectBacktrack, lockVars, TypeInv, TypeOK, LocksTypeOK, ControlOK
  <1>2. \A t, u : WaitsFor(t, u)' <=> WaitsFor(t, u)
    BY <1>1 DEF WaitsFor
  <1>3. \A S : Deadlocked(S)' <=> Deadlocked(S)
    BY <1>2 DEF Deadlocked
  <1>4. ASSUME cur' = cur, pc' \in {"detect", "deadlock"}, SearchCovers'
        PROVE  DeadlockInv'
    BY <1>1, <1>3, <1>4 DEF DeadlockInv, Others, Working
  \* All edges of a transaction are yet to be tried when its call starts.
  <1>5. \A t \in Tid, u \in Tid : WaitsFor(t, u) => \E e \in Call(t).todo : e.tid = u
    <2>1. SUFFICES ASSUME NEW t \in Tid, NEW u \in Tid, WaitsFor(t, u)
                   PROVE  \E e \in WaitEdges(t) : e.tid = u
      BY DEF Call
    <2>2. PICK l \in required[t] : u \in holders[l] \ {t}
      BY <2>1 DEF WaitsFor
    <2>3. [lock |-> l, tid |-> u] \in WaitEdges(t)
      BY <2>1, <2>2 DEF WaitEdges
    <2> QED  BY <2>3
  <1>6. CASE DetectStart
    <2>1. stack' = <<Call(cur)>> /\ visited' = {cur} /\ UNCHANGED <<pc, cur>>
      BY <1>6 DEF DetectStart, StartSearch
    <2>2. Len(stack') = 1 /\ stack'[1] = Call(cur) /\ Call(cur).tid = cur
      BY <2>1 DEF Call
    <2>3. SearchCovers'
      BY <1>1, <1>2, <1>5, <2>1, <2>2 DEF SearchCovers
    <2> QED  BY <1>1, <1>4, <2>1, <2>3
  <1>7. CASE DetectFollow
    <2>1. PICK e \in NextEdges(Top) :
            \/ FoundCycle(e) /\ Goto("deadlock")
            \/ Descend(e) /\ UNCHANGED <<pc, cur, stage>>
      BY <1>7 DEF DetectFollow
    <2>2. stack # <<>> /\ e \in Edge /\ e.tid \in Tid
      BY <1>7, <2>1, StackType DEF DetectFollow, TypeInv, Edge
    <2>3. CASE Goto("deadlock")
      BY <1>4, <2>3 DEF Goto, SearchCovers
    <2>4. CASE Descend(e) /\ UNCHANGED <<pc, cur, stage>>
      <3> DEFINE n == Len(stack)
      <3>1. /\ e.tid \notin visited /\ visited' = visited \cup {e.tid}
            /\ stack' = Append(Follow(e), Call(e.tid)) /\ UNCHANGED <<pc, cur>>
        BY <2>4 DEF Descend
      <3>2. /\ n \in Nat \ {0} /\ Len(stack') = n + 1 /\ stack'[n + 1] = Call(e.tid)
            /\ \A i \in 1 .. n : stack'[i] =
                 IF i = n THEN [stack[n] EXCEPT !.todo = @ \ {e}, !.lock = e.lock] ELSE stack[i]
        <4>1. n \in Nat \ {0}
          BY <1>1, <2>2
        <4> QED  BY <2>2, <3>1, <4>1, FollowStack
      <3>3. \A i \in 1 .. n : /\ stack'[i].tid = stack[i].tid
                              /\ stack[i].todo \ {e} \subseteq stack'[i].todo
        <4>1. stack[n] \in Frame
          BY <1>1, <3>2
        <4> QED  BY <3>2, <4>1 DEF Frame
      <3>4. cur \in visited /\ e.tid # cur
        BY <1>1, <2>2, <3>1 DEF DeadlockInv, SearchCovers
      <3>5. ASSUME NEW t \in visited', NEW u \in Tid, WaitsFor(t, u)
            PROVE  \/ u \in visited' \ {cur}
                   \/ \E i \in 1 .. Len(stack') :
                          stack'[i].tid = t /\ \E d \in stack'[i].todo : d.tid = u
        <4>1. CASE t = e.tid
          <5>1. stack'[n + 1].tid = t /\ \E d \in stack'[n + 1].todo : d.tid = u
            BY <1>5, <2>2, <3>2, <3>5, <4>1 DEF Call
          <5> QED  BY <3>2, <5>1
        <4>2. CASE t \in visited /\ u # e.tid
          <5>1. CASE u \in visited \ {cur}
            BY <3>1, <5>1
          <5>2. ASSUME NEW i \in 1 .. n, stack[i].tid = t, NEW d \in stack[i].todo, d.tid = u
                PROVE  i \in 1 .. Len(stack') /\ stack'[i].tid = t /\ d \in stack'[i].todo
            BY <3>2, <3>3, <4>2, <5>2
          <5> QED  BY <1>1, <2>2, <3>5, <4>2, <5>1, <5>2 DEF DeadlockInv, SearchCovers
        <4>3. CASE u = e.tid
          BY <3>1, <3>4, <4>3
        <4> QED  BY <3>1, <4>1, <4>2, <4>3
      <3>6. SearchCovers'
        BY <1>1, <1>2, <3>1, <3>4, <3>5 DEF SearchCovers
      <3> QED  BY <1>1, <1>4, <3>1, <3>6
    <2> QED  BY <2>1, <2>3, <2>4
  <1>8. CASE DetectBacktrack
    <2>1. CASE Len(stack) = 1 /\ Top.todo = {} /\ Return
      <3>1. \A S \in SUBSET Tid : ~Deadlocked(S)
        BY <1>1, <2>1, SearchIsComplete
      <3> QED  BY <1>3, <2>1, <3>1 DEF Return, DeadlockInv, Others, SearchCovers, Working
    <2>2. CASE Len(stack) > 1 /\ Backtrack /\ UNCHANGED <<pc, cur>>
      <3> DEFINE n == Len(stack)
      <3>1. /\ n \in Nat /\ n > 1 /\ stack[n].todo = {} /\ visited' = visited
            /\ Len(stack') = n - 1 /\ \A i \in 1 .. (n - 1) : stack'[i] = stack[i]
        BY <1>1, <2>2, SubSeqProperties DEF Backtrack, Pop, Top
      <3>2. ASSUME NEW i \in 1 .. n, stack[i].todo # {}
            PROVE  i \in 1 .. Len(stack') /\ stack'[i] = stack[i]
        BY <3>1, <3>2
      <3>3. stack # <<>>
        BY <3>1
      <3>4. /\ cur \in visited
            /\ \A t \in visited, u \in Tid : WaitsFor(t, u) =>
                   \/ u \in visited \ {cur}
                   \/ \E i \in 1 .. n : stack[i].tid = t /\ \E e \in stack[i].todo : e.tid = u
        BY <1>1, <3>3 DEF DeadlockInv, SearchCovers
      <3>5. SearchCovers'
        BY <1>1, <1>2, <2>2, <3>1, <3>2, <3>4 DEF SearchCovers
      <3> QED  BY <1>1, <1>4, <2>2, <3>5
    <2> QED  BY <1>8, <2>1, <2>2 DEF DetectBacktrack
  <1> QED  BY <1>6, <1>7, <1>8

LEMMA DeadlockInvStep ==
    ASSUME TypeInv, LocksInv, SearchInv, DeadlockInv, [Next]_vars
    PROVE  DeadlockInv'
  <1>1. CASE Internal
    BY <1>1, DeadlockInvWork, DeadlockInvDetect, DeadlockInvAbortVictim DEF Internal, Work
  <1>2. CASE \E t \in Tid : Command(t)
    BY <1>2, DeadlockInvCommands
  <1>3. CASE UNCHANGED vars
    BY <1>3 DEF vars, lockVars, controlVars, DeadlockInv, Deadlocked, WaitsFor, Others, SearchCovers
  <1> QED  BY <1>1, <1>2, <1>3 DEF Next

LEMMA DeadlockInvHolds == Spec => []DeadlockInv
  BY InitDeadlockInv, TypeInvHolds, LocksInvHolds, SearchInvHolds, DeadlockInvStep, PTL DEF Spec

-----------------------------------------------------------------------------
(* Suspended transactions. *)

\* Only the transaction whose command is at work may be executing and wait for
\* nothing.
SuspendedInv ==
    \A t \in Tid : state[t] \in Executing /\ required[t] = {} =>
        t = cur /\ pc \in Working \cup {"undefined"}

LEMMA InitSuspendedInv == Init => SuspendedInv
  BY DEF Init, SuspendedInv, Executing

LEMMA SuspendedInvStep ==
    ASSUME "start_suspended" \notin OutOfTurn, TypeInv, SuspendedInv, [Next]_vars
    PROVE  SuspendedInv'
  <1>1. /\ required \in [Tid -> SUBSET Lock] /\ state \in [Tid -> State]
        /\ NoTid \notin Tid
    BY DatabaseAssumption DEF TypeInv, TypeOK, LocksTypeOK
  <1>2. CASE Work
    <2>1. cur \in Tid /\ pc \in Working /\ (Goes \/ Waits \/ Finished)
      BY <1>2, WorkIsWorking, WorkGoesWaitsOrIsDone
    <2>2. CASE Goes
      BY <2>2 DEF Goes, SuspendedInv
    <2>3. CASE Waits
      BY <1>1, <2>1, <2>3 DEF Waits, Require, SuspendedInv
    <2>4. CASE Finished
      BY <1>1, <2>1, <2>4 DEF Finished, Finish, ClearRequired, SuspendedInv, Executing
    <2> QED  BY <2>1, <2>2, <2>3, <2>4
  <1>3. CASE DetectStart \/ DetectFollow \/ DetectBacktrack
    <2>1. UNCHANGED <<required, state>> /\ pc = "detect"
      BY <1>3 DEF DetectStart, DetectFollow, DetectBacktrack, lockVars, txVars
    <2> QED  BY <2>1 DEF SuspendedInv, Working
  <1>4. CASE AbortVictim
    <2>1. PICK victim \in Tid : Abort(victim) /\ AfterRollback(victim)
      BY <1>4, StackType DEF AbortVictim, TypeInv
    <2>2. /\ pc = "deadlock" /\ cur \in Tid
          /\ state' = [state EXCEPT ![victim] = "ABORTED"]
      BY <1>4, <2>1 DEF AbortVictim, Abort, TypeInv, ControlOK
    <2>3. CASE victim = cur /\ UNCHANGED required
      BY <1>1, <2>2, <2>3 DEF SuspendedInv, Executing, Working
    <2>4. CASE Reenter(cur)
      BY <1>1, <2>2, <2>4 DEF Reenter, ClearRequired, SuspendedInv, Executing, Working
    <2> QED  BY <2>1, <2>3, <2>4 DEF AfterRollback
  <1>5. ASSUME NEW t \in Tid, Command(t)
        PROVE  SuspendedInv'
    <2>1. pc = "idle"
      BY <1>5 DEF Command, Begin, Commit, CommitSuspended, CommitFinished, Rollback, Add, Delete,
         StartEdit, AddRefused, StartRefused, StartQuery, QueryNoRelation, Resume, ResumeRefused, Refuse
    <2>2. \A u \in Tid : state[u] \in Executing => required[u] # {}
      BY <2>1 DEF SuspendedInv, Working
    <2>3. CASE Begin(t) \/ Rollback(t)
      BY <1>1, <2>2, <2>3 DEF Begin, Rollback, Abort, lockVars, SuspendedInv, Executing
    <2>4. CASE Commit(t)
      BY <1>1, <2>2, <2>4 DEF Commit, Finish, ClearRequired, SuspendedInv, Executing
    <2>5. CASE CommitSuspended(t)
      BY <2>2, <2>5 DEF CommitSuspended, lockVars, txVars, SuspendedInv
    <2>6. CASE \/ CommitFinished(t) \/ StartRefused(t) \/ ResumeRefused(t)
               \/ \E r \in RelName : AddRefused(t, r)
               \/ \E atoms \in Queries : QueryNoRelation(t, atoms)
      <3>1. /\ state' = state /\ state[t] \notin Executing
            /\ required' = [required EXCEPT ![t] = {}]
        BY <2>6 DEF CommitFinished, StartRefused, ResumeRefused, AddRefused, QueryNoRelation,
           Refuse, Finish, ClearRequired, txVars, Executing
      <3> QED  BY <1>1, <2>2, <3>1 DEF SuspendedInv
    <2>7. CASE \/ \E r \in RelName, batch \in Batches : Add(t, r, batch) \/ Delete(t, r, batch)
               \/ \E atoms \in Queries : StartQuery(t, atoms)
      <3>1. /\ \A u \in Tid \ {t} : state'[u] = state[u]
            /\ required' = required /\ cur' = t /\ pc' \in Working
        BY <1>1, <2>7 DEF Add, Delete, StartEdit, StartQuery, lockVars, Working
      <3> QED  BY <2>2, <3>1 DEF SuspendedInv
    <2>8. CASE Resume(t)
      BY <1>1, <2>2, <2>8 DEF Resume, Reenter, ClearRequired, txVars, SuspendedInv, Working
    <2> QED  BY <1>5, <2>3, <2>4, <2>5, <2>6, <2>7, <2>8 DEF Command
  <1>6. CASE UNCHANGED vars
    BY <1>6 DEF vars, lockVars, txVars, controlVars, SuspendedInv
  <1> QED  BY <1>2, <1>3, <1>4, <1>5, <1>6 DEF Next, Internal, Work

\* Every transaction the client sees as suspended has an edge to be found by.
SuspendedWaits == pc = "idle" => \A t \in Tid : state[t] \in Executing => required[t] # {}

LEMMA SuspendedInvHolds ==
    ASSUME "start_suspended" \notin OutOfTurn
    PROVE  Spec => []SuspendedInv
  <1>1. TypeInv /\ SuspendedInv /\ [Next]_vars => SuspendedInv'
    BY SuspendedInvStep
  <1> QED  BY <1>1, InitSuspendedInv, TypeInvHolds, PTL DEF Spec

(* A transaction the client sees as suspended waits for a lock, so that the   *)
(* searches of others find its edges: as long as the client gives it no       *)
(* command that is refused, for that would empty required_locks.              *)
THEOREM SuspendedTransactionsWait ==
    ASSUME "start_suspended" \notin OutOfTurn
    PROVE  Spec => []SuspendedWaits
  <1>1. SuspendedInv => SuspendedWaits
    BY DEF SuspendedInv, SuspendedWaits, Working
  <1> QED  BY <1>1, SuspendedInvHolds, PTL

-----------------------------------------------------------------------------
(* What required_locks still says of the locks that suspended a transaction. *)

\* required_locks is what t waits for, or a refused command has emptied it.
RecordInv == \A t \in Tid : state[t] \in Executing => required[t] \in {awaited[t], {}}

LEMMA HistoryIsSpec == HistorySpec => Spec
  <1>1. HistoryInit => Init
    BY DEF HistoryInit
  <1>2. [HistoryNext]_historyVars => [Next]_vars
    BY DEF HistoryNext, historyVars
  <1> QED  BY <1>1, <1>2, PTL DEF HistorySpec, Spec

LEMMA InitRecordInv == HistoryInit => RecordInv
  BY DEF HistoryInit, Init, RecordInv, Executing

LEMMA AwaitedAfter ==
    ASSUME RememberWaits, NEW t \in Tid, state'[t] \in Executing
    PROVE  awaited'[t] = IF pc \in Working /\ cur = t THEN required'[t] ELSE awaited[t]
  BY DEF RememberWaits

LEMMA RecordInvStep ==
    ASSUME TypeInv, SearchInv, RecordInv, HistoryNext
    PROVE  RecordInv'
  <1> SUFFICES ASSUME NEW t \in Tid, state'[t] \in Executing
               PROVE  required'[t] \in {awaited'[t], {}}
    BY DEF RecordInv
  <1>1. /\ required \in [Tid -> SUBSET Lock] /\ state \in [Tid -> State]
        /\ NoTid \notin Tid
    BY DatabaseAssumption DEF TypeInv, TypeOK, LocksTypeOK
  <1>2. awaited'[t] = IF pc \in Working /\ cur = t THEN required'[t] ELSE awaited[t]
    BY AwaitedAfter DEF HistoryNext
  <1>3. CASE required'[t] = {} \/ (pc \in Working /\ cur = t)
    BY <1>2, <1>3
  \* Otherwise what t waits for is remembered as it was.
  <1>4. CASE required'[t] # {} /\ ~(pc \in Working /\ cur = t)
    <2>1. SUFFICES state[t] \in Executing /\ required'[t] = required[t]
      BY <1>2, <1>4 DEF RecordInv
    <2>2. CASE Work
      <3>1. cur \in Tid /\ pc \in Working /\ (Goes \/ Waits \/ Finished)
        BY <2>2, WorkIsWorking, WorkGoesWaitsOrIsDone
      <3> QED  BY <1>1, <1>4, <3>1 DEF Goes, Waits, Require, Finished, Finish, ClearRequired
    <2>3. CASE DetectStart \/ DetectFollow \/ DetectBacktrack
      BY <2>3 DEF DetectStart, DetectFollow, DetectBacktrack, lockVars, txVars
    <2>4. CASE AbortVictim
      <3>1. PICK victim \in Tid : Abort(victim) /\ AfterRollback(victim)
        BY <2>4, StackType DEF AbortVictim, TypeInv
      <3>2. state' = [state EXCEPT ![victim] = "ABORTED"]
        BY <3>1 DEF Abort
      <3> QED  BY <1>1, <1>4, <3>1, <3>2 DEF AfterRollback, Reenter, ClearRequired, Executing
    <2>5. ASSUME NEW u \in Tid, Command(u)
          PROVE  state[t] \in Executing /\ required'[t] = required[t]
      <3>1. CASE Begin(u) \/ Rollback(u)
        BY <1>1, <3>1 DEF Begin, Rollback, Abort, lockVars, Executing
      <3>2. CASE Commit(u)
        BY <1>1, <1>4, <3>2 DEF Commit, Finish, ClearRequired, Executing
      <3>3. CASE CommitSuspended(u)
        BY <3>3 DEF CommitSuspended, lockVars, txVars
      <3>4. CASE \/ CommitFinished(u) \/ StartRefused(u) \/ ResumeRefused(u)
                 \/ \E r \in RelName : AddRefused(u, r)
                 \/ \E atoms \in Queries : QueryNoRelation(u, atoms)
        BY <1>1, <1>4, <3>4 DEF CommitFinished, StartRefused, ResumeRefused, AddRefused,
           QueryNoRelation, Refuse, Finish, ClearRequired, txVars
      \* A transaction that starts waits for nothing.
      <3>5. CASE \/ \E r \in RelName, batch \in Batches : Add(u, r, batch) \/ Delete(u, r, batch)
                 \/ \E atoms \in Queries : StartQuery(u, atoms)
        <4>1. /\ state[u] = "READY" /\ \A v \in Tid \ {u} : state'[v] = state[v]
              /\ required' = required
          BY <1>1, <3>5 DEF Add, Delete, StartEdit, StartQuery, lockVars
        <4>2. required[u] = {}
          BY <4>1 DEF SearchInv, ReadyWaitsForNothing
        <4> QED  BY <1>4, <4>1, <4>2
      <3>6. CASE Resume(u)
        BY <1>1, <1>4, <3>6 DEF Resume, Reenter, ClearRequired, txVars
      <3> QED  BY <2>5, <3>1, <3>2, <3>3, <3>4, <3>5, <3>6 DEF Command
    <2> QED  BY <2>2, <2>3, <2>4, <2>5 DEF HistoryNext, Next, Internal, Work
  <1> QED  BY <1>3, <1>4

LEMMA RecordInvHolds == HistorySpec => []RecordInv
  <1>1. TypeInv /\ SearchInv /\ RecordInv /\ [HistoryNext]_historyVars => RecordInv'
    BY RecordInvStep DEF historyVars, vars, lockVars, txVars, RecordInv
  <1> QED  BY <1>1, InitRecordInv, HistoryIsSpec, TypeInvHolds, SearchInvHolds, PTL DEF HistorySpec

-----------------------------------------------------------------------------
(* Deadlocks. *)

(* A set of transactions that really wait on one another is a deadlock to the *)
(* detector as long as the locks of each are still in its required_locks.     *)
LEMMA StuckIsDeadlocked ==
    ASSUME RecordInv, NEW S \in SUBSET Tid, Stuck(S), \A t \in S : required[t] # {}
    PROVE  Deadlocked(S)
  <1>1. S # {} /\ \A t \in S : required[t] = awaited[t] /\ \E u \in S : Awaits(t, u)
    BY DEF RecordInv, Stuck
  <1> QED  BY <1>1 DEF Deadlocked, WaitsFor, Awaits

\* A deadlock that is there when the client has control contains a transaction
\* whose required_locks a refused command has emptied.
MissedWasForgotten ==
    pc = "idle" => \A S \in SUBSET Tid : Stuck(S) => \E t \in S : required[t] = {}

(* Whatever the client does, on_control misses no deadlock but those that it  *)
(* cannot see any more: one of the waiting transactions has been sent a       *)
(* command it refused, after which on_control empties required_locks although *)
(* the transaction still waits (Database.cpp:138).                            *)
THEOREM MissedDeadlocksWereForgotten == HistorySpec => []MissedWasForgotten
  <1>1. DeadlockInv /\ RecordInv => MissedWasForgotten
    BY StuckIsDeadlocked DEF DeadlockInv, Others, MissedWasForgotten
  <1> QED  BY <1>1, HistoryIsSpec, DeadlockInvHolds, RecordInvHolds, PTL

(* If the client starts no command in a suspended transaction, no set of      *)
(* suspended transactions waits on itself whenever the client has control:    *)
(* on_control has broken every deadlock the last command created, although    *)
(* dfs_tx stops at the first transaction it meets twice, only one victim is   *)
(* rolled back, and the transaction it resumes may be suspended and searched  *)
(* for again.  What a transaction waits for is what suspended it, not what    *)
(* required_locks says by then.                                               *)
THEOREM DeadlocksAreBroken ==
    ASSUME "start_suspended" \notin OutOfTurn
    PROVE  HistorySpec => []NoUndetectedDeadlock
  <1>1. MissedWasForgotten /\ SuspendedWaits => NoUndetectedDeadlock
    BY DEF MissedWasForgotten, SuspendedWaits, NoUndetectedDeadlock, Stuck
  <1> QED  BY <1>1, HistoryIsSpec, MissedDeadlocksWereForgotten, SuspendedTransactionsWait, PTL
=============================================================================
