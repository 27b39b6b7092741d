----------------------------- MODULE MCStorage ------------------------------
(***************************************************************************)
(* Small instances of RelationStore and TransactionBooks.  The two share   *)
(* no state, so one run goes through them one after the other: `part` says *)
(* which of them a behaviour is about.  The calls on a transaction's       *)
(* tables are divided once more, between those that only enter and erase   *)
(* locks and those that edit tuples.                                       *)
(***************************************************************************)
EXTENDS RelationStore, TransactionBooks, TLC

VARIABLE part

mcVars == <<part, relVars, booksVars>>

PairsOf == {<<1, v>> : v \in 1 .. 5} \cup {<<9, 9>>}

\* Eight buckets take four entries, sixteen take eight.  Hash values that
\* collide, that run round the end of the array, and that part at a rehash.
PairHashes ==
    {[p \in PairsOf \cup {Empty} |-> IF p \in {Empty, <<9, 9>>} THEN f[6] ELSE f[p[2]]] :
        f \in {<<7, 7, 15, 23, 0, 7>>, <<0, 8, 1, 9, 7, 1>>}}

AddressHashes ==
    {[k \in Key \cup {NullKey} |-> IF k = NullKey THEN 0 ELSE f[k]] :
        f \in {<<7, 7, 15, 7, 0>>, <<0, 8, 1, 9, 7>>}}

Parts == {"scan", "walk", "locks", "edits"}

MCInit ==
    /\ StoreInit /\ BooksInit /\ part \in Parts
    /\ IF part \in {"scan", "walk"} THEN keyHash[1] = 0 ELSE hash[<<1, 1>>] = 0

ScanCalls == (\E p \in {<<1, 1>>, <<1, 2>>, <<9, 9>>} : GetTuple(p)) \/ StartScan \/ ScanNext

WalkCalls ==
    (\E v \in 1 .. 5 : CreateTuple(<<1, v>>)) \/ StartWalk(1) \/ WalkNext

LockCalls ==
    \/ \E k \in Key : Acquire(k) \/ Erase(k) \/ Contains(k)
    \/ \E n \in BatchSizes : StartEdit(n)
    \/ Commit

EditCalls ==
    \/ \E k \in Key : EditTuple(k)
    \/ \E n \in BatchSizes : StartEdit(n)
    \/ Rollback
    \/ alive = Present /\ Forget

MCNext ==
    /\ UNCHANGED part
    /\ \/ part = "scan" /\ ScanCalls /\ UNCHANGED booksVars
       \/ part = "walk" /\ WalkCalls /\ UNCHANGED booksVars
       \/ part = "locks" /\ LockCalls /\ UNCHANGED relVars
       \/ part = "edits" /\ EditCalls /\ UNCHANGED relVars

MCSpec == MCInit /\ [][MCNext]_mcVars
=============================================================================
