------------------------------ MODULE LockBook ------------------------------
(***************************************************************************)
(* What a transaction expects of its two tables, whatever the calls and    *)
(* their order: a set of locks, each of which release_locks gives back     *)
(* once, and a log with the first status of every tuple it has changed.    *)
(* answer is what the last call returned or visited.                       *)
(***************************************************************************)
EXTENDS SequencesExt

CONSTANTS Key       \* addresses of locks and of tuples

VARIABLES locks, firsts, alive, answer

bookVars == <<locks, firsts, alive, answer>>

\* Calls answer with a Boolean or visit a sequence of locks.
Said(b) == [was |-> b, visited |-> <<>>]
Nothing == Said(FALSE)

BookInit ==
    /\ locks = {}
    /\ firsts = <<>>
    /\ alive \in SUBSET Key
    /\ answer = Nothing

BookInsert(k) ==
    /\ UNCHANGED alive
    /\ answer' = Said(k \notin locks)
    /\ locks' = locks \cup {k}
    /\ UNCHANGED firsts

BookErase(k) ==
    /\ UNCHANGED alive
    /\ answer' = Said(k \in locks)
    /\ locks' = locks \ {k}
    /\ UNCHANGED firsts

BookContains(k) ==
    /\ UNCHANGED alive
    /\ answer' = Said(k \in locks)
    /\ UNCHANGED <<locks, firsts>>

\* The first change of a tuple is logged, a later one is not.
BookChange(k) ==
    /\ answer' = Nothing
    /\ alive' = IF k \in alive THEN alive \ {k} ELSE alive \cup {k}
    /\ locks' = locks \cup {k}
    /\ firsts' = [q \in DOMAIN firsts \cup {k} |->
                     IF q \in DOMAIN firsts THEN firsts[q] ELSE q \in alive]

\* Every lock is visited, and none twice; the log is that of the next one.
BookRelease ==
    /\ ~answer'.was
    /\ ToSet(answer'.visited) = locks
    /\ Len(answer'.visited) = Cardinality(locks)
    /\ locks' = {}
    /\ firsts' = <<>>

BookCommit == BookRelease /\ UNCHANGED alive

BookRollback ==
    /\ BookRelease
    /\ alive' = {k \in Key : IF k \in DOMAIN firsts THEN firsts[k] ELSE k \in alive}

BookForget == answer' = Nothing /\ UNCHANGED alive /\ firsts' = <<>> /\ UNCHANGED locks

BookNext ==
    \/ \E k \in Key : BookInsert(k) \/ BookErase(k) \/ BookContains(k) \/ BookChange(k)
    \/ BookCommit \/ BookRollback \/ BookForget

BookSpec == BookInit /\ [][BookNext]_bookVars
=============================================================================
