---------------------------- MODULE RelationData ----------------------------
(***************************************************************************)
(* Binary relations, their tuples and the containers that index them.      *)
(*                                                                         *)
(* A Relation owns a StableVector of every tuple it ever created, one      *)
(* group per left value, one group per right value and a diagonal group.   *)
(* Each container and each tuple carries a lock, and what a lock protects  *)
(* is exactly what its container may hold.  Both are therefore named by    *)
(* one record, a pattern over tuples: the whole relation is (Wild, Wild), a  *)
(* left group (v, Wild), a right group (Wild, v), the diagonal (Diag, Diag)  *)
(* and a single tuple is its own pattern.                                  *)
(***************************************************************************)
CONSTANTS
    RelName,    \* names of relations
    Value,      \* the uint32_t values a tuple is made of
    Wild, Diag   \* wildcards of patterns

ASSUME SentinelAssumption ==
    Value # {} /\ Wild \notin Value /\ Diag \notin Value /\ Wild # Diag

Tuple == [rel : RelName, left : Value, right : Value]

\* Every lock of the database, named by the pattern it protects.
Lock ==
    [rel : RelName, left : Value \cup {Wild}, right : Value \cup {Wild}]
        \cup [rel : RelName, left : {Diag}, right : {Diag}]

WholeRel(r)      == [rel |-> r, left |-> Wild, right |-> Wild]
LeftGroup(r, v)  == [rel |-> r, left |-> v, right |-> Wild]
RightGroup(r, v) == [rel |-> r, left |-> Wild, right |-> v]
DiagGroup(r)     == [rel |-> r, left |-> Diag, right |-> Diag]

\* Tuple x matches the pattern l.
Covers(l, x) ==
    /\ l.rel = x.rel
    /\ \/ l.left = Diag /\ x.left = x.right
       \/ l.left \in {Wild, x.left} /\ l.right \in {Wild, x.right}

\* The groups an edit of x goes through.
GroupLocksMutant(x) == {LeftGroup(x.rel, x.left), RightGroup(x.rel, x.right)}
GroupLocks(x) ==
    {LeftGroup(x.rel, x.left), RightGroup(x.rel, x.right)}
        \cup (IF x.left = x.right THEN {DiagGroup(x.rel)} ELSE {})

\* The locks an edit of x waits for when a group refuses it: the whole
\* relation is named too, although it was checked once for the batch.
EditLocks(x) == GroupLocks(x) \cup {WholeRel(x.rel)}

\* What iterating over container l visits, of the tuples created so far:
\* ensure_tuple enters a new tuple in every index its values belong to.
Members(l, tuples) == {x \in tuples : Covers(l, x)}
=============================================================================
