------------------------------- MODULE Stage --------------------------------
(***************************************************************************)
(* The stages of a conjunctive query.  A query is a sequence of atoms      *)
(* R(a, b) whose arguments are constants or variables; one Stage per atom  *)
(* pulls partial answers from the stage before it through a channel that   *)
(* holds one value per variable.  This module says, from the atoms alone,  *)
(* what kind a stage has, which container it scans or probes and which     *)
(* locks its construction takes; the steps of a running query are in       *)
(* Database.                                                               *)
(***************************************************************************)
EXTENDS RelationData, Naturals, Sequences

CONSTANT Var    \* variable names

ASSUME VarAssumption == Var \cap Value = {} /\ Wild \notin Var /\ Diag \notin Var

Atom == [rel : RelName, left : Value \cup Var, right : Value \cup Var]

AtomVars(a) == {a.left, a.right} \cap Var
QueryVars(atoms) == UNION {AtomVars(atoms[i]) : i \in DOMAIN atoms}

\* The variables a stage receives values for.  var_idx numbers variables in
\* order of appearance, so these are the ones with var_idx < num_input_vars.
InputVars(atoms, i) == UNION {AtomVars(atoms[j]) : j \in 1 .. (i - 1)}

Filters  == {"GROUP_FILTER", "RELATION_FILTER"}
Products == {"GROUP_PRODUCT", "RELATION_PRODUCT"}
Joins    == {"JOIN_LEFT", "JOIN_RIGHT"}

\* The kind of stage i: how many distinct variables its atom has, and which
\* of them the stages before it have bound.
Kind(atoms, i) ==
    LET a    == atoms[i]
        vars == AtomVars(a)
        new  == vars \ InputVars(atoms, i)
    IN  IF vars = {} THEN "CONST_CONST"
        ELSE IF vars # {a.left, a.right} \/ a.left = a.right
             THEN IF new = {} THEN "GROUP_FILTER" ELSE "GROUP_PRODUCT"
        ELSE IF new = {}      THEN "RELATION_FILTER"
        ELSE IF new = vars    THEN "RELATION_PRODUCT"
        ELSE IF a.left \in new THEN "JOIN_RIGHT"
        ELSE "JOIN_LEFT"

\* What an argument of an atom stands for.
Arg(a, channel) == IF a \in Var THEN channel[a] ELSE a

\* The tuple an atom denotes once the channel has a value for its variables.
Inst(a, channel) ==
    [rel |-> a.rel, left |-> Arg(a.left, channel), right |-> Arg(a.right, channel)]

\* The container behind stage i, given the channel (which only joins look at).
Container(atoms, i, channel) ==
    LET a == atoms[i]
        k == Kind(atoms, i)
    IN  IF k = "CONST_CONST" THEN a
        ELSE IF k \in {"RELATION_FILTER", "RELATION_PRODUCT"} THEN WholeRel(a.rel)
        ELSE IF a.left = a.right THEN DiagGroup(a.rel)
        ELSE IF a.left \in Value \/ k = "JOIN_LEFT" THEN LeftGroup(a.rel, Arg(a.left, channel))
        ELSE RightGroup(a.rel, Arg(a.right, channel))

\* The predicate locks taken by constructing the stages of a query.
SetupLocks(atoms, channel) ==
    {Container(atoms, i, channel) :
        i \in {j \in DOMAIN atoms : Kind(atoms, j) \in Filters \cup Products}}

\* The channel after stage i has written the variables it introduces.
Bind(atoms, i, channel, x) ==
    LET a   == atoms[i]
        new == AtomVars(a) \ InputVars(atoms, i)
    IN  [v \in Var |-> IF v \notin new THEN channel[v]
                       ELSE IF v = a.left THEN x.left ELSE x.right]

\* The meaning of a query over a set of tuples: the assignments to its
\* variables that make every atom a member.
Eval(atoms, db) ==
    {s \in [QueryVars(atoms) -> Value] : \A i \in DOMAIN atoms : Inst(atoms[i], s) \in db}
=============================================================================
