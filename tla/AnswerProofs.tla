----------------------------- MODULE AnswerProofs -----------------------------
(***************************************************************************)
(* A query answers what it means, for every query, however often it is     *)
(* suspended, as long as no tuple created meanwhile rehashes what it scans *)
(* and the client does not roll back what has ended.                       *)
(*                                                                         *)
(* Every assignment of the query's variables is accounted for: it has been *)
(* printed, it is still to come from some stage that holds it, or it is    *)
(* excluded by a tuple that was seen dead.  What was printed is not to     *)
(* come again, and rests on tuples that were seen alive.  The locks keep   *)
(* what was seen as it was, which is where IsolationProofs comes in.       *)
(***************************************************************************)
EXTENDS IsolationProofs

-----------------------------------------------------------------------------
(* A query, with the label p and the stage k where it is.  A and D are tuples *)
(* that were seen alive and dead.                                             *)

Assignments(atoms) == [QueryVars(atoms) -> Value]

\* The stage is in the middle of a scan or has an input it is not done with.
Busy(q, i) == q.pending[i] \/ q.iter[i] # {}

\* What a stage may hold: each kind its own, and of its container only tuples
\* its atom may denote, given the inputs.
Shape(q) ==
    \A i \in DOMAIN q.atoms :
        /\ Kind(q.atoms, i) \in Filters \cup {"CONST_CONST"} => q.iter[i] = {}
        /\ Kind(q.atoms, i) \in Products \cup {"CONST_CONST"} => ~q.pending[i]
        /\ Kind(q.atoms, i) \in Joins /\ q.iter[i] # {} => q.pending[i]
        /\ \A x \in q.iter[i] :
               x \in Tuple /\ Inst(q.atoms[i], Bind(q.atoms, i, q.channel, x)) = x

\* The stages before i are through with what is in the channel.
Passed(q, i, A) ==
    \A j \in DOMAIN q.atoms : j < i =>
        /\ Inst(q.atoms[j], q.channel) \in A
        /\ Inst(q.atoms[j], q.channel) \notin q.iter[j]
        /\ Kind(q.atoms, j) \in Filters => ~q.pending[j]

\* The stages after k wait for inputs, those that are busy have been reached by
\* what is in the channel, and the constant atoms on the way are alive.
Inside(p) == p \in {"pulled", "visit"}
Reached(q, p, k, A) ==
    /\ Inside(p) => Passed(q, k, A)
    /\ \A i \in DOMAIN q.atoms : Busy(q, i) /\ ~Initial(q.atoms, i) => i <= k /\ Passed(q, i, A)
    /\ \A i \in DOMAIN q.atoms :
           Kind(q.atoms, i) = "CONST_CONST" /\ (i > k \/ (i = k /\ Inside(p)))
               => Inst(q.atoms[i], q.channel) \in A

\* Assignment s is to come from stage i; from some stage; or next.
Holds(q, i, s) ==
    /\ Agree(q.atoms, i, q.channel, s)
    /\ \/ Kind(q.atoms, i) \in Filters /\ q.pending[i]
       \/ Inst(q.atoms[i], s) \in q.iter[i]
Held(q, s) == \E i \in DOMAIN q.atoms : Holds(q, i, s)
Offered(q, k, s) == InputVars(q.atoms, k) # {} /\ Agree(q.atoms, k, q.channel, s)
ToCome(q, p, k, s) == Held(q, s) \/ (p = "pulled" /\ Offered(q, k, s))

Excluded(q, D, s) == \E i \in DOMAIN q.atoms : Inst(q.atoms[i], s) \in D
Supported(q, A, s) == \A i \in DOMAIN q.atoms : Inst(q.atoms[i], s) \in A

\* A query without variables is never through while it runs.
Accounted(q, p, k, A, D) ==
    /\ QueryVars(q.atoms) # {} => \A s \in Assignments(q.atoms) :
           s \in q.answers \/ ToCome(q, p, k, s) \/ Excluded(q, D, s)
    /\ \A s \in q.answers : /\ Supported(q, A, s)
                            /\ QueryVars(q.atoms) # {} => ~ToCome(q, p, k, s)

\* num counts the answers.
Counted(q) ==
    /\ IsFiniteSet(q.answers)
    /\ QueryVars(q.atoms) # {} \/ q.answers = {} =>
           q.num = IF Cardinality(q.answers) < MaxAnswers THEN Cardinality(q.answers) ELSE MaxAnswers

QueryOK(q, p, k, A, D) ==
    Shape(q) /\ Reached(q, p, k, A) /\ Accounted(q, p, k, A, D) /\ Counted(q)

\* The query has run to its end.
Done(q, A, D) ==
    /\ \A s \in Assignments(q.atoms) : s \in q.answers \/ Excluded(q, D, s)
    /\ \A s \in q.answers : Supported(q, A, s)
    /\ IsFiniteSet(q.answers)
    /\ q.num = IF Cardinality(q.answers) < MaxAnswers THEN Cardinality(q.answers) ELSE MaxAnswers

(* Tuples that are seen later do no harm. *)
LEMMA SeenMore ==
    ASSUME NEW q, NEW p, NEW k, NEW A, NEW D, NEW A2, NEW D2, A \subseteq A2, D \subseteq D2
    PROVE  /\ QueryOK(q, p, k, A, D) => QueryOK(q, p, k, A2, D2)
           /\ Done(q, A, D) => Done(q, A2, D2)
  <1>1. ASSUME Passed(q, k, A) PROVE Passed(q, k, A2)
    BY <1>1 DEF Passed
  <1>2. ASSUME NEW i, Passed(q, i, A) PROVE Passed(q, i, A2)
    BY <1>2 DEF Passed
  <1>3. Reached(q, p, k, A) => Reached(q, p, k, A2)
    BY <1>1, <1>2 DEF Reached
  <1>4. \A s : /\ Excluded(q, D, s) => Excluded(q, D2, s)
               /\ Supported(q, A, s) => Supported(q, A2, s)
    BY DEF Excluded, Supported
  <1> QED  BY <1>3, <1>4 DEF QueryOK, Accounted, Done

(* A suspended query is re-entered at its last stage. *)
LEMMA Reentered ==
    ASSUME NEW atoms \in Queries, NEW q \in QueryOn(atoms), NEW p, NEW k, NEW A, NEW D,
           QueryOK(q, p, k, A, D), p # "pulled"
    PROVE  QueryOK(q, "next", Len(atoms), A, D)
  <1>1. DOMAIN atoms = 1 .. Len(atoms) /\ q.atoms = atoms /\ Len(atoms) \in Nat
    BY QueriesType DEF QueryOn
  <1>2. Reached(q, "next", Len(atoms), A)
    BY <1>1 DEF QueryOK, Reached, Inside
  <1>3. \A s : ToCome(q, "next", Len(atoms), s) <=> ToCome(q, p, k, s)
    BY DEF ToCome
  <1>4. Accounted(q, "next", Len(atoms), A, D)
    BY <1>3 DEF QueryOK, Accounted
  <1> QED  BY <1>2, <1>4 DEF QueryOK

(* The stage has nothing, or has seen its constant tuple alive, and asks the  *)
(* one before it.                                                             *)
LEMMA Asked ==
    ASSUME NEW atoms \in Queries, NEW q \in QueryOn(atoms), NEW k \in DOMAIN atoms, NEW A, NEW D,
           QueryOK(q, "next", k, A, D), Busy(q, k) => Initial(atoms, k),
           Kind(atoms, k) = "CONST_CONST" => Inst(atoms[k], q.channel) \in A
    PROVE  /\ k = 1 => QueryOK(q, "pulled", k, A, D)
           /\ k # 1 => QueryOK(q, "next", k - 1, A, D)
  <1>1. DOMAIN atoms = 1 .. Len(atoms) /\ q.atoms = atoms /\ Len(atoms) \in Nat /\ k \in Nat
    BY QueriesType DEF QueryOn
  <1>2. Reached(q, "next", k, A)
    BY DEF QueryOK
  <1>3. ASSUME k = 1 PROVE QueryOK(q, "pulled", k, A, D)
    <2>1. Passed(q, k, A)
      BY <1>1, <1>3 DEF Passed
    <2>2. InputVars(atoms, k) = {}
      BY <1>3 DEF InputVars
    <2>3. Reached(q, "pulled", k, A)
      <3>1. \A i \in DOMAIN atoms : Kind(atoms, i) = "CONST_CONST" /\ i >= k => Inst(atoms[i], q.channel) \in A
        BY <1>1, <1>2 DEF Reached
      <3> QED  BY <1>1, <1>2, <2>1, <3>1 DEF Reached
    <2>4. Accounted(q, "pulled", k, A, D)
      BY <1>1, <2>2 DEF QueryOK, Accounted, ToCome, Offered
    <2> QED  BY <2>3, <2>4 DEF QueryOK
  <1>4. ASSUME k # 1 PROVE QueryOK(q, "next", k - 1, A, D)
    <2>1. Reached(q, "next", k - 1, A)
      BY <1>1, <1>2 DEF Reached, Inside
    <2>2. \A s : ToCome(q, "next", k - 1, s) <=> ToCome(q, "next", k, s)
      BY DEF ToCome
    <2>3. Accounted(q, "next", k - 1, A, D)
      BY <2>2 DEF QueryOK, Accounted
    <2> QED  BY <2>1, <2>3 DEF QueryOK
  <1> QED  BY <1>3, <1>4

(* A busy stage goes on where it was. *)
LEMMA WentOn ==
    ASSUME NEW atoms \in Queries, NEW q \in QueryOn(atoms), NEW k \in DOMAIN atoms, NEW A, NEW D,
           QueryOK(q, "next", k, A, D), Busy(q, k), ~Initial(atoms, k)
    PROVE  /\ Kind(atoms, k) \in Filters => QueryOK(q, "pulled", k, A, D)
           /\ QueryOK(q, "visit", k, A, D)
  <1>1. q.atoms = atoms /\ Kind(atoms, k) # "CONST_CONST"
    BY DEF QueryOn, QueryOK, Shape, Busy
  <1>2. ASSUME NEW p PROVE Reached(q, p, k, A)
    <2>1. Reached(q, "next", k, A) /\ Passed(q, k, A)
      BY <1>1 DEF QueryOK, Reached
    <2> QED  BY <1>1, <2>1 DEF Reached, Inside
  <1>3. Accounted(q, "visit", k, A, D)
    BY DEF QueryOK, Accounted, ToCome
  <1>4. ASSUME Kind(atoms, k) \in Filters PROVE Accounted(q, "pulled", k, A, D)
    <2>1. q.pending[k]
      BY <1>1, <1>4 DEF Busy, QueryOK, Shape
    <2>2. \A s : Offered(q, k, s) => Held(q, s)
      BY <1>1, <1>4, <2>1 DEF Offered, Held, Holds
    <2> QED  BY <2>2 DEF QueryOK, Accounted, ToCome
  <1> QED  BY <1>2, <1>3, <1>4 DEF QueryOK

(* A product without input goes on with its one scan. *)
LEMMA WentOnInitial ==
    ASSUME NEW atoms \in Queries, NEW q \in QueryOn(atoms), NEW k \in DOMAIN atoms, NEW A, NEW D,
           QueryOK(q, "pulled", k, A, D), Initial(atoms, k)
    PROVE  QueryOK(q, "visit", k, A, D)
  <1>1. q.atoms = atoms /\ InputVars(atoms, k) = {}
    BY DEF QueryOn, Initial
  <1> QED  BY <1>1 DEF QueryOK, Reached, Inside, Accounted, ToCome, Offered
-----------------------------------------------------------------------------
(* The steps of a stage. *)

\* q2 is q but for what stage k holds.
SameElsewhere(q, q2, k) ==
    /\ q2.atoms = q.atoms /\ q2.channel = q.channel /\ q2.answers = q.answers /\ q2.num = q.num
    /\ \A i \in DOMAIN q.atoms \ {k} : q2.pending[i] = q.pending[i] /\ q2.iter[i] = q.iter[i]

LEMMA AssignmentType ==
    ASSUME NEW atoms \in Queries, NEW i \in DOMAIN atoms
    PROVE  /\ \A s \in Assignments(atoms) : Inst(atoms[i], s) \in Tuple
           /\ \A c \in [Var -> Value] : Inst(atoms[i], c) \in Tuple
           /\ atoms[i] \in Atom /\ atoms \in Seq(Atom)
           /\ DOMAIN atoms = 1 .. Len(atoms) /\ Len(atoms) \in Nat \ {0} /\ i \in Nat
  <1>1. atoms[i] \in Atom /\ atoms \in Seq(Atom)
    BY QueriesType
  <1>2. DOMAIN atoms = 1 .. Len(atoms) /\ Len(atoms) \in Nat \ {0} /\ i \in Nat
    BY QueriesType
  <1>3. ASSUME NEW s \in Assignments(atoms) PROVE Inst(atoms[i], s) \in Tuple
    <2>1. AtomVars(atoms[i]) \subseteq QueryVars(atoms)
      BY <1>1, InputVarsAre
    <2>2. atoms[i].left \in Value \cup AtomVars(atoms[i]) /\ atoms[i].right \in Value \cup AtomVars(atoms[i])
      BY <1>1 DEF Atom, AtomVars
    <2> QED  BY <1>1, <2>1, <2>2, VarAssumption DEF Assignments, Inst, Arg, Tuple, Atom
  <1> QED  BY <1>1, <1>2, <1>3, InstType

LEMMA ElsewhereSame ==
    ASSUME NEW atoms \in Queries, NEW q \in QueryOn(atoms), NEW q2 \in QueryOn(atoms),
           NEW k \in DOMAIN atoms, SameElsewhere(q, q2, k), NEW A
    PROVE  /\ \A i \in DOMAIN atoms : i <= k /\ Passed(q, i, A) => Passed(q2, i, A)
           /\ \A i \in DOMAIN atoms \ {k} : Busy(q2, i) <=> Busy(q, i)
           /\ \A i \in DOMAIN atoms \ {k} : \A s : Holds(q2, i, s) <=> Holds(q, i, s)
  <1>1. DOMAIN atoms = 1 .. Len(atoms) /\ q.atoms = atoms /\ q2.atoms = atoms /\ k \in Nat
    BY QueriesType DEF QueryOn
  <1>2. \A i \in DOMAIN atoms : i <= k /\ Passed(q, i, A) => Passed(q2, i, A)
    BY <1>1 DEF SameElsewhere, Passed
  <1> QED  BY <1>1, <1>2 DEF SameElsewhere, Busy, Holds

(* The place of a query whose stage k has been reached. *)
LEMMA StillReached ==
    ASSUME NEW atoms \in Queries, NEW q \in QueryOn(atoms), NEW q2 \in QueryOn(atoms),
           NEW k \in DOMAIN atoms, SameElsewhere(q, q2, k), NEW A, NEW p, NEW p2,
           Reached(q, p, k, A), Inside(p)
    PROVE  Reached(q2, p2, k, A)
  <1>1. DOMAIN atoms = 1 .. Len(atoms) /\ q.atoms = atoms /\ q2.atoms = atoms /\ q2.channel = q.channel
        /\ k \in Nat
    BY QueriesType DEF QueryOn, SameElsewhere
  <1>2. Passed(q2, k, A)
    BY <1>1, ElsewhereSame DEF Reached
  <1>3. ASSUME NEW i \in DOMAIN atoms, Busy(q2, i), ~Initial(atoms, i)
        PROVE  i <= k /\ Passed(q2, i, A)
    <2>1. CASE i = k
      BY <1>1, <1>2, <2>1
    <2>2. CASE i # k
      BY <1>1, <1>3, <2>2, ElsewhereSame DEF Reached
    <2> QED  BY <2>1, <2>2
  <1> QED  BY <1>1, <1>2, <1>3 DEF Reached

(* What is held elsewhere stays so. *)
LEMMA StillAccounted ==
    ASSUME NEW atoms \in Queries, NEW q \in QueryOn(atoms), NEW q2 \in QueryOn(atoms),
           NEW k \in DOMAIN atoms, SameElsewhere(q, q2, k), NEW A, NEW D, NEW p, NEW p2, NEW k2,
           p2 # "pulled", Accounted(q, p, k, A, D),
           \A s \in Assignments(atoms) :
              /\ Holds(q2, k, s) => ToCome(q, p, k, s)
              /\ Holds(q, k, s) \/ (p = "pulled" /\ Offered(q, k, s))
                    => Holds(q2, k, s) \/ Excluded(q, D, s)
    PROVE  Accounted(q2, p2, k2, A, D)
  <1>1. q.atoms = atoms /\ q2.atoms = atoms /\ q2.answers = q.answers
        /\ q.answers \subseteq Assignments(atoms)
    BY DEF QueryOn, SameElsewhere, Assignments
  <1>2. \A s : Excluded(q2, D, s) <=> Excluded(q, D, s)
    BY <1>1 DEF Excluded
  <1>3. \A s : Supported(q2, A, s) <=> Supported(q, A, s)
    BY <1>1 DEF Supported
  <1>4. \A s : ToCome(q2, p2, k2, s) <=> Held(q2, s)
    BY DEF ToCome
  <1>5. ASSUME NEW s \in Assignments(atoms), Held(q2, s) PROVE ToCome(q, p, k, s)
    <2>1. PICK i \in DOMAIN atoms : Holds(q2, i, s)
      BY <1>1, <1>5 DEF Held
    <2> QED  BY <1>1, <2>1, ElsewhereSame DEF ToCome, Held
  <1>6. ASSUME NEW s \in Assignments(atoms), ToCome(q, p, k, s)
        PROVE  Held(q2, s) \/ Excluded(q, D, s)
    <2>1. CASE Held(q, s)
      <3>1. PICK i \in DOMAIN atoms : Holds(q, i, s)
        BY <1>1, <2>1 DEF Held
      <3>2. CASE i = k
        BY <1>1, <3>1, <3>2 DEF Held
      <3>3. CASE i # k
        BY <1>1, <3>1, <3>3, ElsewhereSame DEF Held
      <3> QED  BY <3>2, <3>3
    <2>2. CASE p = "pulled" /\ Offered(q, k, s)
      BY <1>1, <2>2 DEF Held
    <2> QED  BY <1>6, <2>1, <2>2 DEF ToCome
  <1> QED  BY <1>1, <1>2, <1>3, <1>4, <1>5, <1>6 DEF Accounted

(* A stage begins the scan of its container, given an input.                  *)
LEMMA ScanStarted ==
    ASSUME NEW atoms \in Queries, NEW q \in QueryOn(atoms), NEW q2 \in QueryOn(atoms),
           NEW k \in DOMAIN atoms, SameElsewhere(q, q2, k), NEW A, NEW D, NEW db \in SUBSET Tuple,
           QueryOK(q, "pulled", k, A, D),
           Kind(atoms, k) \in Products \cup Joins, ~Initial(atoms, k),
           q2.pending[k] = (Kind(atoms, k) \in Joins),
           q2.iter[k] = Members(Container(atoms, k, q.channel), db),
           \A x \in Tuple \ db : Covers(Container(atoms, k, q.channel), x) => x \in D
    PROVE  QueryOK(q2, "visit", k, A, D)
  <1>1. /\ q.atoms = atoms /\ q2.atoms = atoms /\ q2.channel = q.channel
        /\ q.channel \in [Var -> Value] /\ atoms \in Seq(Atom)
    BY QueriesType DEF QueryOn, SameElsewhere
  <1>2. InputVars(atoms, k) # {}
    BY <1>1, KindVars DEF Initial
  <1>3. Shape(q2)
    <2>1. ASSUME NEW x \in q2.iter[k]
          PROVE  x \in Tuple /\ Inst(atoms[k], Bind(atoms, k, q.channel, x)) = x
      <3>1. x \in Tuple /\ Covers(Container(atoms, k, q.channel), x)
        BY <2>1 DEF Members
      <3> QED  BY <1>1, <3>1, BindInst
    <2>2. Kind(atoms, k) \notin Filters \cup {"CONST_CONST"} /\ (Kind(atoms, k) \in Products => Kind(atoms, k) \notin Joins)
      BY DEF Products, Joins, Filters
    <2> QED  BY <1>1, <2>1, <2>2 DEF QueryOK, Shape, SameElsewhere
  <1>4. Reached(q2, "visit", k, A)
    BY StillReached DEF QueryOK, Inside
  <1>5. ASSUME NEW s \in Assignments(atoms)
        PROVE  /\ Holds(q2, k, s) => Offered(q, k, s)
               /\ Holds(q, k, s) \/ Offered(q, k, s) => Holds(q2, k, s) \/ Excluded(q, D, s)
    <2>1. Holds(q2, k, s) => Offered(q, k, s)
      BY <1>1, <1>2 DEF Holds, Offered
    <2>2. ASSUME Agree(atoms, k, q.channel, s) PROVE Holds(q2, k, s) \/ Excluded(q, D, s)
      <3>1. Covers(Container(atoms, k, q.channel), Inst(atoms[k], s)) /\ Inst(atoms[k], s) \in Tuple
        BY <1>1, <2>2, ScanCovers, AssignmentType
      <3>2. CASE Inst(atoms[k], s) \in db
        BY <1>1, <2>2, <3>1, <3>2 DEF Holds, Members
      <3>3. CASE Inst(atoms[k], s) \notin db
        BY <1>1, <3>1, <3>3 DEF Excluded
      <3> QED  BY <3>2, <3>3
    <2> QED  BY <1>1, <2>1, <2>2 DEF Holds, Offered
  <1>6. Accounted(q2, "visit", k, A, D)
    <2>1. \A s : Offered(q, k, s) => ToCome(q, "pulled", k, s)
      BY DEF ToCome
    <2> QED  BY <1>5, <2>1, StillAccounted DEF QueryOK
  <1>7. Counted(q2)
    BY DEF QueryOK, Counted, SameElsewhere
  <1> QED  BY <1>3, <1>4, <1>6, <1>7 DEF QueryOK

(* A scan passes over a tuple that is dead.                                   *)
LEMMA DeadVisited ==
    ASSUME NEW atoms \in Queries, NEW q \in QueryOn(atoms), NEW q2 \in QueryOn(atoms),
           NEW k \in DOMAIN atoms, SameElsewhere(q, q2, k), NEW A, NEW D, NEW p2, p2 # "pulled",
           QueryOK(q, "visit", k, A, D), NEW x \in D,
           q2.pending[k] = q.pending[k], q2.iter[k] = q.iter[k] \ {x}
    PROVE  QueryOK(q2, p2, k, A, D)
  <1>1. q.atoms = atoms /\ q2.atoms = atoms /\ q2.channel = q.channel
    BY DEF QueryOn, SameElsewhere
  <1>2. Shape(q2)
    BY <1>1 DEF QueryOK, Shape, SameElsewhere
  <1>3. Reached(q2, p2, k, A)
    BY StillReached DEF QueryOK, Inside
  <1>4. ASSUME NEW s \in Assignments(atoms)
        PROVE  /\ Holds(q2, k, s) => Holds(q, k, s)
               /\ Holds(q, k, s) => Holds(q2, k, s) \/ Excluded(q, D, s)
    BY <1>1 DEF Holds, Excluded
  <1>5. \A s : Holds(q, k, s) => ToCome(q, "visit", k, s)
    BY <1>1 DEF ToCome, Held
  <1>6. Accounted(q2, p2, k, A, D)
    BY <1>4, <1>5, StillAccounted DEF QueryOK
  <1>7. Counted(q2)
    BY DEF QueryOK, Counted, SameElsewhere
  <1> QED  BY <1>2, <1>3, <1>6, <1>7 DEF QueryOK

(* A join is through with its group.                                          *)
LEMMA JoinEnded ==
    ASSUME NEW atoms \in Queries, NEW q \in QueryOn(atoms), NEW q2 \in QueryOn(atoms),
           NEW k \in DOMAIN atoms, SameElsewhere(q, q2, k), NEW A, NEW D,
           QueryOK(q, "visit", k, A, D), Kind(atoms, k) \in Joins,
           q.iter[k] = {}, q2.iter[k] = {}, q2.pending[k] = FALSE
    PROVE  QueryOK(q2, "next", k, A, D)
  <1>1. q.atoms = atoms /\ q2.atoms = atoms /\ q2.channel = q.channel
    BY DEF QueryOn, SameElsewhere
  <1>2. Shape(q2)
    BY <1>1 DEF QueryOK, Shape, SameElsewhere
  <1>3. Reached(q2, "next", k, A)
    BY StillReached DEF QueryOK, Inside
  <1>4. \A s : ~Holds(q2, k, s) /\ ~Holds(q, k, s)
    BY <1>1 DEF Holds, Joins, Filters
  <1>5. Accounted(q2, "next", k, A, D)
    BY <1>4, StillAccounted DEF QueryOK
  <1>6. Counted(q2)
    BY DEF QueryOK, Counted, SameElsewhere
  <1> QED  BY <1>2, <1>3, <1>5, <1>6 DEF QueryOK

(* A filter keeps its input, or drops it if its tuple is dead.                *)
LEMMA Filtered ==
    ASSUME NEW atoms \in Queries, NEW q \in QueryOn(atoms), NEW q2 \in QueryOn(atoms),
           NEW k \in DOMAIN atoms, SameElsewhere(q, q2, k), NEW A, NEW D,
           QueryOK(q, "pulled", k, A, D), Kind(atoms, k) \in Filters, q2.iter[k] = q.iter[k],
           q2.pending[k] \/ Inst(atoms[k], q.channel) \in D
    PROVE  QueryOK(q2, "next", k, A, D)
  <1>1. /\ q.atoms = atoms /\ q2.atoms = atoms /\ q2.channel = q.channel /\ atoms \in Seq(Atom)
        /\ q.iter[k] = {} /\ q2.pending[k] \in BOOLEAN
    BY QueriesType DEF QueryOn, SameElsewhere, QueryOK, Shape
  <1>2. Shape(q2)
    BY <1>1 DEF QueryOK, Shape, SameElsewhere, Filters, Products, Joins
  <1>3. Reached(q2, "next", k, A)
    BY StillReached DEF QueryOK, Inside
  <1>4. InputVars(atoms, k) # {} /\ AtomVars(atoms[k]) \subseteq InputVars(atoms, k)
    BY <1>1, KindVars DEF Filters
  <1>5. ASSUME NEW s, Agree(atoms, k, q.channel, s)
        PROVE  Holds(q2, k, s) \/ Excluded(q, D, s)
    <2>1. Inst(atoms[k], q.channel) = Inst(atoms[k], s)
      BY <1>4, <1>5, InstDepends DEF Agree
    <2> QED  BY <1>1, <1>5, <2>1 DEF Holds, Excluded
  <1>6. \A s : Holds(q2, k, s) => ToCome(q, "pulled", k, s)
    BY <1>1, <1>4 DEF ToCome, Offered, Holds
  <1>7. \A s : Holds(q, k, s) \/ Offered(q, k, s) => Holds(q2, k, s) \/ Excluded(q, D, s)
    BY <1>1, <1>5 DEF Holds, Offered
  <1>8. Accounted(q2, "next", k, A, D)
    BY <1>6, <1>7, StillAccounted DEF QueryOK
  <1>9. Counted(q2)
    BY DEF QueryOK, Counted, SameElsewhere
  <1> QED  BY <1>2, <1>3, <1>8, <1>9 DEF QueryOK
-----------------------------------------------------------------------------
(* A stage returns OK. *)

\* Stage k of q, at label p, is satisfied by a tuple seen alive and leaves q2.
\* A product or a join has taken the tuple from its scan and bound its
\* variables to it.
Satisfied(q, p, q2, k, A) ==
    /\ q2.atoms = q.atoms /\ q2.answers = q.answers /\ q2.num = q.num
    /\ \A i \in DOMAIN q.atoms \ {k} : q2.pending[i] = q.pending[i] /\ q2.iter[i] = q.iter[i]
    /\ Inst(q.atoms[k], q2.channel) \in A
    /\ \/ /\ p = "pulled" /\ Kind(q.atoms, k) \in Filters \cup {"CONST_CONST"}
          /\ q2.channel = q.channel /\ q2.iter[k] = q.iter[k] /\ ~q2.pending[k]
       \/ /\ p = "visit" /\ Kind(q.atoms, k) \in Products \cup Joins
          /\ q2.pending[k] = q.pending[k]
          /\ \E x \in q.iter[k] : /\ q2.iter[k] = q.iter[k] \ {x}
                                  /\ q2.channel = Bind(q.atoms, k, q.channel, x)

(* The channel keeps what the stages up to k have been given.                 *)
LEMMA ChannelKept ==
    ASSUME NEW atoms \in Queries, NEW q \in QueryOn(atoms), NEW q2 \in QueryOn(atoms),
           NEW k \in DOMAIN atoms, NEW A, NEW p, Satisfied(q, p, q2, k, A), Shape(q),
           Reached(q, p, k, A)
    PROVE  /\ \A v \in InputVars(atoms, k) : q2.channel[v] = q.channel[v]
           /\ \A i \in DOMAIN atoms : i <= k \/ Busy(q, i) =>
                  \A v \in InputVars(atoms, i) : q2.channel[v] = q.channel[v]
           /\ \A i \in DOMAIN atoms : i < k => Inst(atoms[i], q2.channel) = Inst(atoms[i], q.channel)
           /\ \A i \in DOMAIN atoms : Kind(atoms, i) = "CONST_CONST" =>
                  Inst(atoms[i], q2.channel) = Inst(atoms[i], q.channel)
  <1>1. /\ q.atoms = atoms /\ q2.atoms = atoms /\ atoms \in Seq(Atom)
        /\ DOMAIN atoms = 1 .. Len(atoms) /\ Len(atoms) \in Nat
    BY QueriesType DEF QueryOn
  <1>2. \A v \in InputVars(atoms, k) : q2.channel[v] = q.channel[v]
    BY <1>1, InputVarsAre, BindKeeps DEF Satisfied
  <1>3. ASSUME NEW i \in DOMAIN atoms, i <= k \/ Busy(q, i), NEW v \in InputVars(atoms, i)
        PROVE  q2.channel[v] = q.channel[v]
    <2>1. CASE i <= k
      <3>1. v \in InputVars(atoms, k)
        <4>1. i \in Nat /\ k \in Nat
          BY <1>1
        <4>2. CASE i = k
          BY <1>3, <4>2
        <4>3. CASE i < k
          <5>1. InputVars(atoms, i) \subseteq InputVars(atoms, k)
            BY <1>1, <4>3, InputVarsAre
          <5> QED  BY <1>3, <5>1
        <4> QED  BY <2>1, <4>1, <4>2, <4>3
      <3> QED  BY <1>2, <3>1
    <2>2. CASE ~(i <= k)
      <3>1. Initial(atoms, i)
        BY <1>1, <1>3, <2>2 DEF Reached
      <3> QED  BY <1>3, <3>1 DEF Initial
    <2> QED  BY <2>1, <2>2
  <1>4. ASSUME NEW i \in DOMAIN atoms, i < k
        PROVE  Inst(atoms[i], q2.channel) = Inst(atoms[i], q.channel)
    <2>1. \A v \in AtomVars(atoms[i]) : q2.channel[v] = q.channel[v]
      BY <1>1, <1>2, <1>4, InputVarsAre
    <2> QED  BY <2>1, InstDepends
  <1>5. ASSUME NEW i \in DOMAIN atoms, Kind(atoms, i) = "CONST_CONST"
        PROVE  Inst(atoms[i], q2.channel) = Inst(atoms[i], q.channel)
    <2>1. AtomVars(atoms[i]) = {}
      BY <1>1, <1>5, KindVars
    <2> QED  BY <2>1, InstDepends
  <1> QED  BY <1>2, <1>3, <1>4, <1>5

(* What the stages hold and where they are, once stage k is satisfied.        *)
LEMMA SatisfiedShape ==
    ASSUME NEW atoms \in Queries, NEW q \in QueryOn(atoms), NEW q2 \in QueryOn(atoms),
           NEW k \in DOMAIN atoms, NEW A, NEW p, Satisfied(q, p, q2, k, A), Shape(q),
           Reached(q, p, k, A)
    PROVE  Shape(q2)
  <1>1. /\ q.atoms = atoms /\ q2.atoms = atoms
        /\ \A i \in DOMAIN atoms : q2.iter[i] \subseteq q.iter[i] /\ (q2.pending[i] => q.pending[i])
        /\ \A i \in DOMAIN atoms : Kind(atoms, i) \in Joins => q2.pending[i] = q.pending[i]
    <2>1. Filters \cap Joins = {} /\ "CONST_CONST" \notin Joins /\ q.atoms = atoms
      BY DEF QueryOn, Filters, Joins
    <2> QED  BY <2>1 DEF Satisfied
  <1>2. ASSUME NEW i \in DOMAIN atoms, NEW x \in q2.iter[i]
        PROVE  x \in Tuple /\ Inst(atoms[i], Bind(atoms, i, q2.channel, x)) = x
    <2>1. x \in q.iter[i] /\ x \in Tuple /\ Inst(atoms[i], Bind(atoms, i, q.channel, x)) = x
      BY <1>1, <1>2 DEF Shape
    <2>2. \A v \in InputVars(atoms, i) : q2.channel[v] = q.channel[v]
      BY <2>1, ChannelKept DEF Busy
    <2>3. \A v \in AtomVars(atoms[i]) :
              Bind(atoms, i, q2.channel, x)[v] = Bind(atoms, i, q.channel, x)[v]
      BY <2>2 DEF Bind, AtomVars
    <2> QED  BY <2>1, <2>3, InstDepends
  <1> QED  BY <1>1, <1>2 DEF Shape

LEMMA SatisfiedReached ==
    ASSUME NEW atoms \in Queries, NEW q \in QueryOn(atoms), NEW q2 \in QueryOn(atoms),
           NEW k \in DOMAIN atoms, NEW A, NEW p, Satisfied(q, p, q2, k, A), Shape(q),
           Reached(q, p, k, A)
    PROVE  /\ k < Len(atoms) => Reached(q2, "pulled", k + 1, A)
           /\ k = Len(atoms) => Reached(q2, "next", k, A)
           /\ \A i \in DOMAIN atoms : i <= k =>
                  /\ Inst(atoms[i], q2.channel) \in A
                  /\ Inst(atoms[i], q2.channel) \notin q2.iter[i]
                  /\ Kind(atoms, i) \in Filters => ~q2.pending[i]
  <1>1. /\ q.atoms = atoms /\ q2.atoms = atoms /\ Passed(q, k, A)
        /\ DOMAIN atoms = 1 .. Len(atoms) /\ Len(atoms) \in Nat /\ k \in Nat
    BY QueriesType DEF QueryOn, Satisfied, Reached, Inside
  <1>2. ASSUME NEW i \in DOMAIN atoms, i <= k, Passed(q, i, A) PROVE Passed(q2, i, A)
    <2>1. ASSUME NEW j \in DOMAIN atoms, j < i
          PROVE  /\ Inst(atoms[j], q2.channel) \in A
                 /\ Inst(atoms[j], q2.channel) \notin q2.iter[j]
                 /\ Kind(atoms, j) \in Filters => ~q2.pending[j]
      <3>1. j # k /\ j < k
        BY <1>1, <1>2, <2>1
      <3>2. Inst(atoms[j], q2.channel) = Inst(atoms[j], q.channel)
        BY <3>1, ChannelKept
      <3>3. q2.iter[j] = q.iter[j] /\ q2.pending[j] = q.pending[j]
        BY <1>1, <3>1 DEF Satisfied
      <3> QED  BY <1>1, <1>2, <2>1, <3>2, <3>3 DEF Passed
    <2> QED  BY <1>1, <2>1 DEF Passed
  <1>3. /\ Inst(atoms[k], q2.channel) \in A
        /\ Inst(atoms[k], q2.channel) \notin q2.iter[k]
        /\ Kind(atoms, k) \in Filters => ~q2.pending[k]
    <2>1. CASE Kind(atoms, k) \in Filters \cup {"CONST_CONST"}
      <3>1. Kind(atoms, k) \notin Products \cup Joins
        BY <2>1 DEF Filters, Products, Joins
      <3>2. q2.iter[k] = {}
        BY <1>1, <2>1, <3>1 DEF Satisfied, Shape
      <3> QED  BY <1>1, <3>1, <3>2 DEF Satisfied
    <2>2. CASE Kind(atoms, k) \notin Filters \cup {"CONST_CONST"}
      <3>1. PICK x \in q.iter[k] : /\ q2.iter[k] = q.iter[k] \ {x}
                                   /\ q2.channel = Bind(atoms, k, q.channel, x)
        BY <1>1, <2>2 DEF Satisfied
      <3>2. Inst(atoms[k], q2.channel) = x
        BY <1>1, <3>1 DEF Shape
      <3> QED  BY <1>1, <2>2, <3>1, <3>2 DEF Satisfied
    <2> QED  BY <2>1, <2>2
  <1>4. Passed(q2, k, A)
    BY <1>1, <1>2
  <1>5. ASSUME NEW i \in DOMAIN atoms, i <= k
        PROVE  /\ Inst(atoms[i], q2.channel) \in A
               /\ Inst(atoms[i], q2.channel) \notin q2.iter[i]
               /\ Kind(atoms, i) \in Filters => ~q2.pending[i]
    BY <1>1, <1>3, <1>4, <1>5 DEF Passed
  <1>6. ASSUME NEW i \in DOMAIN atoms, Busy(q2, i), ~Initial(atoms, i)
        PROVE  i <= k /\ Passed(q2, i, A)
    <2>1. CASE i = k
      BY <1>1, <1>4, <2>1
    <2>2. CASE i # k
      <3>1. Busy(q, i)
        BY <1>1, <1>6, <2>2 DEF Satisfied, Busy
      <3> QED  BY <1>1, <1>2, <1>6, <3>1 DEF Reached
    <2> QED  BY <2>1, <2>2
  <1>7. ASSUME NEW i \in DOMAIN atoms, Kind(atoms, i) = "CONST_CONST", i >= k
        PROVE  Inst(atoms[i], q2.channel) \in A
    <2>1. CASE i = k
      BY <1>3, <2>1
    <2>2. CASE i > k
      <3>1. Inst(atoms[i], q.channel) \in A
        BY <1>1, <1>7, <2>2 DEF Reached
      <3>2. Inst(atoms[i], q2.channel) = Inst(atoms[i], q.channel)
        BY <1>7, ChannelKept
      <3> QED  BY <3>1, <3>2
    <2> QED  BY <1>1, <1>7, <2>1, <2>2
  <1>8. k < Len(atoms) => Reached(q2, "pulled", k + 1, A)
    <2>1. k < Len(atoms) => Passed(q2, k + 1, A)
      BY <1>1, <1>5 DEF Passed
    <2> QED  BY <1>1, <1>6, <1>7, <2>1 DEF Reached
  <1>9. k = Len(atoms) => Reached(q2, "next", k, A)
    BY <1>1, <1>6, <1>7 DEF Reached, Inside
  <1> QED  BY <1>5, <1>8, <1>9

(* What is still to come, once stage k is satisfied: the assignment passed on *)
(* is no longer held, and nothing else has changed.                           *)
LEMMA SatisfiedToCome ==
    ASSUME NEW atoms \in Queries, NEW q \in QueryOn(atoms), NEW q2 \in QueryOn(atoms),
           NEW k \in DOMAIN atoms, NEW A, NEW p, Satisfied(q, p, q2, k, A), Shape(q),
           Reached(q, p, k, A), NEW s
    PROVE  /\ Held(q2, s) => Held(q, s)
           /\ Offered(q2, k + 1, s) => ToCome(q, p, k, s)
           /\ ToCome(q, p, k, s) => Held(q2, s) \/ Offered(q2, k + 1, s)
           /\ k = Len(atoms) /\ Agree(atoms, k + 1, q2.channel, s) =>
                  ~Held(q2, s) /\ Supported(q2, A, s)
  <1>1. /\ q.atoms = atoms /\ q2.atoms = atoms /\ atoms \in Seq(Atom)
        /\ DOMAIN atoms = 1 .. Len(atoms) /\ Len(atoms) \in Nat /\ k \in Nat
    BY QueriesType DEF QueryOn
  <1>2. /\ InputVars(atoms, k + 1) = InputVars(atoms, k) \cup AtomVars(atoms[k])
        /\ \A i \in DOMAIN atoms : i <= k => AtomVars(atoms[i]) \subseteq InputVars(atoms, k + 1)
    <2>1. InputVars(atoms, k + 1) = InputVars(atoms, k) \cup AtomVars(atoms[k])
      BY <1>1, InputVarsAre
    <2>2. \A i \in DOMAIN atoms : i < k => AtomVars(atoms[i]) \subseteq InputVars(atoms, k)
      BY <1>1, InputVarsAre
    <2> QED  BY <1>1, <2>1, <2>2
  <1>3. ASSUME NEW i \in DOMAIN atoms, Busy(q, i) \/ i = k
        PROVE  Agree(atoms, i, q2.channel, s) <=> Agree(atoms, i, q.channel, s)
    <2>1. \A v \in InputVars(atoms, i) : q2.channel[v] = q.channel[v]
      BY <1>1, <1>3, ChannelKept
    <2> QED  BY <2>1 DEF Agree
  <1>4. ASSUME NEW i \in DOMAIN atoms, i # k PROVE Holds(q2, i, s) <=> Holds(q, i, s)
    <2>1. q2.iter[i] = q.iter[i] /\ q2.pending[i] = q.pending[i]
      BY <1>1, <1>4 DEF Satisfied
    <2>2. Holds(q2, i, s) \/ Holds(q, i, s) => Busy(q, i)
      BY <1>1, <2>1 DEF Holds, Busy
    <2> QED  BY <1>1, <1>3, <2>1, <2>2 DEF Holds
  <1>5. /\ Holds(q2, k, s) => Holds(q, k, s)
        /\ Offered(q2, k + 1, s) => Holds(q, k, s) \/ (p = "pulled" /\ Offered(q, k, s))
        /\ Holds(q, k, s) \/ (p = "pulled" /\ Offered(q, k, s))
                => Holds(q2, k, s) \/ Offered(q2, k + 1, s)
    <2>1. CASE p = "pulled" /\ Kind(atoms, k) \in Filters \cup {"CONST_CONST"}
      <3>1. Kind(atoms, k) \notin Products \cup Joins
        BY <2>1 DEF Filters, Products, Joins
      <3>2. /\ q2.channel = q.channel /\ q.iter[k] = {} /\ q2.iter[k] = {} /\ ~q2.pending[k]
        BY <1>1, <2>1, <3>1 DEF Satisfied, Shape
      <3>3. InputVars(atoms, k + 1) = InputVars(atoms, k)
        BY <1>1, <1>2, <2>1, KindVars
      <3>4. Kind(atoms, k) \in Filters => InputVars(atoms, k) # {}
        BY <1>1, KindVars DEF Filters
      <3>5. Offered(q2, k + 1, s) <=> Offered(q, k, s)
        BY <1>1, <3>2, <3>3 DEF Offered, Agree
      <3>6. Holds(q, k, s) => Offered(q, k, s)
        BY <1>1, <3>2, <3>4 DEF Holds, Offered
      <3>7. ~Holds(q2, k, s)
        BY <1>1, <3>2 DEF Holds
      <3> QED  BY <2>1, <3>5, <3>6, <3>7
    <2>2. CASE p = "visit" /\ Kind(atoms, k) \in Products \cup Joins
      <3>1. Kind(atoms, k) \notin Filters \cup {"CONST_CONST"} /\ p # "pulled"
        BY <2>2 DEF Filters, Products, Joins
      <3>2. PICK x \in q.iter[k] : /\ q2.iter[k] = q.iter[k] \ {x}
                                   /\ q2.channel = Bind(atoms, k, q.channel, x)
        BY <1>1, <3>1 DEF Satisfied
      <3>3. Inst(atoms[k], q2.channel) = x
        BY <1>1, <3>2 DEF Shape
      <3>4. InputVars(atoms, k + 1) # {}
        BY <1>1, <1>2, <2>2, KindVars
      <3>5. Offered(q2, k + 1, s) => Inst(atoms[k], s) = x
        <4>1. ASSUME Offered(q2, k + 1, s) PROVE \A v \in AtomVars(atoms[k]) : q2.channel[v] = s[v]
          BY <1>1, <1>2, <4>1 DEF Offered, Agree
        <4> QED  BY <3>3, <4>1, InstDepends
      <3>6. Inst(atoms[k], s) = x =>
                (Agree(atoms, k, q.channel, s) <=> Agree(atoms, k + 1, q2.channel, s))
        BY <1>1, <3>2, BindAgrees
      <3>7. Agree(atoms, k, q2.channel, s) <=> Agree(atoms, k, q.channel, s)
        BY <1>3
      <3> QED  BY <1>1, <3>1, <3>2, <3>4, <3>5, <3>6, <3>7 DEF Holds, Offered
    <2> QED  BY <1>1, <2>1, <2>2 DEF Satisfied
  <1>6. Held(q2, s) => Held(q, s)
    <2>1. \A i \in DOMAIN atoms : Holds(q2, i, s) => Holds(q, i, s)
      BY <1>4, <1>5
    <2> QED  BY <1>1, <2>1 DEF Held
  <1>7. Offered(q2, k + 1, s) => ToCome(q, p, k, s)
    BY <1>1, <1>5 DEF ToCome, Held
  <1>8. ToCome(q, p, k, s) => Held(q2, s) \/ Offered(q2, k + 1, s)
    <2>1. \A i \in DOMAIN atoms : Holds(q, i, s) => Holds(q2, i, s) \/ Offered(q2, k + 1, s)
      BY <1>4, <1>5
    <2> QED  BY <1>1, <1>5, <2>1 DEF ToCome, Held
  <1>9. ASSUME k = Len(atoms), Agree(atoms, k + 1, q2.channel, s)
        PROVE  ~Held(q2, s) /\ Supported(q2, A, s)
    <2>1. ASSUME NEW i \in DOMAIN atoms PROVE ~Holds(q2, i, s) /\ Inst(atoms[i], s) \in A
      <3>1. i <= k
        BY <1>1, <1>9
      <3>2. \A v \in AtomVars(atoms[i]) : q2.channel[v] = s[v]
        BY <1>2, <1>9, <3>1 DEF Agree
      <3>3. Inst(atoms[i], q2.channel) = Inst(atoms[i], s)
        BY <3>2, InstDepends
      <3>4. /\ Inst(atoms[i], q2.channel) \in A
            /\ Inst(atoms[i], q2.channel) \notin q2.iter[i]
            /\ Kind(atoms, i) \in Filters => ~q2.pending[i]
        BY <3>1, SatisfiedReached
      <3> QED  BY <1>1, <3>3, <3>4 DEF Holds
    <2> QED  BY <1>1, <2>1 DEF Held, Supported
  <1> QED  BY <1>6, <1>7, <1>8, <1>9

(* The next stage goes on with what a stage returns.                          *)
LEMMA PassedOn ==
    ASSUME NEW atoms \in Queries, NEW q \in QueryOn(atoms), NEW q2 \in QueryOn(atoms),
           NEW k \in DOMAIN atoms, NEW A, NEW D, NEW p, Satisfied(q, p, q2, k, A),
           QueryOK(q, p, k, A, D), k < Len(atoms)
    PROVE  QueryOK(q2, "pulled", k + 1, A, D)
  <1>1. /\ q.atoms = atoms /\ q2.atoms = atoms /\ q2.answers = q.answers /\ q2.num = q.num
        /\ q.answers \subseteq Assignments(atoms)
    BY DEF QueryOn, Satisfied, Assignments
  <1>2. Shape(q2) /\ Reached(q2, "pulled", k + 1, A)
    BY SatisfiedShape, SatisfiedReached DEF QueryOK
  <1>3. \A s : ToCome(q2, "pulled", k + 1, s) <=> ToCome(q, p, k, s)
    <2>1. \A s : /\ Held(q2, s) => Held(q, s)
                 /\ Offered(q2, k + 1, s) => ToCome(q, p, k, s)
                 /\ ToCome(q, p, k, s) => Held(q2, s) \/ Offered(q2, k + 1, s)
      BY SatisfiedToCome DEF QueryOK
    <2> QED  BY <2>1 DEF ToCome
  <1>4. \A s : /\ Excluded(q2, D, s) <=> Excluded(q, D, s)
               /\ Supported(q2, A, s) <=> Supported(q, A, s)
    BY <1>1 DEF Excluded, Supported
  <1>5. Accounted(q2, "pulled", k + 1, A, D)
    BY <1>1, <1>3, <1>4 DEF QueryOK, Accounted
  <1>6. Counted(q2)
    BY <1>1 DEF QueryOK, Counted
  <1> QED  BY <1>2, <1>5, <1>6 DEF QueryOK

(* The last stage returns: the answer printed is a new one.                   *)
LEMMA AnswerPrinted ==
    ASSUME NEW atoms \in Queries, NEW q \in QueryOn(atoms), NEW q2 \in QueryOn(atoms),
           NEW k \in DOMAIN atoms, NEW A, NEW D, NEW p, Satisfied(q, p, q2, k, A),
           QueryOK(q, p, k, A, D), k = Len(atoms)
    PROVE  QueryOK(Answered(q2), "next", k, A, D)
  <1> DEFINE r == Answered(q2)
             n == [v \in QueryVars(atoms) |-> q2.channel[v]]
  <1>1. /\ q.atoms = atoms /\ q2.atoms = atoms /\ q2.answers = q.answers /\ q2.num = q.num
        /\ q.answers \subseteq Assignments(atoms) /\ atoms \in Seq(Atom)
        /\ q2.channel \in [Var -> Value] /\ q.num \in Nat
    BY QueriesType DEF QueryOn, Satisfied, Assignments
  <1>2. /\ r.atoms = atoms /\ r.channel = q2.channel /\ r.iter = q2.iter /\ r.pending = q2.pending
        /\ r.answers = q.answers \cup {n}
        /\ r.num = IF q.num < MaxAnswers THEN q.num + 1 ELSE q.num
    BY <1>1 DEF Answered, QueryOn
  <1>3. /\ InputVars(atoms, k + 1) = QueryVars(atoms) /\ QueryVars(atoms) \subseteq Var
        /\ n \in Assignments(atoms)
    BY <1>1, InputVarsAre DEF Assignments
  <1>4. \A s \in Assignments(atoms) : Agree(atoms, k + 1, q2.channel, s) <=> s = n
    BY <1>3 DEF Agree, Assignments
  <1> HIDE DEF r, n
  <1>5. Shape(r) /\ Reached(r, "next", k, A)
    <2>1. Shape(q2) /\ Reached(q2, "next", k, A)
      BY SatisfiedShape, SatisfiedReached DEF QueryOK
    <2> QED  BY <1>1, <1>2, <2>1 DEF Shape, Reached, Inside, Busy, Passed
  <1>6. \A s \in Assignments(atoms) :
           /\ Held(r, s) <=> Held(q2, s)
           /\ Held(q2, s) => ToCome(q, p, k, s)
           /\ ToCome(q, p, k, s) => Held(q2, s) \/ s = n
           /\ s = n => ~Held(q2, s) /\ Supported(q2, A, s)
           /\ s = n /\ QueryVars(atoms) # {} => ToCome(q, p, k, s)
    <2>1. \A s : Held(r, s) <=> Held(q2, s)
      BY <1>1, <1>2 DEF Held, Holds
    <2>2. \A s : /\ Held(q2, s) => Held(q, s)
                 /\ Offered(q2, k + 1, s) => ToCome(q, p, k, s)
                 /\ ToCome(q, p, k, s) => Held(q2, s) \/ Offered(q2, k + 1, s)
                 /\ Agree(atoms, k + 1, q2.channel, s) => ~Held(q2, s) /\ Supported(q2, A, s)
      BY SatisfiedToCome DEF QueryOK
    <2> QED  BY <1>1, <1>3, <1>4, <2>1, <2>2 DEF ToCome, Offered
  <1>7. \A s : /\ Excluded(r, D, s) <=> Excluded(q, D, s)
               /\ Supported(r, A, s) <=> Supported(q, A, s)
               /\ Supported(q2, A, s) <=> Supported(q, A, s)
    BY <1>1, <1>2 DEF Excluded, Supported
  <1>8. Accounted(r, "next", k, A, D)
    <2>1. \A s : ToCome(r, "next", k, s) <=> Held(r, s)
      BY DEF ToCome
    <2>2. Accounted(q, p, k, A, D)
      BY DEF QueryOK
    <2> QED  BY <1>1, <1>2, <1>3, <1>6, <1>7, <2>1, <2>2 DEF Accounted
  <1>9. Counted(r)
    <2>1. IsFiniteSet(q.answers) /\ IsFiniteSet(r.answers)
      BY <1>2, FS_AddElement DEF QueryOK, Counted
    <2>2. ASSUME QueryVars(atoms) # {}
          PROVE  r.num = IF Cardinality(r.answers) < MaxAnswers THEN Cardinality(r.answers) ELSE MaxAnswers
      <3>1. n \notin q.answers
        BY <1>1, <1>3, <1>6, <2>2 DEF QueryOK, Accounted
      <3>2. Cardinality(r.answers) = Cardinality(q.answers) + 1 /\ Cardinality(q.answers) \in Nat
        BY <1>2, <2>1, <3>1, FS_AddElement, FS_CardinalityType
      <3>3. q.num = IF Cardinality(q.answers) < MaxAnswers THEN Cardinality(q.answers) ELSE MaxAnswers
        BY <1>1, <2>2 DEF QueryOK, Counted
      <3> QED  BY <1>2, <3>2, <3>3, DatabaseAssumption
    <2>3. r.answers # {}
      BY <1>2
    <2> QED  BY <1>2, <2>1, <2>2, <2>3 DEF Counted
  <1> QED  BY <1>5, <1>8, <1>9 DEF QueryOK, r
-----------------------------------------------------------------------------
(* A query begins and ends. *)

LEMMA QueryBegins ==
    ASSUME NEW atoms \in Queries, tuples \in SUBSET Tuple, NEW A, NEW D,
           \A i \in DOMAIN atoms : Initial(atoms, i) => Missing(Container(atoms, i, ZeroChannel)) \subseteq D
    PROVE  QueryOK(NewQuery(atoms), "next", Len(atoms), A, D)
  <1> DEFINE r == NewQuery(atoms)
  <1>1. /\ r.atoms = atoms /\ r.channel = ZeroChannel /\ r.answers = {} /\ r.num = 0
        /\ \A i \in DOMAIN atoms :
              /\ r.pending[i] = FALSE
              /\ r.iter[i] = IF Initial(atoms, i)
                             THEN Members(Container(atoms, i, ZeroChannel), tuples) ELSE {}
        /\ atoms \in Seq(Atom) /\ ZeroChannel \in [Var -> Value]
        /\ DOMAIN atoms = 1 .. Len(atoms) /\ Len(atoms) \in Nat
    BY QueriesType, ZeroChannelType DEF NewQuery, BlankQuery
  <1> HIDE DEF r
  <1>2. Shape(r)
    <2>1. ASSUME NEW i \in DOMAIN atoms, NEW x \in r.iter[i]
          PROVE  x \in Tuple /\ Inst(atoms[i], Bind(atoms, i, ZeroChannel, x)) = x
      <3>1. Initial(atoms, i) /\ x \in Tuple /\ Covers(Container(atoms, i, ZeroChannel), x)
        BY <1>1, <2>1 DEF Members
      <3> QED  BY <1>1, <3>1, BindInst DEF Initial
    <2>2. \A i \in DOMAIN atoms : r.iter[i] # {} => Kind(atoms, i) \notin Filters \cup Joins \cup {"CONST_CONST"}
      BY <1>1 DEF Initial, Products, Filters, Joins
    <2> QED  BY <1>1, <2>1, <2>2 DEF Shape
  <1>3. Reached(r, "next", Len(atoms), A)
    <2>1. \A i \in DOMAIN atoms : Busy(r, i) => Initial(atoms, i)
      BY <1>1 DEF Busy
    <2> QED  BY <1>1, <2>1 DEF Reached, Inside
  <1>4. Accounted(r, "next", Len(atoms), A, D)
    <2>1. ASSUME QueryVars(atoms) # {}, NEW s \in Assignments(atoms)
          PROVE  ToCome(r, "next", Len(atoms), s) \/ Excluded(r, D, s)
      <3>1. PICK i \in DOMAIN atoms : Kind(atoms, i) \in Products /\ InputVars(atoms, i) = {}
        BY <1>1, <2>1, FirstIsProduct
      <3>2. Agree(atoms, i, ZeroChannel, s)
        BY <3>1 DEF Agree
      <3>3. Covers(Container(atoms, i, ZeroChannel), Inst(atoms[i], s)) /\ Inst(atoms[i], s) \in Tuple
        BY <1>1, <3>1, <3>2, ScanCovers, AssignmentType
      <3>4. CASE Inst(atoms[i], s) \in tuples
        <4>1. Holds(r, i, s)
          BY <1>1, <3>1, <3>2, <3>3, <3>4 DEF Holds, Initial, Members
        <4> QED  BY <1>1, <4>1 DEF ToCome, Held
      <3>5. CASE Inst(atoms[i], s) \notin tuples
        <4>1. Inst(atoms[i], s) \in Missing(Container(atoms, i, ZeroChannel))
          BY <3>3, <3>5 DEF Missing
        <4> QED  BY <1>1, <3>1, <4>1 DEF Initial, Excluded
      <3> QED  BY <3>4, <3>5
    <2> QED  BY <1>1, <2>1 DEF Accounted
  <1>5. Counted(r)
    BY <1>1, FS_EmptySet, DatabaseAssumption DEF Counted
  <1> QED  BY <1>2, <1>3, <1>4, <1>5 DEF QueryOK, r

\* What is left of a query that has ended.
Ended(q) == [BlankQuery(q.atoms) EXCEPT !.answers = q.answers, !.num = q.num]

LEMMA EndedAnswers ==
    ASSUME NEW q
    PROVE  Ended(q).atoms = q.atoms /\ Ended(q).answers = q.answers /\ Ended(q).num = q.num
  BY DEF Ended, BlankQuery

(* A constant atom is dead: nothing answers the query.                        *)
LEMMA DeadAtomEnds ==
    ASSUME NEW atoms \in Queries, NEW q \in QueryOn(atoms), NEW k \in DOMAIN atoms, NEW A, NEW D,
           QueryOK(q, "next", k, A, D), Kind(atoms, k) = "CONST_CONST",
           Inst(atoms[k], q.channel) \in D, A \cap D = {}
    PROVE  Done(Ended(q), A, D)
  <1>1. /\ q.atoms = atoms /\ atoms \in Seq(Atom)
        /\ Ended(q).atoms = atoms /\ Ended(q).answers = q.answers /\ Ended(q).num = q.num
    BY QueriesType, EndedAnswers DEF QueryOn
  <1>2. \A s : Inst(atoms[k], s) \in D
    <2>1. AtomVars(atoms[k]) = {}
      BY <1>1, KindVars
    <2>2. \A s : Inst(atoms[k], q.channel) = Inst(atoms[k], s)
      BY <2>1, InstDepends
    <2> QED  BY <2>2
  <1>3. q.answers = {}
    BY <1>1, <1>2 DEF QueryOK, Accounted, Supported
  <1> QED  BY <1>1, <1>2, <1>3 DEF Done, Excluded, QueryOK, Counted

(* The scan without input is over, and with it the query.                     *)
LEMMA ScanEnds ==
    ASSUME NEW atoms \in Queries, NEW q \in QueryOn(atoms), NEW k \in DOMAIN atoms, NEW A, NEW D,
           QueryOK(q, "pulled", k, A, D), Initial(atoms, k), q.iter[k] = {}
    PROVE  Done(Ended(q), A, D)
  <1>1. /\ q.atoms = atoms /\ atoms \in Seq(Atom)
        /\ DOMAIN atoms = 1 .. Len(atoms) /\ Len(atoms) \in Nat /\ k \in Nat
        /\ Ended(q).atoms = atoms /\ Ended(q).answers = q.answers /\ Ended(q).num = q.num
        /\ q.answers \subseteq Assignments(atoms)
    BY QueriesType, EndedAnswers DEF QueryOn, Assignments
  <1>2. AtomVars(atoms[k]) # {} /\ QueryVars(atoms) # {} /\ InputVars(atoms, k) = {}
    <2>1. AtomVars(atoms[k]) # {} /\ AtomVars(atoms[k]) \subseteq QueryVars(atoms)
      BY <1>1, KindVars, InputVarsAre DEF Initial
    <2> QED  BY <2>1 DEF Initial
  <1>3. ASSUME NEW i \in DOMAIN atoms PROVE ~Busy(q, i)
    <2>1. CASE i < k
      <3>1. AtomVars(atoms[i]) = {}
        BY <1>1, <1>2, <2>1, InputVarsAre
      <3>2. Kind(atoms, i) = "CONST_CONST"
        BY <1>1, <3>1, KindVars
      <3> QED  BY <1>1, <3>2 DEF QueryOK, Shape, Busy
    <2>2. CASE i = k
      BY <1>1, <2>2 DEF QueryOK, Shape, Busy, Initial
    <2>3. CASE i > k
      <3>1. AtomVars(atoms[k]) \subseteq InputVars(atoms, i)
        BY <1>1, <2>3, InputVarsAre
      <3>2. ~Initial(atoms, i)
        BY <1>2, <3>1 DEF Initial
      <3>3. Busy(q, i) => i <= k
        BY <1>1, <3>2 DEF QueryOK, Reached
      <3> QED  BY <1>1, <2>3, <3>3
    <2> QED  BY <1>1, <2>1, <2>2, <2>3
  <1>4. \A s : ~ToCome(q, "pulled", k, s)
    BY <1>1, <1>2, <1>3 DEF ToCome, Offered, Held, Holds, Busy
  <1>5. \A s : /\ Excluded(Ended(q), D, s) <=> Excluded(q, D, s)
               /\ Supported(Ended(q), A, s) <=> Supported(q, A, s)
    BY <1>1 DEF Excluded, Supported
  <1>6. Accounted(q, "pulled", k, A, D) /\ Counted(q)
    BY DEF QueryOK
  <1> QED  BY <1>1, <1>2, <1>4, <1>5, <1>6 DEF Done, Accounted, Counted
-----------------------------------------------------------------------------
(* What a transaction has seen or changed stays as it is. *)

Known(t, x)  == reads[t][x] # "none" \/ original[t][x] # "none"
SeenAlive(t) == {x \in Tuple : Known(t, x) /\ x \in alive}
SeenDead(t)  == {x \in Tuple : Known(t, x) /\ x \notin alive}

Stays(t) == \A x \in Tuple : Known(t, x) => Known(t, x)' /\ (x \in alive' <=> x \in alive)

LEMMA SeenStays ==
    ASSUME NEW t, Stays(t)
    PROVE  SeenAlive(t) \subseteq SeenAlive(t)' /\ SeenDead(t) \subseteq SeenDead(t)'
  BY DEF Stays, SeenAlive, SeenDead

Invs == Orderly /\ TypeInv /\ LocksInv /\ SearchInv /\ IsolationInv

LEMMA StaysObserved ==
    ASSUME TypeInv, UNCHANGED <<alive, original>>,
           UNCHANGED reads \/ \E u \in Tid : \E S : Observe(u, S)
    PROVE  \A t \in Tid : Stays(t)
  <1>1. CASE UNCHANGED reads
    BY <1>1 DEF Stays, Known
  <1>2. ASSUME NEW u \in Tid, NEW S, Observe(u, S) PROVE \A t \in Tid : Stays(t)
    <2>1. \A t \in Tid, x \in Tuple : reads[t][x] # "none" => reads'[t][x] = reads[t][x]
      BY <1>2 DEF Observe, TypeInv, TypeOK
    <2> QED  BY <2>1 DEF Stays, Known
  <1> QED  BY <1>1, <1>2

LEMMA StaysEdited ==
    ASSUME Invs, EditTuple, NEW t \in Tid \ {cur}, state[t] \in Live
    PROVE  Stays(t)
  <1> DEFINE x == NextTuple(cur)
  <1>1. cur \in Tid /\ x \in Tuple
    BY EditingType DEF Invs, EditTuple
  <1>2. reads[t][x] = "none"
    BY EditUnseen DEF Invs, IsolationInv
  <1>3. state[t] \in Live => original[t][x] = "none"
    BY <1>1, CleanToRead DEF Invs, EditTuple
  <1>4. reads'[t] = reads[t]
    BY <1>1 DEF EditTuple, Observe, Invs, TypeInv, TypeOK
  <1>5. PICK status : Write(cur, x, status)
    BY DEF EditTuple
  <1>6. original'[t] = original[t] /\ \A y \in Tuple \ {x} : y \in alive' <=> y \in alive
    <2>1. original \in [Tid -> [Tuple -> Status]]
      BY DEF Invs, TypeInv, TypeOK
    <2> HIDE DEF x
    <2> QED  BY <1>1, <1>5, <2>1 DEF Write, StoreOriginal
  <1> QED  BY <1>2, <1>3, <1>4, <1>6 DEF Stays, Known

LEMMA StaysAborted ==
    ASSUME Invs, NEW v \in Tid, state[v] \in Live, Abort(v), NEW t \in Tid \ {v}, state[t] \in Live
    PROVE  Stays(t)
  <1>1. original' = original /\ reads'[t] = reads[t] /\ alive' = Undo(v)
    BY DEF Abort, Close, Invs, TypeInv, TypeOK
  <1>2. ASSUME NEW x \in Tuple, Known(t, x) PROVE original[v][x] = "none"
    <2>1. CASE reads[t][x] # "none"
      BY <2>1 DEF Invs, IsolationInv, ReadsInv, ReadOK
    <2>2. CASE original[t][x] # "none"
      BY <2>2 DEF Invs, LocksInv, UndoProtected
    <2> QED  BY <1>2, <2>1, <2>2 DEF Known
  <1>3. ASSUME NEW x \in Tuple, Known(t, x) PROVE x \in alive' <=> x \in alive
    BY <1>1, <1>2, <1>3 DEF Undo
  <1> QED  BY <1>1, <1>3 DEF Stays, Known

-----------------------------------------------------------------------------
(* The invariant. *)

InQuery == {"next", "pulled", "visit"}

\* Where the query of t is: a suspended one will be re-entered at its last stage.
At(t)    == IF cur = t /\ pc \in InQuery THEN pc ELSE "next"
Place(t) == IF cur = t /\ pc \in InQuery THEN stage ELSE Len(query[t].atoms)

QueryInv(t) ==
    /\ state[t] = "EXECUTING_QUERY" => QueryOK(query[t], At(t), Place(t), SeenAlive(t), SeenDead(t))
    /\ state[t] = "READY" /\ query[t].atoms # <<>> => Done(query[t], SeenAlive(t), SeenDead(t))
    /\ state[t] = "ABSENT" => query[t].atoms = <<>>

Created == alive \subseteq tuples

AnswersInv == Created /\ \A t \in Tid : QueryInv(t)

\* No scan has been disturbed.
NoStale == \A t \in Tid : query[t].stale = {}

(* A step leaves the query of t as it is, or suspends or re-enters it.        *)
LEMMA QueryKept ==
    ASSUME TypeInv, NEW t \in Tid, QueryInv(t), query'[t] = query[t], state'[t] = state[t],
           state[t] \in Live => Stays(t),
           \/ At(t)' = At(t) /\ Place(t)' = Place(t)
           \/ At(t) # "pulled" /\ At(t)' = "next" /\ Place(t)' = Len(query[t].atoms)
    PROVE  QueryInv(t)'
  <1>1. ASSUME state[t] = "EXECUTING_QUERY"
        PROVE  QueryOK(query[t], At(t)', Place(t)', SeenAlive(t)', SeenDead(t)')
    <2>1. query[t].atoms \in Queries /\ query[t] \in QueryOn(query[t].atoms)
      <3>1. PICK atoms \in Queries \cup {<<>>} : query[t] \in QueryOn(atoms)
        BY DEF TypeInv, TypeOK, IsQuery
      <3> QED  BY <1>1, <3>1 DEF TypeInv, ControlOK, QueryOn
    <2>2. SeenAlive(t) \subseteq SeenAlive(t)' /\ SeenDead(t) \subseteq SeenDead(t)'
      BY <1>1, SeenStays DEF Live, Executing
    <2>3. QueryOK(query[t], At(t)', Place(t)', SeenAlive(t), SeenDead(t))
      BY <1>1, <2>1, Reentered DEF QueryInv
    <2> QED  BY <2>2, <2>3, SeenMore
  <1>2. ASSUME state[t] = "READY", query[t].atoms # <<>>
        PROVE  Done(query[t], SeenAlive(t)', SeenDead(t)')
    <2>1. SeenAlive(t) \subseteq SeenAlive(t)' /\ SeenDead(t) \subseteq SeenDead(t)'
      BY <1>2, SeenStays DEF Live
    <2> QED  BY <1>2, <2>1, SeenMore DEF QueryInv
  <1> QED  BY <1>1, <1>2 DEF QueryInv

(* No query runs before or after the step.                                    *)
LEMMA QueriesKept ==
    ASSUME TypeInv, AnswersInv, query' = query, pc \notin InQuery,
           NEW S, \A u \in Tid \ S : state'[u] = state[u] /\ (state[u] \in Live => Stays(u)),
           pc' \in InQuery => cur' \in Tid /\ pc' = "next" /\ stage' = Len(query[cur'].atoms)
    PROVE  \A u \in Tid \ S : QueryInv(u)'
  <1> SUFFICES ASSUME NEW u \in Tid \ S PROVE QueryInv(u)'
    OBVIOUS
  <1>1. At(u) = "next" /\ At(u)' = "next" /\ Place(u)' = Len(query[u].atoms)
    BY DEF At, Place
  <1> QED  BY <1>1, QueryKept DEF AnswersInv
-----------------------------------------------------------------------------
(* Commands, edits and the search for a deadlock. *)

(* A transaction is rolled back while no query runs; that of another may be   *)
(* re-entered.                                                                *)
LEMMA AnswersAborted ==
    ASSUME Invs, AnswersInv, pc \notin InQuery, NEW v \in Tid, state[v] \in Live, Abort(v),
           pc' \in InQuery => cur' \in Tid /\ pc' = "next" /\ stage' = Len(query[cur'].atoms)
    PROVE  AnswersInv'
  <1>1. /\ TypeInv /\ state \in [Tid -> State] /\ original \in [Tid -> [Tuple -> Status]]
        /\ query = [u \in Tid |-> query[u]]
    BY DEF Invs, TypeInv, TypeOK
  <1>2. /\ state' = [state EXCEPT ![v] = "ABORTED"] /\ alive' = Undo(v)
        /\ query' = [query EXCEPT ![v] = NoQuery] /\ tuples' = tuples
    BY DEF Abort, Close
  <1>3. ASSUME NEW u \in Tid \ {v} PROVE QueryInv(u)'
    <2>1. query'[u] = query[u] /\ state'[u] = state[u]
      BY <1>1, <1>2
    <2>2. At(u) = "next" /\ At(u)' = "next" /\ Place(u)' = Len(query[u].atoms)
      BY <2>1 DEF At, Place
    <2>3. state[u] \in Live => Stays(u)
      BY StaysAborted
    <2> QED  BY <1>1, <2>1, <2>2, <2>3, QueryKept DEF AnswersInv
  <1>4. QueryInv(v)'
    BY <1>1, <1>2 DEF QueryInv
  <1>5. Created'
    <2>1. \A x \in Tuple : original[v][x] # "none" => x \in tuples
      BY DEF Invs, LocksInv, UndoProtected
    <2> QED  BY <1>1, <1>2, <2>1 DEF AnswersInv, Created, Undo
  <1> QED  BY <1>3, <1>4, <1>5 DEF AnswersInv

(* What is observed is known.                                                 *)
LEMMA ObservedKnown ==
    ASSUME TypeInv, original' = original, NEW t \in Tid, NEW S, Observe(t, S), NEW x \in S \cap Tuple
    PROVE  Known(t, x)'
  <1>1. reads'[t][x] = IF reads[t][x] = "none" /\ original[t][x] = "none"
                       THEN StatusIn(alive, x) ELSE reads[t][x]
    BY DEF Observe, TypeInv, TypeOK
  <1> QED  BY <1>1 DEF Known, StatusIn

LEMMA AnswersCommands ==
    ASSUME Invs, AnswersInv, NEW t \in Tid, Command(t)
    PROVE  AnswersInv'
  <1>1. /\ pc = "idle" /\ TypeInv /\ state \in [Tid -> State]
        /\ \A u \in Tid : query[u].atoms \in Queries \cup {<<>>}
    <2>1. pc = "idle" /\ TypeInv /\ state \in [Tid -> State]
      BY DEF Invs, TypeInv, TypeOK, Command, Begin, Commit, CommitSuspended, CommitFinished, Rollback,
         Add, Delete, StartEdit, AddRefused, StartRefused, StartQuery, QueryNoRelation, Resume,
         ResumeRefused, Refuse
    <2>2. \A u \in Tid : query[u].atoms \in Queries \cup {<<>>}
      BY <2>1 DEF TypeInv, TypeOK, IsQuery, QueryOn
    <2> QED  BY <2>1, <2>2
  <1>2. CASE Begin(t)
    <2>1. /\ UNCHANGED <<alive, tuples, original, reads, query>> /\ pc' = pc
          /\ state[t] = "ABSENT" /\ state' = [state EXCEPT ![t] = "READY"]
      BY <1>2 DEF Begin, dataVars, jobVars, controlVars
    <2>2. \A u \in Tid \ {t} : QueryInv(u)'
      BY <1>1, <2>1, StaysObserved, QueriesKept DEF InQuery
    <2>3. QueryInv(t)'
      BY <1>1, <2>1 DEF AnswersInv, QueryInv
    <2> QED  BY <2>1, <2>2, <2>3 DEF AnswersInv, Created
  <1>3. CASE Commit(t)
    <2>1. /\ UNCHANGED <<alive, tuples, original>> /\ pc' = "idle"
          /\ state' = [state EXCEPT ![t] = "COMMITTED"]
          /\ query' = [query EXCEPT ![t] = NoQuery]
          /\ reads' = [reads EXCEPT ![t] = [x \in Tuple |-> "none"]]
      BY <1>3 DEF Commit, Close, Finish, Return, dataVars
    <2>2. \A u \in Tid \ {t} : Stays(u) /\ state'[u] = state[u] /\ query'[u] = query[u]
      BY <1>1, <2>1 DEF Stays, Known
    <2>3. \A u \in Tid \ {t} : QueryInv(u)'
      <3>1. \A u \in Tid \ {t} : At(u) = "next" /\ At(u)' = "next" /\ Place(u)' = Len(query[u].atoms)
        BY <1>1, <2>1, <2>2 DEF At, Place, InQuery
      <3> QED  BY <1>1, <2>2, <3>1, QueryKept DEF AnswersInv
    <2>4. QueryInv(t)'
      BY <1>1, <2>1 DEF QueryInv
    <2> QED  BY <2>1, <2>3, <2>4 DEF AnswersInv, Created
  <1>4. CASE Rollback(t)
    <2>1. /\ Abort(t) /\ state[t] \in Live /\ UNCHANGED <<tuples, original>> /\ pc' = pc
          /\ state' = [state EXCEPT ![t] = "ABORTED"] /\ alive' = Undo(t)
          /\ query' = [query EXCEPT ![t] = NoQuery]
      BY <1>4 DEF Rollback, Abort, Close, Invs, Orderly, controlVars
    <2> QED  BY <1>1, <2>1, AnswersAborted DEF InQuery
  <1>5. ASSUME NEW r \in RelName, NEW batch \in Batches, Add(t, r, batch) \/ Delete(t, r, batch)
        PROVE  AnswersInv'
    <2>1. PICK s \in Editing : StartEdit(t, r, batch, s)
      BY <1>5 DEF Add, Delete, Editing
    <2>2. /\ UNCHANGED <<alive, tuples, original, reads>> /\ pc' = "edit" /\ cur' = t
          /\ query' = [query EXCEPT ![t] = NoQuery] /\ state' = [state EXCEPT ![t] = s]
      BY <2>1 DEF StartEdit
    <2>3. ASSUME NEW u \in Tid \ {t} PROVE QueryInv(u)'
      <3>1. query'[u] = query[u] /\ state'[u] = state[u]
        BY <1>1, <2>2 DEF TypeInv, TypeOK
      <3>2. At(u) = "next" /\ At(u)' = "next" /\ Place(u)' = Len(query[u].atoms)
        BY <1>1, <2>2, <3>1 DEF At, Place, InQuery
      <3>3. Stays(u)
        BY <1>1, <2>2, StaysObserved
      <3> QED  BY <1>1, <3>1, <3>2, <3>3, QueryKept DEF AnswersInv
    <2>4. QueryInv(t)'
      BY <1>1, <2>2 DEF QueryInv, Editing
    <2> QED  BY <2>2, <2>3, <2>4 DEF AnswersInv, Created
  <1>6. ASSUME NEW atoms \in Queries, StartQuery(t, atoms) PROVE AnswersInv'
    <2> DEFINE S == UNION {Missing(Container(atoms, i, ZeroChannel)) :
                            i \in {j \in DOMAIN atoms : Initial(atoms, j)}}
    <2>1. /\ UNCHANGED <<alive, tuples, original>> /\ pc' = "next" /\ cur' = t
          /\ stage' = Len(atoms) /\ Observe(t, S)
          /\ query' = [query EXCEPT ![t] = NewQuery(atoms)]
          /\ state' = [state EXCEPT ![t] = "EXECUTING_QUERY"]
      BY <1>6 DEF StartQuery, dataVars
    <2>2. ASSUME NEW u \in Tid \ {t} PROVE QueryInv(u)'
      <3>1. query'[u] = query[u] /\ state'[u] = state[u]
        BY <1>1, <2>1 DEF TypeInv, TypeOK
      <3>2. At(u) = "next" /\ At(u)' = "next" /\ Place(u)' = Len(query[u].atoms)
        BY <1>1, <2>1, <3>1 DEF At, Place, InQuery
      <3>3. Stays(u)
        BY <1>1, <2>1, StaysObserved
      <3> QED  BY <1>1, <3>1, <3>2, <3>3, QueryKept DEF AnswersInv
    <2>3. QueryInv(t)'
      <3>1. query'[t] = NewQuery(atoms) /\ state'[t] = "EXECUTING_QUERY"
        BY <1>1, <2>1 DEF TypeInv, TypeOK
      <3>2. NewQuery(atoms).atoms = atoms
        BY DEF NewQuery, BlankQuery
      <3>3. At(t)' = "next" /\ Place(t)' = Len(atoms)
        BY <2>1 DEF At, Place, InQuery
      <3>4. \A i \in DOMAIN atoms : Initial(atoms, i) =>
                Missing(Container(atoms, i, ZeroChannel)) \subseteq SeenDead(t)'
        <4>1. \A x \in S \cap Tuple : Known(t, x)'
          BY <1>1, <2>1, ObservedKnown
        <4>2. S \subseteq Tuple /\ S \cap alive = {}
          BY DEF Missing, AnswersInv, Created
        <4>3. S \subseteq SeenDead(t)'
          BY <2>1, <4>1, <4>2 DEF SeenDead
        <4> QED  BY <4>3
      <3>5. QueryOK(NewQuery(atoms), "next", Len(atoms), SeenAlive(t)', SeenDead(t)')
        BY <1>1, <3>4, QueryBegins DEF TypeInv, TypeOK
      <3> QED  BY <3>1, <3>3, <3>5 DEF QueryInv
    <2> QED  BY <2>1, <2>2, <2>3 DEF AnswersInv, Created
  <1>7. ASSUME \/ CommitSuspended(t) \/ Refuse(t) \/ Resume(t)
               \/ \E r \in RelName : AddRefused(t, r)
        PROVE  AnswersInv'
    <2>1. UNCHANGED <<alive, tuples, original, reads, query, state>>
      BY <1>7 DEF CommitSuspended, Refuse, Resume, AddRefused, dataVars, txVars, jobVars
    <2>2. pc' \in InQuery => cur' \in Tid /\ pc' = "next" /\ stage' = Len(query[cur'].atoms)
      BY <1>7 DEF CommitSuspended, Refuse, Resume, AddRefused, Finish, Return, Reenter, InQuery
    <2>3. \A u \in Tid \ {} : QueryInv(u)'
      BY <1>1, <2>1, <2>2, StaysObserved, QueriesKept DEF InQuery
    <2> QED  BY <2>1, <2>3 DEF AnswersInv, Created
  <1> QED
    BY <1>2, <1>3, <1>4, <1>5, <1>6, <1>7
    DEF Command, CommitFinished, StartRefused, QueryNoRelation, ResumeRefused

(* A tuple that is created disturbs no scan, or some iterator is stale.       *)
LEMMA Undisturbed ==
    ASSUME TypeInv, NoStale, NoStale', NEW x, EnsureTuple(x)
    PROVE  query' = query
  <1>1. query = [u \in Tid |-> query[u]] /\ query' = [u \in Tid |-> Disturbed(query[u], x)]
    BY DEF TypeInv, TypeOK, EnsureTuple
  <1>2. ASSUME NEW u \in Tid PROVE Disturbed(query[u], x) = query[u]
    <2>1. PICK atoms \in Queries \cup {<<>>} : query[u] \in QueryOn(atoms)
      BY DEF TypeInv, TypeOK, IsQuery
    <2>2. Disturbed(query[u], x).stale = {} /\ query[u].stale = {}
      BY <1>1 DEF NoStale
    <2>3. PICK T : Disturbed(query[u], x) = [query[u] EXCEPT !.stale = T]
      BY DEF Disturbed
    <2>4. T = {}
      BY <2>1, <2>2, <2>3 DEF QueryOn
    <2>5. [query[u] EXCEPT !.stale = {}] = query[u]
      BY <2>1, <2>2 DEF QueryOn
    <2> QED  BY <2>3, <2>4, <2>5
  <1> QED  BY <1>1, <1>2

LEMMA AnswersEdits ==
    ASSUME Invs, AnswersInv, NoStale, NoStale',
           CheckRelation \/ EditTuple \/ EditRefusedByGroup \/ EditRefusedByTuple \/ FinishEdit
    PROVE  AnswersInv'
  <1>1. /\ pc \notin InQuery /\ pc' \notin InQuery /\ TypeInv /\ cur \in Tid
        /\ state[cur] \in Editing /\ query[cur].atoms = <<>> /\ state \in [Tid -> State]
    <2>1. pc \in {"edit", "edit_tuples"} /\ pc' \in {"edit", "edit_tuples", "idle", "detect"}
      BY DEF CheckRelation, EditTuple, EditRefusedByGroup, EditRefusedByTuple, FinishEdit, AtTuple,
         Goto, Suspend, Finish, Return, controlVars
    <2>2. TypeInv /\ cur \in Tid /\ state[cur] \in Editing /\ state \in [Tid -> State]
      BY <2>1 DEF Invs, TypeInv, TypeOK, ControlOK, Editing
    <2> QED  BY <2>1, <2>2 DEF Invs, IsolationInv, ScansInv, Editing, InQuery
  <1>2. query' = query
    BY <1>1, Undisturbed
    DEF CheckRelation, EditTuple, EditRefusedByGroup, EditRefusedByTuple, FinishEdit, jobVars
  <1>3. CASE CheckRelation \/ EditRefusedByGroup \/ EditRefusedByTuple
    <2>1. UNCHANGED <<alive, original, reads, state>> /\ tuples \subseteq tuples'
      BY <1>3 DEF CheckRelation, EditRefusedByGroup, EditRefusedByTuple, EnsureTuple, dataVars, txVars
    <2>2. \A u \in Tid \ {} : QueryInv(u)'
      BY <1>1, <1>2, <2>1, StaysObserved, QueriesKept
    <2> QED  BY <2>1, <2>2 DEF AnswersInv, Created
  <1>4. CASE EditTuple
    <2>1. state' = state
      BY <1>4 DEF EditTuple
    <2>2. \A u \in Tid \ {cur} : QueryInv(u)'
      BY <1>1, <1>2, <1>4, <2>1, StaysEdited, QueriesKept
    <2>3. \A u \in Tid : u = cur => QueryInv(u)'
      BY <1>1, <2>1 DEF QueryInv, Editing
    <2>4. Created'
      <3>1. PICK status : Write(cur, NextTuple(cur), status)
        BY <1>4 DEF EditTuple
      <3> QED  BY <1>4, <3>1 DEF EditTuple, EnsureTuple, Write, AnswersInv, Created
    <2> QED  BY <1>4, <2>2, <2>3, <2>4 DEF AnswersInv
  <1>5. CASE FinishEdit
    <2>1. /\ UNCHANGED <<alive, tuples, original, reads>>
          /\ state' = [state EXCEPT ![cur] = "READY"] /\ cur' = NoTid
      BY <1>5 DEF FinishEdit, Finish, Return, dataVars
    <2>2. \A u \in Tid \ {cur} : QueryInv(u)'
      BY <1>1, <1>2, <2>1, StaysObserved, QueriesKept
    <2>3. \A u \in Tid : u = cur => QueryInv(u)'
      BY <1>1, <1>2, <2>1 DEF QueryInv
    <2> QED  BY <2>1, <2>2, <2>3 DEF AnswersInv, Created
  <1> QED  BY <1>3, <1>4, <1>5

LEMMA AnswersDetect ==
    ASSUME Invs, AnswersInv, DetectStart \/ DetectFollow \/ DetectBacktrack \/ AbortVictim
    PROVE  AnswersInv'
  <1>1. pc \notin InQuery /\ TypeInv /\ SearchInv
    BY DEF Invs, InQuery, DetectStart, DetectFollow, DetectBacktrack, AbortVictim
  <1>2. CASE DetectStart \/ DetectFollow \/ DetectBacktrack
    <2>1. UNCHANGED <<alive, tuples, original, reads, query, state>> /\ pc' \notin InQuery
      BY <1>1, <1>2 DEF DetectStart, DetectFollow, DetectBacktrack, dataVars, txVars, jobVars,
         Goto, Return, InQuery
    <2>2. \A u \in Tid \ {} : QueryInv(u)'
      BY <1>1, <2>1, StaysObserved, QueriesKept
    <2> QED  BY <2>1, <2>2 DEF AnswersInv, Created
  <1>3. CASE AbortVictim
    <2>1. PICK victim \in Tid : state[victim] \in Live /\ Abort(victim)
      BY <1>1, <1>3, VictimWaits DEF Live
    <2>2. cur \in Tid
      BY <1>1, <1>3 DEF AbortVictim, TypeInv, ControlOK
    <2>3. pc' \in InQuery => cur' \in Tid /\ pc' = "next" /\ stage' = Len(query[cur'].atoms)
      BY <1>3, <2>2 DEF AbortVictim, AfterRollback, Return, Reenter, InQuery
    <2> QED  BY <1>1, <2>1, <2>3, AnswersAborted
  <1> QED  BY <1>2, <1>3
-----------------------------------------------------------------------------
(* The steps of a query. *)

\* What every step of the running query, that of t, leaves alone.
QueryStep(t) ==
    /\ cur = t /\ pc \in InQuery
    /\ UNCHANGED <<alive, original>> /\ tuples \subseteq tuples'
    /\ UNCHANGED reads \/ \E S : Observe(t, S)

LEMMA QueryRuns ==
    ASSUME Invs, AnswersInv, NEW t \in Tid, QueryStep(t)
    PROVE  /\ TypeInv /\ IsolationInv /\ Created /\ pc \in {"next", "pulled", "visit"}
           /\ cur = t /\ state[t] = "EXECUTING_QUERY" /\ state \in [Tid -> State]
           /\ Q.atoms \in Queries /\ Q.atoms \in Seq(Atom) /\ Q \in QueryOn(Q.atoms)
           /\ stage \in DOMAIN Q.atoms /\ stage \in Nat /\ Len(Q.atoms) \in Nat
           /\ DOMAIN Q.atoms = 1 .. Len(Q.atoms)
           /\ Target \in Tuple /\ Q.iter[stage] \subseteq Tuple
           /\ tuples \subseteq Tuple /\ alive \subseteq Tuple
           /\ \A u \in Tid : Stays(u)
           /\ SeenAlive(t)' \cap SeenDead(t)' = {}
           /\ QueryOK(Q, pc, stage, SeenAlive(t)', SeenDead(t)')
  <1>1. TypeInv /\ IsolationInv /\ Created /\ pc \in {"next", "pulled", "visit"}
    BY DEF Invs, AnswersInv, QueryStep, InQuery
  <1>2. /\ cur = t /\ state[t] = "EXECUTING_QUERY"
        /\ Q.atoms \in Queries /\ Q.atoms \in Seq(Atom) /\ Q \in QueryOn(Q.atoms)
        /\ stage \in DOMAIN Q.atoms /\ Target \in Tuple /\ Q.iter[stage] \subseteq Tuple
    BY <1>1, RunningScans DEF QueryStep
  <1>3. stage \in Nat /\ Len(Q.atoms) \in Nat /\ DOMAIN Q.atoms = 1 .. Len(Q.atoms)
    BY <1>2, QueriesType
  <1>4. \A u \in Tid : Stays(u)
    BY <1>1, <1>2, StaysObserved DEF QueryStep
  <1>5. QueryOK(Q, pc, stage, SeenAlive(t), SeenDead(t))
    BY <1>2 DEF AnswersInv, QueryInv, At, Place, QueryStep, Q
  <1>6. SeenAlive(t) \subseteq SeenAlive(t)' /\ SeenDead(t) \subseteq SeenDead(t)'
    BY <1>2, <1>4, SeenStays
  <1>7. QueryOK(Q, pc, stage, SeenAlive(t)', SeenDead(t)')
    BY <1>5, <1>6, SeenMore
  <1>8. SeenAlive(t)' \cap SeenDead(t)' = {}
    BY DEF SeenAlive, SeenDead
  <1> QED  BY <1>1, <1>2, <1>3, <1>4, <1>7, <1>8 DEF TypeInv, TypeOK

(* What a step has looked at is seen.                                         *)
LEMMA NowSeen ==
    ASSUME TypeInv, NEW t \in Tid, UNCHANGED <<alive, original>>, NEW S, Observe(t, S)
    PROVE  \A x \in S \cap Tuple : IF x \in alive THEN x \in SeenAlive(t)' ELSE x \in SeenDead(t)'
  <1>1. \A x \in S \cap Tuple : Known(t, x)'
    BY ObservedKnown
  <1> QED  BY <1>1 DEF SeenAlive, SeenDead

LEMMA SetQueryAt ==
    ASSUME TypeInv, NEW t \in Tid, cur = t, NEW q, SetQuery(q)
    PROVE  query'[t] = q /\ \A u \in Tid \ {t} : query'[u] = query[u]
  BY DEF SetQuery, TypeInv, TypeOK

(* Nothing happens to the queries of others.                                  *)
LEMMA OthersKept ==
    ASSUME Invs, AnswersInv, NEW t \in Tid, QueryStep(t), cur' = t \/ pc' \notin InQuery,
           \A u \in Tid \ {t} : query'[u] = query[u] /\ state'[u] = state[u],
           QueryInv(t)'
    PROVE  AnswersInv'
  <1>1. TypeInv /\ Created /\ \A u \in Tid : Stays(u)
    BY QueryRuns
  <1>2. ASSUME NEW u \in Tid \ {t} PROVE QueryInv(u)'
    <2>1. At(u) = "next" /\ At(u)' = "next" /\ Place(u)' = Len(query[u].atoms)
      BY <1>2 DEF At, Place, QueryStep
    <2> QED  BY <1>1, <2>1, QueryKept DEF AnswersInv
  <1>3. Created'
    BY <1>1 DEF QueryStep, Created
  <1> QED  BY <1>2, <1>3 DEF AnswersInv

(* The query goes on, or is suspended.                                        *)
LEMMA QueryGoesOn ==
    ASSUME Invs, AnswersInv, NEW t \in Tid, QueryStep(t), state' = state,
           NEW q, q.atoms = Q.atoms,
           query'[t] = q, \A u \in Tid \ {t} : query'[u] = query[u],
           \/ /\ cur' = t /\ pc' \in InQuery
              /\ QueryOK(q, pc', stage', SeenAlive(t)', SeenDead(t)')
           \/ /\ pc' \notin InQuery
              /\ QueryOK(q, "next", Len(Q.atoms), SeenAlive(t)', SeenDead(t)')
    PROVE  AnswersInv'
  <1>1. state'[t] = "EXECUTING_QUERY"
    BY QueryRuns
  <1>2. QueryOK(q, At(t)', Place(t)', SeenAlive(t)', SeenDead(t)')
    BY DEF At, Place
  <1>3. QueryInv(t)'
    BY <1>1, <1>2 DEF QueryInv
  <1> QED  BY <1>3, OthersKept

(* The running stage returns OK with a tuple that was seen alive.             *)
LEMMA StageReturns ==
    ASSUME Invs, AnswersInv, NEW t \in Tid, QueryStep(t), state' = state,
           NEW q2 \in QueryOn(Q.atoms), ReturnOK(q2), Satisfied(Q, pc, q2, stage, SeenAlive(t)')
    PROVE  AnswersInv'
  <1>1. /\ TypeInv /\ cur = t /\ Q.atoms \in Queries /\ Q \in QueryOn(Q.atoms)
        /\ stage \in DOMAIN Q.atoms /\ stage \in Nat /\ Len(Q.atoms) \in Nat
        /\ DOMAIN Q.atoms = 1 .. Len(Q.atoms)
        /\ QueryOK(Q, pc, stage, SeenAlive(t)', SeenDead(t)')
    BY QueryRuns
  <1>2. q2.atoms = Q.atoms /\ Answered(q2).atoms = Q.atoms /\ cur' = t
    BY <1>1, AnsweredType DEF QueryOn, ReturnOK
  <1>3. CASE stage = Len(Q.atoms) /\ SetQuery(Answered(q2)) /\ pc' = "next" /\ stage' = stage
    <2>1. QueryOK(Answered(q2), "next", stage, SeenAlive(t)', SeenDead(t)')
      BY <1>1, <1>3, AnswerPrinted
    <2>2. query'[t] = Answered(q2) /\ \A u \in Tid \ {t} : query'[u] = query[u]
      BY <1>1, <1>3, SetQueryAt
    <2> QED  BY <1>2, <1>3, <2>1, <2>2, QueryGoesOn DEF InQuery
  <1>4. CASE stage < Len(Q.atoms) /\ SetQuery(q2) /\ pc' = "pulled" /\ stage' = stage + 1
    <2>1. QueryOK(q2, "pulled", stage + 1, SeenAlive(t)', SeenDead(t)')
      BY <1>1, <1>4, PassedOn
    <2>2. query'[t] = q2 /\ \A u \in Tid \ {t} : query'[u] = query[u]
      BY <1>1, <1>4, SetQueryAt
    <2> QED  BY <1>2, <1>4, <2>1, <2>2, QueryGoesOn DEF InQuery
  <1> QED  BY <1>2, <1>3, <1>4 DEF ReturnOK

(* The query ends.                                                            *)
LEMMA QueryEnds ==
    ASSUME Invs, AnswersInv, NEW t \in Tid, QueryStep(t), ReturnFinished,
           Done(Ended(Q), SeenAlive(t)', SeenDead(t)')
    PROVE  AnswersInv'
  <1>1. TypeInv /\ cur = t /\ state \in [Tid -> State]
    BY QueryRuns
  <1>2. query'[t] = Ended(Q) /\ \A u \in Tid \ {t} : query'[u] = query[u]
    BY <1>1, SetQueryAt DEF ReturnFinished, Ended
  <1>3. /\ state'[t] = "READY" /\ \A u \in Tid \ {t} : state'[u] = state[u]
        /\ pc' \notin InQuery
    BY <1>1 DEF ReturnFinished, Finish, Return, InQuery
  <1>4. QueryInv(t)'
    BY <1>2, <1>3 DEF QueryInv
  <1> QED  BY <1>2, <1>3, <1>4, OthersKept

(* The query, as it was, goes on elsewhere or is suspended.                   *)
LEMMA QueryMoves ==
    ASSUME Invs, AnswersInv, NEW t \in Tid, QueryStep(t), state' = state, query' = query,
           \/ /\ cur' = t /\ pc' \in InQuery
              /\ QueryOK(Q, pc', stage', SeenAlive(t)', SeenDead(t)')
           \/ pc # "pulled" /\ pc' \notin InQuery
    PROVE  AnswersInv'
  <1>1. query'[t] = Q
    BY QueryRuns DEF Q
  <1>2. CASE pc # "pulled" /\ pc' \notin InQuery
    <2>1. QueryOK(Q, "next", Len(Q.atoms), SeenAlive(t)', SeenDead(t)')
      BY <1>2, QueryRuns, Reentered
    <2> QED  BY <1>1, <1>2, <2>1, QueryGoesOn
  <1> QED  BY <1>1, <1>2, QueryGoesOn

LEMMA AnswersNext ==
    ASSUME Invs, AnswersInv, NoStale, NoStale', NEW t \in Tid, cur = t,
           GetTuple \/ NextConstConst \/ NextPull \/ NextContinue
    PROVE  AnswersInv'
  <1>1. QueryStep(t)
    BY DEF GetTuple, NextConstConst, NextPull, NextContinue, EnsureTuple, dataVars, txVars, QueryStep,
       InQuery
  <1>2. /\ TypeInv /\ Q.atoms \in Queries /\ Q \in QueryOn(Q.atoms)
        /\ stage \in DOMAIN Q.atoms /\ Target \in Tuple
        /\ SeenAlive(t)' \cap SeenDead(t)' = {}
        /\ QueryOK(Q, pc, stage, SeenAlive(t)', SeenDead(t)')
    BY <1>1, QueryRuns
  <1>3. Shape(Q) /\ Q.stale = {} /\ KindOf \in Filters \cup Products \cup Joins \cup {"CONST_CONST"}
    BY <1>1, <1>2, RunningType DEF QueryOK, NoStale, Q, QueryStep, InQuery
  <1>4. CASE GetTuple
    <2>1. query' = query /\ state' = state /\ UNCHANGED <<pc, cur, stage>>
      BY <1>2, <1>4, Undisturbed DEF GetTuple, txVars, controlVars
    <2> QED  BY <1>1, <1>2, <2>1, QueryMoves DEF QueryStep
  <1>5. ASSUME CallPrevious, pc = "next", UNCHANGED <<query, state>>,
               Busy(Q, stage) => Initial(Q.atoms, stage),
               KindOf = "CONST_CONST" => Target \in SeenAlive(t)'
        PROVE  AnswersInv'
    <2>1. /\ stage = 1 => QueryOK(Q, "pulled", stage, SeenAlive(t)', SeenDead(t)')
          /\ stage # 1 => QueryOK(Q, "next", stage - 1, SeenAlive(t)', SeenDead(t)')
      BY <1>2, <1>5, Asked DEF KindOf, Target
    <2>2. QueryOK(Q, pc', stage', SeenAlive(t)', SeenDead(t)')
      BY <1>5, <2>1 DEF CallPrevious
    <2>3. cur' = t /\ pc' \in InQuery
      BY <1>5 DEF CallPrevious, InQuery
    <2> QED  BY <1>1, <1>5, <2>2, <2>3, QueryMoves
  <1>6. CASE NextConstConst
    <2>1. pc = "next" /\ KindOf = "CONST_CONST"
      BY <1>6 DEF NextConstConst
    <2>2. CASE Suspend({Target}) /\ UNCHANGED <<state, query>>
      <3>1. pc' \notin InQuery
        BY <2>2 DEF Suspend, InQuery
      <3> QED  BY <1>1, <2>1, <2>2, <3>1, QueryMoves
    <2>3. CASE Observe(t, {Target}) /\ Target \in alive /\ CallPrevious /\ UNCHANGED <<state, query>>
      <3>1. Target \in SeenAlive(t)'
        BY <1>1, <1>2, <2>3, NowSeen DEF QueryStep
      <3>2. ~Busy(Q, stage)
        BY <1>2, <1>3, <2>1 DEF Busy, Shape, KindOf
      <3> QED  BY <1>5, <2>1, <2>3, <3>1, <3>2
    <2>4. CASE Observe(t, {Target}) /\ Target \notin alive /\ ReturnFinished
      <3>1. Target \in SeenDead(t)'
        BY <1>1, <1>2, <2>4, NowSeen DEF QueryStep
      <3>2. Done(Ended(Q), SeenAlive(t)', SeenDead(t)')
        BY <1>2, <2>1, <3>1, DeadAtomEnds DEF KindOf, Target
      <3> QED  BY <1>1, <2>4, <3>2, QueryEnds
    <2> QED  BY <1>6, <2>2, <2>3, <2>4 DEF NextConstConst
  <1>7. CASE NextPull
    <2>1. /\ pc = "next" /\ KindOf # "CONST_CONST" /\ NeedsInput /\ CallPrevious
          /\ UNCHANGED <<query, state>>
      BY <1>7 DEF NextPull, txVars, jobVars
    <2>2. Busy(Q, stage) => Initial(Q.atoms, stage)
      <3>1. KindOf \in Filters \cup Joins => KindOf \notin Products
        BY DEF Filters, Products, Joins
      <3>2. CASE KindOf \in Filters \cup Joins /\ ~Q.pending[stage]
        BY <1>2, <1>3, <3>2 DEF Busy, Shape, KindOf
      <3>3. CASE KindOf \in Products /\ NoInput
        BY <3>3 DEF Initial, NoInput, KindOf
      <3>4. CASE KindOf \in Products /\ AtEnd
        BY <1>2, <1>3, <3>4 DEF Busy, Shape, KindOf, AtEnd
      <3> QED  BY <2>1, <3>2, <3>3, <3>4 DEF NeedsInput
    <2> QED  BY <1>5, <2>1, <2>2
  <1>8. CASE NextContinue
    <2>1. /\ pc = "next" /\ KindOf # "CONST_CONST" /\ ~NeedsInput
          /\ pc' = (IF KindOf \in Filters THEN "pulled" ELSE "visit")
          /\ UNCHANGED <<query, state, cur, stage>>
      BY <1>8 DEF NextContinue, Goto, txVars, jobVars
    <2>2. Busy(Q, stage) /\ ~Initial(Q.atoms, stage)
      <3>1. CASE KindOf \in Filters \cup Joins
        <4>1. KindOf \notin Products
          BY <3>1 DEF Filters, Products, Joins
        <4> QED  BY <2>1, <3>1, <4>1 DEF NeedsInput, Busy, Initial, KindOf
      <3>2. CASE KindOf \in Products
        BY <1>3, <2>1, <3>2 DEF NeedsInput, Busy, Initial, KindOf, NoInput, AtEnd
      <3> QED  BY <1>3, <2>1, <3>1, <3>2
    <2>3. QueryOK(Q, pc', stage, SeenAlive(t)', SeenDead(t)')
      BY <1>2, <2>1, <2>2, WentOn DEF KindOf
    <2> QED  BY <1>1, <2>1, <2>3, QueryMoves DEF InQuery
  <1> QED  BY <1>4, <1>6, <1>7, <1>8

LEMMA AnswersPulled ==
    ASSUME Invs, AnswersInv, NoStale, NoStale', NEW t \in Tid, cur = t,
           PulledConstConst \/ PulledFilter \/ PulledProduct \/ PulledJoin
    PROVE  AnswersInv'
  <1>1. QueryStep(t) /\ pc = "pulled"
    BY DEF PulledConstConst, PulledFilter, PulledProduct, PulledJoin, dataVars, txVars, QueryStep,
       InQuery
  <1>2. /\ TypeInv /\ IsolationInv /\ Q.atoms \in Queries /\ Q.atoms \in Seq(Atom)
        /\ Q \in QueryOn(Q.atoms) /\ stage \in DOMAIN Q.atoms /\ Target \in Tuple
        /\ tuples \subseteq Tuple /\ alive \subseteq tuples
        /\ QueryOK(Q, "pulled", stage, SeenAlive(t)', SeenDead(t)')
    BY <1>1, QueryRuns DEF Created
  <1>3. /\ Shape(Q) /\ Q.stale = {} /\ Q.channel \in [Var -> Value]
        /\ Reached(Q, "pulled", stage, SeenAlive(t)')
    BY <1>1, <1>2 DEF QueryOK, NoStale, Q, QueryOn
  <1>4. /\ KeepInput \in QueryOn(Q.atoms) /\ DropInput \in QueryOn(Q.atoms)
        /\ SameElsewhere(Q, KeepInput, stage) /\ SameElsewhere(Q, DropInput, stage)
        /\ KeepInput.iter = Q.iter /\ DropInput.iter = Q.iter
        /\ KeepInput.channel = Q.channel /\ DropInput.channel = Q.channel
        /\ KeepInput.pending[stage] = TRUE /\ DropInput.pending[stage] = FALSE
    <2>1. KeepInput \in QueryOn(Q.atoms) /\ DropInput \in QueryOn(Q.atoms)
      BY <1>1, <1>2, StageUpdateType
    <2> QED  BY <1>2, <2>1 DEF KeepInput, DropInput, SameElsewhere, QueryOn
  <1>5. CASE PulledConstConst
    <2>1. KindOf = "CONST_CONST" /\ ReturnOK(Q) /\ state' = state
      BY <1>5 DEF PulledConstConst, txVars
    <2>2. Inst(Q.atoms[stage], Q.channel) \in SeenAlive(t)'
      BY <1>2, <1>3, <2>1 DEF Reached, Inside, KindOf
    <2>3. ~Q.pending[stage]
      BY <1>2, <1>3, <2>1 DEF Shape, KindOf
    <2>4. Satisfied(Q, "pulled", Q, stage, SeenAlive(t)')
      BY <2>1, <2>2, <2>3 DEF Satisfied, KindOf
    <2> QED  BY <1>1, <1>2, <2>1, <2>4, StageReturns
  <1>6. CASE PulledFilter
    <2>1. KindOf \in Filters /\ state' = state
      BY <1>6 DEF PulledFilter
    <2>2. CASE SetQuery(KeepInput) /\ Suspend({Target})
      <3>1. QueryOK(KeepInput, "next", stage, SeenAlive(t)', SeenDead(t)')
        BY <1>2, <1>4, <2>1, Filtered DEF KindOf
      <3>2. QueryOK(KeepInput, "next", Len(Q.atoms), SeenAlive(t)', SeenDead(t)')
        BY <1>2, <1>4, <3>1, Reentered
      <3>3. query'[t] = KeepInput /\ \A u \in Tid \ {t} : query'[u] = query[u]
        BY <1>2, <2>2, SetQueryAt
      <3>4. KeepInput.atoms = Q.atoms /\ pc' \notin InQuery
        BY <1>4, <2>2 DEF QueryOn, Suspend, InQuery
      <3> QED  BY <1>1, <2>1, <3>2, <3>3, <3>4, QueryGoesOn
    <2>3. CASE Target \in alive /\ Observe(cur, {Target}) /\ ReturnOK(DropInput)
      <3>1. Target \in SeenAlive(t)'
        BY <1>1, <1>2, <2>3, NowSeen DEF QueryStep
      <3>2. Satisfied(Q, "pulled", DropInput, stage, SeenAlive(t)')
        BY <1>4, <2>1, <3>1 DEF Satisfied, SameElsewhere, KindOf, Target
      <3> QED  BY <1>1, <1>4, <2>1, <2>3, <3>2, StageReturns
    <2>4. CASE Target \notin alive /\ Observe(cur, {Target}) /\ SetQuery(DropInput) /\ Goto("next")
      <3>1. Target \in SeenDead(t)'
        BY <1>1, <1>2, <2>4, NowSeen DEF QueryStep
      <3>2. QueryOK(DropInput, "next", stage, SeenAlive(t)', SeenDead(t)')
        BY <1>2, <1>4, <2>1, <3>1, Filtered DEF KindOf, Target
      <3>3. query'[t] = DropInput /\ \A u \in Tid \ {t} : query'[u] = query[u]
        BY <1>2, <2>4, SetQueryAt
      <3>4. DropInput.atoms = Q.atoms /\ pc' = "next" /\ stage' = stage /\ cur' = t
        BY <1>4, <2>4 DEF QueryOn, Goto
      <3> QED  BY <1>1, <2>1, <3>2, <3>3, <3>4, QueryGoesOn DEF InQuery
    <2>5. Target \notin tuples => Target \notin alive
      BY <1>2
    <2> QED  BY <1>6, <2>2, <2>3, <2>4, <2>5 DEF PulledFilter
  <1>7. ASSUME NEW q2 \in QueryOn(Q.atoms), NEW l, SetQuery(q2), Goto("visit"), state' = state,
               SameElsewhere(Q, q2, stage), KindOf \in Products \cup Joins, ~Initial(Q.atoms, stage),
               q2.pending[stage] = (KindOf \in Joins), q2.iter[stage] = Members(l, tuples),
               l = Container(Q.atoms, stage, Q.channel), Observe(cur, Missing(l))
        PROVE  AnswersInv'
    <2>1. \A x \in Tuple \ tuples : Covers(l, x) => x \in SeenDead(t)'
      <3>1. \A x \in Missing(l) \cap Tuple : IF x \in alive THEN x \in SeenAlive(t)' ELSE x \in SeenDead(t)'
        BY <1>1, <1>2, <1>7, NowSeen DEF QueryStep
      <3> QED  BY <1>2, <3>1 DEF Missing
    <2>2. QueryOK(q2, "visit", stage, SeenAlive(t)', SeenDead(t)')
      BY <1>2, <1>7, <2>1, ScanStarted DEF KindOf
    <2>3. query'[t] = q2 /\ \A u \in Tid \ {t} : query'[u] = query[u]
      BY <1>2, <1>7, SetQueryAt
    <2>4. q2.atoms = Q.atoms /\ pc' = "visit" /\ stage' = stage /\ cur' = t
      BY <1>7 DEF QueryOn, Goto
    <2> QED  BY <1>1, <1>7, <2>2, <2>3, <2>4, QueryGoesOn DEF InQuery
  <1>8. CASE PulledProduct
    <2>1. KindOf \in Products /\ Kind(Q.atoms, stage) \in Products /\ KindOf \notin Joins
      BY <1>8 DEF PulledProduct, KindOf, Products, Joins
    <2>2. CASE NoInput /\ AtEnd /\ ReturnFinished
      <3>1. Done(Ended(Q), SeenAlive(t)', SeenDead(t)')
        BY <1>2, <2>1, <2>2, ScanEnds DEF NoInput, Initial, AtEnd
      <3> QED  BY <1>1, <2>2, <3>1, QueryEnds
    <2>3. CASE NoInput /\ Goto("visit") /\ UNCHANGED <<state, query>>
      <3>1. QueryOK(Q, "visit", stage, SeenAlive(t)', SeenDead(t)')
        BY <1>2, <2>1, <2>3, WentOnInitial DEF NoInput, Initial
      <3>2. pc' = "visit" /\ stage' = stage /\ cur' = t
        BY <2>3 DEF Goto
      <3> QED  BY <1>1, <2>3, <3>1, <3>2, QueryMoves DEF InQuery
    <2>4. CASE /\ ~NoInput /\ SetQuery(Scanning(Q, Source)) /\ Observe(cur, Missing(Source))
               /\ Goto("visit") /\ state' = state
      <3>1. Source \in Lock /\ Scanning(Q, Source) \in QueryOn(Q.atoms)
        BY <1>1, <1>2, RunningType, StageUpdateType
      <3>2. /\ SameElsewhere(Q, Scanning(Q, Source), stage)
            /\ Scanning(Q, Source).pending[stage] = FALSE
            /\ Scanning(Q, Source).iter[stage] = Members(Source, tuples)
        BY <1>2, <1>3, <2>1 DEF Scanning, SameElsewhere, QueryOn, Shape
      <3>3. Source = Container(Q.atoms, stage, Q.channel)
        <4>1. Source = Container(Q.atoms, stage, ZeroChannel)
          BY <1>1, <1>2, <2>1, RunningScans DEF StageOK, Source
        <4> QED  BY <1>2, <2>1, <4>1, ProductContainer
      <3>4. ~Initial(Q.atoms, stage) /\ KindOf \in Products \cup Joins
        BY <2>1, <2>4 DEF Initial, NoInput
      <3>5. (KindOf \in Joins) = FALSE
        BY <2>1
      <3>6. Scanning(Q, Source).pending[stage] = (KindOf \in Joins)
        BY <3>2, <3>5
      <3> QED  BY <1>7, <2>4, <3>1, <3>2, <3>3, <3>4, <3>6
    <2> QED  BY <1>8, <2>2, <2>3, <2>4 DEF PulledProduct
  <1>9. CASE PulledJoin
    <2> DEFINE group == Container(Q.atoms, stage, Q.channel)
    <2>1. /\ SetQuery(Scanning(KeepInput, group)) /\ Observe(cur, Missing(group)) /\ Goto("visit")
          /\ state' = state /\ KindOf \in Joins
      BY <1>9 DEF PulledJoin
    <2>2. group \in Lock
      BY <1>2, <1>3, ContainerType
    <2> HIDE DEF group
    <2>3. Scanning(KeepInput, group) \in QueryOn(Q.atoms)
      BY <1>1, <1>4, <2>2, <1>2, StageUpdateType
    <2>4. /\ SameElsewhere(Q, Scanning(KeepInput, group), stage)
          /\ Scanning(KeepInput, group).pending[stage] = TRUE
          /\ Scanning(KeepInput, group).iter[stage] = Members(group, tuples)
      <3>1. KeepInput.atoms = Q.atoms
        BY <1>4 DEF QueryOn
      <3> QED  BY <1>2, <1>4, <3>1 DEF Scanning, SameElsewhere, QueryOn
    <2>5. ~Initial(Q.atoms, stage)
      BY <2>1 DEF Initial, KindOf, Products, Joins
    <2> QED  BY <1>7, <2>1, <2>3, <2>4, <2>5 DEF group
  <1> QED  BY <1>5, <1>6, <1>8, <1>9

LEMMA AnswersVisit ==
    ASSUME Invs, AnswersInv, NoStale, NoStale', NEW t \in Tid, cur = t,
           Visit \/ VisitStale \/ VisitEndJoin \/ VisitEndProduct
    PROVE  AnswersInv'
  <1>1. QueryStep(t) /\ pc = "visit" /\ state' = state
    BY DEF Visit, VisitStale, VisitEndJoin, VisitEndProduct, dataVars, txVars, QueryStep, InQuery
  <1>2. /\ TypeInv /\ Q.atoms \in Queries /\ Q \in QueryOn(Q.atoms) /\ stage \in DOMAIN Q.atoms
        /\ Q.iter[stage] \subseteq Tuple /\ Q.channel \in [Var -> Value]
        /\ Kind(Q.atoms, stage) \in Products \cup Joins
        /\ QueryOK(Q, "visit", stage, SeenAlive(t)', SeenDead(t)')
    BY <1>1, QueryRuns DEF TypeInv, ControlOK, KindOf, QueryOn
  <1>3. Shape(Q) /\ Q.stale = {}
    BY <1>1, <1>2 DEF QueryOK, NoStale, Q, QueryStep
  <1>4. CASE Visit
    <2> DEFINE x == Visited
    <2>1. x \in Q.iter[stage] /\ x \in Tuple
      BY <1>2, <1>4 DEF Visit, Visited
    <2>2. /\ Advanced \in QueryOn(Q.atoms) /\ SameElsewhere(Q, Advanced, stage)
          /\ Advanced.pending = Q.pending /\ Advanced.iter[stage] = Q.iter[stage] \ {x}
          /\ Advanced.channel = Q.channel
      BY <1>1, <1>2, StageUpdateType DEF Advanced, SameElsewhere, QueryOn
    <2> DEFINE bound == Bind(Q.atoms, stage, Q.channel, x)
               q2    == [Advanced EXCEPT !.channel = bound]
    <2>3. /\ q2 \in QueryOn(Q.atoms) /\ q2.channel = bound /\ q2.atoms = Q.atoms
          /\ q2.iter = Advanced.iter /\ q2.pending = Advanced.pending
          /\ q2.answers = Advanced.answers /\ q2.num = Advanced.num
      <3>1. bound \in [Var -> Value]
        BY <1>2, <2>1, BindType
      <3> HIDE DEF bound
      <3>2. q2 \in QueryOn(Q.atoms)
        BY <1>2, <2>2, <3>1, QueryUpdateType
      <3> QED  BY <2>2, <3>2 DEF QueryOn
    <2> HIDE DEF x, bound, q2
    <2>4. CASE Suspend({x}) /\ UNCHANGED query
      <3>1. pc' \notin InQuery
        BY <2>4 DEF Suspend, InQuery
      <3> QED  BY <1>1, <2>4, <3>1, QueryMoves
    <2>5. CASE x \in alive /\ Observe(cur, {x}) /\ ReturnOK(q2)
      <3>1. x \in SeenAlive(t)'
        BY <1>1, <1>2, <2>1, <2>5, NowSeen DEF QueryStep
      <3>2. Inst(Q.atoms[stage], bound) = x
        BY <1>3, <1>2, <2>1 DEF Shape, bound
      <3>3. Satisfied(Q, "visit", q2, stage, SeenAlive(t)')
        BY <1>2, <2>1, <2>2, <2>3, <3>1, <3>2 DEF Satisfied, SameElsewhere, bound
      <3> QED  BY <1>1, <2>3, <2>5, <3>3, StageReturns
    <2>6. ASSUME x \notin alive, Observe(cur, {x}), SetQuery(Advanced), NEW p \in {"visit", "next"},
                 Goto(p)
          PROVE  AnswersInv'
      <3>1. x \in SeenDead(t)'
        BY <1>1, <1>2, <2>1, <2>6, NowSeen DEF QueryStep
      <3>2. QueryOK(Advanced, p, stage, SeenAlive(t)', SeenDead(t)')
        BY <1>2, <2>2, <2>6, <3>1, DeadVisited
      <3>3. query'[t] = Advanced /\ \A u \in Tid \ {t} : query'[u] = query[u]
        BY <1>2, <2>6, SetQueryAt
      <3>4. Advanced.atoms = Q.atoms /\ pc' = p /\ stage' = stage /\ cur' = t
        BY <2>2, <2>6 DEF QueryOn, Goto
      <3> QED  BY <1>1, <3>2, <3>3, <3>4, QueryGoesOn DEF InQuery
    <2> QED  BY <1>4, <2>2, <2>4, <2>5, <2>6 DEF Visit, x, q2, bound
  <1>5. ~VisitStale
    BY <1>3 DEF VisitStale
  <1>6. CASE VisitEndJoin
    <2>1. Q.iter[stage] = {} /\ KindOf \in Joins /\ SetQuery(DropInput) /\ Goto("next")
      BY <1>6 DEF VisitEndJoin, AtEnd
    <2>2. /\ DropInput \in QueryOn(Q.atoms) /\ SameElsewhere(Q, DropInput, stage)
          /\ DropInput.iter = Q.iter /\ DropInput.pending[stage] = FALSE
      BY <1>1, <1>2, StageUpdateType DEF DropInput, SameElsewhere, QueryOn
    <2>3. QueryOK(DropInput, "next", stage, SeenAlive(t)', SeenDead(t)')
      BY <1>2, <2>1, <2>2, JoinEnded DEF KindOf
    <2>4. query'[t] = DropInput /\ \A u \in Tid \ {t} : query'[u] = query[u]
      BY <1>2, <2>1, SetQueryAt
    <2>5. DropInput.atoms = Q.atoms /\ pc' = "next" /\ stage' = stage /\ cur' = t
      BY <2>1, <2>2 DEF QueryOn, Goto
    <2> QED  BY <1>1, <2>3, <2>4, <2>5, QueryGoesOn DEF InQuery
  <1>7. CASE VisitEndProduct
    <2>1. UNCHANGED query /\ pc' \notin InQuery
      BY <1>7 DEF VisitEndProduct, jobVars, Goto, InQuery
    <2> QED  BY <1>1, <2>1, QueryMoves
  <1> QED  BY <1>4, <1>5, <1>6, <1>7

-----------------------------------------------------------------------------

LEMMA InitAnswersInv == Init => AnswersInv
  BY DEF Init, AnswersInv, Created, QueryInv, NoQuery, BlankQuery

LEMMA AnswersInvStep ==
    ASSUME Invs, AnswersInv, NoStale, NoStale', [Next]_vars
    PROVE  AnswersInv'
  <1>1. CASE CheckRelation \/ EditTuple \/ EditRefusedByGroup \/ EditRefusedByTuple \/ FinishEdit
    BY <1>1, AnswersEdits
  <1>2. ASSUME \/ GetTuple \/ NextConstConst \/ NextPull \/ NextContinue
               \/ PulledConstConst \/ PulledFilter \/ PulledProduct \/ PulledJoin
               \/ Visit \/ VisitStale \/ VisitEndJoin \/ VisitEndProduct
        PROVE  AnswersInv'
    <2>1. cur \in Tid
      BY <1>2, QuerySteps, RunningType DEF Invs
    <2> QED  BY <1>2, <2>1, AnswersNext, AnswersPulled, AnswersVisit
  <1>3. CASE DetectStart \/ DetectFollow \/ DetectBacktrack \/ AbortVictim
    BY <1>3, AnswersDetect
  <1>4. CASE \E t \in Tid : Command(t)
    BY <1>4, AnswersCommands
  <1>5. CASE UNCHANGED vars
    <2>1. /\ UNCHANGED <<alive, tuples, original, reads, query, state, pc, cur, stage>>
      BY <1>5 DEF vars, dataVars, txVars, jobVars, controlVars
    <2>2. ASSUME NEW u \in Tid PROVE QueryInv(u)'
      <3>1. At(u)' = At(u) /\ Place(u)' = Place(u)
        BY <2>1 DEF At, Place
      <3> QED  BY <2>1, <3>1, StaysObserved, QueryKept DEF Invs, AnswersInv
    <2> QED  BY <2>1, <2>2 DEF AnswersInv, Created
  <1> QED  BY <1>1, <1>2, <1>3, <1>4, <1>5 DEF Next, Internal

(* A query that has run to its end has printed what it means.                 *)
LEMMA DoneIsExact == TypeInv /\ AnswersInv => AnswersExact
  <1> SUFFICES ASSUME TypeInv, AnswersInv, NEW t \in Tid, state[t] = "READY", query[t].atoms # <<>>
               PROVE  LET q     == query[t]
                          exact == Eval(q.atoms, alive)
                      IN  /\ q.answers = exact
                          /\ Cardinality(exact) <= MaxAnswers => q.num = Cardinality(exact)
    BY DEF AnswersExact
  <1> DEFINE q == query[t]
  <1>1. Done(q, SeenAlive(t), SeenDead(t)) /\ q.answers \subseteq Assignments(q.atoms)
    <2>1. PICK atoms \in Queries \cup {<<>>} : q \in QueryOn(atoms)
      BY DEF TypeInv, TypeOK, IsQuery
    <2> QED  BY <2>1 DEF AnswersInv, QueryInv, QueryOn, Assignments
  <1> HIDE DEF q
  <1>2. \A s : /\ Excluded(q, SeenDead(t), s) => \E i \in DOMAIN q.atoms : Inst(q.atoms[i], s) \notin alive
               /\ Supported(q, SeenAlive(t), s) => \A i \in DOMAIN q.atoms : Inst(q.atoms[i], s) \in alive
    BY DEF Excluded, Supported, SeenAlive, SeenDead
  <1>3. q.answers = Eval(q.atoms, alive)
    BY <1>1, <1>2 DEF Done, Eval, Assignments
  <1>4. Cardinality(q.answers) \in Nat
    BY <1>1, FS_CardinalityType DEF Done
  <1>5. Cardinality(q.answers) <= MaxAnswers => q.num = Cardinality(q.answers)
    BY <1>1, <1>4, DatabaseAssumption DEF Done
  <1> QED  BY <1>3, <1>5 DEF q

(* Every query that runs to its end has printed each of its answers exactly   *)
(* once, whatever it asks and however often it was suspended while others     *)
(* edited, queried and were rolled back, provided that no scan of it was      *)
(* disturbed by a rehash and nobody rolls back what has ended.                *)
THEOREM AnswersCorrect ==
    ASSUME "rollback_finished" \notin OutOfTurn
    PROVE  Spec /\ []NoStale => []AnswersExact
  <1>1. Orderly
    BY DEF Orderly
  <1>2. Init => AnswersInv
    BY InitAnswersInv
  <1>3. TypeInv /\ LocksInv /\ SearchInv /\ IsolationInv => Invs
    BY <1>1 DEF Invs
  <1>4. Invs /\ AnswersInv /\ NoStale /\ NoStale' /\ [Next]_vars => AnswersInv'
    BY AnswersInvStep
  <1>5. TypeInv /\ AnswersInv => AnswersExact
    BY DoneIsExact
  <1> QED
    BY <1>2, <1>3, <1>4, <1>5, TypeInvHolds, LocksInvHolds, SearchInvHolds, IsolationInvHolds, PTL DEF Spec
-----------------------------------------------------------------------------
(* Which steps can disturb a scan: no edit, and of a query only the lookups   *)
(* that create the tuple they look up.                                        *)

Creates(atoms, i) == Kind(atoms, i) \in {"CONST_CONST", "RELATION_FILTER"}

\* No group ever rehashes, or no query creates what it looks up.
Undisturbing ==
    Growth = {} \/ \A atoms \in Queries : \A i \in DOMAIN atoms : ~Creates(atoms, i)

(* A step that changes one query leaves it no iterator that is stale.         *)
LEMMA StaleSet ==
    ASSUME TypeInv, NoStale, NEW t \in Tid, NEW q, q.stale = {},
           \E r \in {q, Answered(q)} : query' = [query EXCEPT ![t] = r]
    PROVE  NoStale'
  <1>1. Answered(q).stale = {}
    BY DEF Answered
  <1>2. PICK r \in {q, Answered(q)} : query' = [query EXCEPT ![t] = r]
    OBVIOUS
  <1>3. \A u \in Tid : query'[u] = IF u = t THEN r ELSE query[u]
    BY <1>2 DEF TypeInv, TypeOK
  <1> QED  BY <1>1, <1>2, <1>3 DEF NoStale

LEMMA StaleQuery ==
    ASSUME TypeInv, IsolationInv, NoStale, Undisturbing,
           \/ GetTuple \/ NextConstConst \/ NextPull \/ NextContinue
           \/ PulledConstConst \/ PulledFilter \/ PulledProduct \/ PulledJoin
           \/ Visit \/ VisitStale \/ VisitEndJoin \/ VisitEndProduct
    PROVE  NoStale'
  <1>1. /\ pc \in {"next", "pulled", "visit"} /\ cur \in Tid
        /\ Q.atoms \in Queries /\ Q \in QueryOn(Q.atoms) /\ stage \in DOMAIN Q.atoms
    BY QuerySteps, RunningScans
  <1>2. Q.stale = {}
    BY <1>1 DEF NoStale, Q
  <1>3. CASE UNCHANGED query
    BY <1>3 DEF NoStale
  <1>4. ASSUME NEW q, q.stale = {}, SetQuery(q) \/ ReturnOK(q) PROVE NoStale'
    BY <1>1, <1>4, StaleSet DEF SetQuery, ReturnOK
  <1>5. CASE ReturnFinished
    <2>1. [BlankQuery(Q.atoms) EXCEPT !.answers = Q.answers, !.num = Q.num].stale = {}
      BY DEF BlankQuery
    <2> QED  BY <1>4, <1>5, <2>1 DEF ReturnFinished
  <1>6. /\ KeepInput.stale = {} /\ DropInput.stale = {} /\ Advanced.stale = {}
        /\ \A c : [Advanced EXCEPT !.channel = c].stale = {}
        /\ \A l : Scanning(Q, l).stale = {} /\ Scanning(KeepInput, l).stale = {}
    BY <1>1, <1>2 DEF KeepInput, DropInput, Advanced, Scanning, QueryOn
  <1>7. CASE GetTuple
    <2>1. Growth = {}
      BY <1>1, <1>7 DEF Undisturbing, Creates, GetTuple, KindOf
    <2>2. Grown(Target) = {}
      BY <2>1 DEF Grown
    <2>3. ASSUME NEW u \in Tid PROVE Disturbed(query[u], Target).stale = {}
      <3>1. PICK atoms \in Queries \cup {<<>>} : query[u] \in QueryOn(atoms)
        BY DEF TypeInv, TypeOK, IsQuery
      <3>2. query[u].stale = {}
        BY DEF NoStale
      <3> QED  BY <2>2, <3>1, <3>2 DEF Disturbed, QueryOn
    <2> QED  BY <1>7, <2>3 DEF GetTuple, EnsureTuple, NoStale
  <1>8. CASE NextConstConst \/ NextPull \/ NextContinue
    BY <1>3, <1>5, <1>8 DEF NextConstConst, NextPull, NextContinue, jobVars
  <1>9. CASE PulledConstConst \/ PulledFilter \/ PulledProduct \/ PulledJoin
    BY <1>2, <1>3, <1>4, <1>5, <1>6, <1>9 DEF PulledConstConst, PulledFilter, PulledProduct, PulledJoin
  <1>10. CASE Visit \/ VisitStale \/ VisitEndJoin \/ VisitEndProduct
    BY <1>2, <1>3, <1>4, <1>6, <1>10 DEF Visit, VisitStale, VisitEndJoin, VisitEndProduct, jobVars
  <1> QED  BY <1>7, <1>8, <1>9, <1>10

LEMMA StaleCommands ==
    ASSUME TypeInv, NoStale, NEW t \in Tid, Command(t)
    PROVE  NoStale'
  <1>1. NoQuery.stale = {} /\ \A atoms : NewQuery(atoms).stale = {}
    BY DEF NoQuery, NewQuery, BlankQuery
  <1>2. \/ query' = query
        \/ query' = [query EXCEPT ![t] = NoQuery]
        \/ \E atoms : query' = [query EXCEPT ![t] = NewQuery(atoms)]
    BY DEF Command, Begin, Commit, CommitSuspended, CommitFinished, Rollback, Abort, Close, Add, Delete,
       StartEdit, AddRefused, StartRefused, StartQuery, QueryNoRelation, Resume, ResumeRefused, Refuse,
       jobVars
  <1> QED  BY <1>1, <1>2, StaleSet DEF NoStale

LEMMA NoStaleStep ==
    ASSUME TypeInv, LocksInv, SearchInv, IsolationInv, NoStale, Undisturbing, [Next]_vars
    PROVE  NoStale'
  <1>1. CASE pc = "edit_tuples"
    BY <1>1, EditsSpareScansStep DEF NoStale
  <1>2. CASE pc # "edit_tuples" /\ Internal
    <2>1. CASE CheckRelation \/ DetectStart \/ DetectFollow \/ DetectBacktrack
      BY <2>1 DEF CheckRelation, DetectStart, DetectFollow, DetectBacktrack, jobVars, NoStale
    <2>2. CASE AbortVictim
      <3>1. PICK victim \in Tid : Abort(victim)
        BY <2>2, VictimWaits
      <3>2. NoQuery.stale = {}
        BY DEF NoQuery, BlankQuery
      <3> QED  BY <3>1, <3>2, StaleSet DEF Abort, Close
    <2> QED
      BY <1>2, <2>1, <2>2, StaleQuery
      DEF Internal, EditTuple, EditRefusedByGroup, EditRefusedByTuple, FinishEdit, AtTuple
  <1>3. CASE \E t \in Tid : Command(t)
    BY <1>3, StaleCommands
  <1>4. CASE UNCHANGED vars
    BY <1>4 DEF vars, jobVars, NoStale
  <1> QED  BY <1>1, <1>2, <1>3, <1>4 DEF Next

(* As long as no query creates the tuples it looks up, or no group rehashes,  *)
(* no scan is ever disturbed: every answer printed is right.                  *)
THEOREM UndisturbedAnswersCorrect ==
    ASSUME "rollback_finished" \notin OutOfTurn, Undisturbing
    PROVE  Spec => []AnswersExact
  <1>1. Init => NoStale
    BY DEF Init, NoStale, NoQuery, BlankQuery
  <1>2. TypeInv /\ LocksInv /\ SearchInv /\ IsolationInv /\ NoStale /\ [Next]_vars => NoStale'
    BY NoStaleStep
  <1>3. Spec => []NoStale
    BY <1>1, <1>2, TypeInvHolds, LocksInvHolds, SearchInvHolds, IsolationInvHolds, PTL DEF Spec
  <1> QED  BY <1>3, AnswersCorrect, PTL
=============================================================================
