--------------------------- MODULE DatabaseProofs ---------------------------
(***************************************************************************)
(* Proofs about Database, for every value of its constants: first the      *)
(* facts about the constant operators of RelationData and Stage, then that *)
(* the state has its type and that the code's control flow is respected.   *)
(***************************************************************************)
EXTENDS DatabaseProperties, TLAPS, FiniteSetTheorems, SequenceTheorems

-----------------------------------------------------------------------------
(* Locks and stages. *)

(* Every pattern the code names a lock by is a lock, tuples included. *)
LEMMA LocksAreLocks ==
    /\ Tuple \subseteq Lock
    /\ \A r \in RelName : WholeRel(r) \in Lock /\ DiagGroup(r) \in Lock
    /\ \A r \in RelName, v \in Value : LeftGroup(r, v) \in Lock /\ RightGroup(r, v) \in Lock
  BY DEF Tuple, Lock, WholeRel, DiagGroup, LeftGroup, RightGroup

(* The locks an edit goes through. *)
LEMMA EditLocksAreLocks ==
    ASSUME NEW x \in Tuple
    PROVE  GroupLocks(x) \subseteq Lock /\ EditLocks(x) \subseteq Lock
  <1>1. x.rel \in RelName /\ x.left \in Value /\ x.right \in Value
    BY DEF Tuple
  <1> QED  BY <1>1, LocksAreLocks DEF GroupLocks, EditLocks

(* Each of those locks protects the tuple that is edited. *)
LEMMA EditLocksCover ==
    ASSUME NEW x \in Tuple
    PROVE  \A l \in EditLocks(x) : Covers(l, x)
  BY SentinelAssumption
  DEF Tuple, EditLocks, GroupLocks, Covers, WholeRel, LeftGroup, RightGroup, DiagGroup

(* Conversely a lock that protects a tuple is one of those, or the tuple's own. *)
LEMMA CoverIsEditLock ==
    ASSUME NEW x \in Tuple, NEW l \in Lock, Covers(l, x)
    PROVE  l \in EditLocks(x) \cup {x}
  <1>1. l.rel = x.rel
    BY DEF Covers
  <1>2. CASE l.left = Diag /\ x.left = x.right
    <2>1. l = DiagGroup(x.rel)
      BY <1>1, <1>2, SentinelAssumption DEF Lock, DiagGroup
    <2> QED  BY <2>1, <1>2 DEF EditLocks, GroupLocks
  <1>3. CASE l.left \in {Wild, x.left} /\ l.right \in {Wild, x.right}
    <2>1. l \in [rel : RelName, left : Value \cup {Wild}, right : Value \cup {Wild}]
      BY <1>3, SentinelAssumption DEF Lock, Tuple
    <2>2. l = [rel |-> x.rel, left |-> l.left, right |-> l.right]
      BY <2>1, <1>1
    <2>3. x = [rel |-> x.rel, left |-> x.left, right |-> x.right]
      BY DEF Tuple
    <2> QED  BY <1>3, <2>2, <2>3 DEF EditLocks, GroupLocks, WholeRel, LeftGroup, RightGroup
  <1> QED  BY <1>2, <1>3 DEF Covers

-----------------------------------------------------------------------------

(* A stage has one of the seven kinds of stage an atom can have. *)
LEMMA KindType ==
    ASSUME NEW atoms \in Seq(Atom), NEW i \in DOMAIN atoms
    PROVE  Kind(atoms, i) \in Filters \cup Products \cup Joins \cup {"CONST_CONST"}
  <1>1. atoms[i] \in Atom
    OBVIOUS
  <1> QED  BY <1>1, VarAssumption DEF Kind, Atom, AtomVars, Filters, Products, Joins

(* The container behind a stage has a lock. *)
LEMMA ContainerType ==
    ASSUME NEW atoms \in Seq(Atom), NEW i \in DOMAIN atoms, NEW channel \in [Var -> Value]
    PROVE  Container(atoms, i, channel) \in Lock
  <1>1. atoms[i] \in Atom
    OBVIOUS
  <1>2. atoms[i].rel \in RelName /\ atoms[i].left \in Value \cup Var /\ atoms[i].right \in Value \cup Var
    BY <1>1 DEF Atom
  <1>3. CASE Kind(atoms, i) = "CONST_CONST"
    <2>1. atoms[i] \in Tuple
      BY <1>1, <1>3 DEF Kind, AtomVars, Atom, Tuple
    <2> QED  BY <2>1, <1>3, LocksAreLocks DEF Container
  <1>4. CASE Kind(atoms, i) # "CONST_CONST"
    <2>1. atoms[i].left \in Value \/ Kind(atoms, i) = "JOIN_LEFT" => Arg(atoms[i].left, channel) \in Value
      BY <1>2, VarAssumption DEF Arg
    <2>2. \/ Kind(atoms, i) \in {"RELATION_FILTER", "RELATION_PRODUCT"}
          \/ atoms[i].left = atoms[i].right
          \/ atoms[i].left \in Value \/ Kind(atoms, i) = "JOIN_LEFT"
          \/ Arg(atoms[i].right, channel) \in Value
      BY <1>2, VarAssumption DEF Arg, Kind, AtomVars
    <2> QED  BY <1>2, <1>4, <2>1, <2>2, LocksAreLocks DEF Container
  <1> QED  BY <1>3, <1>4

(* An atom denotes a tuple. *)
LEMMA InstType ==
    ASSUME NEW a \in Atom, NEW channel \in [Var -> Value]
    PROVE  Inst(a, channel) \in Tuple
  BY VarAssumption DEF Atom, Inst, Arg, Tuple

(* A stage writes values into the channel. *)
LEMMA BindType ==
    ASSUME NEW atoms, NEW i, NEW channel \in [Var -> Value], NEW x \in Tuple
    PROVE  Bind(atoms, i, channel, x) \in [Var -> Value]
  BY DEF Bind, Tuple

(* The variables of a query are variables. *)
LEMMA QueryVarsType ==
    ASSUME NEW atoms
    PROVE  QueryVars(atoms) \subseteq Var
  BY DEF QueryVars, AtomVars

(* Construction takes locks of containers. *)
LEMMA SetupLocksType ==
    ASSUME NEW atoms \in Seq(Atom), NEW channel \in [Var -> Value]
    PROVE  SetupLocks(atoms, channel) \subseteq Lock
  BY ContainerType DEF SetupLocks

(* A container is never mistaken for a tuple: its lock is an SLock. *)
LEMMA ContainerIsNoTuple ==
    ASSUME NEW atoms \in Seq(Atom), NEW i \in DOMAIN atoms, NEW channel \in [Var -> Value],
           Kind(atoms, i) # "CONST_CONST"
    PROVE  Container(atoms, i, channel) \notin Tuple
  BY SentinelAssumption DEF Container, WholeRel, DiagGroup, LeftGroup, RightGroup, Tuple

LEMMA SetupLocksAreNoTuples ==
    ASSUME NEW atoms \in Seq(Atom), NEW channel \in [Var -> Value]
    PROVE  SetupLocks(atoms, channel) \cap Tuple = {}
  BY ContainerIsNoTuple DEF SetupLocks, Filters, Products

(* The container of a filter has the tuple it looks up, whatever its input.   *)
LEMMA FilterCovers ==
    ASSUME NEW atoms \in Seq(Atom), NEW i \in DOMAIN atoms, Kind(atoms, i) \in Filters,
           NEW c \in [Var -> Value], NEW channel \in [Var -> Value]
    PROVE  Covers(Container(atoms, i, c), Inst(atoms[i], channel))
  <1> DEFINE a == atoms[i]
  <1>1. /\ a.left \in Value \cup Var /\ a.right \in Value \cup Var
        /\ AtomVars(a) = {a.left, a.right} \cap Var
    <2>1. a \in Atom
      OBVIOUS
    <2> QED  BY <2>1 DEF Atom, AtomVars
  <1>2. CASE Kind(atoms, i) = "RELATION_FILTER"
    BY <1>2 DEF Container, WholeRel, Covers, Inst
  <1>3. CASE Kind(atoms, i) = "GROUP_FILTER" /\ a.left = a.right
    BY <1>3 DEF Container, DiagGroup, Covers, Inst
  <1>4. CASE Kind(atoms, i) = "GROUP_FILTER" /\ a.left # a.right
    <2>1. a.left \in Value \/ a.right \in Value
      BY <1>1, <1>4 DEF Kind
    <2>2. Value \cap Var = {}
      BY VarAssumption
    <2>3. CASE a.left \in Value
      BY <1>4, <2>2, <2>3 DEF Container, LeftGroup, Covers, Inst, Arg
    <2>4. CASE a.left \notin Value
      BY <1>4, <2>1, <2>2, <2>4 DEF Container, RightGroup, Covers, Inst, Arg
    <2> QED  BY <2>3, <2>4
  <1> QED  BY <1>2, <1>3, <1>4 DEF Filters
-----------------------------------------------------------------------------
(* What a stage receives and passes on. *)

\* An assignment gives the inputs of stage i the values the channel has.
Agree(atoms, i, channel, s) == \A v \in InputVars(atoms, i) : channel[v] = s[v]

(* What an atom denotes depends on its own variables only. *)
LEMMA InstDepends ==
    ASSUME NEW a, NEW c, NEW s, \A v \in AtomVars(a) : c[v] = s[v]
    PROVE  Inst(a, c) = Inst(a, s)
  BY DEF Inst, Arg, AtomVars

(* The inputs of a stage are the variables of the atoms before it. *)
LEMMA InputVarsAre ==
    ASSUME NEW atoms \in Seq(Atom), NEW i \in DOMAIN atoms
    PROVE  /\ InputVars(atoms, i) \subseteq QueryVars(atoms)
           /\ AtomVars(atoms[i]) \subseteq QueryVars(atoms)
           /\ QueryVars(atoms) \subseteq Var
           /\ InputVars(atoms, i + 1) = InputVars(atoms, i) \cup AtomVars(atoms[i])
           /\ \A j \in DOMAIN atoms : j < i =>
                /\ AtomVars(atoms[j]) \subseteq InputVars(atoms, i)
                /\ InputVars(atoms, j) \subseteq InputVars(atoms, i)
           /\ i = Len(atoms) => InputVars(atoms, i + 1) = QueryVars(atoms)
  <1>1. /\ DOMAIN atoms = 1 .. Len(atoms) /\ Len(atoms) \in Nat /\ i \in Nat
        /\ \A j \in DOMAIN atoms : j < i => 1 .. (j - 1) \subseteq 1 .. (i - 1)
        /\ \A j \in DOMAIN atoms : j < i => j \in 1 .. (i - 1)
        /\ 1 .. (i - 1) \subseteq DOMAIN atoms
        /\ 1 .. ((i + 1) - 1) = (1 .. (i - 1)) \cup {i}
        /\ i = Len(atoms) => 1 .. ((i + 1) - 1) = DOMAIN atoms
    OBVIOUS
  <1>2. InputVars(atoms, i + 1) = InputVars(atoms, i) \cup AtomVars(atoms[i])
    BY <1>1 DEF InputVars
  <1>3. i = Len(atoms) => InputVars(atoms, i + 1) = QueryVars(atoms)
    BY <1>1 DEF InputVars, QueryVars
  <1>4. InputVars(atoms, i) \subseteq QueryVars(atoms) /\ AtomVars(atoms[i]) \subseteq QueryVars(atoms)
    BY <1>1 DEF InputVars, QueryVars
  <1>5. ASSUME NEW j \in DOMAIN atoms, j < i
        PROVE  /\ AtomVars(atoms[j]) \subseteq InputVars(atoms, i)
               /\ InputVars(atoms, j) \subseteq InputVars(atoms, i)
    BY <1>1, <1>5 DEF InputVars
  <1> QED  BY <1>2, <1>3, <1>4, <1>5, QueryVarsType

(* What the kind of a stage says of its variables. *)
LEMMA KindVars ==
    ASSUME NEW atoms \in Seq(Atom), NEW i \in DOMAIN atoms
    PROVE  /\ Kind(atoms, i) = "CONST_CONST" <=> AtomVars(atoms[i]) = {}
           /\ Kind(atoms, i) \in Filters => AtomVars(atoms[i]) \subseteq InputVars(atoms, i)
           /\ Kind(atoms, i) \in Products \cup Joins => ~(AtomVars(atoms[i]) \subseteq InputVars(atoms, i))
           /\ Kind(atoms, i) \in Joins => InputVars(atoms, i) # {}
  <1>1. atoms[i] \in Atom /\ AtomVars(atoms[i]) = {atoms[i].left, atoms[i].right} \cap Var
    BY DEF AtomVars
  <1> QED  BY <1>1 DEF Kind, Filters, Products, Joins

(* A stage changes no variable it has received. *)
LEMMA BindKeeps ==
    ASSUME NEW atoms, NEW i, NEW c, NEW x, NEW v \in InputVars(atoms, i) \cap Var
    PROVE  Bind(atoms, i, c, x)[v] = c[v]
  BY DEF Bind

(* A container has every tuple its atom may denote, given the inputs. *)
LEMMA ScanCovers ==
    ASSUME NEW atoms \in Seq(Atom), NEW i \in DOMAIN atoms, Kind(atoms, i) \in Products \cup Joins,
           NEW c, NEW s, Agree(atoms, i, c, s)
    PROVE  Covers(Container(atoms, i, c), Inst(atoms[i], s))
  <1> DEFINE a == atoms[i]
  <1>1. /\ a.left \in Value \cup Var /\ a.right \in Value \cup Var /\ Value \cap Var = {}
        /\ AtomVars(a) = {a.left, a.right} \cap Var
    <2>1. a \in Atom
      OBVIOUS
    <2> QED  BY <2>1, VarAssumption DEF Atom, AtomVars
  <1>2. CASE Kind(atoms, i) = "RELATION_PRODUCT"
    BY <1>2 DEF Container, WholeRel, Covers, Inst
  <1>3. CASE Kind(atoms, i) # "RELATION_PRODUCT" /\ a.left = a.right
    BY <1>3, SentinelAssumption DEF Container, DiagGroup, Covers, Inst, Products, Joins
  <1>4. CASE a.left # a.right /\ Kind(atoms, i) = "GROUP_PRODUCT"
    <2>1. a.left \in Value \/ a.right \in Value
      BY <1>1, <1>4 DEF Kind
    <2>2. CASE a.left \in Value
      BY <1>1, <1>4, <2>2 DEF Container, LeftGroup, Covers, Inst, Arg
    <2>3. CASE a.left \notin Value
      BY <1>1, <1>4, <2>1, <2>3 DEF Container, RightGroup, Covers, Inst, Arg
    <2> QED  BY <2>2, <2>3
  <1>5. CASE a.left # a.right /\ Kind(atoms, i) \in Joins
    <2>1. a.left \in Var /\ a.right \in Var
      BY <1>1, <1>5 DEF Kind, Joins
    <2>2. /\ Kind(atoms, i) = "JOIN_LEFT" => a.left \in InputVars(atoms, i)
          /\ Kind(atoms, i) = "JOIN_RIGHT" => a.right \in InputVars(atoms, i)
      BY <1>1, <1>5, <2>1 DEF Kind, Joins
    <2>3. /\ Kind(atoms, i) = "JOIN_LEFT" => Arg(a.left, c) = Arg(a.left, s)
          /\ Kind(atoms, i) = "JOIN_RIGHT" => Arg(a.right, c) = Arg(a.right, s)
      BY <2>1, <2>2 DEF Agree, Arg
    <2> QED
      BY <1>1, <1>5, <2>1, <2>3 DEF Joins, Container, LeftGroup, RightGroup, Covers, Inst
  <1> QED  BY <1>2, <1>3, <1>4, <1>5 DEF Products

(* The container of a product is the same for all inputs. *)
LEMMA ProductContainer ==
    ASSUME NEW atoms \in Seq(Atom), NEW i \in DOMAIN atoms, Kind(atoms, i) \in Products,
           NEW c, NEW s
    PROVE  Container(atoms, i, c) = Container(atoms, i, s)
  <1> DEFINE a == atoms[i]
  <1>1. /\ a.left \in Value \cup Var /\ a.right \in Value \cup Var /\ Value \cap Var = {}
        /\ AtomVars(a) = {a.left, a.right} \cap Var
    <2>1. a \in Atom
      OBVIOUS
    <2> QED  BY <2>1, VarAssumption DEF Atom, AtomVars
  <1>2. CASE Kind(atoms, i) = "RELATION_PRODUCT"
    BY <1>2 DEF Container
  <1>3. CASE Kind(atoms, i) = "GROUP_PRODUCT"
    <2>1. a.left \in Value \/ a.right \in Value \/ a.left = a.right
      BY <1>1, <1>3 DEF Kind
    <2> QED  BY <1>1, <1>3, <2>1 DEF Container, Arg
  <1> QED  BY <1>2, <1>3 DEF Products

(* Bound to a tuple of its container, an atom denotes that tuple. *)
LEMMA BindInst ==
    ASSUME NEW atoms \in Seq(Atom), NEW i \in DOMAIN atoms, Kind(atoms, i) \in Products \cup Joins,
           NEW c \in [Var -> Value], NEW x \in Tuple, Covers(Container(atoms, i, c), x)
    PROVE  Inst(atoms[i], Bind(atoms, i, c, x)) = x
  <1> DEFINE a == atoms[i]
             b == Bind(atoms, i, c, x)
  <1>1. /\ a.left \in Value \cup Var /\ a.right \in Value \cup Var /\ Value \cap Var = {}
        /\ AtomVars(a) = {a.left, a.right} \cap Var
    <2>1. a \in Atom
      OBVIOUS
    <2> QED  BY <2>1, VarAssumption DEF Atom, AtomVars
  <1>2. x = [rel |-> x.rel, left |-> x.left, right |-> x.right]
    BY DEF Tuple
  <1>3. \A v \in Var : b[v] = IF v \notin AtomVars(a) \ InputVars(atoms, i) THEN c[v]
                              ELSE IF v = a.left THEN x.left ELSE x.right
    BY DEF Bind
  <1> HIDE DEF b
  <1>4. a.rel = x.rel /\ Arg(a.left, b) = x.left /\ Arg(a.right, b) = x.right
    <2>1. CASE Kind(atoms, i) = "RELATION_PRODUCT"
      <3>1. a.left \in Var /\ a.right \in Var /\ a.left # a.right
            /\ a.left \notin InputVars(atoms, i) /\ a.right \notin InputVars(atoms, i)
        BY <1>1, <2>1 DEF Kind
      <3> QED  BY <1>1, <1>3, <2>1, <3>1 DEF Container, WholeRel, Covers, Arg
    <2>2. CASE Kind(atoms, i) # "RELATION_PRODUCT" /\ a.left = a.right
      <3>1. a.left \in Var /\ a.left \notin InputVars(atoms, i)
        BY <1>1, <2>2 DEF Kind, Products, Joins
      <3>2. a.rel = x.rel /\ x.left = x.right
        BY <2>2, SentinelAssumption DEF Container, DiagGroup, Covers, Products, Joins, Tuple
      <3> QED  BY <1>1, <1>3, <2>2, <3>1, <3>2 DEF Arg
    <2>3. CASE a.left # a.right /\ Kind(atoms, i) = "GROUP_PRODUCT"
      <3>1. \/ a.left \in Value /\ a.right \in Var /\ a.right \notin InputVars(atoms, i)
            \/ a.right \in Value /\ a.left \in Var /\ a.left \notin InputVars(atoms, i)
        BY <1>1, <2>3 DEF Kind
      <3>2. CASE a.left \in Value /\ a.right \in Var /\ a.right \notin InputVars(atoms, i)
        BY <1>1, <1>3, <2>3, <3>2, SentinelAssumption DEF Container, LeftGroup, Covers, Arg, Tuple
      <3>3. CASE a.right \in Value /\ a.left \in Var /\ a.left \notin InputVars(atoms, i)
        BY <1>1, <1>3, <2>3, <3>3, SentinelAssumption DEF Container, RightGroup, Covers, Arg, Tuple
      <3> QED  BY <3>1, <3>2, <3>3
    <2>4. CASE a.left # a.right /\ Kind(atoms, i) \in Joins
      <3>1. a.left \in Var /\ a.right \in Var
        BY <1>1, <2>4 DEF Kind, Joins
      <3>2. CASE Kind(atoms, i) = "JOIN_LEFT"
        <4>1. a.left \in InputVars(atoms, i) /\ a.right \notin InputVars(atoms, i)
          BY <1>1, <3>1, <3>2 DEF Kind
        <4>2. a.rel = x.rel /\ c[a.left] = x.left
          BY <1>1, <2>4, <3>1, <3>2, SentinelAssumption DEF Container, LeftGroup, Covers, Arg, Tuple
        <4> QED  BY <1>1, <1>3, <2>4, <3>1, <4>1, <4>2 DEF Arg
      <3>3. CASE Kind(atoms, i) = "JOIN_RIGHT"
        <4>1. a.right \in InputVars(atoms, i) /\ a.left \notin InputVars(atoms, i)
          BY <1>1, <3>1, <3>3 DEF Kind
        <4>2. a.rel = x.rel /\ c[a.right] = x.right
          BY <1>1, <2>4, <3>1, <3>3, SentinelAssumption DEF Container, RightGroup, Covers, Arg, Tuple
        <4> QED  BY <1>1, <1>3, <2>4, <3>1, <4>1, <4>2 DEF Arg
      <3> QED  BY <2>4, <3>2, <3>3 DEF Joins
    <2> QED  BY <2>1, <2>2, <2>3, <2>4 DEF Products
  <1> QED  BY <1>2, <1>4 DEF Inst, b

(* An assignment that makes the atom denote the tuple has the values bound. *)
LEMMA BindAgrees ==
    ASSUME NEW atoms \in Seq(Atom), NEW i \in DOMAIN atoms, NEW c, NEW x, NEW s,
           Inst(atoms[i], s) = x
    PROVE  Agree(atoms, i, c, s) <=> Agree(atoms, i + 1, Bind(atoms, i, c, x), s)
  <1> DEFINE a == atoms[i]
             b == Bind(atoms, i, c, x)
  <1>1. /\ InputVars(atoms, i + 1) = InputVars(atoms, i) \cup AtomVars(a)
        /\ InputVars(atoms, i) \subseteq Var /\ AtomVars(a) = {a.left, a.right} \cap Var
    BY InputVarsAre DEF AtomVars
  <1>2. \A v \in Var : b[v] = IF v \notin AtomVars(a) \ InputVars(atoms, i) THEN c[v]
                              ELSE IF v = a.left THEN x.left ELSE x.right
    BY DEF Bind
  <1>3. (a.left \in Var => s[a.left] = x.left) /\ (a.right \in Var => s[a.right] = x.right)
    BY DEF Inst, Arg
  <1>4. \A v \in AtomVars(a) \ InputVars(atoms, i) : b[v] = s[v]
    BY <1>1, <1>2, <1>3
  <1>5. \A v \in InputVars(atoms, i) : b[v] = c[v]
    BY <1>1, <1>2
  <1> HIDE DEF a, b
  <1>6. Agree(atoms, i, c, s) <=> Agree(atoms, i + 1, b, s)
    BY <1>1, <1>4, <1>5 DEF Agree
  <1> QED  BY <1>6 DEF b

(* The first atom with a variable is scanned from the start of the query. *)
LEMMA FirstIsProduct ==
    ASSUME NEW atoms \in Seq(Atom), QueryVars(atoms) # {}
    PROVE  \E i \in DOMAIN atoms : Kind(atoms, i) \in Products /\ InputVars(atoms, i) = {}
  <1> DEFINE T == {1 .. i : i \in {j \in DOMAIN atoms : AtomVars(atoms[j]) # {}}}
  <1>1. DOMAIN atoms = 1 .. Len(atoms) /\ Len(atoms) \in Nat
    OBVIOUS
  <1>2. T # {}
    BY DEF QueryVars
  <1>3. T \subseteq FiniteSubsetsOf(Nat)
    <2>1. \A i \in DOMAIN atoms : i \in Nat
      BY <1>1
    <2>2. \A i \in Nat : 1 .. i \in SUBSET Nat /\ IsFiniteSet(1 .. i)
      BY FS_Interval
    <2>3. \A i \in Nat : 1 .. i \in FiniteSubsetsOf(Nat)
      BY ONLY <2>2 DEF FiniteSubsetsOf
    <2> QED BY ONLY <2>1, <2>3 DEF T
  <1>4. PICK R \in T : \A U \in T : <<U, R>> \notin StrictSubsetOrdering(Nat)
    BY <1>2, <1>3, FS_StrictSubsetOrderingWellFounded, WFMin
  <1>5. PICK i \in DOMAIN atoms : AtomVars(atoms[i]) # {} /\ R = 1 .. i
    BY <1>4
  <1>6. ASSUME NEW j \in 1 .. (i - 1), AtomVars(atoms[j]) # {} PROVE FALSE
    <2>1. j \in DOMAIN atoms /\ 1 .. j \in T
      <3>1. j \in DOMAIN atoms
        BY <1>1
      <3> QED  BY <1>6, <3>1
    <2>2. 1 .. j \subseteq 1 .. i /\ 1 .. j # 1 .. i /\ 1 .. i \subseteq Nat /\ 1 .. j \subseteq Nat
      BY <1>1
    <2>3. <<1 .. j, R>> \in StrictSubsetOrdering(Nat)
      BY <1>5, <2>2 DEF StrictSubsetOrdering
    <2> QED  BY <1>4, <2>1, <2>3
  <1>7. InputVars(atoms, i) = {}
    BY <1>6 DEF InputVars
  <1>8. Kind(atoms, i) \in Products
    <2>1. atoms[i] \in Atom /\ AtomVars(atoms[i]) = {atoms[i].left, atoms[i].right} \cap Var
      BY DEF AtomVars
    <2> QED  BY <1>5, <1>7, <2>1 DEF Kind, Products
  <1> QED  BY <1>7, <1>8

-----------------------------------------------------------------------------
(* The states of the database. *)

(* Queries are sequences of atoms. *)
LEMMA QueriesType ==
    /\ Queries \subseteq Seq(Atom)
    /\ \A atoms \in Queries : Len(atoms) \in Nat \ {0} /\ DOMAIN atoms = 1 .. Len(atoms)
  <1>1. Queries \subseteq Seq(Atom) \ {<<>>}
    BY DatabaseAssumption
  <1> QED  BY <1>1

LEMMA ZeroChannelType == ZeroChannel \in [Var -> Value]
  BY SentinelAssumption DEF ZeroChannel

(* The stages as they are before any of them runs. *)
LEMMA BlankQueryType ==
    ASSUME NEW atoms \in Queries \cup {<<>>}
    PROVE  BlankQuery(atoms) \in QueryOn(atoms) /\ IsQuery(BlankQuery(atoms))
  <1>1. [i \in DOMAIN atoms |-> Container(atoms, i, ZeroChannel)] \in [DOMAIN atoms -> Lock]
    <2>1. atoms \in Seq(Atom)
      BY QueriesType, <<>> \in Seq(Atom)
    <2> QED  BY <2>1, ZeroChannelType, ContainerType
  <1>2. BlankQuery(atoms) \in QueryOn(atoms)
    BY <1>1, ZeroChannelType DEF BlankQuery, QueryOn
  <1> QED  BY <1>2 DEF IsQuery

(* The stages as their constructors leave them. *)
LEMMA NewQueryType ==
    ASSUME NEW atoms \in Queries, tuples \in SUBSET Tuple
    PROVE  NewQuery(atoms) \in QueryOn(atoms)
  BY BlankQueryType DEF NewQuery, QueryOn, Members

(* A query stays one under each of the updates a step makes to it. *)
LEMMA QueryUpdateType ==
    ASSUME NEW atoms, NEW q \in QueryOn(atoms), NEW i \in DOMAIN atoms
    PROVE  /\ \A b \in BOOLEAN : [q EXCEPT !.pending[i] = b] \in QueryOn(atoms)
           /\ \A S \in SUBSET Tuple : [q EXCEPT !.iter[i] = S] \in QueryOn(atoms)
           /\ \A c \in [Var -> Value] : [q EXCEPT !.channel = c] \in QueryOn(atoms)
           /\ \A S \in SUBSET DOMAIN atoms : [q EXCEPT !.stale = S] \in QueryOn(atoms)
           /\ \A l \in Lock : [q EXCEPT !.group[i] = l] \in QueryOn(atoms)
  BY DEF QueryOn

LEMMA AnsweredType ==
    ASSUME NEW atoms, NEW q \in QueryOn(atoms)
    PROVE  Answered(q) \in QueryOn(atoms)
  <1>1. q.atoms = atoms /\ q.num \in Nat /\ MaxAnswers \in Nat
    BY DatabaseAssumption DEF QueryOn
  <1>2. [v \in QueryVars(atoms) |-> q.channel[v]] \in [QueryVars(atoms) -> Value]
    BY QueryVarsType DEF QueryOn
  <1>3. q.answers \cup {[v \in QueryVars(q.atoms) |-> q.channel[v]]} \in SUBSET [QueryVars(atoms) -> Value]
    BY <1>1, <1>2 DEF QueryOn
  <1>4. (IF q.num < MaxAnswers THEN q.num + 1 ELSE q.num) \in Nat
    BY <1>1
  <1> QED  BY <1>3, <1>4 DEF Answered, QueryOn

-----------------------------------------------------------------------------
(* Type correctness. *)

TypeInv == TypeOK /\ ControlOK

LEMMA InitTypeInv == Init => TypeInv
  <1> SUFFICES ASSUME Init PROVE TypeInv
    OBVIOUS
  <1>1. TypeOK
    <2>1. IsQuery(NoQuery)
      BY BlankQueryType DEF NoQuery
    <2>2. NoEdit \in Edit
      BY DEF NoEdit, Edit
    <2> QED
      BY <2>1, <2>2, DatabaseAssumption, LocksAreLocks
      DEF Init, LocksInit, TypeOK, LocksTypeOK, State, Live, Executing, PC, Status, Tuple
  <1>2. ControlOK
    BY DEF Init, ControlOK
  <1> QED  BY <1>1, <1>2 DEF TypeInv

(* What the operations on the lock sets leave behind. *)
LEMMA LocksStepType ==
    ASSUME LocksTypeOK, NEW t \in Tid
    PROVE  /\ \A S \in SUBSET Lock : AcquireShared(t, S) =>
                holders' \in [Lock -> SUBSET Tid] /\ held' \in [Tid -> SUBSET Lock] /\ exclusive' \in SUBSET Tuple
           /\ \A x \in Tuple : AcquireExclusive(t, x) =>
                holders' \in [Lock -> SUBSET Tid] /\ held' \in [Tid -> SUBSET Lock] /\ exclusive' \in SUBSET Tuple
           /\ ReleaseLocks(t) =>
                holders' \in [Lock -> SUBSET Tid] /\ held' \in [Tid -> SUBSET Lock] /\ exclusive' \in SUBSET Tuple
           /\ \A S \in SUBSET Lock : Require(t, S) => required' \in [Tid -> SUBSET Lock]
           /\ ClearRequired(t) => required' \in [Tid -> SUBSET Lock]
  BY LocksAreLocks DEF LocksTypeOK, AcquireShared, AcquireExclusive, ReleaseLocks, Require, ClearRequired

(* What is left of a transaction that ends. *)
LEMMA CloseType ==
    ASSUME TypeOK, NEW t \in Tid, Close(t)
    PROVE  /\ edit' \in [Tid -> Edit]
           /\ query' = [u \in Tid |-> query'[u]] /\ \A u \in Tid : IsQuery(query'[u])
           /\ reads' \in [Tid -> [Tuple -> Status]]
  <1>1. IsQuery(NoQuery)
    BY BlankQueryType DEF NoQuery
  <1>2. NoEdit \in Edit
    BY DEF NoEdit, Edit
  <1> QED  BY <1>1, <1>2 DEF Close, TypeOK, Status

LEMMA ObserveType ==
    ASSUME TypeOK, NEW t \in Tid, NEW S, Observe(t, S)
    PROVE  reads' \in [Tid -> [Tuple -> Status]]
  BY DEF TypeOK, Observe, StatusIn, Status

LEMMA WriteType ==
    ASSUME TypeOK, NEW t \in Tid, NEW x \in Tuple, NEW status, Write(t, x, status)
    PROVE  alive' \in SUBSET Tuple /\ original' \in [Tid -> [Tuple -> Status]]
  <1>1. alive \in SUBSET Tuple /\ original \in [Tid -> [Tuple -> Status]]
    BY DEF TypeOK
  <1>2. CASE UNCHANGED <<alive, original>>
    BY <1>1, <1>2
  <1>3. CASE alive' = (IF status = "alive" THEN alive \cup {x} ELSE alive \ {x}) /\ StoreOriginal(t, x)
    <2>1. alive' \in SUBSET Tuple
      BY <1>1, <1>3
    <2>2. (IF original[t][x] = "none" THEN StatusIn(alive, x) ELSE original[t][x]) \in Status
      BY <1>1 DEF StatusIn, Status
    <2>3. original' \in [Tid -> [Tuple -> Status]]
      BY <1>1, <1>3, <2>2 DEF StoreOriginal
    <2> QED  BY <2>1, <2>3
  <1> QED  BY <1>2, <1>3 DEF Write

(* The creation of a tuple, which may disturb any query. *)
LEMMA EnsureTupleType ==
    ASSUME TypeOK, NEW x \in Tuple, EnsureTuple(x)
    PROVE  /\ tuples' \in SUBSET Tuple
           /\ query' = [u \in Tid |-> query'[u]] /\ \A u \in Tid : IsQuery(query'[u])
           /\ \A u \in Tid : query'[u].atoms = query[u].atoms
  <1>1. ASSUME NEW u \in Tid
        PROVE  IsQuery(Disturbed(query[u], x)) /\ Disturbed(query[u], x).atoms = query[u].atoms
    <2>1. PICK atoms \in Queries \cup {<<>>} : query[u] \in QueryOn(atoms)
      BY DEF TypeOK, IsQuery
    <2>2. Disturbed(query[u], x) \in QueryOn(atoms)
      BY <2>1 DEF Disturbed, QueryOn
    <2> QED  BY <2>1, <2>2 DEF IsQuery, QueryOn
  <1> QED  BY <1>1 DEF EnsureTuple, TypeOK

(* The transaction a command is about to run, or has left, is as it should be. *)
LEMMA TypeInvCommands ==
    ASSUME TypeInv, NEW t \in Tid, Command(t)
    PROVE  TypeInv'
  <1> USE DEF TypeInv
  <1>1. CASE Begin(t)
    <2>1. Age \in Nat
      <3>1. IsFiniteSet({u \in Tid : state[u] # "ABSENT"})
        BY DatabaseAssumption, FS_Subset
      <3> QED  BY <3>1, FS_CardinalityType DEF Age
    <2> QED
      BY <1>1, <2>1 DEF Begin, TypeOK, ControlOK, LocksTypeOK, lockVars, dataVars, jobVars, controlVars,
         State, Live, Executing, KindOf, Q
  <1>2. CASE Commit(t)
    <2>1. TypeOK'
      BY <1>2, LocksStepType, CloseType
      DEF Commit, Finish, Return, TypeOK, LocksTypeOK, dataVars, State, PC
    <2>2. ControlOK'
      BY <1>2 DEF Commit, Finish, Return, TypeOK, ControlOK, Close, Executing
    <2> QED  BY <2>1, <2>2
  <1>3. CASE CommitSuspended(t)
    <2>1. TypeOK'
      BY <1>3 DEF CommitSuspended, TypeOK, LocksTypeOK, lockVars, dataVars, txVars, jobVars, PC
    <2>2. ControlOK'
      BY <1>3 DEF CommitSuspended, TypeOK, ControlOK, lockVars, dataVars, txVars, jobVars, Executing, KindOf, Q
    <2> QED  BY <2>1, <2>2
  <1>4. ASSUME Refuse(t) PROVE TypeInv'
    <2>1. TypeOK'
      BY <1>4, LocksStepType
      DEF Refuse, Finish, Return, TypeOK, LocksTypeOK, holderVars, dataVars, txVars, jobVars, PC
    <2>2. ControlOK'
      BY <1>4 DEF Refuse, Finish, Return, TypeOK, ControlOK, txVars, jobVars
    <2> QED  BY <2>1, <2>2
  <1>5. CASE Rollback(t)
    <2>1. TypeOK'
      BY <1>5, LocksStepType, CloseType
      DEF Rollback, Abort, Undo, controlVars, TypeOK, LocksTypeOK, State, PC
    <2>2. ControlOK'
      BY <1>5 DEF Rollback, Abort, controlVars, TypeOK, ControlOK, Close, Executing
    <2> QED  BY <2>1, <2>2
  <1>6. ASSUME NEW r \in RelName, NEW batch \in Batches,
               NEW executing \in {"EXECUTING_ADD", "EXECUTING_DELETE"},
               StartEdit(t, r, batch, executing), relations' \in SUBSET RelName
        PROVE  TypeInv'
    <2>1. [rel |-> r, todo |-> batch] \in Edit
      BY DatabaseAssumption DEF Edit
    <2>2. IsQuery(NoQuery)
      BY BlankQueryType DEF NoQuery
    <2>3. TypeOK'
      BY <1>6, <2>1, <2>2 DEF StartEdit, TypeOK, LocksTypeOK, lockVars, State, Live, Executing, PC
    <2>4. ControlOK'
      BY <1>6 DEF StartEdit, TypeOK, ControlOK, KindOf, Q
    <2> QED  BY <2>3, <2>4
  <1>7. ASSUME NEW r \in RelName, NEW batch \in Batches, Add(t, r, batch) \/ Delete(t, r, batch)
        PROVE  TypeInv'
    BY <1>6, <1>7 DEF Add, Delete, TypeOK
  <1>8. ASSUME NEW r \in RelName, AddRefused(t, r) PROVE TypeInv'
    <2>1. TypeOK'
      BY <1>8, LocksStepType
      DEF AddRefused, Finish, Return, TypeOK, LocksTypeOK, holderVars, txVars, jobVars, PC
    <2>2. ControlOK'
      BY <1>8 DEF AddRefused, Finish, Return, TypeOK, ControlOK, txVars, jobVars
    <2> QED  BY <2>1, <2>2
  <1>9. ASSUME NEW atoms \in Queries, StartQuery(t, atoms) PROVE TypeInv'
    <2>1. IsQuery(NewQuery(atoms)) /\ NewQuery(atoms).atoms = atoms
      BY NewQueryType DEF TypeOK, IsQuery, QueryOn
    <2>2. SetupLocks(atoms, ZeroChannel) \subseteq Lock
      BY SetupLocksType, ZeroChannelType, QueriesType
    <2>3. TypeOK'
      BY <1>9, <2>1, <2>2, LocksStepType, ObserveType, QueriesType
      DEF StartQuery, TypeOK, LocksTypeOK, dataVars, State, Live, Executing, PC
    <2>4. ControlOK'
      BY <1>9, <2>1, QueriesType DEF StartQuery, TypeOK, ControlOK
    <2> QED  BY <2>3, <2>4
  <1>10. CASE Resume(t)
    <2>1. TypeOK'
      BY <1>10, LocksStepType, QueriesType
      DEF Resume, Reenter, ControlOK, TypeOK, LocksTypeOK, holderVars, dataVars, txVars, jobVars, PC
    <2>2. ControlOK'
      BY <1>10, QueriesType
      DEF Resume, Reenter, TypeOK, ControlOK, txVars, jobVars
    <2> QED  BY <2>1, <2>2
  <1> QED
    BY <1>1, <1>2, <1>3, <1>4, <1>5, <1>7, <1>8, <1>9, <1>10
    DEF Command, CommitFinished, StartRefused, QueryNoRelation, ResumeRefused

(* The running query and the tuple or container its running stage is at. *)
LEMMA RunningType ==
    ASSUME TypeInv, pc \in {"next", "pulled", "visit"}
    PROVE  /\ cur \in Tid
           /\ Q.atoms \in Queries /\ Q \in QueryOn(Q.atoms)
           /\ stage \in DOMAIN Q.atoms /\ stage \in 1 .. Len(Q.atoms)
           /\ Target \in Tuple
           /\ Source \in Lock
           /\ KindOf \in Filters \cup Products \cup Joins \cup {"CONST_CONST"}
           /\ Q.iter[stage] \subseteq Tuple /\ Q.channel \in [Var -> Value]
  <1> USE DEF TypeInv
  <1>1. cur \in Tid /\ state[cur] = "EXECUTING_QUERY" /\ stage \in 1 .. Len(Q.atoms)
    BY DEF ControlOK, Q
  <1>2. Q.atoms \in Queries
    BY <1>1 DEF ControlOK, Q
  <1>3. Q \in QueryOn(Q.atoms)
    BY <1>1 DEF TypeOK, IsQuery, QueryOn, Q
  <1>4. stage \in DOMAIN Q.atoms /\ Q.atoms \in Seq(Atom) /\ Q.atoms[stage] \in Atom
    BY <1>1, <1>2, QueriesType
  <1>5. Q.channel \in [Var -> Value] /\ Q.iter[stage] \subseteq Tuple
    BY <1>3, <1>4 DEF QueryOn
  <1>6. Target \in Tuple
    BY <1>4, <1>5, InstType DEF Target
  <1>7. Source \in Lock
    BY <1>3, <1>4 DEF Source, QueryOn
  <1>8. KindOf \in Filters \cup Products \cup Joins \cup {"CONST_CONST"}
    BY <1>4, KindType DEF KindOf
  <1> QED  BY <1>1, <1>2, <1>3, <1>4, <1>5, <1>6, <1>7, <1>8

(* A stage that leaves the query well-formed and returns OK, or is called. *)
LEMMA ReturnOKType ==
    ASSUME TypeInv, pc \in {"next", "pulled", "visit"},
           NEW q \in QueryOn(Q.atoms), ReturnOK(q)
    PROVE  /\ query' = [u \in Tid |-> query'[u]] /\ \A u \in Tid : IsQuery(query'[u])
           /\ \A u \in Tid : query'[u].atoms = query[u].atoms
           /\ pc' \in {"next", "pulled"} /\ stage' \in 1 .. Len(Q.atoms)
           /\ cur' = cur /\ required' = required /\ stack' = stack /\ visited' = visited
  <1>1. /\ cur \in Tid /\ Q.atoms \in Queries /\ Len(Q.atoms) \in Nat
        /\ stage \in 1 .. Len(Q.atoms) /\ q.atoms = Q.atoms
    BY RunningType, QueriesType DEF QueryOn
  <1>2. q.atoms = Q.atoms /\ Answered(q) \in QueryOn(Q.atoms) /\ Answered(q).atoms = Q.atoms
    BY AnsweredType DEF QueryOn
  <1>3. PICK r \in {q, Answered(q)} : SetQuery(r)
    BY DEF ReturnOK
  <1>4. IsQuery(r) /\ r.atoms = Q.atoms
    BY <1>1, <1>2 DEF IsQuery
  <1>5. /\ query' = [u \in Tid |-> query'[u]] /\ \A u \in Tid : IsQuery(query'[u])
        /\ \A u \in Tid : query'[u].atoms = query[u].atoms
    BY <1>1, <1>3, <1>4 DEF SetQuery, TypeInv, TypeOK, Q
  <1> QED  BY <1>1, <1>5 DEF ReturnOK

(* Control inside a running query. *)
LEMMA QueryControl ==
    ASSUME TypeInv, pc \in {"next", "pulled", "visit"},
           state' = state, edit' = edit, cur' = cur,
           \A u \in Tid : query'[u].atoms = query[u].atoms,
           pc' \in {"next", "pulled", "visit", "undefined"}, stage' \in 1 .. Len(Q.atoms),
           pc' = "visit" => stage' = stage /\ KindOf \in Products \cup Joins
    PROVE  ControlOK'
  <1>1. cur \in Tid /\ state[cur] = "EXECUTING_QUERY" /\ Q'.atoms = Q.atoms
    BY DEF TypeInv, ControlOK, Q
  <1>2. pc' = "visit" => KindOf' = KindOf
    BY <1>1 DEF KindOf
  <1> QED  BY <1>1, <1>2 DEF TypeInv, ControlOK, Q

(* Control after the running command is refused a lock. *)
LEMMA SuspendControl ==
    ASSUME TypeInv, pc \in {"edit", "edit_tuples", "next", "pulled", "visit"},
           state' = state, edit' = edit, NEW S, Suspend(S),
           \A u \in Tid : query'[u].atoms = query[u].atoms
    PROVE  ControlOK'
  BY DEF TypeInv, ControlOK, Suspend, Executing

(* The running query ends. *)
LEMMA ReturnFinishedType ==
    ASSUME TypeInv, pc \in {"next", "pulled", "visit"}, ReturnFinished
    PROVE  /\ state' \in [Tid -> State]
           /\ query' = [u \in Tid |-> query'[u]] /\ \A u \in Tid : IsQuery(query'[u])
           /\ required' \in [Tid -> SUBSET Lock]
           /\ edit' = edit => ControlOK'
           /\ pc' = "idle" /\ cur' = NoTid /\ stage' = 0 /\ stack' = <<>> /\ visited' = {}
  <1> DEFINE q == [BlankQuery(Q.atoms) EXCEPT !.answers = Q.answers, !.num = Q.num]
  <1>1. cur \in Tid /\ Q.atoms \in Queries /\ Q \in QueryOn(Q.atoms)
    BY RunningType
  <1>2. q \in QueryOn(Q.atoms)
    BY <1>1, BlankQueryType DEF QueryOn
  <1>3. IsQuery(q) /\ q.atoms = Q.atoms
    BY <1>1, <1>2 DEF IsQuery, QueryOn
  <1>4. query' = [query EXCEPT ![cur] = q]
    BY DEF ReturnFinished, SetQuery
  <1> HIDE DEF q
  <1>5. /\ query' = [u \in Tid |-> query'[u]] /\ \A u \in Tid : IsQuery(query'[u])
        /\ \A u \in Tid : query'[u].atoms = query[u].atoms
    BY <1>1, <1>3, <1>4 DEF TypeInv, TypeOK, Q
  <1>6. required' \in [Tid -> SUBSET Lock]
    BY <1>1, LocksStepType DEF ReturnFinished, Finish, TypeInv, TypeOK
  <1>7. state' \in [Tid -> State]
    BY <1>1 DEF ReturnFinished, TypeInv, TypeOK, State, Live
  <1>8. edit' = edit => ControlOK'
    BY <1>1, <1>5 DEF ReturnFinished, Finish, Return, TypeInv, TypeOK, ControlOK
  <1> QED  BY <1>5, <1>6, <1>7, <1>8 DEF ReturnFinished, Finish, Return

(* A stage calls the one before it. *)
LEMMA CallPreviousType ==
    ASSUME TypeInv, pc \in {"next", "pulled", "visit"}, CallPrevious
    PROVE  /\ pc' \in {"next", "pulled"} /\ stage' \in 1 .. Len(Q.atoms)
           /\ cur' = cur /\ required' = required /\ stack' = stack /\ visited' = visited
  <1>1. stage \in 1 .. Len(Q.atoms) /\ Len(Q.atoms) \in Nat
    BY RunningType, QueriesType
  <1> QED  BY <1>1 DEF CallPrevious

-----------------------------------------------------------------------------
(* The steps of an edit. *)

LEMMA EditingType ==
    ASSUME TypeInv, AtTuple
    PROVE  /\ cur \in Tid /\ NextTuple(cur) \in Tuple
           /\ [edit EXCEPT ![cur].todo = Tail(@)] \in [Tid -> Edit]
           /\ \A u \in Tid : [edit EXCEPT ![cur].todo = Tail(@)][u].rel = edit[u].rel
  <1>1. cur \in Tid /\ edit[cur] \in Edit /\ edit[cur].rel \in RelName /\ edit[cur].todo # <<>>
    BY DEF TypeInv, TypeOK, ControlOK, AtTuple
  <1>2. edit[cur].todo \in Seq(Value \X Value)
    BY <1>1 DEF Edit
  <1>3. Head(edit[cur].todo) \in Value \X Value /\ Tail(edit[cur].todo) \in Seq(Value \X Value)
    BY <1>1, <1>2
  <1>4. Head(edit[cur].todo)[1] \in Value /\ Head(edit[cur].todo)[2] \in Value
    BY <1>3
  <1>5. NextTuple(cur) \in Tuple
    BY <1>1, <1>4 DEF NextTuple, Tuple
  <1>6. [edit[cur] EXCEPT !.todo = Tail(@)] \in Edit
    BY <1>1, <1>3 DEF Edit
  <1>7. [edit EXCEPT ![cur].todo = Tail(@)] \in [Tid -> Edit]
    BY <1>1, <1>6 DEF TypeInv, TypeOK
  <1>8. \A u \in Tid : [edit EXCEPT ![cur].todo = Tail(@)][u].rel = edit[u].rel
    BY <1>1 DEF TypeInv, TypeOK, Edit
  <1> QED  BY <1>1, <1>5, <1>7, <1>8

LEMMA TypeInvEdit ==
    ASSUME TypeInv,
           CheckRelation \/ EditTuple \/ EditRefusedByGroup \/ EditRefusedByTuple \/ FinishEdit
    PROVE  TypeInv'
  <1>1. CASE CheckRelation
    <2>1. cur \in Tid /\ WholeRel(edit[cur].rel) \in Lock
      BY <1>1, LocksAreLocks DEF CheckRelation, TypeInv, ControlOK
    <2>2. CASE Goto("edit_tuples") /\ UNCHANGED required
      <3>1. TypeOK'
        BY <1>1, <2>2 DEF CheckRelation, Goto, TypeInv, TypeOK, LocksTypeOK,
           holderVars, dataVars, txVars, jobVars, PC
      <3>2. ControlOK'
        BY <1>1, <2>2 DEF CheckRelation, Goto, TypeInv, ControlOK, txVars, jobVars
      <3> QED  BY <3>1, <3>2 DEF TypeInv
    <2>3. CASE Suspend({WholeRel(edit[cur].rel)})
      <3>1. required' \in [Tid -> SUBSET Lock]
        BY <2>1, <2>3, LocksStepType DEF Suspend, TypeInv, TypeOK
      <3>2. TypeOK'
        BY <1>1, <2>3, <3>1 DEF CheckRelation, Suspend, TypeInv, TypeOK, LocksTypeOK,
           holderVars, dataVars, txVars, jobVars, PC
      <3>3. ControlOK'
        BY <1>1, <2>3, SuspendControl DEF CheckRelation, txVars, jobVars
      <3> QED  BY <3>2, <3>3 DEF TypeInv
    <2> QED  BY <1>1, <2>2, <2>3 DEF CheckRelation
  <1>2. CASE EditTuple
    <2> DEFINE x == NextTuple(cur)
    <2>1. cur \in Tid /\ x \in Tuple
      BY <1>2, EditingType DEF EditTuple
    <2>2. /\ edit' \in [Tid -> Edit] /\ \A u \in Tid : edit'[u].rel = edit[u].rel
      BY <1>2, EditingType DEF EditTuple
    <2>3. reads' \in [Tid -> [Tuple -> Status]]
      BY <1>2, <2>1, ObserveType DEF EditTuple, TypeInv
    <2>4. holders' \in [Lock -> SUBSET Tid] /\ held' \in [Tid -> SUBSET Lock] /\ exclusive' \in SUBSET Tuple
      BY <1>2, <2>1, LocksStepType DEF EditTuple, TypeInv, TypeOK
    <2>5. alive' \in SUBSET Tuple /\ original' \in [Tid -> [Tuple -> Status]]
      BY <1>2, <2>1, WriteType DEF EditTuple, TypeInv
    <2>6. /\ tuples' \in SUBSET Tuple
          /\ query' = [u \in Tid |-> query'[u]] /\ \A u \in Tid : IsQuery(query'[u])
          /\ \A u \in Tid : query'[u].atoms = query[u].atoms
      BY <1>2, <2>1, EnsureTupleType DEF EditTuple, TypeInv
    <2> UNCHANGED <<required, relations, state, bornAt, pc, cur, stage, stack, visited>>
      BY <1>2 DEF EditTuple, controlVars
    <2>7. TypeOK'
      BY <2>2, <2>3, <2>4, <2>5, <2>6 DEF TypeInv, TypeOK, LocksTypeOK
    <2>8. ControlOK'
      BY <1>2, <2>2, <2>6 DEF EditTuple, AtTuple, TypeInv, ControlOK, controlVars
    <2> QED  BY <2>7, <2>8 DEF TypeInv
  <1>3. CASE EditRefusedByGroup
    <2>1. cur \in Tid /\ EditLocks(NextTuple(cur)) \subseteq Lock
      BY <1>3, EditingType, EditLocksAreLocks DEF EditRefusedByGroup
    <2>2. required' \in [Tid -> SUBSET Lock]
      BY <1>3, <2>1, LocksStepType DEF EditRefusedByGroup, Suspend, TypeInv, TypeOK
    <2>3. TypeOK'
      BY <1>3, <2>2 DEF EditRefusedByGroup, Suspend, TypeInv, TypeOK, LocksTypeOK,
         holderVars, dataVars, txVars, jobVars, PC
    <2>4. ControlOK'
      BY <1>3, SuspendControl DEF EditRefusedByGroup, AtTuple, txVars, jobVars
    <2> QED  BY <2>3, <2>4 DEF TypeInv
  <1>4. CASE EditRefusedByTuple
    <2>1. /\ cur \in Tid /\ NextTuple(cur) \in Tuple
          /\ EditLocks(NextTuple(cur)) \cup {NextTuple(cur)} \subseteq Lock
      BY <1>4, EditingType, EditLocksAreLocks, LocksAreLocks DEF EditRefusedByTuple
    <2>2. required' \in [Tid -> SUBSET Lock]
      BY <1>4, <2>1, LocksStepType DEF EditRefusedByTuple, Suspend, TypeInv, TypeOK
    <2>3. /\ tuples' \in SUBSET Tuple
          /\ query' = [u \in Tid |-> query'[u]] /\ \A u \in Tid : IsQuery(query'[u])
          /\ \A u \in Tid : query'[u].atoms = query[u].atoms
      BY <1>4, <2>1, EnsureTupleType DEF EditRefusedByTuple, TypeInv
    <2>4. TypeOK'
      BY <1>4, <2>2, <2>3 DEF EditRefusedByTuple, Suspend, TypeInv, TypeOK, LocksTypeOK,
         holderVars, txVars, PC
    <2>5. ControlOK'
      BY <1>4, <2>3, SuspendControl DEF EditRefusedByTuple, AtTuple, txVars
    <2> QED  BY <2>4, <2>5 DEF TypeInv
  <1>5. CASE FinishEdit
    <2>1. cur \in Tid
      BY <1>5 DEF FinishEdit, TypeInv, ControlOK
    <2>2. required' \in [Tid -> SUBSET Lock]
      BY <1>5, <2>1, LocksStepType DEF FinishEdit, Finish, TypeInv, TypeOK
    <2>5. edit' \in [Tid -> Edit]
      BY <1>5, <2>1 DEF FinishEdit, NoEdit, Edit, TypeInv, TypeOK
    <2>6. state' \in [Tid -> State]
      BY <1>5, <2>1 DEF FinishEdit, State, Live, TypeInv, TypeOK
    <2>3. TypeOK'
      BY <1>5, <2>2, <2>5, <2>6 DEF FinishEdit, Finish, Return, TypeInv, TypeOK, LocksTypeOK,
         holderVars, dataVars, PC
    <2>4. ControlOK'
      BY <1>5, <2>1 DEF FinishEdit, Finish, Return, TypeInv, TypeOK, ControlOK
    <2> QED  BY <2>3, <2>4 DEF TypeInv
  <1> QED  BY <1>1, <1>2, <1>3, <1>4, <1>5

-----------------------------------------------------------------------------
(* The steps of a query. *)

(* The updates the stages make to the running query. *)
LEMMA SetQueryType ==
    ASSUME TypeInv, pc \in {"next", "pulled", "visit"}, NEW q \in QueryOn(Q.atoms), SetQuery(q)
    PROVE  /\ query' = [u \in Tid |-> query'[u]] /\ \A u \in Tid : IsQuery(query'[u])
           /\ \A u \in Tid : query'[u].atoms = query[u].atoms
  <1>1. cur \in Tid /\ Q.atoms \in Queries /\ q.atoms = Q.atoms
    BY RunningType DEF QueryOn
  <1>2. IsQuery(q)
    BY <1>1 DEF IsQuery
  <1> QED  BY <1>1, <1>2 DEF SetQuery, TypeInv, TypeOK, Q

LEMMA StageUpdateType ==
    ASSUME TypeInv, pc \in {"next", "pulled", "visit"}
    PROVE  /\ KeepInput \in QueryOn(Q.atoms) /\ DropInput \in QueryOn(Q.atoms)
           /\ \A q \in QueryOn(Q.atoms), l \in Lock : Scanning(q, l) \in QueryOn(Q.atoms)
           /\ \A S \in SUBSET Tuple : [Q EXCEPT !.iter[stage] = S, !.stale = @ \ {stage}] \in QueryOn(Q.atoms)
           /\ Advanced \in QueryOn(Q.atoms)
  <1>1. Q \in QueryOn(Q.atoms) /\ stage \in DOMAIN Q.atoms /\ Q.iter[stage] \in SUBSET Tuple
    BY RunningType
  <1>2. KeepInput \in QueryOn(Q.atoms) /\ DropInput \in QueryOn(Q.atoms)
    BY <1>1, QueryUpdateType DEF KeepInput, DropInput
  <1>3. \A q \in QueryOn(Q.atoms), l \in Lock : Scanning(q, l) \in QueryOn(Q.atoms)
    BY <1>1 DEF Scanning, Members, QueryOn, TypeInv, TypeOK
  <1>4. \A S \in SUBSET Tuple : [Q EXCEPT !.iter[stage] = S, !.stale = @ \ {stage}] \in QueryOn(Q.atoms)
    BY <1>1 DEF QueryOn
  <1>5. Advanced \in QueryOn(Q.atoms)
    BY <1>1, QueryUpdateType DEF Advanced
  <1> QED  BY <1>2, <1>3, <1>4, <1>5

LEMMA TypeInvNext ==
    ASSUME TypeInv, GetTuple \/ NextConstConst \/ NextPull \/ NextContinue
    PROVE  TypeInv'
  <1>1. CASE NextConstConst
    <2>1. pc \in {"next", "pulled", "visit"} /\ cur \in Tid /\ Target \in Tuple /\ Target \in Lock
      BY <1>1, RunningType, LocksAreLocks DEF NextConstConst
    <2>2. UNCHANGED <<relations, tuples, alive, bornAt, original, edit>>
      BY <1>1, <2>1 DEF NextConstConst, dataVars
    <2>3. CASE Suspend({Target}) /\ UNCHANGED <<holderVars, state, reads, query>>
      <3>1. required' \in [Tid -> SUBSET Lock]
        BY <2>1, <2>3, LocksStepType DEF Suspend, TypeInv, TypeOK
      <3>2. TypeOK'
        BY <2>2, <2>3, <3>1 DEF Suspend, TypeInv, TypeOK, LocksTypeOK, holderVars, PC
      <3>3. ControlOK'
        BY <2>1, <2>2, <2>3, SuspendControl
      <3> QED  BY <3>2, <3>3 DEF TypeInv
    <2>4. ASSUME PermitsRead(Target, cur),
                 IF cur \in holders[Target] THEN UNCHANGED holderVars ELSE AcquireShared(cur, {Target}),
                 Observe(cur, {Target}),
                 \/ Target \in alive /\ CallPrevious /\ UNCHANGED <<state, query>>
                 \/ Target \notin alive /\ ReturnFinished
          PROVE  TypeInv'
      <3>1. holders' \in [Lock -> SUBSET Tid] /\ held' \in [Tid -> SUBSET Lock] /\ exclusive' \in SUBSET Tuple
        BY <2>1, <2>4, LocksStepType DEF TypeInv, TypeOK, LocksTypeOK, holderVars
      <3>2. reads' \in [Tid -> [Tuple -> Status]]
        BY <2>1, <2>4, ObserveType DEF TypeInv
      <3>3. CASE CallPrevious /\ UNCHANGED <<state, query>>
        <4>1. /\ pc' \in {"next", "pulled"} /\ stage' \in 1 .. Len(Q.atoms) /\ Len(Q.atoms) \in Nat
              /\ cur' = cur /\ required' = required /\ stack' = stack /\ visited' = visited
          BY <2>1, <3>3, CallPreviousType, RunningType, QueriesType
        <4>2. TypeOK'
          BY <2>2, <3>1, <3>2, <3>3, <4>1 DEF TypeInv, TypeOK, LocksTypeOK, PC
        <4>3. ControlOK'
          BY <2>1, <2>2, <3>3, <4>1, QueryControl
        <4> QED  BY <4>2, <4>3 DEF TypeInv
      <3>4. CASE ReturnFinished
        <4>3. /\ state' \in [Tid -> State]
              /\ query' = [u \in Tid |-> query'[u]] /\ \A u \in Tid : IsQuery(query'[u])
              /\ required' \in [Tid -> SUBSET Lock]
              /\ pc' = "idle" /\ cur' = NoTid /\ stage' = 0 /\ stack' = <<>> /\ visited' = {}
          BY <2>1, <3>4, ReturnFinishedType
        <4>1. TypeOK'
          BY <2>2, <3>1, <3>2, <4>3 DEF TypeInv, TypeOK, LocksTypeOK, PC
        <4>2. ControlOK'
          BY <2>1, <2>2, <3>4, ReturnFinishedType
        <4> QED  BY <4>1, <4>2 DEF TypeInv
      <3> QED  BY <2>4, <3>3, <3>4
    <2> QED  BY <1>1, <2>3, <2>4 DEF NextConstConst
  <1>2. CASE NextPull
    <2>1. pc \in {"next", "pulled", "visit"}
      BY <1>2 DEF NextPull
    <2>2. /\ pc' \in {"next", "pulled"} /\ stage' \in 1 .. Len(Q.atoms) /\ Len(Q.atoms) \in Nat
          /\ cur' = cur /\ required' = required /\ stack' = stack /\ visited' = visited
      BY <1>2, <2>1, CallPreviousType, RunningType, QueriesType DEF NextPull
    <2>3. TypeOK'
      BY <1>2, <2>2 DEF NextPull, TypeInv, TypeOK, LocksTypeOK, holderVars, dataVars, txVars, jobVars, PC
    <2>4. ControlOK'
      BY <1>2, <2>1, <2>2, QueryControl DEF NextPull, txVars, jobVars
    <2> QED  BY <2>3, <2>4 DEF TypeInv
  <1>3. CASE NextContinue
    <2>1. pc \in {"next", "pulled", "visit"} /\ KindOf \in Filters \cup Products \cup Joins /\ stage \in 1 .. Len(Q.atoms)
      BY <1>3, RunningType DEF NextContinue
    <2>2. TypeOK'
      BY <1>3 DEF NextContinue, Goto, TypeInv, TypeOK, LocksTypeOK, lockVars, dataVars, txVars, jobVars, PC
    <2>3. pc' \in {"pulled", "visit"} /\ (pc' = "visit" => KindOf \in Products \cup Joins)
      BY <1>3, <2>1 DEF NextContinue, Goto
    <2>4. ControlOK'
      BY <1>3, <2>1, <2>3, QueryControl DEF NextContinue, Goto, txVars, jobVars
    <2> QED  BY <2>2, <2>4 DEF TypeInv
  <1>4. CASE GetTuple
    <2>1. /\ pc \in {"next", "pulled", "visit"} /\ EnsureTuple(Target)
          /\ UNCHANGED <<lockVars, relations, alive, txVars, edit, controlVars>>
      BY <1>4 DEF GetTuple
    <2>2. /\ tuples' \in SUBSET Tuple
          /\ query' = [u \in Tid |-> query'[u]] /\ \A u \in Tid : IsQuery(query'[u])
          /\ \A u \in Tid : query'[u].atoms = query[u].atoms
      BY <2>1, RunningType, EnsureTupleType DEF TypeInv
    <2>3. TypeOK'
      BY <2>1, <2>2 DEF TypeInv, TypeOK, LocksTypeOK, lockVars, txVars, controlVars
    <2>4. ControlOK'
      BY <1>4, <2>1, <2>2, RunningType, QueryControl DEF GetTuple, txVars, controlVars
    <2> QED  BY <2>3, <2>4 DEF TypeInv
  <1> QED  BY <1>1, <1>2, <1>3, <1>4

(* The steps of a stage that has its input. *)
LEMMA TypeInvPulled ==
    ASSUME TypeInv, PulledConstConst \/ PulledFilter \/ PulledProduct \/ PulledJoin
    PROVE  TypeInv'
  <1> USE DEF TypeInv
  <1>1. /\ pc \in {"next", "pulled", "visit"} /\ cur \in Tid /\ Target \in Tuple /\ {Target} \in SUBSET Lock
        /\ Source \in Lock
        /\ stage \in 1 .. Len(Q.atoms) /\ Len(Q.atoms) \in Nat /\ Q \in QueryOn(Q.atoms)
    <2>1. pc \in {"next", "pulled", "visit"}
      BY DEF PulledConstConst, PulledFilter, PulledProduct, PulledJoin
    <2> QED  BY <2>1, RunningType, QueriesType, LocksAreLocks
  <1>2. CASE PulledConstConst
    <2>1. ReturnOK(Q) /\ UNCHANGED <<holderVars, dataVars, txVars, edit>>
      BY <1>2 DEF PulledConstConst
    <2>2. TypeOK'
      BY <1>1, <2>1, ReturnOKType DEF TypeOK, LocksTypeOK, holderVars, dataVars, txVars, PC
    <2>3. ControlOK'
      BY <1>1, <2>1, ReturnOKType, QueryControl DEF txVars
    <2> QED  BY <2>2, <2>3
  <1>3. CASE PulledFilter
    <2>1. UNCHANGED <<holderVars, relations, tuples, alive, state, bornAt, original, edit>>
      BY <1>3 DEF PulledFilter, dataVars
    <2>2. KeepInput \in QueryOn(Q.atoms) /\ DropInput \in QueryOn(Q.atoms)
      BY <1>1, StageUpdateType
    <2>3. CASE SetQuery(KeepInput) /\ Suspend({Target}) /\ UNCHANGED reads
      <3>1. /\ query' = [u \in Tid |-> query'[u]] /\ \A u \in Tid : IsQuery(query'[u])
            /\ \A u \in Tid : query'[u].atoms = query[u].atoms
        BY <1>1, <2>2, <2>3, SetQueryType
      <3>2. required' \in [Tid -> SUBSET Lock]
        BY <1>1, <2>3, LocksStepType DEF Suspend, TypeOK
      <3>3. TypeOK'
        BY <2>1, <2>3, <3>1, <3>2 DEF Suspend, TypeOK, LocksTypeOK, holderVars, PC
      <3>4. ControlOK'
        BY <1>1, <2>1, <2>3, <3>1, SuspendControl
      <3> QED  BY <3>3, <3>4
    <2>4. CASE Observe(cur, {Target}) /\ ReturnOK(DropInput)
      <3>1. reads' \in [Tid -> [Tuple -> Status]]
        BY <1>1, <2>4, ObserveType
      <3>2. /\ query' = [u \in Tid |-> query'[u]] /\ \A u \in Tid : IsQuery(query'[u])
            /\ \A u \in Tid : query'[u].atoms = query[u].atoms
            /\ pc' \in {"next", "pulled"} /\ stage' \in 1 .. Len(Q.atoms)
            /\ cur' = cur /\ required' = required /\ stack' = stack /\ visited' = visited
        BY <1>1, <2>2, <2>4, ReturnOKType
      <3>3. TypeOK'
        BY <1>1, <2>1, <3>1, <3>2 DEF TypeOK, LocksTypeOK, holderVars, PC
      <3>4. ControlOK'
        BY <1>1, <2>1, <3>2, QueryControl
      <3> QED  BY <3>3, <3>4
    <2>5. CASE Observe(cur, {Target}) /\ SetQuery(DropInput) /\ Goto("next") /\ UNCHANGED required
      <3>1. reads' \in [Tid -> [Tuple -> Status]]
        BY <1>1, <2>5, ObserveType
      <3>2. /\ query' = [u \in Tid |-> query'[u]] /\ \A u \in Tid : IsQuery(query'[u])
            /\ \A u \in Tid : query'[u].atoms = query[u].atoms
        BY <1>1, <2>2, <2>5, SetQueryType
      <3>3. TypeOK'
        BY <1>1, <2>1, <2>5, <3>1, <3>2 DEF Goto, TypeOK, LocksTypeOK, holderVars, PC
      <3>4. ControlOK'
        BY <1>1, <2>1, <2>5, <3>2, QueryControl DEF Goto
      <3> QED  BY <3>3, <3>4
    <2> QED  BY <1>3, <2>3, <2>4, <2>5 DEF PulledFilter
  <1>4. CASE PulledProduct
    <2>1. UNCHANGED <<holderVars, dataVars, bornAt, original, edit>> /\ KindOf \in Products
      BY <1>4 DEF PulledProduct
    <2>2. CASE ReturnFinished /\ UNCHANGED reads
      <3>1. /\ state' \in [Tid -> State]
            /\ query' = [u \in Tid |-> query'[u]] /\ \A u \in Tid : IsQuery(query'[u])
            /\ required' \in [Tid -> SUBSET Lock]
            /\ pc' = "idle" /\ cur' = NoTid /\ stage' = 0 /\ stack' = <<>> /\ visited' = {}
        BY <1>1, <2>2, ReturnFinishedType
      <3>2. TypeOK'
        BY <2>1, <2>2, <3>1 DEF TypeOK, LocksTypeOK, holderVars, dataVars, PC
      <3>3. ControlOK'
        BY <1>1, <2>1, <2>2, ReturnFinishedType
      <3> QED  BY <3>2, <3>3
    <2>3. CASE Goto("visit") /\ UNCHANGED <<required, state, query, reads>>
      <3>1. TypeOK'
        BY <2>1, <2>3 DEF Goto, TypeOK, LocksTypeOK, holderVars, dataVars, PC
      <3>2. ControlOK'
        BY <1>1, <2>1, <2>3, QueryControl DEF Goto
      <3> QED  BY <3>1, <3>2
    <2>4. ASSUME SetQuery(Scanning(Q, Source)),
                 Observe(cur, Missing(Source)), Goto("visit"), UNCHANGED <<required, state>>
          PROVE  TypeInv'
      <3>1. Scanning(Q, Source) \in QueryOn(Q.atoms)
        BY <1>1, StageUpdateType
      <3>2. reads' \in [Tid -> [Tuple -> Status]]
        BY <1>1, <2>4, ObserveType
      <3>3. /\ query' = [u \in Tid |-> query'[u]] /\ \A u \in Tid : IsQuery(query'[u])
            /\ \A u \in Tid : query'[u].atoms = query[u].atoms
        BY <1>1, <2>4, <3>1, SetQueryType
      <3>4. TypeOK'
        BY <2>1, <2>4, <3>2, <3>3 DEF Goto, TypeOK, LocksTypeOK, holderVars, dataVars, PC
      <3>5. ControlOK'
        BY <1>1, <2>1, <2>4, <3>3, QueryControl DEF Goto
      <3> QED  BY <3>4, <3>5
    <2> QED  BY <1>4, <2>2, <2>3, <2>4 DEF PulledProduct
  <1>5. CASE PulledJoin
    <2> DEFINE group == Container(Q.atoms, stage, Q.channel)
    <2>0. group \in Lock /\ {group} \in SUBSET Lock
      BY <1>1, RunningType, QueriesType, ContainerType
    <2>1. Scanning(KeepInput, group) \in QueryOn(Q.atoms)
      BY <1>1, <2>0, StageUpdateType
    <2>2. reads' \in [Tid -> [Tuple -> Status]]
      BY <1>1, <1>5, ObserveType DEF PulledJoin
    <2>3. /\ query' = [u \in Tid |-> query'[u]] /\ \A u \in Tid : IsQuery(query'[u])
          /\ \A u \in Tid : query'[u].atoms = query[u].atoms
      BY <1>1, <1>5, <2>1, SetQueryType DEF PulledJoin
    <2>4. holders' \in [Lock -> SUBSET Tid] /\ held' \in [Tid -> SUBSET Lock] /\ exclusive' \in SUBSET Tuple
      BY <1>1, <1>5, <2>0, LocksStepType DEF PulledJoin, TypeOK
    <2>5. TypeOK'
      BY <1>5, <2>2, <2>3, <2>4 DEF PulledJoin, Goto, TypeOK, LocksTypeOK, dataVars, PC
    <2>6. ControlOK'
      BY <1>1, <1>5, <2>3, QueryControl DEF PulledJoin, Goto
    <2> QED  BY <2>5, <2>6
  <1> QED  BY <1>2, <1>3, <1>4, <1>5

(* The steps of a scan. *)
LEMMA TypeInvVisit ==
    ASSUME TypeInv, Visit \/ VisitStale \/ VisitEndJoin \/ VisitEndProduct
    PROVE  TypeInv'
  <1> USE DEF TypeInv
  <1>1. /\ pc \in {"next", "pulled", "visit"} /\ KindOf \in Products \cup Joins /\ cur \in Tid
        /\ stage \in 1 .. Len(Q.atoms) /\ Len(Q.atoms) \in Nat /\ Q \in QueryOn(Q.atoms)
    <2>1. pc \in {"next", "pulled", "visit"} /\ KindOf \in Products \cup Joins
      BY DEF Visit, VisitStale, VisitEndJoin, VisitEndProduct, ControlOK
    <2> QED  BY <2>1, RunningType, QueriesType
  <1>2. CASE Visit
    <2>1. UNCHANGED <<holderVars, dataVars, state, bornAt, original, edit>>
      BY <1>2 DEF Visit
    <2>2. Visited \in Tuple /\ {Visited} \in SUBSET Lock
      BY <1>1, <1>2, RunningType, LocksAreLocks DEF Visit, Visited
    <2>3. CASE Suspend({Visited}) /\ UNCHANGED <<query, reads>>
      <3>1. required' \in [Tid -> SUBSET Lock]
        BY <1>1, <2>2, <2>3, LocksStepType DEF Suspend, TypeOK
      <3>2. TypeOK'
        BY <2>1, <2>3, <3>1 DEF Suspend, TypeOK, LocksTypeOK, holderVars, dataVars, PC
      <3>3. ControlOK'
        BY <1>1, <2>1, <2>3, SuspendControl
      <3> QED  BY <3>2, <3>3
    <2>4. ASSUME Observe(cur, {Visited}),
                 ReturnOK([Advanced EXCEPT !.channel = Bind(Q.atoms, stage, @, Visited)])
          PROVE  TypeInv'
      <3>1. Advanced \in QueryOn(Q.atoms) /\ Advanced.channel \in [Var -> Value]
        BY <1>1, StageUpdateType DEF QueryOn
      <3>2. Bind(Q.atoms, stage, Advanced.channel, Visited) \in [Var -> Value]
        BY <1>1, <2>2, <3>1, BindType
      <3>3. [Advanced EXCEPT !.channel = Bind(Q.atoms, stage, @, Visited)] \in QueryOn(Q.atoms)
        BY <3>1, <3>2 DEF QueryOn
      <3>4. reads' \in [Tid -> [Tuple -> Status]]
        BY <1>1, <2>4, ObserveType
      <3>5. /\ query' = [u \in Tid |-> query'[u]] /\ \A u \in Tid : IsQuery(query'[u])
            /\ \A u \in Tid : query'[u].atoms = query[u].atoms
            /\ pc' \in {"next", "pulled"} /\ stage' \in 1 .. Len(Q.atoms)
            /\ cur' = cur /\ required' = required /\ stack' = stack /\ visited' = visited
        BY <1>1, <2>4, <3>3, ReturnOKType
      <3>6. TypeOK'
        BY <1>1, <2>1, <3>4, <3>5 DEF TypeOK, LocksTypeOK, holderVars, dataVars, PC
      <3>7. ControlOK'
        BY <1>1, <2>1, <3>5, QueryControl
      <3> QED  BY <3>6, <3>7
    <2>5. ASSUME Observe(cur, {Visited}), SetQuery(Advanced),
                 Goto(IF KindOf \in Joins THEN "visit" ELSE "next"), UNCHANGED required
          PROVE  TypeInv'
      <3>1. reads' \in [Tid -> [Tuple -> Status]]
        BY <1>1, <2>5, ObserveType
      <3>2. /\ query' = [u \in Tid |-> query'[u]] /\ \A u \in Tid : IsQuery(query'[u])
            /\ \A u \in Tid : query'[u].atoms = query[u].atoms
        BY <1>1, <2>5, StageUpdateType, SetQueryType
      <3>3. TypeOK'
        BY <1>1, <2>1, <2>5, <3>1, <3>2 DEF Goto, TypeOK, LocksTypeOK, holderVars, dataVars, PC
      <3>4. ControlOK'
        BY <1>1, <2>1, <2>5, <3>2, QueryControl DEF Goto
      <3> QED  BY <3>3, <3>4
    <2> QED  BY <1>2, <2>3, <2>4, <2>5 DEF Visit
  <1>3. CASE VisitEndJoin
    <2>1. /\ query' = [u \in Tid |-> query'[u]] /\ \A u \in Tid : IsQuery(query'[u])
          /\ \A u \in Tid : query'[u].atoms = query[u].atoms
      BY <1>1, <1>3, StageUpdateType, SetQueryType DEF VisitEndJoin
    <2>2. TypeOK'
      BY <1>3, <2>1 DEF VisitEndJoin, Goto, TypeOK, LocksTypeOK, lockVars, dataVars, txVars, PC
    <2>3. ControlOK'
      BY <1>1, <1>3, <2>1, QueryControl DEF VisitEndJoin, Goto, txVars
    <2> QED  BY <2>2, <2>3
  <1>4. CASE VisitEndProduct
    <2>1. TypeOK'
      BY <1>4 DEF VisitEndProduct, Goto, TypeOK, LocksTypeOK, lockVars, dataVars, txVars, jobVars, PC
    <2>2. ControlOK'
      BY <1>1, <1>4, QueryControl DEF VisitEndProduct, Goto, txVars, jobVars
    <2> QED  BY <2>1, <2>2
  <1>5. CASE VisitStale
    <2>1. UNCHANGED <<lockVars, dataVars, txVars, edit>>
      BY <1>5 DEF VisitStale
    <2>2. CASE Goto("undefined") /\ UNCHANGED query
      <3>1. TypeOK'
        BY <2>1, <2>2 DEF Goto, TypeOK, LocksTypeOK, lockVars, dataVars, txVars, PC
      <3>2. ControlOK'
        BY <1>1, <2>1, <2>2, QueryControl DEF Goto, txVars
      <3> QED  BY <3>1, <3>2
    <2>3. ASSUME NEW rest \in SUBSET Members(Source, tuples), UNCHANGED controlVars,
                 SetQuery([Q EXCEPT !.iter[stage] = rest, !.stale = @ \ {stage}])
          PROVE  TypeInv'
      <3>1. rest \in SUBSET Tuple
        BY DEF Members, TypeOK
      <3>2. [Q EXCEPT !.iter[stage] = rest, !.stale = @ \ {stage}] \in QueryOn(Q.atoms)
        BY <1>1, <3>1, StageUpdateType
      <3>3. /\ query' = [u \in Tid |-> query'[u]] /\ \A u \in Tid : IsQuery(query'[u])
            /\ \A u \in Tid : query'[u].atoms = query[u].atoms
        BY <1>1, <2>3, <3>2, SetQueryType
      <3>4. TypeOK'
        BY <2>1, <2>3, <3>3 DEF TypeOK, LocksTypeOK, lockVars, dataVars, txVars, controlVars
      <3>5. ControlOK'
        BY <1>1, <2>1, <2>3, <3>3, QueryControl DEF txVars, controlVars
      <3> QED  BY <3>4, <3>5
    <2> QED  BY <1>5, <2>2, <2>3 DEF VisitStale
  <1> QED  BY <1>2, <1>3, <1>4, <1>5

-----------------------------------------------------------------------------
(* The search for a deadlock. *)

(* The stack of active calls keeps its type under every step of the search. *)
LEMMA StackType ==
    ASSUME TypeOK
    PROVE  /\ \A t \in Tid : Call(t) \in Frame /\ <<Call(t)>> \in Seq(Frame)
           /\ OnStack \subseteq Tid
           /\ stack # <<>> =>
                /\ Top \in Frame /\ NextEdges(Top) \subseteq Edge
                /\ Pop(stack) \in Seq(Frame) /\ (Len(stack) > 1 => Pop(stack) # <<>>)
                /\ \A e \in Edge, t \in Tid : Append(Follow(e), Call(t)) \in Seq(Frame)
  <1>1. stack \in Seq(Frame) /\ required \in [Tid -> SUBSET Lock]
    BY DEF TypeOK, LocksTypeOK
  <1>2. ASSUME NEW t \in Tid PROVE Call(t) \in Frame
    <2>1. WaitEdges(t) \subseteq Edge
      BY <1>1 DEF WaitEdges, Edge
    <2> QED  BY <2>1 DEF Call, Frame
  <1>3. OnStack \subseteq Tid
    <2>1. \A i \in DOMAIN stack : stack[i] \in Frame
      BY <1>1
    <2> QED  BY <2>1 DEF OnStack, Frame
  <1>4. ASSUME stack # <<>>
        PROVE  /\ Top \in Frame /\ NextEdges(Top) \subseteq Edge
               /\ Pop(stack) \in Seq(Frame) /\ (Len(stack) > 1 => Pop(stack) # <<>>)
               /\ \A e \in Edge, t \in Tid : Append(Follow(e), Call(t)) \in Seq(Frame)
    <2>1. Len(stack) \in Nat \ {0} /\ Top \in Frame
      BY <1>1, <1>4 DEF Top
    <2>2. NextEdges(Top) \subseteq Edge
      BY <2>1 DEF NextEdges, Frame
    <2>3. Pop(stack) \in Seq(Frame) /\ (Len(stack) > 1 => Pop(stack) # <<>>)
      <3>1. \A i \in 1 .. (Len(stack) - 1) : stack[i] \in Frame
        BY <1>1
      <3>2. Pop(stack) \in Seq(Frame) /\ (Len(stack) > 1 => Len(Pop(stack)) = Len(stack) - 1)
        BY <2>1, <3>1, SubSeqProperties DEF Pop
      <3> QED  BY <2>1, <3>2
    <2>4. ASSUME NEW e \in Edge, NEW t \in Tid
          PROVE  Append(Follow(e), Call(t)) \in Seq(Frame)
      <3>1. [Top EXCEPT !.todo = @ \ {e}, !.lock = e.lock] \in Frame
        BY <2>1 DEF Frame, Edge
      <3>2. Follow(e) = [stack EXCEPT ![Len(stack)] = [Top EXCEPT !.todo = @ \ {e}, !.lock = e.lock]]
        BY <1>1, <2>1 DEF Follow, Top
      <3>3. Follow(e) \in Seq(Frame)
        BY <1>1, <2>1, <3>1, <3>2, ExceptSeq
      <3> QED  BY <1>2, <3>3
    <2> QED  BY <2>1, <2>2, <2>3, <2>4
  <1> QED  BY <1>2, <1>3, <1>4

LEMMA TypeInvDetect ==
    ASSUME TypeInv, DetectStart \/ DetectFollow \/ DetectBacktrack
    PROVE  TypeInv'
  <1> USE DEF TypeInv
  <1>1. /\ UNCHANGED <<lockVars, dataVars, txVars, jobVars>>
        /\ pc = "detect" /\ cur \in Tid /\ state[cur] \in Executing
    BY DEF DetectStart, DetectFollow, DetectBacktrack, ControlOK
  <1>2. ASSUME stack' \in Seq(Frame), visited' \in SUBSET Tid,
               \/ UNCHANGED <<pc, cur, stage>>
               \/ pc' = "deadlock" /\ UNCHANGED <<cur, stage>> /\ stack' # <<>>
               \/ pc' = "idle" /\ cur' = NoTid /\ stage' = 0
        PROVE  TypeInv'
    <2>1. TypeOK'
      BY <1>1, <1>2 DEF TypeOK, LocksTypeOK, lockVars, dataVars, txVars, jobVars, PC
    <2>2. ControlOK'
      BY <1>1, <1>2 DEF ControlOK, txVars, jobVars
    <2> QED  BY <2>1, <2>2
  <1>3. CASE DetectStart
    BY <1>1, <1>2, <1>3, StackType DEF DetectStart, StartSearch
  <1>4. CASE DetectFollow
    <2>1. stack # <<>> /\ stack \in Seq(Frame) /\ visited \in SUBSET Tid
      BY <1>4 DEF DetectFollow, TypeOK
    <2>2. PICK e \in NextEdges(Top) :
            \/ FoundCycle(e) /\ Goto("deadlock")
            \/ Descend(e) /\ UNCHANGED <<pc, cur, stage>>
      BY <1>4 DEF DetectFollow
    <2>3. e \in Edge /\ e.tid \in Tid
      BY <2>1, <2>2, StackType DEF Edge
    <2>4. CASE Goto("deadlock")
      BY <1>2, <2>1, <2>4 DEF Goto
    <2>5. CASE Descend(e) /\ UNCHANGED <<pc, cur, stage>>
      BY <1>2, <2>1, <2>3, <2>5, StackType DEF Descend
    <2> QED  BY <2>2, <2>4, <2>5
  <1>5. CASE DetectBacktrack
    <2>1. stack # <<>> /\ visited \in SUBSET Tid
      BY <1>5 DEF DetectBacktrack, TypeOK
    <2>2. CASE Backtrack /\ UNCHANGED <<pc, cur, stage>>
      BY <1>2, <2>1, <2>2, StackType DEF Backtrack
    <2>3. CASE Return
      BY <1>2, <2>3 DEF Return
    <2> QED  BY <1>5, <2>2, <2>3 DEF DetectBacktrack
  <1> QED  BY <1>3, <1>4, <1>5

(* A victim is rolled back; the running transaction may be resumed. *)
LEMMA TypeInvAbortVictim ==
    ASSUME TypeInv, AbortVictim
    PROVE  TypeInv'
  <1> USE DEF TypeInv
  <1>1. PICK victim \in OnStack :
            /\ Abort(victim)
            /\ \/ victim = cur /\ Return /\ UNCHANGED required
               \/ victim # cur /\ Reenter(cur)
    BY DEF AbortVictim, AfterRollback
  <1>2. victim \in Tid /\ cur \in Tid /\ state[cur] \in Executing
    BY StackType DEF AbortVictim, TypeOK, ControlOK
  <1>3. /\ edit' \in [Tid -> Edit] /\ reads' \in [Tid -> [Tuple -> Status]]
        /\ query' = [u \in Tid |-> query'[u]] /\ \A u \in Tid : IsQuery(query'[u])
        /\ \A u \in Tid \ {victim} : edit'[u] = edit[u] /\ query'[u] = query[u]
    BY <1>1, <1>2, CloseType DEF Abort, Close, TypeOK
  <1>4. holders' \in [Lock -> SUBSET Tid] /\ held' \in [Tid -> SUBSET Lock] /\ exclusive' \in SUBSET Tuple
    BY <1>1, <1>2, LocksStepType DEF Abort, TypeOK
  <1>5. /\ state' = [state EXCEPT ![victim] = "ABORTED"] /\ state' \in [Tid -> State]
        /\ alive' \in SUBSET Tuple /\ UNCHANGED <<relations, tuples, bornAt, original>>
    BY <1>1 DEF Abort, Undo, TypeOK, State
  <1>6. CASE victim = cur /\ Return /\ UNCHANGED required
    <2>1. TypeOK'
      BY <1>3, <1>4, <1>5, <1>6 DEF Return, TypeOK, LocksTypeOK, PC
    <2>2. ControlOK'
      BY <1>2, <1>3, <1>5, <1>6 DEF Return, ControlOK, TypeOK
    <2> QED  BY <2>1, <2>2
  <1>7. CASE victim # cur /\ Reenter(cur)
    <2>1. required' \in [Tid -> SUBSET Lock]
      BY <1>2, <1>7, LocksStepType DEF Reenter, TypeOK
    <2>2. /\ stage' \in Nat /\ pc' \in PC /\ cur' \in Tid
          /\ stack' \in Seq(Frame) /\ visited' \in SUBSET Tid
      <3>1. CASE state'[cur] = "EXECUTING_QUERY" \/ state[cur] = "EXECUTING_QUERY"
        BY <1>2, <1>5, <1>7, <3>1, QueriesType, <1>3 DEF Reenter, ControlOK, TypeOK, PC
      <3>2. CASE state[cur] \in {"EXECUTING_ADD", "EXECUTING_DELETE"}
        BY <1>2, <1>7, <3>2 DEF Reenter, PC
      <3> QED  BY <1>7, <3>1, <3>2 DEF Reenter
    <2>3. TypeOK'
      BY <1>3, <1>4, <1>5, <2>1, <2>2 DEF TypeOK, LocksTypeOK
    <2>4. ControlOK'
      BY <1>2, <1>3, <1>5, <1>7, QueriesType DEF Reenter, ControlOK, TypeOK
    <2> QED  BY <2>3, <2>4
  <1> QED  BY <1>1, <1>6, <1>7

-----------------------------------------------------------------------------

(* Every step of the database keeps the types and the control in order. *)
LEMMA TypeInvStep ==
    ASSUME TypeInv, [Next]_vars
    PROVE  TypeInv'
  <1>1. CASE Internal
    BY <1>1, TypeInvEdit, TypeInvNext, TypeInvPulled, TypeInvVisit, TypeInvDetect, TypeInvAbortVictim
    DEF Internal
  <1>2. CASE \E t \in Tid : Command(t)
    BY <1>2, TypeInvCommands
  <1>3. CASE UNCHANGED vars
    BY <1>3 DEF vars, lockVars, dataVars, txVars, jobVars, controlVars, TypeInv, TypeOK, LocksTypeOK,
       ControlOK, KindOf, Q
  <1> QED  BY <1>1, <1>2, <1>3 DEF Next

LEMMA TypeInvHolds == Spec => []TypeInv
  BY InitTypeInv, TypeInvStep, PTL DEF Spec

(* Transactions, locks, queries and the search for a deadlock keep their      *)
(* types, whatever the client asks and in whatever order.                     *)
THEOREM TypeCorrect == Spec => []TypeOK
  <1>1. TypeInv => TypeOK
    BY DEF TypeInv
  <1> QED  BY <1>1, TypeInvHolds, PTL

(* A command only ever runs for a transaction that is in the state to run it, *)
(* also after the detector has rolled a transaction back: resume_query and    *)
(* resume_edit are never entered for a transaction that has ended.            *)
THEOREM ControlCorrect == Spec => []ControlOK
  <1>1. TypeInv => ControlOK
    BY DEF TypeInv
  <1> QED  BY <1>1, TypeInvHolds, PTL
=============================================================================
