--------------------------- MODULE RelationStore ----------------------------
(***************************************************************************)
(* How a Relation keeps its tuples: a StableVector of all of them and,     *)
(* per left value, per right value and for the diagonal, a Group, which is *)
(* a hash map from the pair to the address of the tuple.  RelationData has *)
(* one set of tuples and one set per pattern instead.                      *)
(*                                                                         *)
(* Two readers go over the relation while others enter tuples: `scan`      *)
(* walks the vector as a relation product does, `walk` walks one group as  *)
(* a group product or a join does.  Both look whether they are at the end, *)
(* visit a tuple and step to the next one in the same call.                *)
(***************************************************************************)
EXTENDS StableVector, FiniteSets

CONSTANTS
    Value, MaxValue,    \* the values of tuples; MaxValue is 2^32 - 1
    Pair,               \* the pairs that are asked for
    Empty, NoValue,     \* the sentinel of the maps and nullptr
    Hashes,             \* the hash functions to be considered
    MaxTuples           \* bound: how many tuples are created

ASSUME StoreAssumption ==
    /\ MaxValue \in Value /\ Pair \subseteq Value \X Value
    /\ Empty \notin Pair \ {<<MaxValue, MaxValue>>}
    /\ NoValue \notin Nat \X Nat      \* nullptr is the address of nothing
    /\ Hashes \subseteq [Pair \cup {Empty} -> Nat]
    /\ MaxTuples \in Nat

VARIABLES
    hash,               \* the hash function: chosen at the start, never changed
    tuples,             \* Relation::tuples
    left, right,        \* l_to_r_index and r_to_l_index
    diagonal,           \* diagonal_index
    scan,               \* an iterator over tuples and what it has visited
    walk,               \* an iterator over a group and what it has visited
    got                 \* the tuple get_tuple has returned last

indexVars == <<tuples, left, right, diagonal>>
relVars   == <<hash, indexVars, scan, walk, got>>

Index == INSTANCE OpenAddrHashMap

\* Group::make_key packs the values into 64 bits, all ones for the largest.
MakeKey(p) == IF p = <<MaxValue, MaxValue>> THEN Empty ELSE p

\* Group::find
FindIn(group, p) ==
    LET i == Index!Find(group, hash, MakeKey(p))
    IN  IF i = Index!EndIndex(group) THEN NoValue ELSE group.second[i]

\* Group::insert
InsertIn(group, p, a) == Index!Assign(group, hash, MakeKey(p), a)

\* What iterating over a group visits.
Visitable(group) ==
    {group.second[i] : i \in {j \in DOMAIN group.first : group.first[j] # Empty}}

Idle == [on |-> FALSE, at |-> 0, seen |-> {}, base |-> {}, room |-> 0, value |-> MaxValue]

StoreInit ==
    /\ hash \in Hashes
    /\ tuples = <<>>
    /\ left = [v \in Value |-> Index!New]
    /\ right = [v \in Value |-> Index!New]
    /\ diagonal = Index!New
    /\ scan = Idle /\ walk = Idle
    /\ got = {}

\* ensure_tuple of a pair that its left group knows.
FindTuple(p) ==
    /\ FindIn(left[p[1]], p) # NoValue
    /\ got' = {FindIn(left[p[1]], p)}
    /\ UNCHANGED <<hash, indexVars, scan, walk>>

\* ensure_tuple of any other pair: into the vector and the two or three groups.
CreateTuple(p) ==
    /\ FindIn(left[p[1]], p) = NoValue
    /\ LET a == NextAddress(tuples)
       IN  /\ tuples' = Emplace(tuples, p)
           /\ left' = [left EXCEPT ![p[1]] = InsertIn(@, p, a)]
           /\ right' = [right EXCEPT ![p[2]] = InsertIn(@, p, a)]
           /\ diagonal' = IF p[1] = p[2] THEN InsertIn(diagonal, p, a) ELSE diagonal
           /\ got' = {a}
    /\ UNCHANGED <<hash, scan, walk>>

GetTuple(p) ==
    /\ FindTuple(p) \/ CreateTuple(p)
    /\ Cardinality(Addresses(tuples')) <= MaxTuples

StartScan ==
    /\ ~scan.on
    /\ scan' = [Idle EXCEPT !.on = TRUE, !.at = Begin(tuples), !.base = Addresses(tuples)]
    /\ UNCHANGED <<hash, indexVars, walk, got>>

ScanNext ==
    /\ scan.on /\ scan.at # End
    /\ scan' = [scan EXCEPT !.seen = @ \cup {scan.at}, !.at = After(tuples, scan.at)]
    /\ UNCHANGED <<hash, indexVars, walk, got>>

\* room is the size of the table at the start of the walk.
StartWalk(v) ==
    /\ ~walk.on
    /\ walk' = [Idle EXCEPT !.on = TRUE, !.at = Index!Begin(left[v]), !.value = v,
                            !.base = Visitable(left[v]), !.room = Index!EndIndex(left[v])]
    /\ UNCHANGED <<hash, indexVars, scan, got>>

\* A walk that a rehash has surprised is followed no further.
WalkNext ==
    /\ walk.on /\ walk.room = Index!EndIndex(left[walk.value]) /\ walk.at # walk.room
    /\ walk' = [walk EXCEPT !.seen = @ \cup {left[walk.value].second[walk.at]},
                            !.at = Index!Advance(left[walk.value], walk.at)]
    /\ UNCHANGED <<hash, indexVars, scan, got>>

StoreNext ==
    \/ \E p \in Pair : GetTuple(p)
    \/ StartScan \/ ScanNext
    \/ (\E v \in Value : StartWalk(v)) \/ WalkNext

StoreSpec == StoreInit /\ [][StoreNext]_relVars

-----------------------------------------------------------------------------
(* Properties. *)

\* The pair at an address, and the tuples a pattern over pairs matches; what
\* is entered under the sentinel is in no index.
PairAt(a)   == tuples[a[1]][a[2]]
Matching(P(_)) ==
    {a \in Addresses(tuples) : P(PairAt(a)) /\ PairAt(a) # <<MaxValue, MaxValue>>}

\* Every index holds exactly the tuples its values belong to, whatever was
\* entered before or after them and however often a table was rehashed: what
\* RelationData.Members says of an index.
IndexesAgree ==
    /\ \A v \in Value : Visitable(left[v]) = Matching(LAMBDA p : p[1] = v)
    /\ \A v \in Value : Visitable(right[v]) = Matching(LAMBDA p : p[2] = v)
    /\ Visitable(diagonal) = Matching(LAMBDA p : p[1] = p[2])

\* a comes before b in the vector.
Before(a, b) == a[1] < b[1] \/ (a[1] = b[1] /\ a[2] < b[2])

\* A scan has seen exactly the tuples before it, those included that were
\* created while it ran, and at its end no tuple that was there when it
\* started is missing: operator++ asks for the next node only once.
ScanSeesAll ==
    scan.on =>
        /\ scan.at = End => scan.base \subseteq scan.seen
        /\ scan.at # End =>
              /\ scan.at \in Addresses(tuples)
              /\ scan.seen = {a \in Addresses(tuples) : Before(a, scan.at)}

\* Tuples entered during a walk over a group may be met or missed, but as long
\* as the table is not rehashed no tuple it started with is missed ...
WalkSeesAll ==
    (walk.on /\ walk.room = Index!EndIndex(left[walk.value]) /\ walk.at = walk.room)
        => walk.base \subseteq walk.seen

\* ... and neither reader is given a tuple twice.
VisitsOnce ==
    [][/\ scan.on /\ scan' # scan => scan.at \notin scan.seen
       /\ walk.on /\ walk' # walk => walk'.seen # walk.seen]_relVars

\* A group is rehashed to take another tuple exactly when it holds half as many
\* as it has buckets, and that is at 4, 8, 16, ...: what Database has as Growth.
IsGrowthSize(n) == n >= 4 /\ Index!NextPow2(n) = n
GrowsAtGrowth ==
    [][\A v \in Value \ {MaxValue} :
          LET n == Cardinality(Visitable(left[v]))
          IN  Visitable(left'[v]) # Visitable(left[v]) =>
                  (Index!EndIndex(left'[v]) # Index!EndIndex(left[v]) <=> IsGrowthSize(n))]_relVars

\* get_tuple answers with one object per pair, the same one for ever.
Known == {p \in Pair : FindIn(left[p[1]], p) # NoValue}
Store == INSTANCE TupleStore WITH
             known    <- [p \in Known |-> FindIn(left[p[1]], p)],
             Address  <- Nat \X Nat,
             Excepted <- {<<MaxValue, MaxValue>>}
OneTuplePerPair == Store!TupleStoreSpec
=============================================================================
