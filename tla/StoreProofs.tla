---------------------------- MODULE StoreProofs -----------------------------
(***************************************************************************)
(* Proofs about RelationStore, for every size of a node, every length of   *)
(* the vector and any pairs and hash functions.  First the vector and its  *)
(* scans, in which the groups play no part: a step that enters a tuple     *)
(* appends to the vector, whatever it does to the indexes.  Then the       *)
(* groups, the walks over them, the sizes at which they are rehashed, and  *)
(* that a relation implements TupleStore.                                  *)
(***************************************************************************)
EXTENDS RelationStore, FiniteSetTheorems, TLAPS

\* Every node but the last is full and none is empty: the shape of a vector
\* that is only ever appended to.
IsVector(vec) ==
    /\ vec \in Seq(Seq(Pair))
    /\ \A n \in 1 .. Len(vec) : Len(vec[n]) \in 1 .. PerNode
    /\ \A n \in 1 .. Len(vec) - 1 : Len(vec[n]) = PerNode

-----------------------------------------------------------------------------
(* The container. *)

\* An address names a node and a slot of it that is in use.
LEMMA AddressShape ==
    ASSUME NEW vec, IsVector(vec), NEW a
    PROVE  a \in Addresses(vec) <=>
               \E n \in 1 .. Len(vec), i \in 1 .. PerNode : i <= Len(vec[n]) /\ a = <<n, i>>
<1>1. DOMAIN vec = 1 .. Len(vec)
  BY DEF IsVector
<1>2. \A n \in 1 .. Len(vec) : Len(vec[n]) \in 1 .. PerNode /\ PerNode \in Nat
  BY PerNodeAssumption DEF IsVector
<1>3. ASSUME a \in Addresses(vec)
      PROVE  \E n \in 1 .. Len(vec), i \in 1 .. PerNode : i <= Len(vec[n]) /\ a = <<n, i>>
  <2>1. PICK n \in 1 .. Len(vec) : a \in {n} \X (1 .. Len(vec[n]))
    BY <1>1, <1>3 DEF Addresses
  <2>2. PICK i \in 1 .. Len(vec[n]) : a = <<n, i>>
    BY <2>1
  <2>3. i \in 1 .. PerNode /\ i <= Len(vec[n])
    BY <1>2, <2>2
  <2> QED BY <2>2, <2>3
<1>4. ASSUME NEW n \in 1 .. Len(vec), NEW i \in 1 .. PerNode, i <= Len(vec[n]), a = <<n, i>>
      PROVE  a \in Addresses(vec)
  <2>1. i \in 1 .. Len(vec[n])
    BY <1>2, <1>4
  <2>2. a \in {n} \X (1 .. Len(vec[n]))
    BY <1>4, <2>1
  <2> QED BY <1>1, <2>2 DEF Addresses
<1> QED BY <1>3, <1>4

\* Appending gives the vector one address more, behind all the others.
LEMMA EmplaceAppends ==
    ASSUME NEW vec, IsVector(vec), NEW x \in Pair
    PROVE  /\ IsVector(Emplace(vec, x))
           /\ Addresses(Emplace(vec, x)) = Addresses(vec) \cup {NextAddress(vec)}
           /\ \A a \in Addresses(vec) : Before(a, NextAddress(vec))
<1> DEFINE new == Emplace(vec, x)
<1>0. vec \in Seq(Seq(Pair)) /\ PerNode \in Nat \ {0} /\ Len(vec) \in Nat
  BY PerNodeAssumption DEF IsVector
<1>1. CASE NeedsNode(vec)
  <2>1. new = Append(vec, <<x>>) /\ NextAddress(vec) = <<Len(vec) + 1, 1>>
    BY <1>1 DEF Emplace, NextAddress
  <2>2. new \in Seq(Seq(Pair)) /\ Len(new) = Len(vec) + 1 /\ new[Len(vec) + 1] = <<x>>
        /\ \A n \in 1 .. Len(vec) : new[n] = vec[n]
    BY <1>0, <2>1
  <2> HIDE DEF new
  <2>3. vec # <<>> => Len(vec[Len(vec)]) = PerNode
    BY <1>1 DEF NeedsNode
  <2>4. \A n \in 1 .. Len(vec) : Len(vec[n]) = PerNode /\ Len(new[n]) = PerNode
    <3>1. \A n \in 1 .. Len(vec) : Len(vec[n]) = PerNode
      BY <1>0, <2>3 DEF IsVector
    <3>2. \A n \in 1 .. Len(vec) : new[n] = vec[n]
      BY <2>2
    <3> QED BY <3>1, <3>2
  <2>5. IsVector(new)
    <3>1. ASSUME NEW n \in 1 .. Len(new)
          PROVE  Len(new[n]) \in 1 .. PerNode
      <4>1. CASE n \in 1 .. Len(vec)
        BY <1>0, <2>4, <4>1
      <4>2. CASE n = Len(vec) + 1
        <5>1. new[n] = <<x>> /\ Len(<<x>>) = 1
          BY <2>2, <4>2
        <5> QED BY <1>0, <5>1
      <4> QED BY <1>0, <2>2, <4>1, <4>2
    <3>2. \A n \in 1 .. Len(new) - 1 : Len(new[n]) = PerNode
      <4>1. Len(new) - 1 = Len(vec)
        BY <1>0, <2>2
      <4> QED BY <2>4, <4>1
    <3> QED BY <2>2, <3>1, <3>2 DEF IsVector
  <2>6. ASSUME NEW a
        PROVE  a \in Addresses(new) <=> a \in Addresses(vec) \/ a = <<Len(vec) + 1, 1>>
    <3>1. a \in Addresses(new) <=>
              \E n \in 1 .. Len(new), i \in 1 .. PerNode : i <= Len(new[n]) /\ a = <<n, i>>
      BY <2>5, AddressShape
    <3>2. a \in Addresses(vec) <=>
              \E n \in 1 .. Len(vec), i \in 1 .. PerNode : i <= Len(vec[n]) /\ a = <<n, i>>
      BY AddressShape
    <3>3. Len(new[Len(vec) + 1]) = 1
      <4>1. Len(<<x>>) = 1
        OBVIOUS
      <4> QED BY <2>2, <4>1
    <3>4. ASSUME NEW n \in Nat, NEW i \in 1 .. PerNode
          PROVE  n \in 1 .. Len(new) /\ i <= Len(new[n]) <=>
                     (n \in 1 .. Len(vec) /\ i <= Len(vec[n])) \/ (n = Len(vec) + 1 /\ i = 1)
      <4>1. Len(new) = Len(vec) + 1
        BY <2>2
      <4>2. CASE n \in 1 .. Len(vec)
        <5>1. Len(new[n]) = PerNode /\ Len(vec[n]) = PerNode
          BY <2>4, <4>2
        <5> QED BY <1>0, <4>1, <4>2, <5>1
      <4>3. CASE n = Len(vec) + 1
        <5>1. Len(new[n]) = 1
          BY <3>3, <4>3
        <5> QED BY <1>0, <4>1, <4>3, <5>1
      <4>4. CASE n \notin 1 .. Len(vec) /\ n # Len(vec) + 1
        BY <1>0, <4>1, <4>4
      <4> QED BY <4>2, <4>3, <4>4
    <3>5. 1 \in 1 .. PerNode /\ Len(vec) + 1 \in Nat /\ 1 .. Len(new) \subseteq Nat
          /\ 1 .. Len(vec) \subseteq Nat
      BY <1>0, <2>2
    <3> QED BY <3>1, <3>2, <3>4, <3>5
  <2>7. \A a \in Addresses(vec) : Before(a, NextAddress(vec))
    BY <1>0, <2>1, AddressShape DEF Before
  <2> QED BY <2>1, <2>5, <2>6, <2>7 DEF new
<1>2. CASE ~NeedsNode(vec)
  <2>0. Len(vec) \in 1 .. Len(vec) /\ Len(vec[Len(vec)]) # PerNode
    BY <1>0, <1>2 DEF NeedsNode
  <2> DEFINE last == Len(vec)
             used == Len(vec[last])
  <2>1. new = [vec EXCEPT ![last] = Append(vec[last], x)] /\ NextAddress(vec) = <<last, used + 1>>
    BY <1>2 DEF Emplace, NextAddress
  <2>2. vec[last] \in Seq(Pair) /\ used \in 1 .. PerNode - 1
    BY <1>0, <2>0 DEF IsVector
  <2>3. Append(vec[last], x) \in Seq(Pair) /\ Len(Append(vec[last], x)) = used + 1
    BY <2>2
  <2>4. new \in Seq(Seq(Pair)) /\ Len(new) = last /\ Len(new[last]) = used + 1
        /\ \A n \in 1 .. last - 1 : new[n] = vec[n]
    BY <1>0, <2>0, <2>1, <2>3
  <2> HIDE DEF new
  <2>5. IsVector(new)
    <3>1. \A n \in 1 .. last - 1 : Len(new[n]) = PerNode
      BY <1>0, <2>4 DEF IsVector
    <3>2. \A n \in 1 .. last : Len(new[n]) \in 1 .. PerNode
      BY <1>0, <2>2, <2>4, <3>1
    <3> QED BY <2>4, <3>1, <3>2 DEF IsVector
  <2>6. ASSUME NEW a
        PROVE  a \in Addresses(new) <=> a \in Addresses(vec) \/ a = <<last, used + 1>>
    <3>1. a \in Addresses(new) <=>
              \E n \in 1 .. Len(new), i \in 1 .. PerNode : i <= Len(new[n]) /\ a = <<n, i>>
      BY <2>5, AddressShape
    <3>2. a \in Addresses(vec) <=>
              \E n \in 1 .. Len(vec), i \in 1 .. PerNode : i <= Len(vec[n]) /\ a = <<n, i>>
      BY AddressShape
    <3>3. ASSUME NEW n \in 1 .. last, NEW i \in 1 .. PerNode
          PROVE  i <= Len(new[n]) <=> i <= Len(vec[n]) \/ (n = last /\ i = used + 1)
      <4>1. CASE n = last
        BY <1>0, <2>2, <2>4, <4>1
      <4>2. CASE n \in 1 .. last - 1
        BY <1>0, <2>2, <2>4, <4>2
      <4> QED BY <1>0, <4>1, <4>2
    <3>4. used + 1 \in 1 .. PerNode /\ last \in 1 .. last /\ Len(new) = last
      BY <1>0, <2>0, <2>2, <2>4
    <3> HIDE DEF last, used
    <3>5. last = Len(vec)
      BY DEF last
    <3> QED BY <3>1, <3>2, <3>3, <3>4, <3>5
  <2>7. \A a \in Addresses(vec) : Before(a, NextAddress(vec))
    <3>1. ASSUME NEW n \in 1 .. last, NEW i \in 1 .. PerNode, i <= Len(vec[n])
          PROVE  n < last \/ (n = last /\ i < used + 1)
      BY <1>0, <2>2, <3>1
    <3> QED BY <2>1, <3>1, AddressShape DEF Before
  <2> QED BY <2>1, <2>5, <2>6, <2>7 DEF new
<1> QED BY <1>1, <1>2

\* operator++ goes to the address that comes next, or to the end from the last.
LEMMA AfterIsNext ==
    ASSUME NEW vec, IsVector(vec), NEW a \in Addresses(vec)
    PROVE  LET b == After(vec, a)
           IN  \/ /\ b = End
                  /\ \A c \in Addresses(vec) : c = a \/ Before(c, a)
               \/ /\ b \in Addresses(vec)
                  /\ \A c \in Addresses(vec) : Before(c, b) <=> c = a \/ Before(c, a)
<1>0. /\ PerNode \in Nat \ {0} /\ Len(vec) \in Nat
      /\ \A m \in 1 .. Len(vec) : Len(vec[m]) \in 1 .. PerNode
      /\ \A m \in 1 .. Len(vec) - 1 : Len(vec[m]) = PerNode
  BY PerNodeAssumption DEF IsVector
<1>1. PICK n \in 1 .. Len(vec), i \in 1 .. PerNode : i <= Len(vec[n]) /\ a = <<n, i>>
  BY AddressShape
<1>2. a[1] = n /\ a[2] = i
  BY <1>1
<1>3. CASE i < Len(vec[n])
  <2>1. After(vec, a) = <<n, i + 1>>
    BY <1>2, <1>3 DEF After
  <2>2. <<n, i + 1>> \in Addresses(vec)
    BY <1>0, <1>1, <1>3, AddressShape
  <2>3. ASSUME NEW c \in Addresses(vec)
        PROVE  Before(c, <<n, i + 1>>) <=> c = a \/ Before(c, a)
    BY <1>0, <1>1, AddressShape DEF Before
  <2> QED BY <2>1, <2>2, <2>3
<1>4. CASE ~(i < Len(vec[n])) /\ n < Len(vec)
  <2>1. After(vec, a) = <<n + 1, 1>>
    BY <1>2, <1>4 DEF After
  <2>2. <<n + 1, 1>> \in Addresses(vec)
    BY <1>0, <1>1, <1>4, AddressShape
  <2>3. ASSUME NEW c \in Addresses(vec)
        PROVE  Before(c, <<n + 1, 1>>) <=> c = a \/ Before(c, a)
    <3>1. PICK m \in 1 .. Len(vec), j \in 1 .. PerNode : j <= Len(vec[m]) /\ c = <<m, j>>
      BY AddressShape
    <3>2. m = n => j <= i
      BY <1>0, <1>1, <1>4, <3>1
    <3> QED BY <1>0, <1>1, <3>1, <3>2 DEF Before
  <2> QED BY <2>1, <2>2, <2>3
<1>5. CASE ~(i < Len(vec[n])) /\ ~(n < Len(vec))
  <2>1. After(vec, a) = End
    BY <1>2, <1>5 DEF After
  <2>2. ASSUME NEW c \in Addresses(vec)
        PROVE  c = a \/ Before(c, a)
    <3>1. PICK m \in 1 .. Len(vec), j \in 1 .. PerNode : j <= Len(vec[m]) /\ c = <<m, j>>
      BY AddressShape
    <3>2. m = n => j <= i
      BY <1>0, <1>1, <1>5, <3>1
    <3>3. m = n \/ m < n
      BY <1>0, <1>1, <1>5, <3>1
    <3> QED BY <1>0, <1>1, <3>1, <3>2, <3>3 DEF Before
  <2> QED BY <2>1, <2>2
<1> QED BY <1>3, <1>4, <1>5

-----------------------------------------------------------------------------
(* The scans. *)

\* What a scan keeps true.  Beyond ScanSeesAll: the vector has its shape, a
\* scan stands at an address or at the end, and what it started with is
\* still there, so that it is behind it once it is at the end.
Iterator ==
    [on : BOOLEAN, at : (Nat \X Nat) \cup {0, End}, seen : SUBSET (Nat \X Nat),
     base : SUBSET (Nat \X Nat), room : Nat, value : Value]

ScanInv ==
    /\ IsVector(tuples)
    /\ scan \in Iterator
    /\ scan.on => scan.base \subseteq Addresses(tuples)
    /\ ScanSeesAll

LEMMA ScanInit ==
    ASSUME StoreInit
    PROVE  ScanInv
<1>1. tuples = <<>> /\ scan = Idle
  BY DEF StoreInit
<1>2. IsVector(tuples)
  BY <1>1 DEF IsVector
<1>3. Idle \in Iterator
  BY StoreAssumption DEF Idle, Iterator
<1>4. ~Idle.on
  BY DEF Idle
<1> QED BY <1>1, <1>2, <1>3, <1>4 DEF ScanInv, ScanSeesAll

LEMMA AddressesArePairs ==
    ASSUME NEW vec, IsVector(vec)
    PROVE  Addresses(vec) \subseteq Nat \X Nat /\ End \notin Addresses(vec)
<1>1. Len(vec) \in Nat /\ PerNode \in Nat
  BY PerNodeAssumption DEF IsVector
<1> QED BY <1>1, AddressShape, EndAssumption

\* A new tuple lies behind every scan that is on its way.
LEMMA CreateKeepsScans ==
    ASSUME ScanInv, NEW p \in Pair, CreateTuple(p)
    PROVE  ScanInv'
<1> DEFINE a == NextAddress(tuples)
<1>0. tuples' = Emplace(tuples, p) /\ scan' = scan /\ IsVector(tuples)
  BY DEF CreateTuple, ScanInv
<1>1. /\ IsVector(tuples')
      /\ Addresses(tuples') = Addresses(tuples) \cup {a}
      /\ \A b \in Addresses(tuples) : Before(b, a)
  BY <1>0, EmplaceAppends
<1>2. a \in Nat \X Nat /\ Addresses(tuples) \subseteq Nat \X Nat
  BY <1>0, <1>1, AddressesArePairs
<1> HIDE DEF a
<1>3. \A b \in Addresses(tuples) : ~Before(a, b)
  BY <1>1, <1>2 DEF Before
<1>4. scan.on /\ scan.at # End =>
          {b \in Addresses(tuples') : Before(b, scan.at)}
              = {b \in Addresses(tuples) : Before(b, scan.at)}
  BY <1>1, <1>3 DEF ScanInv, ScanSeesAll
<1>5. ScanSeesAll'
  BY <1>0, <1>1, <1>4 DEF ScanInv, ScanSeesAll
<1> QED BY <1>0, <1>1, <1>5 DEF ScanInv

\* A scan starts with nothing behind it.
LEMMA StartKeepsScans ==
    ASSUME ScanInv, StartScan
    PROVE  ScanInv'
<1>0. tuples' = tuples /\ IsVector(tuples) /\ PerNode \in Nat \ {0} /\ Len(tuples) \in Nat
  BY PerNodeAssumption DEF StartScan, indexVars, ScanInv, IsVector
<1>1. scan' = [on |-> TRUE, at |-> Begin(tuples), seen |-> {}, base |-> Addresses(tuples),
               room |-> 0, value |-> MaxValue]
  BY DEF StartScan, Idle
<1>2. CASE tuples = <<>>
  <2>1. Addresses(tuples) = {} /\ Begin(tuples) = End
    BY <1>2 DEF Addresses, Begin
  <2>2. scan' \in Iterator
    BY <1>1, <2>1, StoreAssumption DEF Iterator
  <2> QED BY <1>0, <1>1, <2>1, <2>2 DEF ScanInv, ScanSeesAll
<1>3. CASE tuples # <<>>
  <2>1. Begin(tuples) = <<1, 1>> /\ <<1, 1>> # End
    BY <1>3, EndAssumption DEF Begin
  <2>2. 1 \in 1 .. Len(tuples)
    BY <1>0, <1>3 DEF IsVector
  <2>3. <<1, 1>> \in Addresses(tuples)
    <3>1. Len(tuples[1]) \in 1 .. PerNode
      BY <1>0, <2>2 DEF IsVector
    <3> QED BY <1>0, <2>2, <3>1, AddressShape
  <2>4. \A b \in Addresses(tuples) : ~Before(b, <<1, 1>>)
    BY <1>0, AddressShape DEF Before
  <2>5. scan' \in Iterator
    BY <1>0, <1>1, <2>1, AddressesArePairs, StoreAssumption DEF Iterator
  <2>6. ScanSeesAll'
    BY <1>0, <1>1, <2>1, <2>3, <2>4 DEF ScanSeesAll
  <2> QED BY <1>0, <1>1, <2>5, <2>6 DEF ScanInv
<1> QED BY <1>2, <1>3

\* A step of a scan puts one address behind it and no other.
LEMMA NextKeepsScans ==
    ASSUME ScanInv, ScanNext
    PROVE  ScanInv'
<1>0. tuples' = tuples /\ IsVector(tuples) /\ scan \in Iterator /\ scan.on /\ scan.at # End
  BY DEF ScanNext, indexVars, ScanInv
<1>1. /\ scan.at \in Addresses(tuples)
      /\ scan.base \subseteq Addresses(tuples)
      /\ scan.seen = {b \in Addresses(tuples) : Before(b, scan.at)}
  BY <1>0 DEF ScanInv, ScanSeesAll
<1> DEFINE next == After(tuples, scan.at)
<1>2. scan' = [scan EXCEPT !.seen = scan.seen \cup {scan.at}, !.at = next]
  BY DEF ScanNext
<1>3. \/ /\ next = End
         /\ \A c \in Addresses(tuples) : c = scan.at \/ Before(c, scan.at)
      \/ /\ next \in Addresses(tuples)
         /\ \A c \in Addresses(tuples) : Before(c, next) <=> c = scan.at \/ Before(c, scan.at)
  BY <1>0, <1>1, AfterIsNext
<1> HIDE DEF next
<1>4. Addresses(tuples) \subseteq Nat \X Nat /\ End \notin Addresses(tuples)
  BY <1>0, AddressesArePairs
<1>5. /\ scan'.on /\ scan'.at = next /\ scan'.base = scan.base
      /\ scan'.seen = scan.seen \cup {scan.at}
      /\ scan' \in Iterator
  BY <1>0, <1>1, <1>2, <1>3, <1>4 DEF Iterator
<1>6. ScanSeesAll'
  BY <1>0, <1>1, <1>3, <1>4, <1>5 DEF ScanSeesAll
<1> QED BY <1>0, <1>1, <1>5, <1>6 DEF ScanInv

LEMMA ScanStep ==
    ASSUME ScanInv, [StoreNext]_relVars
    PROVE  ScanInv'
<1>1. CASE UNCHANGED <<tuples, scan>>
  BY <1>1 DEF ScanInv, ScanSeesAll
<1>2. CASE StoreNext
  <2>1. CASE \E p \in Pair : GetTuple(p)
    BY <1>1, <2>1, CreateKeepsScans DEF GetTuple, FindTuple, indexVars
  <2>2. CASE StartScan
    BY <2>2, StartKeepsScans
  <2>3. CASE ScanNext
    BY <2>3, NextKeepsScans
  <2>4. CASE (\E v \in Value : StartWalk(v)) \/ WalkNext
    BY <1>1, <2>4 DEF StartWalk, WalkNext, indexVars
  <2> QED BY <1>2, <2>1, <2>2, <2>3, <2>4 DEF StoreNext
<1> QED BY <1>1, <1>2 DEF relVars, indexVars

LEMMA ScanInvariant == StoreSpec => []ScanInv
<1> QED BY ScanInit, ScanStep, PTL DEF StoreSpec

\* A product over a relation misses no tuple that was there when it started,
\* whatever is created in the meantime and wherever the nodes end.
THEOREM ScansAreComplete == StoreSpec => []ScanSeesAll
<1>1. ScanInv => ScanSeesAll
  BY DEF ScanInv
<1> QED BY <1>1, ScanInvariant, PTL

\* No tuple is given to a scan a second time: what VisitsOnce says of scans.
THEOREM ScansNeverRepeat ==
    StoreSpec => [][scan.on /\ scan' # scan => scan.at \notin scan.seen]_relVars
<1>1. ASSUME ScanInv, [StoreNext]_relVars
      PROVE  [scan.on /\ scan' # scan => scan.at \notin scan.seen]_relVars
  <2>1. SUFFICES ASSUME StoreNext, scan.on, scan' # scan
                 PROVE  scan.at \notin scan.seen
    BY <1>1 DEF relVars, indexVars
  <2>2. ScanNext
    BY <2>1 DEF StoreNext, GetTuple, FindTuple, CreateTuple, StartScan, StartWalk, WalkNext
  <2>3. scan.seen = {b \in Addresses(tuples) : Before(b, scan.at)} /\ scan.at \in Nat \X Nat
    BY <1>1, <2>1, <2>2, AddressesArePairs DEF ScanNext, ScanInv, ScanSeesAll
  <2> QED BY <2>3 DEF Before
<1> QED BY <1>1, ScanInvariant, PTL DEF StoreSpec

-----------------------------------------------------------------------------
(* The groups.  TableLemmas proves about its own instance of the hash map,    *)
(* which has the same definitions as Index.                                   *)

L == INSTANCE TableLemmas

LEMMA SameCardinality == \A S : Cardinality(S) = L!Cardinality(S)
BY DEF Cardinality, L!Cardinality

LEMMA SameEnd == \A m : Index!EndIndex(m) = L!EndIndex(m)
BY DEF Index!EndIndex, L!EndIndex, Index!Capacity, L!Capacity, Index!Cardinality, L!Cardinality

LEMMA SameNew == Index!New = L!New
BY DEF Index!New, L!New, Index!Blank, L!Blank, Index!MinCapacity, L!MinCapacity

LEMMA SameNextPow2 == \A n : Index!NextPow2(n) = L!NextPow2(n)
BY DEF Index!NextPow2, L!NextPow2, Index!Pow2, L!Pow2

LEMMA SameFind == \A m, h, k : Index!Find(m, h, k) = L!Find(m, h, k)
BY DEF Index!Find, L!Find, Index!Probe, L!Probe, Index!EndIndex, L!EndIndex,
       Index!Capacity, L!Capacity, Index!Cardinality, L!Cardinality

LEMMA SameSkip == \A m, i : Index!SkipToLive(m, i) = L!SkipToLive(m, i)
BY DEF Index!SkipToLive, L!SkipToLive, Index!EndIndex, L!EndIndex, Index!Min, L!Min,
       Index!Capacity, L!Capacity, Index!Cardinality, L!Cardinality

LEMMA SameProbe == \A b, h, stops : Index!Probe(b, h, stops) = L!Probe(b, h, stops)
BY DEF Index!Probe, L!Probe, Index!Capacity, L!Capacity, Index!Cardinality, L!Cardinality

LEMMA SameCapacityFor == \A n : Index!CapacityFor(n) = L!CapacityFor(n)
BY SameNextPow2 DEF Index!CapacityFor, L!CapacityFor, Index!MinCapacity, L!MinCapacity,
       Index!Max, L!Max

LEMMA SameRehash == \A m, h, r : Index!Rehash(m, h, r) = L!Rehash(m, h, r)
<1> TAKE m, h, r
<1>1. Index!CapacityFor(r) = L!CapacityFor(r)
  BY SameCapacityFor
<1> QED BY <1>1 DEF Index!Rehash, L!Rehash, Index!InsertWithoutGrow, L!InsertWithoutGrow,
       Index!Put, L!Put, Index!Blank, L!Blank, Index!Probe, L!Probe,
       Index!EndIndex, L!EndIndex, Index!Capacity, L!Capacity, Index!Cardinality, L!Cardinality

LEMMA SameMaybeRehash == \A m, h : Index!MaybeRehash(m, h) = L!MaybeRehash(m, h)
BY SameRehash, SameEnd DEF Index!MaybeRehash, L!MaybeRehash

LEMMA SameAssign == \A m, h, k, v : Index!Assign(m, h, k, v) = L!Assign(m, h, k, v)
BY SameMaybeRehash, SameProbe DEF Index!Assign, L!Assign, Index!Put, L!Put

\* The pairs that have a key other than the sentinel.
Sentinel == <<MaxValue, MaxValue>>
Key      == Pair \ {Sentinel}

LEMMA KeysAreHashed ==
    ASSUME NEW h \in Hashes
    PROVE  Empty \notin Key /\ (\A k \in Key : h[k] \in Nat) /\ h[Empty] \in Nat
<1>1. h \in [Pair \cup {Empty} -> Nat]
  BY StoreAssumption
<1> QED BY <1>1, StoreAssumption DEF Key, Sentinel

\* The entries that a group of the tuples at the addresses A has.
EntriesOf(A) == {<<PairAt(a), a>> : a \in A}

InLeft(v)  == {a \in Addresses(tuples) : PairAt(a)[1] = v /\ PairAt(a) # Sentinel}
InRight(v) == {a \in Addresses(tuples) : PairAt(a)[2] = v /\ PairAt(a) # Sentinel}
InDiagonal == {a \in Addresses(tuples) : PairAt(a)[1] = PairAt(a)[2] /\ PairAt(a) # Sentinel}

IsGroup(m, A) == (\E n : L!IsMap(m, n, hash, Key)) /\ L!Entries(m) = EntriesOf(A)

\* Every group is a sound table with the tuples that belong to it.
GroupsInv ==
    /\ hash \in Hashes /\ IsVector(tuples)
    /\ DOMAIN left = Value /\ DOMAIN right = Value
    /\ \A v \in Value : IsGroup(left[v], InLeft(v)) /\ IsGroup(right[v], InRight(v))
    /\ IsGroup(diagonal, InDiagonal)

\* The elements of a vector stay where they are; the new one is at the next address.
LEMMA EmplaceKeeps ==
    ASSUME NEW vec, IsVector(vec), NEW x \in Pair, NEW t, t = Emplace(vec, x), NEW b, b = NextAddress(vec)
    PROVE  /\ \A a \in Addresses(vec) : t[a[1]][a[2]] = vec[a[1]][a[2]]
           /\ t[b[1]][b[2]] = x /\ b \notin Addresses(vec)
<1>0. vec \in Seq(Seq(Pair)) /\ Len(vec) \in Nat
  BY DEF IsVector
<1>1. b \notin Addresses(vec)
  <2>1. \A a \in Addresses(vec) : Before(a, b)
    BY EmplaceAppends
  <2>2. b \in Addresses(t) /\ IsVector(t)
    BY EmplaceAppends
  <2>3. b \in Nat \X Nat
    BY <2>2, AddressesArePairs
  <2> QED BY <2>1, <2>3 DEF Before
<1>2. CASE NeedsNode(vec)
  <2>1. t = Append(vec, <<x>>) /\ b = <<Len(vec) + 1, 1>>
    BY <1>2 DEF Emplace, NextAddress
  <2>2. t[Len(vec) + 1] = <<x>> /\ \A n \in 1 .. Len(vec) : t[n] = vec[n]
    BY <1>0, <2>1
  <2>3. \A a \in Addresses(vec) : a[1] \in 1 .. Len(vec)
    BY AddressShape
  <2> QED BY <1>1, <2>1, <2>2, <2>3
<1>3. CASE ~NeedsNode(vec)
  <2> DEFINE last == Len(vec)
             used == Len(vec[last])
  <2>0. last \in 1 .. Len(vec)
    BY <1>0, <1>3 DEF NeedsNode
  <2>1. t = [vec EXCEPT ![last] = Append(vec[last], x)] /\ b = <<last, used + 1>>
    BY <1>3 DEF Emplace, NextAddress
  <2>2. vec[last] \in Seq(Pair) /\ used \in Nat
    BY <1>0, <2>0
  <2>3. t[last] = Append(vec[last], x) /\ \A n \in 1 .. Len(vec) : n # last => t[n] = vec[n]
    BY <1>0, <2>0, <2>1
  <2>4. Append(vec[last], x)[used + 1] = x /\ \A i \in 1 .. used : Append(vec[last], x)[i] = vec[last][i]
    BY <2>2
  <2>5. \A a \in Addresses(vec) : a[1] \in 1 .. Len(vec) /\ a[2] \in 1 .. Len(vec[a[1]])
    <3>1. ASSUME NEW n \in 1 .. Len(vec), NEW i \in 1 .. PerNode, i <= Len(vec[n])
          PROVE  i \in 1 .. Len(vec[n])
      BY <1>0, <3>1, PerNodeAssumption DEF IsVector
    <3> QED BY <3>1, AddressShape
  <2>6. ASSUME NEW a \in Addresses(vec) PROVE t[a[1]][a[2]] = vec[a[1]][a[2]]
    <3>1. CASE a[1] = last
      <4>1. a[2] \in 1 .. used
        BY <2>5, <3>1
      <4> HIDE DEF last, used
      <4> QED BY <2>3, <2>4, <3>1, <4>1
    <3>2. CASE a[1] # last
      BY <2>3, <2>5, <3>2
    <3> QED BY <3>1, <3>2
  <2>7. t[b[1]][b[2]] = x
    <3> HIDE DEF last, used
    <3>1. b[1] = last /\ b[2] = used + 1
      BY <2>1
    <3> QED BY <2>3, <2>4, <3>1
  <2> QED BY <1>1, <2>6, <2>7
<1> QED BY <1>2, <1>3

\* Group::find finds the address that is entered with the pair, if one is.
LEMMA FindInIs ==
    ASSUME hash \in Hashes, NEW m, NEW n, L!IsMap(m, n, hash, Key), NEW p \in Pair,
           \A v : <<p, v>> \in L!Entries(m) => v # NoValue
    PROVE  /\ p = Sentinel => FindIn(m, p) = NoValue
           /\ p # Sentinel => (FindIn(m, p) = NoValue <=> L!Lacks(m, n, p))
           /\ p # Sentinel /\ FindIn(m, p) # NoValue => <<p, FindIn(m, p)>> \in L!Entries(m)
<1>1. L!MapTable(m, n, hash, Key) /\ L!UsedBy(m, n) # 0 .. n - 1
  BY L!MapHasRoom
<1>2. Index!EndIndex(m) = n /\ n \in Nat
  BY <1>1, SameEnd, L!MapParts
<1>3. CASE p = Sentinel
  <2>1. L!Find(m, hash, Empty) = n
    BY <1>1, KeysAreHashed, L!FindSentinel
  <2> QED BY <1>2, <1>3, <2>1, SameFind DEF FindIn, MakeKey, Sentinel
<1>4. CASE p # Sentinel
  <2>1. p \in Key /\ MakeKey(p) = p /\ p # Empty
    BY <1>4, KeysAreHashed DEF Key, MakeKey, Sentinel
  <2>2. PICK r : r = L!Find(m, hash, p)
    OBVIOUS
  <2>3. FindIn(m, p) = IF r = n THEN NoValue ELSE m.second[r]
    BY <1>2, <2>1, <2>2, SameFind DEF FindIn
  <2>4. \/ r = n /\ \A j \in 0 .. n - 1 : m.first[j] # p
        \/ r \in 0 .. n - 1 /\ m.first[r] = p
    BY <1>1, <2>1, <2>2, L!FindIs
  <2>5. CASE r = n /\ \A j \in 0 .. n - 1 : m.first[j] # p
    BY <1>4, <2>3, <2>5 DEF L!Lacks
  <2>6. CASE r \in 0 .. n - 1 /\ m.first[r] = p
    <3>1. <<p, m.second[r]>> \in L!Entries(m)
      BY <1>1, <2>1, <2>6, L!EntryOf
    <3>2. FindIn(m, p) = m.second[r] /\ m.second[r] # NoValue
      BY <1>2, <2>3, <2>6, <3>1
    <3> QED BY <1>4, <2>6, <3>1, <3>2 DEF L!Lacks
  <2> QED BY <2>4, <2>5, <2>6
<1> QED BY <1>3, <1>4

\* Group::insert of a pair that the group lacks, or of the one that has the
\* sentinel for a key.
LEMMA InsertInIs ==
    ASSUME hash \in Hashes, NEW m, NEW n, L!IsMap(m, n, hash, Key), NEW p \in Pair,
           p # Sentinel => L!Lacks(m, n, p), NEW a,
           NEW t, t = InsertIn(m, p, a), NEW c, c = L!Grown(m, n)
    PROVE  /\ L!IsMap(t, c, hash, Key)
           /\ L!Entries(t) = L!Entries(m) \cup (IF p = Sentinel THEN {} ELSE {<<p, a>>})
           /\ c = n => \E i \in 0 .. n - 1 : m.first[i] = Empty /\ t = L!Put(m, i, MakeKey(p), a)
<1>1. CASE p = Sentinel
  <2>1. MakeKey(p) = Empty /\ hash[Empty] \in Nat
    BY <1>1, KeysAreHashed DEF MakeKey, Sentinel
  <2>2. t = L!Assign(m, hash, Empty, a)
    BY <2>1, SameAssign DEF InsertIn
  <2>3. /\ L!IsMap(t, c, hash, Key) /\ L!Entries(t) = L!Entries(m)
        /\ c = n => \E i \in 0 .. n - 1 : m.first[i] = Empty /\ t = L!Put(m, i, Empty, a)
    BY <2>1, <2>2, L!AssignSentinel
  <2> QED BY <1>1, <2>1, <2>3
<1>2. CASE p # Sentinel
  <2>1. MakeKey(p) = p /\ p \in Key
    BY <1>2 DEF MakeKey, Sentinel, Key
  <2>2. t = L!Assign(m, hash, p, a)
    BY <2>1, SameAssign DEF InsertIn
  <2>3. L!Lacks(m, n, p)
    BY <1>2
  <2>4. /\ L!IsMap(t, c, hash, Key) /\ L!Entries(t) = L!Entries(m) \cup {<<p, a>>}
        /\ c = n => \E i \in 0 .. n - 1 : m.first[i] = Empty /\ t = L!Put(m, i, p, a)
    BY <2>1, <2>2, <2>3, L!AssignIs
  <2> QED BY <1>2, <2>1, <2>4
<1> QED BY <1>1, <1>2

\* The first and the second value of a pair, and what a group of addresses has.
LEMMA PairParts ==
    ASSUME NEW p \in Pair
    PROVE  p[1] \in Value /\ p[2] \in Value /\ p = <<p[1], p[2]>>
BY StoreAssumption

\* No group has nullptr for the address of a tuple.
LEMMA EntriesHaveAddresses ==
    ASSUME IsVector(tuples), NEW A \in SUBSET Addresses(tuples)
    PROVE  \A p, v : <<p, v>> \in EntriesOf(A) => v \in A /\ p = PairAt(v) /\ v # NoValue
<1>1. Addresses(tuples) \subseteq Nat \X Nat
  BY AddressesArePairs
<1> QED BY <1>1, StoreAssumption DEF EntriesOf

LEMMA GroupsInit ==
    ASSUME StoreInit
    PROVE  GroupsInv
<1>1. tuples = <<>> /\ hash \in Hashes
  BY DEF StoreInit
<1>2. IsVector(tuples) /\ Addresses(tuples) = {}
  BY <1>1 DEF IsVector, Addresses
<1>3. PICK t : t = L!New
  OBVIOUS
<1>4. L!IsMap(t, 8, hash, Key) /\ L!Entries(t) = {}
  BY <1>1, <1>3, KeysAreHashed, L!NewIs
<1>5. \A v : InLeft(v) = {} /\ InRight(v) = {} /\ InDiagonal = {}
  BY <1>2 DEF InLeft, InRight, InDiagonal
<1>6. EntriesOf({}) = {}
  BY DEF EntriesOf
<1>7. IsGroup(t, {})
  BY <1>4, <1>6 DEF IsGroup
<1>8. left = [v \in Value |-> t] /\ right = [v \in Value |-> t] /\ diagonal = t
  BY <1>3, SameNew DEF StoreInit
<1> QED BY <1>1, <1>2, <1>5, <1>7, <1>8 DEF GroupsInv

\* If the left group of a pair lacks it, there is no tuple with it.
LEMMA NotThere ==
    ASSUME GroupsInv, NEW p \in Pair, FindIn(left[p[1]], p) = NoValue, p # Sentinel
    PROVE  \A a \in Addresses(tuples) : PairAt(a) # p
<1>1. p[1] \in Value /\ p \in Key
  BY PairParts DEF Key
<1>2. PICK m : m = left[p[1]]
  OBVIOUS
<1>3. PICK n : L!IsMap(m, n, hash, Key)
  BY <1>1, <1>2 DEF GroupsInv, IsGroup
<1>4. L!Entries(m) = EntriesOf(InLeft(p[1])) /\ hash \in Hashes
  BY <1>1, <1>2 DEF GroupsInv, IsGroup
<1>5. InLeft(p[1]) \in SUBSET Addresses(tuples) /\ IsVector(tuples)
  BY DEF InLeft, GroupsInv
<1>6. \A v : <<p, v>> \in L!Entries(m) => v # NoValue
  BY <1>4, <1>5, EntriesHaveAddresses
<1>7. L!Lacks(m, n, p)
  BY <1>2, <1>3, <1>4, <1>6, FindInIs
<1>8. L!MapTable(m, n, hash, Key)
  BY <1>3, L!MapHasRoom
<1>9. \A v : <<p, v>> \notin L!Entries(m)
  BY <1>1, <1>7, <1>8, L!LacksEntry
<1>10. ASSUME NEW a \in Addresses(tuples), PairAt(a) = p PROVE FALSE
  <2>1. a \in InLeft(p[1])
    BY <1>10 DEF InLeft
  <2>2. <<p, a>> \in EntriesOf(InLeft(p[1]))
    BY <1>10, <2>1 DEF EntriesOf
  <2> QED BY <1>4, <1>9, <2>2
<1> QED BY <1>10

\* A group that lacks p takes it at address b.
LEMMA GroupTakes ==
    ASSUME hash \in Hashes, NEW m, NEW A, IsGroup(m, A), NEW p \in Pair,
           p # Sentinel => \A a \in A : PairAt(a) # p, NEW b, NEW t, t = InsertIn(m, p, b)
    PROVE  /\ \E n : L!IsMap(t, n, hash, Key)
           /\ L!Entries(t) = EntriesOf(A) \cup (IF p = Sentinel THEN {} ELSE {<<p, b>>})
<1>1. PICK n : L!IsMap(m, n, hash, Key)
  BY DEF IsGroup
<1>2. L!Entries(m) = EntriesOf(A)
  BY DEF IsGroup
<1>3. ASSUME p # Sentinel PROVE L!Lacks(m, n, p)
  <2>1. p \in Key /\ L!MapTable(m, n, hash, Key)
    BY <1>1, <1>3, L!MapHasRoom DEF Key
  <2>2. \A v : <<p, v>> \notin L!Entries(m)
    BY <1>2, <1>3 DEF EntriesOf
  <2> QED BY <2>1, <2>2, L!LacksEntry
<1>4. PICK c : c = L!Grown(m, n)
  OBVIOUS
<1>5. /\ L!IsMap(t, c, hash, Key)
      /\ L!Entries(t) = L!Entries(m) \cup (IF p = Sentinel THEN {} ELSE {<<p, b>>})
  BY <1>1, <1>3, <1>4, InsertInIs
<1> QED BY <1>2, <1>5

LEMMA CreateKeepsGroups ==
    ASSUME GroupsInv, NEW p \in Pair, CreateTuple(p)
    PROVE  GroupsInv'
<1>1. PICK b : b = NextAddress(tuples)
  OBVIOUS
<1>2. /\ tuples' = Emplace(tuples, p) /\ hash' = hash
      /\ left' = [left EXCEPT ![p[1]] = InsertIn(left[p[1]], p, b)]
      /\ right' = [right EXCEPT ![p[2]] = InsertIn(right[p[2]], p, b)]
      /\ diagonal' = IF p[1] = p[2] THEN InsertIn(diagonal, p, b) ELSE diagonal
      /\ FindIn(left[p[1]], p) = NoValue
  BY <1>1 DEF CreateTuple
<1>3. /\ IsVector(tuples') /\ Addresses(tuples') = Addresses(tuples) \cup {b}
      /\ b \notin Addresses(tuples) /\ tuples'[b[1]][b[2]] = p
      /\ \A a \in Addresses(tuples) : tuples'[a[1]][a[2]] = tuples[a[1]][a[2]]
  BY <1>1, <1>2, EmplaceAppends, EmplaceKeeps DEF GroupsInv
<1>4. p # Sentinel => \A a \in Addresses(tuples) : PairAt(a) # p
  BY <1>2, NotThere
<1>5. p[1] \in Value /\ p[2] \in Value /\ hash \in Hashes /\ DOMAIN left = Value /\ DOMAIN right = Value
  BY PairParts DEF GroupsInv
<1> DEFINE new == IF p = Sentinel THEN {} ELSE {<<p, b>>}
<1>6. ASSUME NEW v \in Value PROVE IsGroup(left[v], InLeft(v))'
  <2>1. IsGroup(left[v], InLeft(v)) /\ InLeft(v) \subseteq Addresses(tuples)
    BY DEF GroupsInv, InLeft
  <2>2. EntriesOf(InLeft(v))' = EntriesOf(InLeft(v)) \cup (IF p[1] = v THEN new ELSE {})
    BY <1>3 DEF EntriesOf, InLeft, PairAt
  <2>3. CASE p[1] = v
    <3>1. left'[v] = InsertIn(left[v], p, b)
      BY <1>2, <1>5, <2>3
    <3>2. /\ \E n : L!IsMap(left'[v], n, hash, Key)
          /\ L!Entries(left'[v]) = EntriesOf(InLeft(v)) \cup new
      BY <1>4, <1>5, <2>1, <3>1, GroupTakes
    <3> QED BY <1>2, <2>2, <2>3, <3>2 DEF IsGroup
  <2>4. CASE p[1] # v
    <3>1. left'[v] = left[v]
      BY <1>2, <1>5, <2>4
    <3> QED BY <1>2, <2>1, <2>2, <2>4, <3>1 DEF IsGroup
  <2> QED BY <2>3, <2>4
<1>7. ASSUME NEW v \in Value PROVE IsGroup(right[v], InRight(v))'
  <2>1. IsGroup(right[v], InRight(v)) /\ InRight(v) \subseteq Addresses(tuples)
    BY DEF GroupsInv, InRight
  <2>2. EntriesOf(InRight(v))' = EntriesOf(InRight(v)) \cup (IF p[2] = v THEN new ELSE {})
    BY <1>3 DEF EntriesOf, InRight, PairAt
  <2>3. CASE p[2] = v
    <3>1. right'[v] = InsertIn(right[v], p, b)
      BY <1>2, <1>5, <2>3
    <3>2. /\ \E n : L!IsMap(right'[v], n, hash, Key)
          /\ L!Entries(right'[v]) = EntriesOf(InRight(v)) \cup new
      BY <1>4, <1>5, <2>1, <3>1, GroupTakes
    <3> QED BY <1>2, <2>2, <2>3, <3>2 DEF IsGroup
  <2>4. CASE p[2] # v
    <3>1. right'[v] = right[v]
      BY <1>2, <1>5, <2>4
    <3> QED BY <1>2, <2>1, <2>2, <2>4, <3>1 DEF IsGroup
  <2> QED BY <2>3, <2>4
<1>8. IsGroup(diagonal, InDiagonal)'
  <2>1. IsGroup(diagonal, InDiagonal) /\ InDiagonal \subseteq Addresses(tuples)
    BY DEF GroupsInv, InDiagonal
  <2>2. EntriesOf(InDiagonal)' = EntriesOf(InDiagonal) \cup (IF p[1] = p[2] THEN new ELSE {})
    BY <1>3 DEF EntriesOf, InDiagonal, PairAt
  <2>3. CASE p[1] = p[2]
    <3>1. diagonal' = InsertIn(diagonal, p, b)
      BY <1>2, <2>3
    <3>2. /\ \E n : L!IsMap(diagonal', n, hash, Key)
          /\ L!Entries(diagonal') = EntriesOf(InDiagonal) \cup new
      BY <1>4, <1>5, <2>1, <3>1, GroupTakes
    <3> QED BY <1>2, <2>2, <2>3, <3>2 DEF IsGroup
  <2>4. CASE p[1] # p[2]
    BY <1>2, <2>1, <2>2, <2>4 DEF IsGroup
  <2> QED BY <2>3, <2>4
<1>9. DOMAIN left' = Value /\ DOMAIN right' = Value
  BY <1>2, <1>5
<1> QED BY <1>2, <1>3, <1>5, <1>6, <1>7, <1>8, <1>9 DEF GroupsInv

\* No other step touches the groups.
LEMMA GroupsStep ==
    ASSUME GroupsInv, [StoreNext]_relVars
    PROVE  GroupsInv'
<1>1. CASE UNCHANGED <<hash, indexVars>>
  BY <1>1 DEF indexVars, GroupsInv, IsGroup, EntriesOf, InLeft, InRight, InDiagonal, PairAt
<1>2. CASE StoreNext
  <2>1. CASE \E p \in Pair : GetTuple(p)
    BY <1>1, <2>1, CreateKeepsGroups DEF GetTuple, FindTuple
  <2>2. CASE StartScan \/ ScanNext \/ (\E v \in Value : StartWalk(v)) \/ WalkNext
    BY <1>1, <2>2 DEF StartScan, ScanNext, StartWalk, WalkNext
  <2> QED BY <1>2, <2>1, <2>2 DEF StoreNext
<1> QED BY <1>1, <1>2 DEF relVars

LEMMA GroupsInvariant == StoreSpec => []GroupsInv
<1> QED BY GroupsInit, GroupsStep, PTL DEF StoreSpec

\* Iterating over a group visits the tuples that belong to it.
LEMMA VisitableIs ==
    ASSUME NEW m, NEW A, IsGroup(m, A)
    PROVE  Visitable(m) = A
<1>1. L!Entries(m) = EntriesOf(A)
  BY DEF IsGroup
<1>2. ASSUME NEW x PROVE x \in Visitable(m) <=> \E k : <<k, x>> \in L!Entries(m)
  BY DEF Visitable, L!Entries
<1>3. ASSUME NEW x PROVE x \in A <=> \E k : <<k, x>> \in EntriesOf(A)
  BY DEF EntriesOf
<1> QED BY <1>1, <1>2, <1>3

\* Every index has exactly the tuples its values belong to, for every hash
\* function, every set of pairs and every order in which they are asked for:
\* a rehash loses none, and a probe takes no bucket that is in use.
THEOREM IndexesAlwaysAgree == StoreSpec => []IndexesAgree
<1>1. ASSUME GroupsInv PROVE IndexesAgree
  <2>1. ASSUME NEW v \in Value PROVE Visitable(left[v]) = Matching(LAMBDA p : p[1] = v)
    <3>1. Visitable(left[v]) = InLeft(v)
      BY <1>1, VisitableIs DEF GroupsInv
    <3> QED BY <3>1 DEF InLeft, Matching, Sentinel
  <2>2. ASSUME NEW v \in Value PROVE Visitable(right[v]) = Matching(LAMBDA p : p[2] = v)
    <3>1. Visitable(right[v]) = InRight(v)
      BY <1>1, VisitableIs DEF GroupsInv
    <3> QED BY <3>1 DEF InRight, Matching, Sentinel
  <2>3. Visitable(diagonal) = Matching(LAMBDA p : p[1] = p[2])
    <3>1. Visitable(diagonal) = InDiagonal
      BY <1>1, VisitableIs DEF GroupsInv
    <3> QED BY <3>1 DEF InDiagonal, Matching, Sentinel
  <2> QED BY <2>1, <2>2, <2>3 DEF IndexesAgree
<1> QED BY <1>1, GroupsInvariant, PTL

-----------------------------------------------------------------------------
(* The walks over a group. *)

\* What is live in the buckets from i to j of a group.
LiveIn(m, i, j, x) == \E b \in i .. j : m.first[b] # Empty /\ m.second[b] = x

\* A walk stands at a live bucket or at the end; it has seen only what is
\* behind it, and what it started with and has not seen lies ahead.
IsWalk(m, n, at, seen, base) ==
    /\ at \in 0 .. n /\ (at = n \/ m.first[at] # Empty)
    /\ \A x \in seen : LiveIn(m, 0, at - 1, x)
    /\ \A x \in base : x \in seen \/ LiveIn(m, at, n - 1, x)

Walker == [on : BOOLEAN, at : Nat, seen : SUBSET (Nat \X Nat), base : SUBSET (Nat \X Nat),
           room : Nat, value : Value]

\* A walk that a rehash surprises has fewer buckets than the table for ever after.
WalkOver(m, w) ==
    \E n : /\ L!IsMap(m, n, hash, Key) /\ w.room <= n
           /\ w.room = n => IsWalk(m, n, w.at, w.seen, w.base)

WalkInv ==
    /\ walk \in Walker
    /\ walk.on => WalkOver(left[walk.value], walk)

LEMMA WalkInit ==
    ASSUME StoreInit
    PROVE  WalkInv
<1>1. walk = Idle
  BY DEF StoreInit
<1>2. Idle \in Walker /\ ~Idle.on
  BY StoreAssumption DEF Idle, Walker
<1> QED BY <1>1, <1>2 DEF WalkInv

\* A step of an iterator goes to the next live bucket.
LEMMA WalkStarts ==
    ASSUME NEW m, NEW n, L!IsMap(m, n, hash, Key), NEW at, at = Index!Begin(m),
           NEW base, base = Visitable(m)
    PROVE  IsWalk(m, n, at, {}, base)
<1>1. L!MapTable(m, n, hash, Key)
  BY L!MapHasRoom
<1>2. n \in Nat /\ DOMAIN m.first = 0 .. n - 1
  BY <1>1, L!MapParts
<1>3. at = L!SkipToLive(m, 0) /\ 0 \in 0 .. n
  BY <1>2, SameSkip DEF Index!Begin
<1>4. /\ at \in 0 .. n /\ (at = n \/ m.first[at] # Empty)
      /\ \A j \in 0 .. at - 1 : m.first[j] = Empty
  BY <1>1, <1>3, L!SkipIs
<1>5. ASSUME NEW x \in base PROVE LiveIn(m, at, n - 1, x)
  <2>1. PICK j \in 0 .. n - 1 : m.first[j] # Empty /\ m.second[j] = x
    BY <1>2 DEF Visitable
  <2>2. j \in at .. n - 1
    BY <1>2, <1>4, <2>1
  <2> QED BY <2>1, <2>2 DEF LiveIn
<1> QED BY <1>4, <1>5 DEF IsWalk

LEMMA WalkGoesOn ==
    ASSUME NEW m, NEW n, L!IsMap(m, n, hash, Key), NEW at, NEW seen, NEW base,
           IsWalk(m, n, at, seen, base), at # n, NEW next, next = Index!Advance(m, at),
           NEW more, more = seen \cup {m.second[at]}
    PROVE  IsWalk(m, n, next, more, base)
<1>1. L!MapTable(m, n, hash, Key)
  BY L!MapHasRoom
<1>2. n \in Nat /\ at \in 0 .. n - 1 /\ m.first[at] # Empty
  <2>1. n \in Nat
    BY <1>1, L!MapParts
  <2> QED BY <2>1 DEF IsWalk
<1>3. next = L!SkipToLive(m, at + 1) /\ at + 1 \in 0 .. n
  BY <1>2, SameSkip DEF Index!Advance
<1>4. /\ next \in at + 1 .. n /\ (next = n \/ m.first[next] # Empty)
      /\ \A j \in at + 1 .. next - 1 : m.first[j] = Empty
  BY <1>1, <1>3, L!SkipIs
<1>5. ASSUME NEW x \in more PROVE LiveIn(m, 0, next - 1, x)
  <2>1. CASE x \in seen
    <3>1. PICK b \in 0 .. at - 1 : m.first[b] # Empty /\ m.second[b] = x
      BY <2>1 DEF IsWalk, LiveIn
    <3>2. b \in 0 .. next - 1
      BY <1>2, <1>4
    <3> QED BY <3>1, <3>2 DEF LiveIn
  <2>2. CASE x = m.second[at]
    <3>1. at \in 0 .. next - 1
      BY <1>2, <1>4
    <3> QED BY <1>2, <2>2, <3>1 DEF LiveIn
  <2> QED BY <2>1, <2>2
<1>6. ASSUME NEW x \in base PROVE x \in more \/ LiveIn(m, next, n - 1, x)
  <2>1. CASE x \in seen
    BY <2>1
  <2>2. CASE LiveIn(m, at, n - 1, x)
    <3>1. PICK b \in at .. n - 1 : m.first[b] # Empty /\ m.second[b] = x
      BY <2>2 DEF LiveIn
    <3>2. b = at \/ b \in next .. n - 1
      BY <1>2, <1>4, <3>1
    <3> QED BY <3>1, <3>2 DEF LiveIn
  <2> QED BY <2>1, <2>2 DEF IsWalk
<1>7. next \in 0 .. n
  BY <1>2, <1>4
<1> QED BY <1>4, <1>5, <1>6, <1>7 DEF IsWalk

\* A tuple that is entered without a rehash takes an empty bucket.
LEMMA WalkSurvives ==
    ASSUME NEW m, NEW n \in Nat, DOMAIN m.first = 0 .. n - 1, DOMAIN m.second = 0 .. n - 1,
           NEW at, NEW seen, NEW base,
           IsWalk(m, n, at, seen, base), NEW i \in 0 .. n - 1, m.first[i] = Empty,
           NEW k, NEW v, NEW t, t = L!Put(m, i, k, v)
    PROVE  IsWalk(t, n, at, seen, base)
<1>1. t.first = [m.first EXCEPT ![i] = k] /\ t.second = [m.second EXCEPT ![i] = v]
  BY DEF L!Put
<1>2. \A b \in 0 .. n - 1 : m.first[b] # Empty => t.first[b] # Empty /\ t.second[b] = m.second[b]
  BY <1>1
<1>3. at \in 0 .. n
  BY DEF IsWalk
<1>4. ASSUME NEW x, LiveIn(m, 0, at - 1, x) PROVE LiveIn(t, 0, at - 1, x)
  <2>1. PICK b \in 0 .. at - 1 : m.first[b] # Empty /\ m.second[b] = x
    BY <1>4 DEF LiveIn
  <2>2. b \in 0 .. n - 1
    BY <1>3
  <2> QED BY <1>2, <2>1, <2>2 DEF LiveIn
<1>5. ASSUME NEW x, LiveIn(m, at, n - 1, x) PROVE LiveIn(t, at, n - 1, x)
  <2>1. PICK b \in at .. n - 1 : m.first[b] # Empty /\ m.second[b] = x
    BY <1>5 DEF LiveIn
  <2>2. b \in 0 .. n - 1
    BY <1>3
  <2> QED BY <1>2, <2>1, <2>2 DEF LiveIn
<1>6. at = n \/ t.first[at] # Empty
  BY <1>2, <1>3 DEF IsWalk
<1> QED BY <1>3, <1>4, <1>5, <1>6 DEF IsWalk

\* The group of the walk before and after p is entered.
LEMMA LeftTakes ==
    ASSUME GroupsInv, NEW p \in Pair, CreateTuple(p), NEW m, m = left[p[1]],
           NEW n, L!IsMap(m, n, hash, Key), NEW c, c = L!Grown(m, n)
    PROVE  /\ p # Sentinel => L!Lacks(m, n, p)
           /\ left'[p[1]] = InsertIn(m, p, NextAddress(tuples))
           /\ L!IsMap(left'[p[1]], c, hash, Key)
           /\ c = n => \E i \in 0 .. n - 1 :
                  m.first[i] = Empty /\ left'[p[1]] = L!Put(m, i, MakeKey(p), NextAddress(tuples))
<1>1. p[1] \in Value /\ hash \in Hashes /\ DOMAIN left = Value
  BY PairParts DEF GroupsInv
<1>2. FindIn(left[p[1]], p) = NoValue
  BY DEF CreateTuple
<1>3. L!Entries(m) = EntriesOf(InLeft(p[1]))
  BY <1>1 DEF GroupsInv, IsGroup
<1>4. ASSUME p # Sentinel PROVE L!Lacks(m, n, p)
  <2>1. \A a \in Addresses(tuples) : PairAt(a) # p
    BY <1>2, <1>4, NotThere
  <2>2. \A v : <<p, v>> \notin L!Entries(m)
    BY <1>3, <2>1 DEF EntriesOf, InLeft
  <2>3. L!MapTable(m, n, hash, Key) /\ p \in Key
    BY <1>4, L!MapHasRoom DEF Key
  <2> QED BY <2>2, <2>3, L!LacksEntry
<1>5. PICK t : t = InsertIn(m, p, NextAddress(tuples))
  OBVIOUS
<1>6. left'[p[1]] = t
  BY <1>1, <1>5 DEF CreateTuple
<1>7. /\ L!IsMap(t, c, hash, Key)
      /\ c = n => \E i \in 0 .. n - 1 :
              m.first[i] = Empty /\ t = L!Put(m, i, MakeKey(p), NextAddress(tuples))
  BY <1>1, <1>4, <1>5, InsertInIs
<1> QED BY <1>4, <1>5, <1>6, <1>7

LEMMA CreateKeepsWalk ==
    ASSUME GroupsInv, WalkInv, NEW p \in Pair, CreateTuple(p)
    PROVE  WalkInv'
<1>1. walk' = walk /\ hash' = hash
  BY DEF CreateTuple
<1>2. ASSUME walk.on PROVE WalkOver(left[walk.value], walk)'
  <2>0. walk.value \in Value /\ DOMAIN left = Value
    BY DEF WalkInv, Walker, GroupsInv
  <2>1. PICK m : m = left[walk.value]
    OBVIOUS
  <2>2. PICK n : /\ L!IsMap(m, n, hash, Key) /\ walk.room <= n
                 /\ walk.room = n => IsWalk(m, n, walk.at, walk.seen, walk.base)
    BY <1>2, <2>1 DEF WalkInv, WalkOver
  <2>3. CASE walk.value # p[1]
    <3>1. left'[walk.value] = m
      BY <2>0, <2>1, <2>3 DEF CreateTuple
    <3> QED BY <1>1, <2>2, <3>1 DEF WalkOver
  <2>4. CASE walk.value = p[1]
    <3>1. PICK c : c = L!Grown(m, n)
      OBVIOUS
    <3>2. PICK t : t = left'[walk.value]
      OBVIOUS
    <3>3. /\ L!IsMap(t, c, hash, Key)
          /\ c = n => \E i \in 0 .. n - 1 :
                  m.first[i] = Empty /\ t = L!Put(m, i, MakeKey(p), NextAddress(tuples))
      BY <2>1, <2>2, <2>4, <3>1, <3>2, LeftTakes
    <3>4. L!MapTable(m, n, hash, Key)
      BY <2>2, L!MapHasRoom
    <3>5. n \in Nat \ {0} /\ DOMAIN m.first = 0 .. n - 1 /\ DOMAIN m.second = 0 .. n - 1
      BY <3>4, L!MapParts
    <3>6. c = n \/ c = 2 * n
      BY <3>1 DEF L!Grown
    <3>7. CASE c = n
      <4>1. walk.room = n => IsWalk(t, n, walk.at, walk.seen, walk.base)
        <5>1. PICK i \in 0 .. n - 1 :
                  m.first[i] = Empty /\ t = L!Put(m, i, MakeKey(p), NextAddress(tuples))
          BY <3>3, <3>7
        <5>2. PICK at, seen, base : at = walk.at /\ seen = walk.seen /\ base = walk.base
          OBVIOUS
        <5>3. IsWalk(m, n, at, seen, base) => IsWalk(t, n, at, seen, base)
          BY <3>5, <5>1, WalkSurvives
        <5> QED BY <2>2, <5>2, <5>3
      <4> QED BY <1>1, <2>2, <3>2, <3>3, <3>7, <4>1 DEF WalkOver
    <3>8. CASE c = 2 * n
      <4>1. walk.room <= c /\ walk.room # c
        BY <2>2, <3>5, <3>8 DEF WalkInv, Walker
      <4> QED BY <1>1, <3>2, <3>3, <4>1 DEF WalkOver
    <3> QED BY <3>6, <3>7, <3>8
  <2> QED BY <2>3, <2>4
<1> QED BY <1>1, <1>2 DEF WalkInv

LEMMA SeenArePairs ==
    ASSUME GroupsInv, NEW v \in Value
    PROVE  Visitable(left[v]) \subseteq Nat \X Nat
<1>1. Visitable(left[v]) = InLeft(v)
  BY VisitableIs DEF GroupsInv
<1>2. Addresses(tuples) \subseteq Nat \X Nat
  BY AddressesArePairs DEF GroupsInv
<1> QED BY <1>1, <1>2 DEF InLeft

LEMMA StartKeepsWalk ==
    ASSUME GroupsInv, WalkInv, NEW v \in Value, StartWalk(v)
    PROVE  WalkInv'
<1>1. left' = left /\ hash' = hash
  BY DEF StartWalk, indexVars
<1>2. PICK m, at, base : m = left[v] /\ at = Index!Begin(m) /\ base = Visitable(m)
  OBVIOUS
<1>3. PICK n : L!IsMap(m, n, hash, Key)
  BY <1>2 DEF GroupsInv, IsGroup
<1>4. L!MapTable(m, n, hash, Key)
  BY <1>3, L!MapHasRoom
<1>5. Index!EndIndex(m) = n /\ n \in Nat
  BY <1>4, SameEnd, L!MapParts
<1>6. walk' = [on |-> TRUE, at |-> at, seen |-> {}, base |-> base, room |-> n, value |-> v]
  BY <1>2, <1>5 DEF StartWalk, Idle
<1>7. IsWalk(m, n, at, {}, base)
  BY <1>2, <1>3, WalkStarts
<1>8. walk' \in Walker
  <2>1. at \in Nat
    BY <1>5, <1>7 DEF IsWalk
  <2>2. base \subseteq Nat \X Nat
    BY <1>2, SeenArePairs
  <2> QED BY <1>5, <1>6, <2>1, <2>2 DEF Walker
<1>9. WalkOver(left[walk.value], walk)'
  BY <1>1, <1>2, <1>3, <1>5, <1>6, <1>7 DEF WalkOver
<1> QED BY <1>8, <1>9 DEF WalkInv

\* Where a walk is about to read.
LEMMA WalkReads ==
    ASSUME GroupsInv, WalkInv, WalkNext
    PROVE  LET m == left[walk.value]
               n == walk.room
           IN  /\ walk.value \in Value /\ L!IsMap(m, n, hash, Key)
               /\ IsWalk(m, n, walk.at, walk.seen, walk.base)
               /\ walk.at \in 0 .. n - 1 /\ m.first[walk.at] # Empty
<1>1. PICK m, n : m = left[walk.value] /\ n = walk.room
  OBVIOUS
<1>2. /\ walk.on /\ walk.value \in Value /\ n = Index!EndIndex(m) /\ walk.at # n
  BY <1>1 DEF WalkNext, WalkInv, Walker
<1>3. PICK c : L!IsMap(m, c, hash, Key) /\ (n = c => IsWalk(m, c, walk.at, walk.seen, walk.base))
  BY <1>1, <1>2 DEF WalkInv, WalkOver
<1>4. L!MapTable(m, c, hash, Key)
  BY <1>3, L!MapHasRoom
<1>5. n = c /\ n \in Nat
  BY <1>2, <1>4, SameEnd, L!MapParts
<1>6. IsWalk(m, n, walk.at, walk.seen, walk.base)
  BY <1>3, <1>5
<1>7. walk.at \in 0 .. n /\ m.first[walk.at] # Empty
  BY <1>2, <1>6 DEF IsWalk
<1> QED BY <1>1, <1>2, <1>3, <1>5, <1>6, <1>7

LEMMA NextKeepsWalk ==
    ASSUME GroupsInv, WalkInv, WalkNext
    PROVE  WalkInv'
<1>1. left' = left /\ hash' = hash
  BY DEF WalkNext, indexVars
<1>2. PICK m, n, at, seen, base :
          m = left[walk.value] /\ n = walk.room /\ at = walk.at /\ seen = walk.seen /\ base = walk.base
  OBVIOUS
<1>3. /\ walk.value \in Value /\ L!IsMap(m, n, hash, Key) /\ IsWalk(m, n, at, seen, base)
      /\ at \in 0 .. n - 1 /\ m.first[at] # Empty
  BY <1>2, WalkReads
<1>4. PICK more, next : more = seen \cup {m.second[at]} /\ next = Index!Advance(m, at)
  OBVIOUS
<1>5. IsWalk(m, n, next, more, base)
  <2>1. at # n
    BY <1>2, <1>3 DEF WalkInv, Walker
  <2> QED BY <1>3, <1>4, <2>1, WalkGoesOn
<1>6. walk' = [walk EXCEPT !.seen = more, !.at = next]
  BY <1>2, <1>4 DEF WalkNext
<1>7. next \in Nat /\ more \in SUBSET (Nat \X Nat)
  <2>1. n \in Nat /\ DOMAIN m.first = 0 .. n - 1
    <3>1. L!MapTable(m, n, hash, Key)
      BY <1>3, L!MapHasRoom
    <3> QED BY <3>1, L!MapParts
  <2>2. m.second[at] \in Visitable(m)
    BY <1>3, <2>1 DEF Visitable
  <2>3. m.second[at] \in Nat \X Nat
    BY <1>2, <1>3, <2>2, SeenArePairs
  <2> QED BY <1>2, <1>4, <1>5, <2>1, <2>3 DEF IsWalk, WalkInv, Walker
<1>8. /\ walk'.room = n /\ walk'.at = next /\ walk'.seen = more /\ walk'.base = base
      /\ walk'.value = walk.value /\ walk' \in Walker
  BY <1>2, <1>6, <1>7 DEF WalkInv, Walker
<1>9. WalkOver(left[walk.value], walk)'
  <2>1. n <= n
    BY <1>2 DEF WalkInv, Walker
  <2> QED BY <1>1, <1>2, <1>3, <1>5, <1>8, <2>1 DEF WalkOver
<1> QED BY <1>8, <1>9 DEF WalkInv

LEMMA WalkStep ==
    ASSUME GroupsInv, WalkInv, [StoreNext]_relVars
    PROVE  WalkInv'
<1>1. CASE UNCHANGED <<hash, left, walk>>
  BY <1>1 DEF WalkInv, WalkOver
<1>2. CASE StoreNext
  <2>1. CASE \E p \in Pair : GetTuple(p)
    BY <1>1, <2>1, CreateKeepsWalk DEF GetTuple, FindTuple, indexVars
  <2>2. CASE StartScan \/ ScanNext
    BY <1>1, <2>2 DEF StartScan, ScanNext, indexVars
  <2>3. CASE \E v \in Value : StartWalk(v)
    BY <2>3, StartKeepsWalk
  <2>4. CASE WalkNext
    BY <2>4, NextKeepsWalk
  <2> QED BY <1>2, <2>1, <2>2, <2>3, <2>4 DEF StoreNext
<1> QED BY <1>1, <1>2 DEF relVars, indexVars

LEMMA WalkInvariant == StoreSpec => [](GroupsInv /\ WalkInv)
<1> QED BY GroupsInit, WalkInit, GroupsStep, WalkStep, PTL DEF StoreSpec

\* A walk over a group that is not rehashed in the meantime misses no tuple
\* that was there when it started, wherever new ones are put.
THEOREM WalksAreComplete == StoreSpec => []WalkSeesAll
<1>1. ASSUME GroupsInv, WalkInv PROVE WalkSeesAll
  <2>1. SUFFICES ASSUME walk.on, walk.room = Index!EndIndex(left[walk.value]), walk.at = walk.room
                 PROVE  walk.base \subseteq walk.seen
    BY DEF WalkSeesAll
  <2>2. PICK m : m = left[walk.value]
    OBVIOUS
  <2>3. PICK n : L!IsMap(m, n, hash, Key) /\ (walk.room = n => IsWalk(m, n, walk.at, walk.seen, walk.base))
    BY <1>1, <2>1, <2>2 DEF WalkInv, WalkOver
  <2>4. L!MapTable(m, n, hash, Key)
    BY <2>3, L!MapHasRoom
  <2>5. walk.room = n /\ n \in Nat
    BY <2>1, <2>2, <2>4, SameEnd, L!MapParts
  <2>6. IsWalk(m, n, n, walk.seen, walk.base)
    BY <2>1, <2>3, <2>5
  <2>7. \A x : ~LiveIn(m, n, n - 1, x)
    BY <2>5 DEF LiveIn
  <2> QED BY <2>6, <2>7 DEF IsWalk
<1> QED BY <1>1, WalkInvariant, PTL

\* Neither a scan nor a walk is given a tuple twice, whatever is entered while
\* it is under way.
THEOREM NothingIsVisitedTwice == StoreSpec => VisitsOnce
<1>1. ASSUME GroupsInv, WalkInv, WalkNext PROVE walk'.seen # walk.seen
  <2>1. PICK m, n, at, seen, base :
            m = left[walk.value] /\ n = walk.room /\ at = walk.at /\ seen = walk.seen /\ base = walk.base
    OBVIOUS
  <2>2. /\ walk.value \in Value /\ L!IsMap(m, n, hash, Key) /\ IsWalk(m, n, at, seen, base)
        /\ at \in 0 .. n - 1 /\ m.first[at] # Empty
    BY <1>1, <2>1, WalkReads
  <2>3. m.second[at] \notin seen
    <3>1. SUFFICES ASSUME m.second[at] \in seen PROVE FALSE
      OBVIOUS
    <3>2. PICK b \in 0 .. at - 1 : m.first[b] # Empty /\ m.second[b] = m.second[at]
      BY <2>2, <3>1 DEF IsWalk, LiveIn
    <3>3. L!MapTable(m, n, hash, Key)
      BY <2>2, L!MapHasRoom
    <3>4. n \in Nat /\ b \in 0 .. n - 1 /\ b # at
      BY <2>2, <3>2, <3>3, L!MapParts
    <3>5. L!Entries(m) = EntriesOf(InLeft(walk.value))
      BY <1>1, <2>1, <2>2 DEF GroupsInv, IsGroup
    <3>6. <<m.first[b], m.second[b]>> \in L!Entries(m) /\ <<m.first[at], m.second[at]>> \in L!Entries(m)
      BY <2>2, <3>2, <3>3, <3>4, L!EntryAt
    <3>7. m.first[b] = PairAt(m.second[b]) /\ m.first[at] = PairAt(m.second[at])
      BY <3>5, <3>6 DEF EntriesOf
    <3>8. m.first[b] = m.first[at]
      BY <3>2, <3>7
    <3> QED BY <2>2, <3>2, <3>3, <3>4, <3>8, L!OneBucket
  <2>4. walk'.seen = seen \cup {m.second[at]}
    BY <1>1, <2>1 DEF WalkNext, WalkInv, Walker
  <2> QED BY <2>1, <2>3, <2>4
<1>2. ASSUME GroupsInv, WalkInv, [StoreNext]_relVars, walk.on, walk' # walk
      PROVE  walk'.seen # walk.seen
  <2>1. WalkNext
    BY <1>2 DEF StoreNext, GetTuple, FindTuple, CreateTuple, StartScan, ScanNext, StartWalk, WalkNext,
                relVars, indexVars
  <2> QED BY <1>1, <1>2, <2>1
<1>3. ASSUME GroupsInv, WalkInv, [StoreNext]_relVars,
             [scan.on /\ scan' # scan => scan.at \notin scan.seen]_relVars
      PROVE  [/\ scan.on /\ scan' # scan => scan.at \notin scan.seen
              /\ walk.on /\ walk' # walk => walk'.seen # walk.seen]_relVars
  BY <1>2, <1>3
<1> QED BY <1>3, WalkInvariant, ScansNeverRepeat, PTL DEF StoreSpec, VisitsOnce

-----------------------------------------------------------------------------
(* The growth of a group. *)

\* A group has as many tuples as its table has live buckets.
LEMMA TuplesCounted ==
    ASSUME NEW m, NEW A, IsGroup(m, A), NEW n, L!IsMap(m, n, hash, Key)
    PROVE  IsFiniteSet(A) /\ Cardinality(A) = Cardinality(L!UsedBy(m, n))
<1>1. PICK S : S = L!UsedBy(m, n)
  OBVIOUS
<1>2. L!MapTable(m, n, hash, Key) /\ L!Entries(m) = EntriesOf(A)
  BY L!MapHasRoom DEF IsGroup
<1>3. n \in Nat /\ DOMAIN m.first = 0 .. n - 1
  BY <1>2, L!MapParts
<1>4. \A i : i \in S <=> i \in 0 .. n - 1 /\ m.first[i] # Empty
  BY <1>1 DEF L!UsedBy, L!Used
<1>5. IsFiniteSet(S)
  <2>1. IsFiniteSet(0 .. n - 1)
    BY <1>3, FS_Interval
  <2>2. S \in SUBSET (0 .. n - 1)
    BY <1>4
  <2> QED BY <2>1, <2>2, FS_Subset
<1>6. \A i \in S : m.second[i] \in A /\ PairAt(m.second[i]) = m.first[i]
  <2>1. \A i \in S : <<m.first[i], m.second[i]>> \in L!Entries(m)
    BY <1>2, <1>4, L!EntryAt
  <2> QED BY <1>2, <2>1 DEF EntriesOf
<1>7. \A a \in A : \E i \in S : m.second[i] = a
  <2>1. \A a \in A : <<PairAt(a), a>> \in L!Entries(m)
    BY <1>2 DEF EntriesOf
  <2> QED BY <1>3, <1>4, <2>1 DEF L!Entries
<1>8. \A i \in S, j \in S : m.second[i] = m.second[j] => i = j
  <2>1. \A i \in S, j \in S : m.second[i] = m.second[j] => m.first[i] = m.first[j]
    BY <1>6
  <2> QED BY <1>2, <1>4, <2>1, L!OneBucket
<1>9. ExistsBijection(S, A)
  <2>1. PICK f : f = [i \in S |-> m.second[i]]
    OBVIOUS
  <2>2. f \in [S -> A] /\ \A i \in S : f[i] = m.second[i]
    BY <1>6, <2>1
  <2>3. f \in Injection(S, A)
    BY <1>8, <2>2 DEF Injection, IsInjective
  <2>4. f \in Surjection(S, A)
    BY <1>7, <2>2 DEF Surjection
  <2> QED BY <2>3, <2>4 DEF ExistsBijection, Bijection
<1> QED BY <1>1, <1>5, <1>9, FS_Bijection

\* The counter of a group whose value is not the largest is right, since only
\* the sentinel is counted without being found, and the table is not larger
\* than growing has made it.
CountsRight(m, A) ==
    /\ IsFiniteSet(A) /\ m.size = Cardinality(A)
    /\ \E n : L!IsMap(m, n, hash, Key) /\ (n = 8 \/ n < 4 * m.size)

CountInv == \A v \in Value \ {MaxValue} : CountsRight(left[v], InLeft(v))

LEMMA MapNumbers ==
    ASSUME NEW m, NEW n, L!IsMap(m, n, hash, Key)
    PROVE  /\ m.size \in Nat /\ n \in Nat /\ L!IsPow2(n) /\ n >= 8 /\ 2 * m.size <= n
           /\ Index!EndIndex(m) = n /\ DOMAIN m.first = 0 .. n - 1
<1>1. L!MapTable(m, n, hash, Key)
  BY L!MapHasRoom
<1>2. n \in Nat /\ Index!EndIndex(m) = n /\ DOMAIN m.first = 0 .. n - 1
  BY <1>1, SameEnd, L!MapParts
<1> QED BY <1>2 DEF L!IsMap

LEMMA CountInit ==
    ASSUME StoreInit
    PROVE  CountInv
<1>1. PICK t : t = L!New
  OBVIOUS
<1>2. hash \in Hashes /\ left = [v \in Value |-> t] /\ tuples = <<>>
  BY <1>1, SameNew DEF StoreInit
<1>3. L!IsMap(t, 8, hash, Key)
  BY <1>1, <1>2, KeysAreHashed, L!NewIs
<1>4. t.size = 0
  BY <1>1 DEF L!New, L!Blank
<1>5. \A v : InLeft(v) = {}
  BY <1>2 DEF InLeft, Addresses
<1>6. CountsRight(t, {})
  BY <1>3, <1>4, FS_EmptySet DEF CountsRight
<1> QED BY <1>2, <1>5, <1>6 DEF CountInv

\* The pair of the largest values is in the group of the largest value.
LEMMA NotSentinel ==
    ASSUME NEW p \in Pair, p[1] # MaxValue
    PROVE  p # Sentinel
<1>1. Sentinel[1] = MaxValue
  BY DEF Sentinel
<1> QED BY <1>1

\* A group that takes a tuple.
LEMMA GroupGrows ==
    ASSUME GroupsInv, NEW p \in Pair, CreateTuple(p), p[1] # MaxValue,
           NEW m, m = left[p[1]], NEW n, L!IsMap(m, n, hash, Key),
           m.size = Cardinality(L!UsedBy(m, n)), n = 8 \/ n < 4 * m.size,
           NEW t, t = left'[p[1]], NEW c, c = L!Grown(m, n)
    PROVE  L!IsMap(t, c, hash, Key) /\ t.size = m.size + 1 /\ (c = 8 \/ c < 4 * t.size)
<1>1. p # Sentinel /\ p \in Key /\ MakeKey(p) = p
  BY NotSentinel DEF Key, MakeKey, Sentinel
<1>2. /\ L!Lacks(m, n, p) /\ t = InsertIn(m, p, NextAddress(tuples))
      /\ L!IsMap(t, c, hash, Key)
  BY <1>1, LeftTakes
<1>3. t = L!Assign(m, hash, p, NextAddress(tuples))
  BY <1>1, <1>2, SameAssign DEF InsertIn
<1>4. t.size = (IF c = n THEN m.size ELSE L!Cardinality(L!UsedBy(m, n))) + 1
  BY <1>1, <1>2, <1>3, L!AssignIs
<1>5. t.size = m.size + 1
  BY <1>4, SameCardinality
<1>6. m.size \in Nat /\ n \in Nat
  BY MapNumbers
<1>7. c = 8 \/ c < 4 * t.size
  BY <1>5, <1>6 DEF L!Grown
<1> QED BY <1>2, <1>5, <1>7

LEMMA CreateKeepsCount ==
    ASSUME GroupsInv, CountInv, NEW p \in Pair, CreateTuple(p)
    PROVE  CountInv'
<1>1. SUFFICES ASSUME NEW v \in Value \ {MaxValue} PROVE CountsRight(left[v], InLeft(v))'
  BY DEF CountInv
<1>2. CountsRight(left[v], InLeft(v)) /\ hash' = hash /\ DOMAIN left = Value
  BY DEF CountInv, CreateTuple, GroupsInv
<1>3. PICK b : b = NextAddress(tuples)
  OBVIOUS
<1>4. /\ Addresses(tuples') = Addresses(tuples) \cup {b} /\ b \notin Addresses(tuples)
      /\ tuples'[b[1]][b[2]] = p
      /\ \A a \in Addresses(tuples) : tuples'[a[1]][a[2]] = tuples[a[1]][a[2]]
  BY <1>3, EmplaceAppends, EmplaceKeeps DEF GroupsInv, CreateTuple
<1>5. CASE v # p[1]
  <2>1. left'[v] = left[v]
    BY <1>2, <1>5 DEF CreateTuple
  <2>2. InLeft(v)' = InLeft(v)
    BY <1>4, <1>5 DEF InLeft, PairAt
  <2> QED BY <1>2, <2>1, <2>2 DEF CountsRight
<1>6. CASE v = p[1]
  <2>1. PICK m, t : m = left[v] /\ t = left'[v]
    OBVIOUS
  <2>2. PICK n : L!IsMap(m, n, hash, Key) /\ (n = 8 \/ n < 4 * m.size)
    BY <1>2, <2>1 DEF CountsRight
  <2>3. m.size = Cardinality(InLeft(v)) /\ IsFiniteSet(InLeft(v)) /\ IsGroup(m, InLeft(v))
    BY <1>2, <2>1 DEF CountsRight, GroupsInv
  <2>4. m.size = Cardinality(L!UsedBy(m, n))
    BY <2>2, <2>3, TuplesCounted
  <2>5. PICK c : c = L!Grown(m, n)
    OBVIOUS
  <2>6. L!IsMap(t, c, hash, Key) /\ t.size = m.size + 1 /\ (c = 8 \/ c < 4 * t.size)
    BY <1>6, <2>1, <2>2, <2>4, <2>5, GroupGrows
  <2>7. p # Sentinel
    BY <1>6, NotSentinel
  <2>8. InLeft(v)' = InLeft(v) \cup {b} /\ b \notin InLeft(v)
    BY <1>4, <1>6, <2>7 DEF InLeft, PairAt
  <2>9. IsFiniteSet(InLeft(v)') /\ Cardinality(InLeft(v)') = m.size + 1
    BY <2>3, <2>8, FS_AddElement
  <2> QED BY <1>2, <2>1, <2>6, <2>9 DEF CountsRight
<1> QED BY <1>5, <1>6

LEMMA CountStep ==
    ASSUME GroupsInv, CountInv, [StoreNext]_relVars
    PROVE  CountInv'
<1>1. CASE UNCHANGED <<hash, indexVars>>
  BY <1>1 DEF indexVars, CountInv, CountsRight, InLeft, PairAt
<1>2. CASE StoreNext
  <2>1. CASE \E p \in Pair : GetTuple(p)
    BY <1>1, <2>1, CreateKeepsCount DEF GetTuple, FindTuple
  <2>2. CASE StartScan \/ ScanNext \/ (\E v \in Value : StartWalk(v)) \/ WalkNext
    BY <1>1, <2>2 DEF StartScan, ScanNext, StartWalk, WalkNext
  <2> QED BY <1>2, <2>1, <2>2 DEF StoreNext
<1> QED BY <1>1, <1>2 DEF relVars

LEMMA CountInvariant == StoreSpec => [](GroupsInv /\ CountInv)
<1> QED BY GroupsInit, CountInit, GroupsStep, CountStep, PTL DEF StoreSpec

\* A table of a power of two of buckets, no larger than it has to be, is half
\* full when it holds a power of two that is at least four.
LEMMA HalfFull ==
    ASSUME NEW n \in Nat, L!IsPow2(n), n >= 8, NEW s \in Nat, 2 * s <= n, n = 8 \/ n < 4 * s
    PROVE  2 * (s + 1) > n <=> IsGrowthSize(s)
<1>1. PICK q \in Nat : n = 2 * q
  BY L!PowerIsEven
<1>2. ASSUME 2 * (s + 1) > n PROVE IsGrowthSize(s)
  <2>1. n = 2 * s /\ s >= 4
    BY <1>1, <1>2
  <2>2. L!IsPow2(s)
    BY <2>1, L!HalfPow2
  <2> QED BY <2>1, <2>2, L!NextPow2Is, SameNextPow2 DEF IsGrowthSize
<1>3. ASSUME IsGrowthSize(s) PROVE 2 * (s + 1) > n
  <2>1. s >= 4 /\ L!NextPow2(s) = s
    BY <1>3, SameNextPow2 DEF IsGrowthSize
  <2>2. L!IsPow2(s)
    BY <2>1, L!NextPow2Is
  <2>3. CASE n = 8
    BY <2>1, <2>3
  <2>4. CASE n < 4 * s
    <3>1. n = 2 * s
      BY <2>2, <2>4, L!HalfOfPow2
    <3> QED BY <3>1
  <2> QED BY <2>3, <2>4
<1> QED BY <1>2, <1>3

\* A group is rehashed exactly when it takes a tuple more than 4, 8, 16, ...:
\* what the module Database assumes of its groups.
THEOREM GroupsGrowAtGrowth == StoreSpec => GrowsAtGrowth
<1>1. ASSUME GroupsInv, CountInv, NEW p \in Pair, CreateTuple(p), p[1] # MaxValue
      PROVE  Index!EndIndex(left'[p[1]]) # Index!EndIndex(left[p[1]])
                 <=> IsGrowthSize(Cardinality(Visitable(left[p[1]])))
  <2>1. PICK v, m, t : v = p[1] /\ m = left[v] /\ t = left'[v]
    OBVIOUS
  <2>2. v \in Value \ {MaxValue}
    BY <1>1, <2>1, PairParts
  <2>3. CountsRight(m, InLeft(v)) /\ IsGroup(m, InLeft(v))
    BY <1>1, <2>1, <2>2 DEF CountInv, GroupsInv
  <2>4. PICK n : L!IsMap(m, n, hash, Key) /\ (n = 8 \/ n < 4 * m.size)
    BY <2>3 DEF CountsRight
  <2>5. m.size = Cardinality(InLeft(v))
    BY <2>3 DEF CountsRight
  <2>6. m.size = Cardinality(L!UsedBy(m, n)) /\ m.size = Cardinality(Visitable(m))
    BY <2>3, <2>4, <2>5, TuplesCounted, VisitableIs
  <2>7. PICK c : c = L!Grown(m, n)
    OBVIOUS
  <2>8. L!IsMap(t, c, hash, Key)
    BY <1>1, <2>1, <2>4, <2>6, <2>7, GroupGrows
  <2>9. Index!EndIndex(t) = c
    <3>1. hash \in Hashes
      BY <1>1 DEF GroupsInv
    <3> QED BY <2>8, MapNumbers
  <2>10. /\ m.size \in Nat /\ n \in Nat /\ L!IsPow2(n) /\ n >= 8 /\ 2 * m.size <= n
         /\ Index!EndIndex(m) = n
    BY <2>4, MapNumbers
  <2>11. c # n <=> 2 * (m.size + 1) > n
    BY <2>7, <2>10 DEF L!Grown
  <2>12. 2 * (m.size + 1) > n <=> IsGrowthSize(m.size)
    BY <2>4, <2>10, HalfFull
  <2> QED BY <2>1, <2>6, <2>9, <2>10, <2>11, <2>12
<1>2. ASSUME GroupsInv, CountInv, [StoreNext]_relVars, NEW v \in Value \ {MaxValue},
             Visitable(left'[v]) # Visitable(left[v])
      PROVE  Index!EndIndex(left'[v]) # Index!EndIndex(left[v])
                 <=> IsGrowthSize(Cardinality(Visitable(left[v])))
  <2>1. left' # left
    BY <1>2
  <2>2. PICK p \in Pair : CreateTuple(p)
    BY <1>2, <2>1 DEF StoreNext, GetTuple, FindTuple, StartScan, ScanNext, StartWalk, WalkNext,
                      relVars, indexVars
  <2>3. v = p[1]
    BY <1>2, <2>2 DEF CreateTuple, GroupsInv
  <2> QED BY <1>1, <1>2, <2>2, <2>3
<1>3. ASSUME GroupsInv, CountInv, [StoreNext]_relVars
      PROVE  [\A v \in Value \ {MaxValue} :
                 LET n == Cardinality(Visitable(left[v]))
                 IN  Visitable(left'[v]) # Visitable(left[v]) =>
                         (Index!EndIndex(left'[v]) # Index!EndIndex(left[v]) <=> IsGrowthSize(n))]_relVars
  BY <1>2, <1>3
<1> QED BY <1>3, CountInvariant, PTL DEF StoreSpec, GrowsAtGrowth

-----------------------------------------------------------------------------
(* The relation implements TupleStore. *)

\* get_tuple finds a pair if there is a tuple with it, and there is only one.
Finds(p) ==
    /\ FindIn(left[p[1]], p) = NoValue
           <=> p = Sentinel \/ \A a \in Addresses(tuples) : PairAt(a) # p
    /\ \A a \in Addresses(tuples) :
           p # Sentinel /\ PairAt(a) = p => FindIn(left[p[1]], p) = a

FoundInv == \A p \in Pair : Finds(p)

\* A key has one bucket, and so one value.
LEMMA OneValue ==
    ASSUME NEW m, NEW n, L!MapTable(m, n, hash, Key), NEW k, NEW v, NEW w,
           <<k, v>> \in L!Entries(m), <<k, w>> \in L!Entries(m)
    PROVE  v = w
<1>1. PICK i \in 0 .. n - 1 : m.first[i] = k /\ m.second[i] = v
  BY L!EntryOf
<1>2. PICK j \in 0 .. n - 1 : m.first[j] = k /\ m.second[j] = w
  BY L!EntryOf
<1>3. k # Empty
  BY L!EntryOf
<1>4. i = j
  BY <1>1, <1>2, <1>3, L!OneBucket
<1> QED BY <1>1, <1>2, <1>4

LEMMA GroupsFind ==
    ASSUME GroupsInv
    PROVE  FoundInv
<1>1. SUFFICES ASSUME NEW p \in Pair PROVE Finds(p)
  BY DEF FoundInv
<1>2. p[1] \in Value /\ hash \in Hashes
  BY PairParts DEF GroupsInv
<1>3. PICK m : m = left[p[1]]
  OBVIOUS
<1>4. PICK n : L!IsMap(m, n, hash, Key)
  BY <1>2, <1>3 DEF GroupsInv, IsGroup
<1>5. L!MapTable(m, n, hash, Key)
  BY <1>4, L!MapHasRoom
<1>6. L!Entries(m) = EntriesOf(InLeft(p[1]))
  BY <1>2, <1>3 DEF GroupsInv, IsGroup
<1>7. \A v : <<p, v>> \in L!Entries(m) => v # NoValue
  BY <1>6, EntriesHaveAddresses DEF InLeft, GroupsInv
<1>8. /\ p = Sentinel => FindIn(m, p) = NoValue
      /\ p # Sentinel => (FindIn(m, p) = NoValue <=> L!Lacks(m, n, p))
      /\ p # Sentinel /\ FindIn(m, p) # NoValue => <<p, FindIn(m, p)>> \in L!Entries(m)
  BY <1>2, <1>4, <1>7, FindInIs
<1>9. CASE p = Sentinel
  BY <1>3, <1>8, <1>9 DEF Finds
<1>10. CASE p # Sentinel
  <2>1. p \in Key
    BY <1>10 DEF Key
  <2>2. ASSUME NEW a \in Addresses(tuples), PairAt(a) = p PROVE <<p, a>> \in L!Entries(m)
    BY <1>6, <1>10, <2>2 DEF EntriesOf, InLeft
  <2>3. ASSUME NEW a, <<p, a>> \in L!Entries(m) PROVE a \in Addresses(tuples) /\ PairAt(a) = p
    BY <1>6, <2>3 DEF EntriesOf, InLeft
  <2>4. FindIn(m, p) = NoValue <=> \A v : <<p, v>> \notin L!Entries(m)
    BY <1>5, <1>8, <1>10, <2>1, L!LacksEntry
  <2>5. FindIn(m, p) = NoValue <=> \A a \in Addresses(tuples) : PairAt(a) # p
    BY <2>2, <2>3, <2>4
  <2>6. ASSUME NEW a \in Addresses(tuples), PairAt(a) = p PROVE FindIn(m, p) = a
    <3>1. <<p, a>> \in L!Entries(m)
      BY <2>2, <2>6
    <3>2. <<p, FindIn(m, p)>> \in L!Entries(m)
      BY <1>8, <1>10, <2>4, <3>1
    <3> QED BY <1>5, <3>1, <3>2, OneValue
  <2> QED BY <1>3, <1>10, <2>5, <2>6 DEF Finds
<1> QED BY <1>9, <1>10

\* The answers of get_tuple, as TupleStore has them.
Answers == [p \in Known |-> FindIn(left[p[1]], p)]

LEMMA StoreStarts ==
    ASSUME StoreInit
    PROVE  Store!TupleStoreInit
<1>1. GroupsInv /\ FoundInv
  BY GroupsInit, GroupsFind
<1>2. Addresses(tuples) = {} /\ got = {}
  BY DEF StoreInit, Addresses
<1>3. \A p : p \notin Known
  BY <1>1, <1>2 DEF Known, FoundInv, Finds
<1>4. Known = {}
  BY <1>3
<1>5. [p \in Known |-> FindIn(left[p[1]], p)] = <<>>
  BY <1>4
<1> QED BY <1>2, <1>5 DEF Store!TupleStoreInit

\* The effect of a new tuple on the answers: one more, none changed.
LEMMA CreateAnswers ==
    ASSUME GroupsInv, FoundInv, FoundInv', NEW p \in Pair, CreateTuple(p),
           NEW b, b = NextAddress(tuples)
    PROVE  /\ \A q \in Pair : q # p => FindIn(left[q[1]], q)' = FindIn(left[q[1]], q)
           /\ p = Sentinel => FindIn(left[p[1]], p)' = NoValue
           /\ p # Sentinel => FindIn(left[p[1]], p)' = b
           /\ FindIn(left[p[1]], p) = NoValue /\ b \in Nat \X Nat /\ b # NoValue
           /\ \A q \in Pair : FindIn(left[q[1]], q) # b
<1>1. /\ IsVector(tuples') /\ Addresses(tuples') = Addresses(tuples) \cup {b}
      /\ b \notin Addresses(tuples) /\ tuples'[b[1]][b[2]] = p
      /\ \A a \in Addresses(tuples) : tuples'[a[1]][a[2]] = tuples[a[1]][a[2]]
  BY EmplaceAppends, EmplaceKeeps DEF GroupsInv, CreateTuple
<1>2. b \in Nat \X Nat
  BY <1>1, AddressesArePairs
<1>3. b # NoValue
  BY <1>2, StoreAssumption
<1>4. PairAt(b)' = p /\ \A a \in Addresses(tuples) : PairAt(a)' = PairAt(a)
  BY <1>1 DEF PairAt
<1>5. ASSUME NEW q \in Pair, q # p PROVE FindIn(left[q[1]], q)' = FindIn(left[q[1]], q)
  <2>1. Finds(q) /\ Finds(q)'
    BY DEF FoundInv
  <2>2. CASE q = Sentinel
    BY <2>1, <2>2 DEF Finds
  <2>3. CASE q # Sentinel /\ \A a \in Addresses(tuples) : PairAt(a) # q
    <3>1. \A a \in Addresses(tuples)' : PairAt(a)' # q
      BY <1>1, <1>4, <1>5, <2>3
    <3>2. FindIn(left[q[1]], q)' = NoValue
      BY <2>1, <3>1 DEF Finds
    <3> QED BY <2>1, <2>3, <3>2 DEF Finds
  <2>4. CASE q # Sentinel /\ \E a \in Addresses(tuples) : PairAt(a) = q
    <3>1. PICK a \in Addresses(tuples) : PairAt(a) = q
      BY <2>4
    <3>2. a \in Addresses(tuples)' /\ PairAt(a)' = q
      BY <1>1, <1>4, <3>1
    <3>3. FindIn(left[q[1]], q) = a
      BY <2>1, <2>4, <3>1 DEF Finds
    <3>4. FindIn(left[q[1]], q)' = a
      BY <2>1, <2>4, <3>2 DEF Finds
    <3> QED BY <3>3, <3>4
  <2> QED BY <2>2, <2>3, <2>4
<1>6. p = Sentinel => FindIn(left[p[1]], p)' = NoValue
  <2>1. Finds(p)'
    BY DEF FoundInv
  <2> QED BY <2>1 DEF Finds
<1>7. p # Sentinel => FindIn(left[p[1]], p)' = b
  <2>1. Finds(p)' /\ b \in Addresses(tuples)'
    BY <1>1 DEF FoundInv
  <2> QED BY <1>4, <2>1 DEF Finds
<1>8. ASSUME NEW q \in Pair PROVE FindIn(left[q[1]], q) # b
  <2>1. Finds(q)
    BY DEF FoundInv
  <2>2. FindIn(left[q[1]], q) = NoValue \/ FindIn(left[q[1]], q) \in Addresses(tuples)
    BY <2>1 DEF Finds
  <2> QED BY <1>1, <1>3, <2>2
<1>9. FindIn(left[p[1]], p) = NoValue
  BY DEF CreateTuple
<1> QED BY <1>2, <1>3, <1>5, <1>6, <1>7, <1>8, <1>9

LEMMA StoreSteps ==
    ASSUME GroupsInv, FoundInv, FoundInv', [StoreNext]_relVars
    PROVE  [Store!TupleStoreNext]_Store!storeVars
<1>1. ASSUME UNCHANGED <<hash, left>> PROVE Answers' = Answers
  BY <1>1 DEF Answers, Known, FindIn
<1>2. ASSUME NEW p \in Pair, CreateTuple(p) PROVE Store!Create(p) \/ Store!GetExcepted(p)
  <2>1. PICK b : b = NextAddress(tuples)
    OBVIOUS
  <2>2. /\ \A q \in Pair : q # p => FindIn(left[q[1]], q)' = FindIn(left[q[1]], q)
        /\ p = Sentinel => FindIn(left[p[1]], p)' = NoValue
        /\ p # Sentinel => FindIn(left[p[1]], p)' = b
        /\ FindIn(left[p[1]], p) = NoValue /\ b \in Nat \X Nat /\ b # NoValue
        /\ \A q \in Pair : FindIn(left[q[1]], q) # b
    BY <1>2, <2>1, CreateAnswers
  <2>3. got' = {b}
    BY <1>2, <2>1 DEF CreateTuple
  <2>4. CASE p = Sentinel
    <3>1. Answers' = Answers
      BY <2>2, <2>4 DEF Answers, Known
    <3> QED BY <2>2, <2>3, <2>4, <3>1 DEF Store!GetExcepted, Answers, Sentinel
  <2>5. CASE p # Sentinel
    <3>1. Known' = Known \cup {p} /\ p \notin Known
      BY <2>2, <2>5 DEF Known
    <3>2. Answers' = [q \in Known \cup {p} |-> IF q = p THEN b ELSE Answers[q]]
      BY <2>2, <2>5, <3>1 DEF Answers, Known
    <3>3. \A q \in Known : Answers[q] # b
      BY <2>2 DEF Answers, Known
    <3>4. DOMAIN Answers = Known
      BY DEF Answers
    <3>5. b \in got' \cap ((Nat \X Nat) \ {Answers[q] : q \in DOMAIN Answers})
      BY <2>2, <2>3, <3>3, <3>4
    <3>6. p \notin DOMAIN Answers \cup {<<MaxValue, MaxValue>>}
      BY <2>5, <3>1, <3>4 DEF Sentinel
    <3> QED BY <2>3, <3>2, <3>4, <3>5, <3>6 DEF Store!Create, Answers
  <2> QED BY <2>4, <2>5
<1>3. ASSUME NEW p \in Pair, FindTuple(p) PROVE Store!Recall(p)
  <2>1. p \in Known /\ got' = {Answers[p]} /\ DOMAIN Answers = Known
    BY <1>3 DEF FindTuple, Known, Answers
  <2>2. Answers' = Answers
    BY <1>1, <1>3 DEF FindTuple, indexVars
  <2> QED BY <2>1, <2>2 DEF Store!Recall, Answers
<1>4. CASE UNCHANGED <<hash, left, got>>
  <2>1. Answers' = Answers /\ got' = got
    BY <1>1, <1>4
  <2> QED BY <2>1 DEF Store!storeVars, Answers
<1>5. CASE StoreNext
  <2>1. CASE \E p \in Pair : GetTuple(p)
    BY <1>2, <1>3, <2>1 DEF GetTuple, Store!TupleStoreNext
  <2>2. CASE StartScan \/ ScanNext \/ (\E v \in Value : StartWalk(v)) \/ WalkNext
    BY <1>4, <2>2 DEF StartScan, ScanNext, StartWalk, WalkNext, indexVars
  <2> QED BY <1>5, <2>1, <2>2 DEF StoreNext
<1> QED BY <1>4, <1>5 DEF relVars, indexVars

\* A relation promises what TupleStore says, for any number of tuples: one
\* object per pair, the same one for ever, whatever the hash functions do and
\* however often its tables are rehashed.
THEOREM RelationKeepsOneTuplePerPair == StoreSpec => OneTuplePerPair
<1>1. ASSUME GroupsInv PROVE FoundInv
  BY <1>1, GroupsFind
<1>2. StoreSpec => [](GroupsInv /\ FoundInv)
  BY <1>1, GroupsInvariant, PTL
<1>3. StoreInit => Store!TupleStoreInit
  BY StoreStarts
<1>4. GroupsInv /\ FoundInv /\ FoundInv' /\ [StoreNext]_relVars
          => [Store!TupleStoreNext]_Store!storeVars
  BY StoreSteps
<1> QED BY <1>2, <1>3, <1>4, PTL DEF StoreSpec, OneTuplePerPair, Store!TupleStoreSpec
=============================================================================
