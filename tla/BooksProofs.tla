---------------------------- MODULE BooksProofs -----------------------------
(***************************************************************************)
(* Theorems about TransactionBooks: both tables are sound in every state,  *)
(* and together they implement LockBook.  What a bucket array promises is  *)
(* in TableLemmas, and so is the map; this module adds the tombstones of   *)
(* the set.  The invariant says of either table that it is one between two *)
(* calls (IsSet, IsLog): the keys are where their probes find them, none   *)
(* of them twice, and the counters count.  The lemma about a call says     *)
(* what it does to the keys that a table has; the refinement reads the set *)
(* and the log off those.                                                  *)
(***************************************************************************)
EXTENDS TransactionBooks, FiniteSetTheorems, TLAPS

L == INSTANCE TableLemmas WITH Empty <- NullKey, NoValue <- NoStatus

LEMMA SameCardinality == \A S : Cardinality(S) = L!Cardinality(S)
BY DEF Cardinality, L!Cardinality

LEMMA SameProbe == \A b, h, stops : LockSet!Probe(b, h, stops) = L!Probe(b, h, stops)
BY DEF LockSet!Probe, L!Probe, LockSet!Capacity, L!Capacity, LockSet!Cardinality, L!Cardinality

LEMMA SameCapacity == \A b : LockSet!Capacity(b) = L!Capacity(b)
BY DEF LockSet!Capacity, L!Capacity, LockSet!Cardinality, L!Cardinality

LEMMA SameCapacityFor == \A n : LockSet!CapacityFor(n) = L!CapacityFor(n)
BY DEF LockSet!CapacityFor, L!CapacityFor, LockSet!MinCapacity, L!MinCapacity, LockSet!Max, L!Max,
       LockSet!NextPow2, L!NextPow2, LockSet!Pow2, L!Pow2

-----------------------------------------------------------------------------
(* The set of locks. *)

\* What an erased entry leaves.
Graves == {Tombstone}

\* The buckets with a lock and those with a tombstone, of the first n.
Live(b, n) == {i \in 0 .. n - 1 : LockSet!IsLive(b[i])}
Dead(b, n) == {i \in 0 .. n - 1 : b[i] = Tombstone}

IsTable(b, n) == L!IsTable(b, n, keyHash, Key, NullKey, Graves)

LEMMA TableParts ==
    ASSUME NEW b, NEW n, IsTable(b, n)
    PROVE  /\ n \in Nat \ {0} /\ DOMAIN b = 0 .. n - 1 /\ LockSet!Capacity(b) = n
           /\ NullKey \notin Key /\ Tombstone \notin Key /\ NullKey # Tombstone
           /\ \A k \in Key : keyHash[k] \in Nat
           /\ \A i \in 0 .. n - 1 : b[i] \in Key \cup {NullKey, Tombstone}
<1>1. /\ n \in Nat \ {0} /\ b \in [0 .. n - 1 -> Key \cup Graves \cup {NullKey}]
      /\ \A k \in Key : keyHash[k] \in Nat
      /\ NullKey \notin Key \cup Graves /\ Key \cap Graves = {}
  BY DEF IsTable, L!IsTable
<1>2. LockSet!Capacity(b) = n
  BY <1>1, SameCapacity, L!CapacityIs
<1> QED BY <1>1, <1>2 DEF Graves

\* A live bucket holds a lock.
LEMMA LiveIs ==
    ASSUME NEW b, NEW n, IsTable(b, n), NEW i \in 0 .. n - 1
    PROVE  LockSet!IsLive(b[i]) <=> b[i] \in Key
BY TableParts DEF LockSet!IsLive

LEMMA CountsAreFinite ==
    ASSUME NEW n \in Nat, NEW b
    PROVE  /\ IsFiniteSet(Live(b, n)) /\ Cardinality(Live(b, n)) \in Nat
           /\ IsFiniteSet(Dead(b, n)) /\ Cardinality(Dead(b, n)) \in Nat
<1>1. IsFiniteSet(0 .. n - 1)
  BY FS_Interval
<1>2. Live(b, n) \in SUBSET (0 .. n - 1) /\ Dead(b, n) \in SUBSET (0 .. n - 1)
  BY DEF Live, Dead
<1> QED BY <1>1, <1>2, FS_Subset, FS_CardinalityType

LEMMA EmptyBucket ==
    ASSUME NEW n \in Nat \ {0}, NEW b, Cardinality(Live(b, n)) + Cardinality(Dead(b, n)) < n
    PROVE  \E o \in 0 .. n - 1 : b[o] = NullKey
<1>1. /\ IsFiniteSet(Live(b, n)) /\ Cardinality(Live(b, n)) \in Nat
      /\ IsFiniteSet(Dead(b, n)) /\ Cardinality(Dead(b, n)) \in Nat
  BY CountsAreFinite
<1>2. PICK U : U = Live(b, n) \cup Dead(b, n)
  OBVIOUS
<1>3. IsFiniteSet(U) /\ Cardinality(U) <= Cardinality(Live(b, n)) + Cardinality(Dead(b, n))
  <2>1. PICK x \in Nat : x = Cardinality(Live(b, n) \cap Dead(b, n))
    BY <1>1, FS_Intersection, FS_CardinalityType
  <2> QED BY <1>1, <1>2, <2>1, FS_Union
<1>4. Cardinality(0 .. n - 1) = n
  BY FS_Interval
<1>5. U # 0 .. n - 1
  BY <1>1, <1>3, <1>4, FS_CardinalityType
<1>6. PICK o \in 0 .. n - 1 : o \notin U
  BY <1>2, <1>5 DEF Live, Dead
<1> QED BY <1>2, <1>6 DEF Live, Dead, LockSet!IsLive

\* A set between two calls.
IsSet(s, n) ==
    /\ IsTable(s.buckets, n) /\ L!IsPow2(n) /\ n >= 8
    /\ s.size = Cardinality(Live(s.buckets, n)) /\ s.tombstones = Cardinality(Dead(s.buckets, n))
    /\ 2 * (s.size + s.tombstones) <= n

Has(b, n, k) == \E i \in 0 .. n - 1 : b[i] = k

LEMMA SetParts ==
    ASSUME NEW s, NEW n, IsSet(s, n)
    PROVE  /\ n \in Nat \ {0} /\ s.size \in Nat /\ s.tombstones \in Nat
           /\ LockSet!Capacity(s.buckets) = n
           /\ \E o \in 0 .. n - 1 : s.buckets[o] = NullKey
<1>1. IsTable(s.buckets, n)
  BY DEF IsSet
<1>2. n \in Nat \ {0} /\ LockSet!Capacity(s.buckets) = n
  BY <1>1, TableParts
<1>3. s.size \in Nat /\ s.tombstones \in Nat
  BY <1>2, CountsAreFinite DEF IsSet
<1>4. Cardinality(Live(s.buckets, n)) + Cardinality(Dead(s.buckets, n)) < n
  BY <1>2, <1>3 DEF IsSet
<1> QED BY <1>2, <1>3, <1>4, EmptyBucket

\* contains finds a lock if and only if the set has it.
LEMMA HoldsIs ==
    ASSUME NEW s, NEW n, IsSet(s, n), NEW k \in Key
    PROVE  LockSet!Holds(s, keyHash, k) <=> Has(s.buckets, n, k)
<1>1. PICK b, stops : b = s.buckets /\ stops = {NullKey, k}
  OBVIOUS
<1>2. PICK i : i = L!Probe(b, keyHash[k], stops)
  OBVIOUS
<1>3. PICK o \in 0 .. n - 1 : b[o] = NullKey
  BY <1>1, SetParts
<1>4. IsTable(b, n)
  BY <1>1 DEF IsSet
<1>5. i \in 0 .. n - 1 /\ \A j \in 0 .. n - 1 : b[j] = k => i = j
  <2>1. NullKey \in stops /\ k \in stops /\ \A x \in stops : x = NullKey \/ x = k
    BY <1>1
  <2> QED BY <1>2, <1>3, <1>4, <2>1, L!ProbeFinds DEF IsTable
<1>6. LockSet!Holds(s, keyHash, k) <=> b[i] = k
  BY <1>1, <1>2, SameProbe DEF LockSet!Holds
<1> QED BY <1>1, <1>5, <1>6 DEF Has

-----------------------------------------------------------------------------
(* Rehashing the set. *)

\* What iteration i of a rehash of s makes of the new table t.
SetMoved(t, s, i) ==
    IF LockSet!IsLive(s.buckets[i]) THEN LockSet!InsertWithoutGrow(t, keyHash, s.buckets[i]) ELSE t

SetRun(f, s, n, requested) ==
    /\ f[0] = LockSet!Blank(LockSet!CapacityFor(requested))
    /\ \A i \in 1 .. n : f[i] = SetMoved(f[i - 1], s, i - 1)
    /\ LockSet!Rehash(s, keyHash, requested) = f[n]

\* The tables a rehash goes through have no tombstones.
Fresh(c) == [buckets : [0 .. c - 1 -> Key \cup {NullKey}], size : Nat, tombstones : {0}]

\* u is t with k in bucket p.
Takes(u, t, p, k) == u = [t EXCEPT !.buckets[p] = k, !.size = @ + 1]

LEMMA FreshWritten ==
    ASSUME NEW c, NEW t \in Fresh(c), NEW k \in Key, NEW p, NEW u, Takes(u, t, p, k)
    PROVE  u \in Fresh(c) /\ L!Written(u.buckets, t.buckets, p, k) /\ u.size = t.size + 1
<1>1. PICK b, z : b = t.buckets /\ z = t.size
  OBVIOUS
<1>2. /\ b \in [0 .. c - 1 -> Key \cup {NullKey}] /\ z \in Nat
      /\ t = [buckets |-> b, size |-> z, tombstones |-> 0]
  BY <1>1 DEF Fresh
<1>3. PICK d : d = [b EXCEPT ![p] = k]
  OBVIOUS
<1>4. u = [buckets |-> d, size |-> z + 1, tombstones |-> 0]
  BY <1>2, <1>3 DEF Takes
<1>5. d \in [0 .. c - 1 -> Key \cup {NullKey}]
  BY <1>2, <1>3
<1>6. z + 1 \in Nat
  BY <1>2
<1>7. u \in Fresh(c)
  BY <1>4, <1>5, <1>6 DEF Fresh
<1>8. u.buckets = d /\ u.size = t.size + 1
  BY <1>1, <1>4
<1>9. L!Written(u.buckets, t.buckets, p, k)
  BY <1>1, <1>3, <1>8 DEF L!Written
<1> QED BY <1>7, <1>8, <1>9

LEMMA SetRuns ==
    ASSUME NEW s, NEW n, IsTable(s.buckets, n), NEW requested \in Nat
    PROVE  \E f : SetRun(f, s, n, requested)
<1> DEFINE c    == LockSet!CapacityFor(requested)
           S    == Fresh(c)
           body == [i \in 1 .. n |-> [t \in S |-> SetMoved(t, s, i - 1)]]
           base == LockSet!Blank(c)
<1>1. base \in S
  BY DEF LockSet!Blank, Fresh
<1>2. n \in Nat /\ LockSet!Capacity(s.buckets) = n
  BY TableParts
<1>3. L!IsBody(body, 1 .. n, S)
  <2>1. ASSUME NEW i \in 1 .. n, NEW t \in S PROVE SetMoved(t, s, i - 1) \in S
    <3>1. CASE LockSet!IsLive(s.buckets[i - 1])
      <4>1. i - 1 \in 0 .. n - 1
        BY <1>2
      <4>2. s.buckets[i - 1] \in Key
        BY <3>1, <4>1, LiveIs
      <4> HIDE DEF c
      <4> QED BY <3>1, <4>2, FreshWritten DEF SetMoved, LockSet!InsertWithoutGrow, Takes
    <3>2. CASE ~LockSet!IsLive(s.buckets[i - 1])
      BY <3>2 DEF SetMoved
    <3> QED BY <3>1, <3>2
  <2> HIDE DEF S
  <2> QED BY <2>1 DEF L!IsBody
<1>4. PICK f \in [0 .. n -> S] : L!IsRun(f, base, body, 1 .. n)
  <2> HIDE DEF base, body, S
  <2>1. L!Runs(base, body, n, S)
    BY <1>1, <1>2, <1>3, L!LoopRuns
  <2> QED BY <2>1 DEF L!Runs
<1>5. f[0] = base /\ \A i \in 1 .. n : f[i] = SetMoved(f[i - 1], s, i - 1)
  <2>1. ASSUME NEW i \in 1 .. n PROVE f[i] = SetMoved(f[i - 1], s, i - 1)
    <3>1. i - 1 \in 0 .. n /\ f[i - 1] \in S
      <4> HIDE DEF S
      <4> QED BY <1>2
    <3>2. body[i][f[i - 1]] = SetMoved(f[i - 1], s, i - 1)
      <4> HIDE DEF S
      <4> QED BY <3>1
    <3> HIDE DEF S, base, body
    <3> QED BY <1>4, <3>2 DEF L!IsRun
  <2> HIDE DEF S, base, body
  <2> QED BY <1>4, <2>1 DEF L!IsRun
<1> DEFINE Solves(g) ==
        g = [i \in 0 .. LockSet!Capacity(s.buckets) |->
                IF i = 0 THEN LockSet!Blank(LockSet!CapacityFor(requested))
                ELSE IF LockSet!IsLive(s.buckets[i - 1])
                     THEN LockSet!InsertWithoutGrow(g[i - 1], keyHash, s.buckets[i - 1])
                ELSE g[i - 1]]
           moved == CHOOSE g : Solves(g)
<1>6. Solves(f)
  <2>1. \A i \in 0 .. n : f[i] =
            IF i = 0 THEN LockSet!Blank(LockSet!CapacityFor(requested))
            ELSE IF LockSet!IsLive(s.buckets[i - 1])
                 THEN LockSet!InsertWithoutGrow(f[i - 1], keyHash, s.buckets[i - 1])
            ELSE f[i - 1]
    BY <1>2, <1>5 DEF SetMoved
  <2> HIDE DEF S
  <2> QED BY <1>2, <2>1
<1>7. Solves(moved)
  <2> HIDE DEF Solves
  <2> QED BY <1>6
<1>8. LockSet!Rehash(s, keyHash, requested) = moved[n]
  BY <1>2 DEF LockSet!Rehash
<1> HIDE DEF moved
<1>9. SetRun(moved, s, n, requested)
  <2>1. \A i \in 0 .. n : moved[i] =
            IF i = 0 THEN LockSet!Blank(LockSet!CapacityFor(requested))
            ELSE IF LockSet!IsLive(s.buckets[i - 1])
                 THEN LockSet!InsertWithoutGrow(moved[i - 1], keyHash, s.buckets[i - 1])
            ELSE moved[i - 1]
    BY <1>2, <1>7
  <2> QED BY <1>2, <1>8, <2>1 DEF SetRun, SetMoved
<1> QED BY <1>9

\* The live ones of the first i buckets, bucket by bucket.
LEMMA LiveUpTo ==
    ASSUME NEW b, NEW n \in Nat, NEW i \in 0 .. n - 1
    PROVE  /\ ~LockSet!IsLive(b[i]) => Live(b, i + 1) = Live(b, i)
           /\ LockSet!IsLive(b[i]) => Live(b, i + 1) = Live(b, i) \cup {i} /\ i \notin Live(b, i)
<1>1. ASSUME NEW j PROVE j \in 0 .. (i + 1) - 1 <=> j \in 0 .. i - 1 \/ j = i
  OBVIOUS
<1> QED BY <1>1 DEF Live

LEMMA LiveCount ==
    ASSUME NEW b, NEW n \in Nat, NEW i \in 0 .. n - 1, LockSet!IsLive(b[i])
    PROVE  /\ Cardinality(Live(b, i + 1)) = Cardinality(Live(b, i)) + 1
           /\ Cardinality(Live(b, i)) < Cardinality(Live(b, n))
<1>1. i \in Nat /\ i + 1 \in Nat
  OBVIOUS
<1>2. /\ IsFiniteSet(Live(b, i)) /\ Cardinality(Live(b, i)) \in Nat
      /\ IsFiniteSet(Live(b, n)) /\ Cardinality(Live(b, n)) \in Nat
  BY <1>1, CountsAreFinite
<1>3. Live(b, i + 1) = Live(b, i) \cup {i} /\ i \notin Live(b, i)
  BY LiveUpTo
<1>4. Cardinality(Live(b, i + 1)) = Cardinality(Live(b, i)) + 1
  BY <1>2, <1>3, FS_AddElement
<1>5. Live(b, i + 1) \in SUBSET Live(b, n)
  BY DEF Live
<1>6. Cardinality(Live(b, i + 1)) <= Cardinality(Live(b, n))
  BY <1>2, <1>5, FS_Subset
<1> QED BY <1>2, <1>4, <1>6

\* A lock that is written into a bucket without one.
LEMMA LiveWritten ==
    ASSUME NEW n \in Nat, NEW b, DOMAIN b = 0 .. n - 1, NEW p \in 0 .. n - 1,
           ~LockSet!IsLive(b[p]), NEW k, LockSet!IsLive(k), NEW d, L!Written(d, b, p, k)
    PROVE  /\ Cardinality(Live(d, n)) = Cardinality(Live(b, n)) + 1
           /\ \A x : LockSet!IsLive(x) => (Has(d, n, x) <=> Has(b, n, x) \/ x = k)
<1>1. d[p] = k /\ \A i \in 0 .. n - 1 : i # p => d[i] = b[i]
  BY DEF L!Written
<1>2. Live(d, n) = Live(b, n) \cup {p} /\ p \notin Live(b, n)
  BY <1>1 DEF Live
<1>3. IsFiniteSet(Live(b, n))
  BY CountsAreFinite
<1>4. Cardinality(Live(d, n)) = Cardinality(Live(b, n)) + 1
  BY <1>2, <1>3, FS_AddElement
<1>5. ASSUME NEW x, LockSet!IsLive(x) PROVE Has(d, n, x) <=> Has(b, n, x) \/ x = k
  BY <1>1, <1>5 DEF Has
<1> QED BY <1>4, <1>5

\* What a rehash of s has got after i buckets.
HasMoved(u, c, s, i) ==
    /\ u \in Fresh(c) /\ IsTable(u.buckets, c)
    /\ \A k \in Key : Has(u.buckets, c, k) <=> Has(s.buckets, i, k)
    /\ u.size = Cardinality(Live(s.buckets, i)) /\ Cardinality(Live(u.buckets, c)) = u.size

LEMMA FreshHasNoGraves ==
    ASSUME NEW c \in Nat, NEW u \in Fresh(c), Tombstone \notin Key, NullKey # Tombstone
    PROVE  Dead(u.buckets, c) = {} /\ Cardinality(Dead(u.buckets, c)) = 0
<1>1. u.buckets \in [0 .. c - 1 -> Key \cup {NullKey}]
  BY DEF Fresh
<1>2. \A i \in 0 .. c - 1 : u.buckets[i] # Tombstone
  BY <1>1
<1>3. Dead(u.buckets, c) = {}
  BY <1>2 DEF Dead
<1> QED BY <1>3, FS_EmptySet

LEMMA SetRehashStep ==
    ASSUME NEW s, NEW n, IsTable(s.buckets, n), NEW c \in Nat \ {0},
           Cardinality(Live(s.buckets, n)) <= c, NEW i \in 0 .. n - 1,
           NEW u, HasMoved(u, c, s, i), NEW w, w = SetMoved(u, s, i)
    PROVE  HasMoved(w, c, s, i + 1)
<1>1. PICK b, d : b = s.buckets /\ d = u.buckets
  OBVIOUS
<1>2. n \in Nat /\ i \in Nat /\ Tombstone \notin Key /\ NullKey # Tombstone /\ NullKey \notin Key
  BY TableParts
<1>3. \A x : Has(b, i + 1, x) <=> Has(b, i, x) \/ x = b[i]
  <2>1. \A j : j \in 0 .. (i + 1) - 1 <=> j \in 0 .. i - 1 \/ j = i
    BY <1>2
  <2> QED BY <2>1 DEF Has
<1>4. CASE ~LockSet!IsLive(b[i])
  <2>1. Live(b, i + 1) = Live(b, i)
    BY <1>2, <1>4, LiveUpTo
  <2>2. b[i] \notin Key
    BY <1>1, <1>4, LiveIs
  <2>3. w = u
    BY <1>1, <1>4 DEF SetMoved
  <2>4. \A k \in Key : Has(b, i + 1, k) <=> Has(b, i, k)
    BY <1>3, <2>2
  <2> QED BY <1>1, <2>1, <2>3, <2>4 DEF HasMoved
<1>5. CASE LockSet!IsLive(b[i])
  <2>1. PICK k : k = b[i]
    OBVIOUS
  <2>2. k \in Key /\ LockSet!IsLive(k)
    BY <1>1, <1>5, <2>1, LiveIs
  <2>3. /\ u \in Fresh(c) /\ IsTable(d, c) /\ u.size = Cardinality(Live(b, i))
        /\ Cardinality(Live(d, c)) = u.size
        /\ \A x \in Key : Has(d, c, x) <=> Has(b, i, x)
    BY <1>1 DEF HasMoved
  <2>4. /\ Cardinality(Live(b, i + 1)) = Cardinality(Live(b, i)) + 1
        /\ Cardinality(Live(b, i)) < Cardinality(Live(b, n))
    BY <1>2, <1>5, LiveCount
  <2>5. ~Has(d, c, k)
    <3>1. SUFFICES ASSUME Has(d, c, k) PROVE FALSE
      OBVIOUS
    <3>2. PICK j \in 0 .. i - 1 : b[j] = k
      BY <2>2, <2>3, <3>1 DEF Has
    <3>3. L!NoneTwice(b, n, Key) /\ j \in 0 .. n - 1
      BY <1>1, <1>2 DEF IsTable, L!IsTable
    <3>4. j = i
      BY <2>1, <2>2, <3>2, <3>3 DEF L!NoneTwice
    <3> QED BY <1>2, <3>4
  <2>6. PICK o \in 0 .. c - 1 : d[o] = NullKey
    <3>1. Cardinality(Dead(d, c)) = 0
      BY <1>1, <1>2, <2>3, FreshHasNoGraves
    <3>2. Cardinality(Live(b, i)) \in Nat /\ Cardinality(Live(b, n)) \in Nat
      BY <1>2, CountsAreFinite
    <3>3. Cardinality(Live(d, c)) + Cardinality(Dead(d, c)) < c
      BY <1>1, <2>3, <2>4, <3>1, <3>2
    <3> QED BY <3>3, EmptyBucket
  <2>7. PICK stops : stops = {NullKey}
    OBVIOUS
  <2>8. PICK p : p = L!Probe(d, keyHash[k], stops)
    OBVIOUS
  <2>9. d[p] = NullKey /\ L!Reaches(d, keyHash[k], c, NullKey, p) /\ p \in 0 .. c - 1
    <3>1. DOMAIN d = 0 .. c - 1 /\ keyHash[k] \in Nat /\ NullKey \in stops
      BY <2>2, <2>3, <2>7, TableParts
    <3>2. d[p] \in stops /\ L!Reaches(d, keyHash[k], c, NullKey, p)
      BY <2>6, <2>8, <3>1, L!ProbeReaches
    <3> QED BY <2>7, <3>2 DEF L!Reaches
  <2>10. Takes(w, u, p, k)
    BY <1>1, <1>5, <2>1, <2>7, <2>8, SameProbe DEF SetMoved, LockSet!InsertWithoutGrow, Takes
  <2>11. PICK e : e = w.buckets
    OBVIOUS
  <2>12. w \in Fresh(c) /\ L!Written(e, d, p, k) /\ w.size = u.size + 1
    BY <1>1, <2>2, <2>3, <2>10, <2>11, FreshWritten
  <2>13. IsTable(e, c)
    <3>1. \A j \in 0 .. c - 1 : d[j] # k
      BY <2>5 DEF Has
    <3> QED BY <2>2, <2>3, <2>9, <2>12, <3>1, L!EnterKey DEF IsTable
  <2>14. /\ Cardinality(Live(e, c)) = Cardinality(Live(d, c)) + 1
         /\ \A x : LockSet!IsLive(x) => (Has(e, c, x) <=> Has(d, c, x) \/ x = k)
    <3>1. DOMAIN d = 0 .. c - 1 /\ ~LockSet!IsLive(d[p])
      BY <2>3, <2>9, TableParts DEF LockSet!IsLive
    <3> QED BY <2>2, <2>9, <2>12, <3>1, LiveWritten
  <2>15. \A x \in Key : Has(e, c, x) <=> Has(b, i + 1, x)
    <3>1. \A x \in Key : LockSet!IsLive(x)
      BY <1>2 DEF LockSet!IsLive
    <3> QED BY <1>3, <2>1, <2>3, <2>14, <3>1
  <2> QED BY <1>1, <2>3, <2>4, <2>11, <2>12, <2>13, <2>14, <2>15 DEF HasMoved
<1> QED BY <1>4, <1>5

\* A rehash keeps every lock, and leaves the tombstones behind.
LEMMA SetRehashIs ==
    ASSUME NEW s, NEW n, IsSet(s, n), NEW requested \in Nat, requested >= n,
           NEW c, c = LockSet!CapacityFor(requested), NEW t, t = LockSet!Rehash(s, keyHash, requested)
    PROVE  /\ IsSet(t, c) /\ t.size = s.size /\ t.tombstones = 0
           /\ \A k \in Key : Has(t.buckets, c, k) <=> Has(s.buckets, n, k)
<1>1. IsTable(s.buckets, n) /\ s.size = Cardinality(Live(s.buckets, n)) /\ 2 * (s.size + s.tombstones) <= n
  BY DEF IsSet
<1>2. /\ n \in Nat /\ s.size \in Nat /\ s.tombstones \in Nat
      /\ NullKey \notin Key /\ Tombstone \notin Key /\ NullKey # Tombstone /\ \A k \in Key : keyHash[k] \in Nat
  BY <1>1, SetParts, TableParts
<1>3. c \in Nat \ {0} /\ c >= requested /\ c >= 8 /\ L!IsPow2(c)
  BY SameCapacityFor, L!CapacityForIs
<1>4. PICK f : SetRun(f, s, n, requested)
  BY <1>1, SetRuns
<1> DEFINE T == {i \in 0 .. n : HasMoved(f[i], c, s, i)}
<1>5. 0 \in T
  <2>1. f[0] = LockSet!Blank(c)
    BY <1>4 DEF SetRun
  <2>2. PICK d : d = f[0].buckets
    OBVIOUS
  <2>3. d = [i \in 0 .. c - 1 |-> NullKey] /\ f[0] \in Fresh(c) /\ f[0].size = 0
    BY <2>1, <2>2 DEF LockSet!Blank, Fresh
  <2>4. IsTable(d, c)
    <3>1. NullKey \notin Key \cup Graves /\ Key \cap Graves = {}
      BY <1>2 DEF Graves
    <3> QED BY <1>2, <1>3, <2>3, <3>1, L!EmptyTable DEF IsTable
  <2>5. Live(d, c) = {} /\ Live(s.buckets, 0) = {}
    BY <2>3 DEF Live, LockSet!IsLive
  <2>6. \A k \in Key : ~Has(d, c, k) /\ ~Has(s.buckets, 0, k)
    BY <1>2, <2>3 DEF Has
  <2>7. HasMoved(f[0], c, s, 0)
    BY <2>2, <2>3, <2>4, <2>5, <2>6, FS_EmptySet DEF HasMoved
  <2> QED BY <1>2, <2>7
<1>6. ASSUME NEW i \in 0 .. n - 1, i \in T PROVE i + 1 \in T
  <2>1. i + 1 \in 1 .. n /\ (i + 1) - 1 = i
    BY <1>2
  <2>2. f[i + 1] = SetMoved(f[i], s, i)
    BY <1>4, <2>1 DEF SetRun
  <2>3. HasMoved(f[i], c, s, i)
    BY <1>6
  <2>4. Cardinality(Live(s.buckets, n)) <= c
    BY <1>1, <1>2, <1>3
  <2>5. HasMoved(f[i + 1], c, s, i + 1)
    BY <1>1, <1>3, <2>2, <2>3, <2>4, SetRehashStep
  <2> QED BY <2>1, <2>5
<1>7. HasMoved(t, c, s, n)
  <2>1. t = f[n]
    BY <1>4 DEF SetRun
  <2> HIDE DEF T
  <2>2. 0 .. n \subseteq T
    BY <1>2, <1>5, <1>6, L!InductionUpTo
  <2> QED BY <1>2, <2>1, <2>2 DEF T
<1>8. t \in Fresh(c) /\ t.tombstones = 0 /\ Cardinality(Dead(t.buckets, c)) = 0
  BY <1>2, <1>3, <1>7, FreshHasNoGraves DEF HasMoved, Fresh
<1> QED BY <1>1, <1>2, <1>3, <1>7, <1>8 DEF HasMoved, IsSet

-----------------------------------------------------------------------------
(* The calls of the set. *)

\* The set has made room for one more lock, which may take a tombstone with it.
LEMMA SetGrowthIs ==
    ASSUME NEW s, NEW n, IsSet(s, n), NEW t, t = LockSet!MaybeRehash(s, keyHash)
    PROVE  \E c : /\ IsSet(t, c) /\ t.size = s.size /\ 2 * (t.size + t.tombstones + 1) <= c
                  /\ \A k \in Key : Has(t.buckets, c, k) <=> Has(s.buckets, n, k)
<1>1. /\ n \in Nat \ {0} /\ s.size \in Nat /\ s.tombstones \in Nat
      /\ LockSet!Capacity(s.buckets) = n
  BY SetParts
<1>2. L!IsPow2(n) /\ n >= 8 /\ 2 * (s.size + s.tombstones) <= n
  BY DEF IsSet
<1>3. s.size + s.tombstones + 1 > n \div 2 <=> 2 * (s.size + s.tombstones + 1) > n
  BY <1>1, <1>2, L!EvenPow2
<1>4. CASE s.size + s.tombstones + 1 > n \div 2
  <2>1. PICK c : c = LockSet!CapacityFor(2 * n)
    OBVIOUS
  <2>2. 2 * n \in Nat /\ 2 * n >= n
    BY <1>1
  <2>3. c \in Nat /\ c >= 2 * n
    BY <2>1, <2>2, SameCapacityFor, L!CapacityForIs
  <2>4. t = LockSet!Rehash(s, keyHash, 2 * n)
    BY <1>1, <1>4 DEF LockSet!MaybeRehash
  <2>5. /\ IsSet(t, c) /\ t.size = s.size /\ t.tombstones = 0
        /\ \A k \in Key : Has(t.buckets, c, k) <=> Has(s.buckets, n, k)
    BY <2>1, <2>2, <2>4, SetRehashIs
  <2>6. 2 * (t.size + t.tombstones + 1) <= c
    BY <1>1, <1>2, <2>3, <2>5
  <2> QED BY <2>5, <2>6
<1>5. CASE ~(s.size + s.tombstones + 1 > n \div 2) /\ s.tombstones > s.size
  <2>1. PICK c : c = LockSet!CapacityFor(n)
    OBVIOUS
  <2>2. n \in Nat /\ n >= n
    BY <1>1
  <2>3. c = n
    BY <1>2, <2>1, <2>2, SameCapacityFor, L!CapacityForIs
  <2>4. t = LockSet!Rehash(s, keyHash, n)
    BY <1>1, <1>5 DEF LockSet!MaybeRehash
  <2>5. /\ IsSet(t, c) /\ t.size = s.size /\ t.tombstones = 0
        /\ \A k \in Key : Has(t.buckets, c, k) <=> Has(s.buckets, n, k)
    BY <2>1, <2>2, <2>4, SetRehashIs
  <2>6. 2 * (t.size + t.tombstones + 1) <= c
    BY <1>1, <1>3, <1>5, <2>3, <2>5
  <2> QED BY <2>5, <2>6
<1>6. CASE ~(s.size + s.tombstones + 1 > n \div 2) /\ ~(s.tombstones > s.size)
  <2>1. t = s
    BY <1>1, <1>6 DEF LockSet!MaybeRehash
  <2>2. 2 * (s.size + s.tombstones + 1) <= n
    BY <1>1, <1>3, <1>6
  <2> QED BY <2>1, <2>2
<1> QED BY <1>4, <1>5, <1>6

\* A bucket that gets a lock is a tombstone less, or an empty bucket less.
LEMMA DeadWritten ==
    ASSUME NEW n \in Nat, NEW b, DOMAIN b = 0 .. n - 1, NEW p \in 0 .. n - 1,
           NEW k, k # Tombstone, NEW d, L!Written(d, b, p, k)
    PROVE  Cardinality(Dead(d, n)) = Cardinality(Dead(b, n)) - (IF b[p] = Tombstone THEN 1 ELSE 0)
<1>1. d[p] = k /\ \A i \in 0 .. n - 1 : i # p => d[i] = b[i]
  BY DEF L!Written
<1>2. Dead(d, n) = Dead(b, n) \ {p} /\ (p \in Dead(b, n) <=> b[p] = Tombstone)
  BY <1>1 DEF Dead
<1>3. IsFiniteSet(Dead(b, n)) /\ Cardinality(Dead(b, n)) \in Nat
  BY CountsAreFinite
<1>4. CASE b[p] = Tombstone
  BY <1>2, <1>3, <1>4, FS_RemoveElement
<1>5. CASE b[p] # Tombstone
  <2>1. Dead(d, n) = Dead(b, n)
    BY <1>2, <1>5
  <2> QED BY <1>3, <1>5, <2>1
<1> QED BY <1>4, <1>5

\* u is s with one more lock, whose bucket i of the table d was free in s.
Enters(u, s, d, i) ==
    /\ u.buckets = d /\ u.size = s.size + 1
    /\ u.tombstones = s.tombstones - (IF s.buckets[i] = Tombstone THEN 1 ELSE 0)

\* A probe stops at either of two.
IsPair(stops, x, y) == stops = {x, y}

\* A lock that is not there, in the bucket where its probe finds room.
LEMMA SetEnters ==
    ASSUME NEW s, NEW n, IsSet(s, n), 2 * (s.size + s.tombstones + 1) <= n, NEW k \in Key,
           ~Has(s.buckets, n, k), NEW marks, IsPair(marks, NullKey, Tombstone),
           NEW i, i = L!Probe(s.buckets, keyHash[k], marks),
           NEW d, L!Written(d, s.buckets, i, k),
           NEW u, Enters(u, s, d, i)
    PROVE  /\ IsSet(u, n)
           /\ \A x \in Key : Has(d, n, x) <=> Has(s.buckets, n, x) \/ x = k
<1>1. PICK b : b = s.buckets
  OBVIOUS
<1>2. /\ IsTable(b, n) /\ L!IsPow2(n) /\ n >= 8
      /\ s.size = Cardinality(Live(b, n)) /\ s.tombstones = Cardinality(Dead(b, n))
  BY <1>1 DEF IsSet
<1>3. /\ n \in Nat \ {0} /\ DOMAIN b = 0 .. n - 1 /\ keyHash[k] \in Nat
      /\ NullKey \notin Key /\ Tombstone \notin Key
  BY <1>2, TableParts
<1>4. PICK o \in 0 .. n - 1 : b[o] = NullKey
  BY <1>1, SetParts
<1>5. b[i] \in marks /\ L!Reaches(b, keyHash[k], n, NullKey, i) /\ i \in 0 .. n - 1
  <2>1. NullKey \in marks
    BY DEF IsPair
  <2>2. b[i] \in marks /\ L!Reaches(b, keyHash[k], n, NullKey, i)
    BY <1>1, <1>3, <1>4, <2>1, L!ProbeReaches
  <2> QED BY <2>2 DEF L!Reaches
<1>6. IsTable(d, n)
  <2>1. \A j \in 0 .. n - 1 : b[j] # k
    BY <1>1 DEF Has
  <2> QED BY <1>1, <1>2, <1>5, <2>1, L!EnterKey DEF IsTable
<1>7. LockSet!IsLive(k) /\ ~LockSet!IsLive(b[i]) /\ \A x \in Key : LockSet!IsLive(x)
  BY <1>3, <1>5 DEF LockSet!IsLive, IsPair
<1>8. /\ Cardinality(Live(d, n)) = Cardinality(Live(b, n)) + 1
      /\ \A x : LockSet!IsLive(x) => (Has(d, n, x) <=> Has(b, n, x) \/ x = k)
  BY <1>1, <1>3, <1>5, <1>7, LiveWritten
<1>9. Cardinality(Dead(d, n)) = Cardinality(Dead(b, n)) - (IF b[i] = Tombstone THEN 1 ELSE 0)
  BY <1>1, <1>3, <1>5, DeadWritten
<1>10. s.size \in Nat /\ s.tombstones \in Nat
  BY SetParts
<1>11. u.size = Cardinality(Live(d, n)) /\ u.tombstones = Cardinality(Dead(d, n))
  BY <1>1, <1>2, <1>8, <1>9 DEF Enters
<1>12. 2 * (u.size + u.tombstones) <= n
  BY <1>3, <1>10 DEF Enters
<1>13. IsSet(u, n)
  <2>1. u.buckets = d
    BY DEF Enters
  <2> QED BY <1>2, <1>6, <1>11, <1>12, <2>1 DEF IsSet
<1> QED BY <1>1, <1>7, <1>8, <1>13

LEMMA ProbeHas ==
    ASSUME NEW s, NEW n, IsSet(s, n), NEW k \in Key, NEW stops, IsPair(stops, NullKey, k),
           NEW i, i = L!Probe(s.buckets, keyHash[k], stops)
    PROVE  /\ i \in 0 .. n - 1 /\ (s.buckets[i] = NullKey \/ s.buckets[i] = k)
           /\ \A j \in 0 .. n - 1 : s.buckets[j] = k => i = j
           /\ s.buckets[i] = k <=> Has(s.buckets, n, k)
<1>1. PICK b : b = s.buckets
  OBVIOUS
<1>2. PICK o \in 0 .. n - 1 : b[o] = NullKey
  BY <1>1, SetParts
<1>3. IsTable(b, n)
  BY <1>1 DEF IsSet
<1>4. NullKey \in stops /\ k \in stops /\ \A x \in stops : x = NullKey \/ x = k
  BY DEF IsPair
<1>5. /\ i \in 0 .. n - 1 /\ (b[i] = NullKey \/ b[i] = k)
      /\ \A j \in 0 .. n - 1 : b[j] = k => i = j
  BY <1>1, <1>2, <1>3, <1>4, L!ProbeFinds DEF IsTable
<1> QED BY <1>1, <1>5 DEF Has

\* insert enters a lock that is not there and leaves the others.
LEMMA InsertIs ==
    ASSUME NEW s, NEW n, IsSet(s, n), NEW k \in Key, NEW u, u = LockSet!Insert(s, keyHash, k)
    PROVE  \E c : /\ IsSet(u, c)
                  /\ \A x \in Key : Has(u.buckets, c, x) <=> Has(s.buckets, n, x) \/ x = k
                  /\ u.size = s.size + (IF Has(s.buckets, n, k) THEN 0 ELSE 1)
<1>1. PICK t : t = LockSet!MaybeRehash(s, keyHash)
  OBVIOUS
<1>2. PICK c : /\ IsSet(t, c) /\ t.size = s.size /\ 2 * (t.size + t.tombstones + 1) <= c
               /\ \A x \in Key : Has(t.buckets, c, x) <=> Has(s.buckets, n, x)
  BY <1>1, SetGrowthIs
<1>3. PICK stops, marks : IsPair(stops, NullKey, k) /\ IsPair(marks, NullKey, Tombstone)
  BY DEF IsPair
<1>4. PICK j, i : j = L!Probe(t.buckets, keyHash[k], stops) /\ i = L!Probe(t.buckets, keyHash[k], marks)
  OBVIOUS
<1>5. t.buckets[j] = k <=> Has(t.buckets, c, k)
  BY <1>2, <1>3, <1>4, ProbeHas
<1>6. u = IF t.buckets[j] = k THEN t
          ELSE [buckets    |-> [t.buckets EXCEPT ![i] = k],
                size       |-> t.size + 1,
                tombstones |-> t.tombstones - (IF t.buckets[i] = Tombstone THEN 1 ELSE 0)]
  BY <1>1, <1>3, <1>4, SameProbe DEF LockSet!Insert, IsPair
<1>7. s.size \in Nat
  BY SetParts
<1>8. CASE Has(t.buckets, c, k)
  <2>1. u = t
    BY <1>5, <1>6, <1>8
  <2> QED BY <1>2, <1>7, <1>8, <2>1
<1>9. CASE ~Has(t.buckets, c, k)
  <2>1. PICK d : d = [t.buckets EXCEPT ![i] = k]
    OBVIOUS
  <2>2. u = [buckets    |-> d,
             size       |-> t.size + 1,
             tombstones |-> t.tombstones - (IF t.buckets[i] = Tombstone THEN 1 ELSE 0)]
    BY <1>5, <1>6, <1>9, <2>1
  <2>3. Enters(u, t, d, i)
    BY <2>2 DEF Enters
  <2>4. u.buckets = d /\ u.size = t.size + 1
    BY <2>3 DEF Enters
  <2>5. L!Written(d, t.buckets, i, k)
    BY <2>1 DEF L!Written
  <2>6. IsSet(u, c) /\ \A x \in Key : Has(d, c, x) <=> Has(t.buckets, c, x) \/ x = k
    BY <1>2, <1>3, <1>4, <1>9, <2>3, <2>5, SetEnters
  <2> QED BY <1>2, <1>7, <1>9, <2>4, <2>6
<1> QED BY <1>8, <1>9

\* erase leaves a tombstone in the bucket of the lock.
LEMMA EraseIs ==
    ASSUME NEW s, NEW n, IsSet(s, n), NEW k \in Key, NEW u, u = LockSet!Erase(s, keyHash, k)
    PROVE  /\ IsSet(u, n)
           /\ \A x \in Key : Has(u.buckets, n, x) <=> Has(s.buckets, n, x) /\ x # k
<1>1. PICK b, stops : b = s.buckets /\ IsPair(stops, NullKey, k)
  BY DEF IsPair
<1>2. PICK i : i = L!Probe(b, keyHash[k], stops)
  OBVIOUS
<1>3. /\ i \in 0 .. n - 1 /\ (b[i] = NullKey \/ b[i] = k)
      /\ \A j \in 0 .. n - 1 : b[j] = k => i = j
      /\ b[i] = k <=> Has(b, n, k)
  BY <1>1, <1>2, ProbeHas
<1>4. u = IF b[i] = NullKey THEN s
          ELSE [buckets    |-> [b EXCEPT ![i] = Tombstone],
                size       |-> s.size - 1,
                tombstones |-> s.tombstones + 1]
  BY <1>1, <1>2, SameProbe DEF LockSet!Erase, IsPair
<1>5. /\ IsTable(b, n) /\ L!IsPow2(n) /\ n >= 8
      /\ s.size = Cardinality(Live(b, n)) /\ s.tombstones = Cardinality(Dead(b, n))
      /\ 2 * (s.size + s.tombstones) <= n
  BY <1>1 DEF IsSet
<1>6. /\ n \in Nat \ {0} /\ DOMAIN b = 0 .. n - 1
      /\ NullKey \notin Key /\ Tombstone \notin Key /\ NullKey # Tombstone
  BY <1>5, TableParts
<1>7. CASE b[i] = NullKey
  <2>1. u = s /\ ~Has(b, n, k)
    BY <1>3, <1>4, <1>6, <1>7
  <2> QED BY <1>1, <2>1
<1>8. CASE b[i] # NullKey
  <2>1. PICK d : d = [b EXCEPT ![i] = Tombstone]
    OBVIOUS
  <2>2. u = [buckets |-> d, size |-> s.size - 1, tombstones |-> s.tombstones + 1]
    BY <1>4, <1>8, <2>1
  <2>3. u.buckets = d /\ u.size = s.size - 1 /\ u.tombstones = s.tombstones + 1
    BY <2>2
  <2>4. IsTable(d, n)
    <3>1. L!Written(d, b, i, Tombstone) /\ Tombstone \in Graves
      BY <2>1 DEF L!Written, Graves
    <3> QED BY <1>3, <1>5, <1>8, <3>1, L!BuryKey DEF IsTable
  <2>5. d[i] = Tombstone /\ \A j \in 0 .. n - 1 : j # i => d[j] = b[j]
    BY <1>3, <1>6, <2>1
  <2>6. Live(d, n) = Live(b, n) \ {i} /\ i \in Live(b, n)
    BY <1>3, <1>6, <1>8, <2>5 DEF Live, LockSet!IsLive
  <2>7. Dead(d, n) = Dead(b, n) \cup {i} /\ i \notin Dead(b, n)
    BY <1>3, <1>6, <1>8, <2>5 DEF Dead
  <2>8. /\ IsFiniteSet(Live(b, n)) /\ Cardinality(Live(b, n)) \in Nat
        /\ IsFiniteSet(Dead(b, n)) /\ Cardinality(Dead(b, n)) \in Nat
    BY <1>6, CountsAreFinite
  <2>9. Cardinality(Live(d, n)) = Cardinality(Live(b, n)) - 1
    BY <2>6, <2>8, FS_RemoveElement
  <2>10. Cardinality(Dead(d, n)) = Cardinality(Dead(b, n)) + 1
    BY <2>7, <2>8, FS_AddElement
  <2>11. IsSet(u, n)
    BY <1>5, <1>6, <2>3, <2>4, <2>8, <2>9, <2>10 DEF IsSet
  <2>12. \A x \in Key : Has(d, n, x) <=> Has(b, n, x) /\ x # k
    BY <1>3, <1>6, <1>8, <2>5 DEF Has
  <2> QED BY <1>1, <2>3, <2>11, <2>12
<1> QED BY <1>7, <1>8

\* A new set, and one that was cleared.
LEMMA BlankSetIs ==
    ASSUME NEW n \in Nat, L!IsPow2(n), n >= 8, NullKey \notin Key, Tombstone \notin Key,
           NullKey # Tombstone, \A k \in Key : keyHash[k] \in Nat, NEW t, t = LockSet!Blank(n)
    PROVE  IsSet(t, n) /\ \A k \in Key : ~Has(t.buckets, n, k)
<1>1. PICK b : b = [i \in 0 .. n - 1 |-> NullKey]
  OBVIOUS
<1>2. t.buckets = b /\ t.size = 0 /\ t.tombstones = 0
  BY <1>1 DEF LockSet!Blank
<1>3. IsTable(b, n)
  <2>1. NullKey \notin Key \cup Graves /\ Key \cap Graves = {} /\ n \in Nat \ {0}
    BY DEF Graves
  <2> QED BY <1>1, <2>1, L!EmptyTable DEF IsTable
<1>4. Live(b, n) = {} /\ Dead(b, n) = {}
  BY <1>1 DEF Live, Dead, LockSet!IsLive
<1>5. IsSet(t, n)
  BY <1>2, <1>3, <1>4, FS_EmptySet DEF IsSet
<1>6. \A k \in Key : ~Has(b, n, k)
  BY <1>1 DEF Has
<1> QED BY <1>2, <1>5, <1>6

LEMMA ClearSetIs ==
    ASSUME NEW s, NEW n, IsSet(s, n), NEW t, t = LockSet!Clear(s)
    PROVE  IsSet(t, n) /\ \A k \in Key : ~Has(t.buckets, n, k)
<1>1. IsTable(s.buckets, n) /\ L!IsPow2(n) /\ n >= 8
  BY DEF IsSet
<1>2. /\ n \in Nat /\ NullKey \notin Key /\ Tombstone \notin Key /\ NullKey # Tombstone
      /\ \A k \in Key : keyHash[k] \in Nat
      /\ LockSet!Capacity(s.buckets) = n
  BY <1>1, TableParts
<1>3. t = LockSet!Blank(n)
  BY <1>2 DEF LockSet!Clear
<1> QED BY <1>1, <1>2, <1>3, BlankSetIs

\* reserve loses nothing.
LEMMA SetReserveIs ==
    ASSUME NEW s, NEW n, IsSet(s, n), NEW r \in Nat, NEW t, t = LockSet!Reserve(s, keyHash, r)
    PROVE  \E c : IsSet(t, c) /\ \A k \in Key : Has(t.buckets, c, k) <=> Has(s.buckets, n, k)
<1>1. n \in Nat /\ LockSet!Capacity(s.buckets) = n
  BY SetParts
<1>2. LockSet!BucketsNeeded(r) \in Nat
  BY DEF LockSet!BucketsNeeded, LockSet!MinCapacity
<1>3. PICK q \in Nat : q = LockSet!BucketsNeeded(r)
  BY <1>2
<1>4. CASE q > n
  <2>1. t = LockSet!Rehash(s, keyHash, q) /\ q >= n
    BY <1>1, <1>3, <1>4 DEF LockSet!Reserve
  <2>2. PICK c : c = LockSet!CapacityFor(q)
    OBVIOUS
  <2> QED BY <2>1, <2>2, SetRehashIs
<1>5. CASE ~(q > n)
  <2>1. t = s
    BY <1>1, <1>3, <1>5 DEF LockSet!Reserve
  <2> QED BY <2>1
<1> QED BY <1>4, <1>5

-----------------------------------------------------------------------------
(* Iterating over the set. *)

\* What bucket i of b adds to the sequence v that has been visited.
SetVisited(v, b, i) == IF LockSet!IsLive(b[i]) THEN Append(v, b[i]) ELSE v

SetWalk(f, s, n) ==
    /\ f[0] = <<>>
    /\ \A i \in 1 .. n : f[i] = SetVisited(f[i - 1], s.buckets, i - 1)
    /\ LockSet!Elements(s) = f[n]

LEMMA SetWalks ==
    ASSUME NEW s, NEW n, IsTable(s.buckets, n)
    PROVE  \E f : SetWalk(f, s, n)
<1> DEFINE b    == s.buckets
           S    == Seq(Key)
           body == [i \in 1 .. n |-> [v \in S |-> SetVisited(v, b, i - 1)]]
<1>1. << >> \in S
  OBVIOUS
<1>2. n \in Nat /\ LockSet!Capacity(b) = n
  BY TableParts
<1>3. L!IsBody(body, 1 .. n, S)
  <2>1. ASSUME NEW i \in 1 .. n, NEW v \in S PROVE SetVisited(v, b, i - 1) \in S
    <3>1. i - 1 \in 0 .. n - 1
      BY <1>2
    <3>2. LockSet!IsLive(b[i - 1]) => b[i - 1] \in Key
      BY <3>1, LiveIs
    <3> QED BY <3>2 DEF SetVisited
  <2> HIDE DEF S
  <2> QED BY <2>1 DEF L!IsBody
<1>4. PICK f \in [0 .. n -> S] : L!IsRun(f, << >>, body, 1 .. n)
  <2> HIDE DEF body, S
  <2>1. L!Runs(<< >>, body, n, S)
    BY <1>1, <1>2, <1>3, L!LoopRuns
  <2> QED BY <2>1 DEF L!Runs
<1>5. f[0] = << >> /\ \A i \in 1 .. n : f[i] = SetVisited(f[i - 1], b, i - 1)
  <2>1. ASSUME NEW i \in 1 .. n PROVE f[i] = SetVisited(f[i - 1], b, i - 1)
    <3>1. i - 1 \in 0 .. n /\ f[i - 1] \in S
      <4> HIDE DEF S
      <4> QED BY <1>2
    <3>2. body[i][f[i - 1]] = SetVisited(f[i - 1], b, i - 1)
      <4> HIDE DEF S
      <4> QED BY <3>1
    <3> HIDE DEF S, body
    <3> QED BY <1>4, <3>2 DEF L!IsRun
  <2> HIDE DEF S, body
  <2> QED BY <1>4, <2>1 DEF L!IsRun
<1> DEFINE Solves(g) ==
        g = [i \in 0 .. LockSet!Capacity(b) |->
                IF i = 0 THEN << >>
                ELSE IF LockSet!IsLive(b[i - 1]) THEN Append(g[i - 1], b[i - 1])
                ELSE g[i - 1]]
           seen == CHOOSE g : Solves(g)
<1>6. Solves(f)
  <2>1. \A i \in 0 .. n : f[i] =
            IF i = 0 THEN << >>
            ELSE IF LockSet!IsLive(b[i - 1]) THEN Append(f[i - 1], b[i - 1])
            ELSE f[i - 1]
    <3>1. ASSUME NEW i \in 0 .. n, i # 0 PROVE i \in 1 .. n
      BY <1>2, <3>1
    <3> HIDE DEF b, S, body
    <3> QED BY <1>5, <3>1 DEF SetVisited
  <2> HIDE DEF S
  <2> QED BY <1>2, <2>1
<1>7. Solves(seen)
  <2> HIDE DEF Solves
  <2> QED BY <1>6
<1>8. LockSet!Elements(s) = seen[n]
  BY <1>2 DEF LockSet!Elements
<1> HIDE DEF seen
<1>9. SetWalk(seen, s, n)
  <2>1. \A i \in 0 .. n : seen[i] =
            IF i = 0 THEN << >>
            ELSE IF LockSet!IsLive(b[i - 1]) THEN Append(seen[i - 1], b[i - 1])
            ELSE seen[i - 1]
    BY <1>2, <1>7
  <2> QED BY <1>2, <1>8, <2>1 DEF SetWalk, SetVisited
<1> QED BY <1>9

InSeq(v, k) == \E j \in 1 .. Len(v) : v[j] = k

\* What an iteration has visited after i buckets.
HasVisited(v, b, i) ==
    /\ v \in Seq(Key) /\ Len(v) = Cardinality(Live(b, i))
    /\ \A k \in Key : InSeq(v, k) <=> Has(b, i, k)

LEMMA SetWalkStep ==
    ASSUME NEW b, NEW n, IsTable(b, n), NEW i \in 0 .. n - 1, NEW v, HasVisited(v, b, i),
           NEW w, w = SetVisited(v, b, i)
    PROVE  HasVisited(w, b, i + 1)
<1>1. n \in Nat /\ i \in Nat
  BY TableParts
<1>2. \A x : Has(b, i + 1, x) <=> Has(b, i, x) \/ x = b[i]
  <2>1. \A j : j \in 0 .. (i + 1) - 1 <=> j \in 0 .. i - 1 \/ j = i
    BY <1>1
  <2> QED BY <2>1 DEF Has
<1>3. CASE ~LockSet!IsLive(b[i])
  <2>1. Live(b, i + 1) = Live(b, i) /\ b[i] \notin Key /\ w = v
    BY <1>1, <1>3, LiveUpTo, LiveIs DEF SetVisited
  <2> QED BY <1>2, <2>1 DEF HasVisited
<1>4. CASE LockSet!IsLive(b[i])
  <2>1. PICK k : k = b[i]
    OBVIOUS
  <2>2. k \in Key
    BY <1>4, <2>1, LiveIs
  <2>3. w = Append(v, k) /\ v \in Seq(Key)
    BY <1>4, <2>1 DEF SetVisited, HasVisited
  <2>4. Cardinality(Live(b, i + 1)) = Cardinality(Live(b, i)) + 1
    BY <1>1, <1>4, LiveCount
  <2>5. w \in Seq(Key) /\ Len(w) = Len(v) + 1
    BY <2>2, <2>3
  <2>6. w[Len(v) + 1] = k /\ \A j \in 1 .. Len(v) : w[j] = v[j]
    BY <2>2, <2>3
  <2>7. \A x : InSeq(w, x) <=> InSeq(v, x) \/ x = k
    <3>1. \A j : j \in 1 .. Len(w) <=> j \in 1 .. Len(v) \/ j = Len(v) + 1
      BY <2>3, <2>5
    <3> QED BY <2>6, <3>1 DEF InSeq
  <2> QED BY <1>2, <2>1, <2>4, <2>5, <2>7 DEF HasVisited
<1> QED BY <1>3, <1>4

\* Iteration visits the locks of the set, each of them once.
LEMMA ElementsAre ==
    ASSUME NEW s, NEW n, IsTable(s.buckets, n)
    PROVE  HasVisited(LockSet!Elements(s), s.buckets, n)
<1>1. n \in Nat
  BY TableParts
<1>2. PICK f : SetWalk(f, s, n)
  BY SetWalks
<1> DEFINE T == {i \in 0 .. n : HasVisited(f[i], s.buckets, i)}
<1>3. 0 \in T
  <2>1. f[0] = << >> /\ Live(s.buckets, 0) = {}
    BY <1>2 DEF SetWalk, Live
  <2>2. \A k : ~Has(s.buckets, 0, k) /\ ~InSeq(f[0], k)
    BY <2>1 DEF Has, InSeq
  <2>3. HasVisited(f[0], s.buckets, 0)
    BY <2>1, <2>2, FS_EmptySet DEF HasVisited
  <2> QED BY <1>1, <2>3
<1>4. ASSUME NEW i \in 0 .. n - 1, i \in T PROVE i + 1 \in T
  <2>1. i + 1 \in 1 .. n /\ (i + 1) - 1 = i
    BY <1>1
  <2>2. f[i + 1] = SetVisited(f[i], s.buckets, i)
    BY <1>2, <2>1 DEF SetWalk
  <2>3. HasVisited(f[i], s.buckets, i)
    BY <1>4
  <2>4. HasVisited(f[i + 1], s.buckets, i + 1)
    BY <2>2, <2>3, SetWalkStep
  <2> QED BY <2>1, <2>4
<1> HIDE DEF T
<1>5. n \in T
  <2>1. 0 .. n \subseteq T
    BY <1>1, <1>3, <1>4, L!InductionUpTo
  <2> QED BY <1>1, <2>1
<1>6. LockSet!Elements(s) = f[n]
  BY <1>2 DEF SetWalk
<1> QED BY <1>5, <1>6 DEF T

\* A set has as many locks as live buckets.
LEMMA LocksCounted ==
    ASSUME NEW b, NEW n, IsTable(b, n), NEW H, H = {k \in Key : Has(b, n, k)}
    PROVE  IsFiniteSet(H) /\ Cardinality(H) = Cardinality(Live(b, n))
<1>1. PICK S : S = Live(b, n)
  OBVIOUS
<1>2. n \in Nat
  BY TableParts
<1>3. IsFiniteSet(S)
  BY <1>1, <1>2, CountsAreFinite
<1>4. \A i : i \in S <=> i \in 0 .. n - 1 /\ b[i] \in Key
  BY <1>1, LiveIs DEF Live
<1>5. \A i \in S : b[i] \in H
  BY <1>4 DEF Has
<1>6. \A k \in H : \E i \in S : b[i] = k
  BY <1>4 DEF Has
<1>7. \A i \in S, j \in S : b[i] = b[j] => i = j
  BY <1>4 DEF IsTable, L!IsTable, L!NoneTwice
<1>8. ExistsBijection(S, H)
  <2>1. PICK f : f = [i \in S |-> b[i]]
    OBVIOUS
  <2>2. f \in [S -> H] /\ \A i \in S : f[i] = b[i]
    BY <1>5, <2>1
  <2>3. f \in Injection(S, H)
    BY <1>7, <2>2 DEF Injection, IsInjective
  <2>4. f \in Surjection(S, H)
    BY <1>6, <2>2 DEF Surjection
  <2> QED BY <2>3, <2>4 DEF ExistsBijection, Bijection
<1> QED BY <1>1, <1>3, <1>8, FS_Bijection

-----------------------------------------------------------------------------
(* The log.  TableLemmas proves about its own instance of the hash map, which *)
(* has the same definitions as Origin.                                        *)

LEMMA SameEnd == \A m : Origin!EndIndex(m) = L!EndIndex(m)
BY DEF Origin!EndIndex, L!EndIndex, Origin!Capacity, L!Capacity, Origin!Cardinality, L!Cardinality

LEMMA SameNew == Origin!New = L!New
BY DEF Origin!New, L!New, Origin!Blank, L!Blank, Origin!MinCapacity, L!MinCapacity

LEMMA SameClear == \A m : Origin!Clear(m) = L!Clear(m)
BY SameEnd DEF Origin!Clear, L!Clear, Origin!Blank, L!Blank

LEMMA SameFind == \A m, h, k : Origin!Find(m, h, k) = L!Find(m, h, k)
BY DEF Origin!Find, L!Find, Origin!Probe, L!Probe, Origin!EndIndex, L!EndIndex,
       Origin!Capacity, L!Capacity, Origin!Cardinality, L!Cardinality

LEMMA SameLogCapacityFor == \A n : Origin!CapacityFor(n) = L!CapacityFor(n)
BY DEF Origin!CapacityFor, L!CapacityFor, Origin!MinCapacity, L!MinCapacity, Origin!Max, L!Max,
       Origin!NextPow2, L!NextPow2, Origin!Pow2, L!Pow2

LEMMA SameInsert == \A m, h, k, v :
                        Origin!InsertWithoutGrow(m, h, k, v) = L!InsertWithoutGrow(m, h, k, v)
BY DEF Origin!InsertWithoutGrow, L!InsertWithoutGrow, Origin!Put, L!Put, Origin!Probe, L!Probe,
       Origin!Capacity, L!Capacity, Origin!Cardinality, L!Cardinality

LEMMA SameRehash == \A m, h, r : Origin!Rehash(m, h, r) = L!Rehash(m, h, r)
<1> TAKE m, h, r
<1>1. Origin!CapacityFor(r) = L!CapacityFor(r)
  BY SameLogCapacityFor
<1> QED BY <1>1 DEF Origin!Rehash, L!Rehash, Origin!InsertWithoutGrow, L!InsertWithoutGrow,
       Origin!Put, L!Put, Origin!Blank, L!Blank, Origin!Probe, L!Probe,
       Origin!EndIndex, L!EndIndex, Origin!Capacity, L!Capacity, Origin!Cardinality, L!Cardinality

LEMMA SameReserve == \A m, h, r : Origin!Reserve(m, h, r) = L!Reserve(m, h, r)
BY SameRehash, SameEnd DEF Origin!Reserve, L!Reserve, Origin!BucketsNeeded, L!BucketsNeeded,
       Origin!MinCapacity, L!MinCapacity

LEMMA SameEmplace == \A m, h, k, v : Origin!Emplace(m, h, k, v) = L!Emplace(m, h, k, v)
<1>1. \A m, h : Origin!MaybeRehash(m, h) = L!MaybeRehash(m, h)
  BY SameRehash, SameEnd DEF Origin!MaybeRehash, L!MaybeRehash
<1> QED BY <1>1, SameFind, SameEnd, SameInsert DEF Origin!Emplace, L!Emplace

IsLog(m, n) == L!IsMap(m, n, keyHash, Key) /\ L!IsCounted(m, n)

\* The keys that have an entry in E, and what it says of them.
KeysOf(E) == {k \in Key : \E v : <<k, v>> \in E}
LogOf(E)  == [k \in KeysOf(E) |-> CHOOSE v : <<k, v>> \in E]

\* find leads to the entry of a key, and there is only one.
LEMMA LogHas ==
    ASSUME NEW m, NEW n, IsLog(m, n), NEW k \in Key, NEW r, r = Origin!Find(m, keyHash, k)
    PROVE  /\ r # Origin!EndIndex(m) => <<k, m.second[r]>> \in L!Entries(m)
           /\ \A v : <<k, v>> \in L!Entries(m) => r # Origin!EndIndex(m) /\ v = m.second[r]
<1>1. L!MapTable(m, n, keyHash, Key) /\ L!UsedBy(m, n) # 0 .. n - 1
  BY L!MapHasRoom DEF IsLog
<1>2. n \in Nat /\ Origin!EndIndex(m) = n /\ k # NullKey
  BY <1>1, SameEnd, L!MapParts
<1>3. \/ r = n /\ \A j \in 0 .. n - 1 : m.first[j] # k
      \/ r \in 0 .. n - 1 /\ m.first[r] = k
  <2>1. r = L!Find(m, keyHash, k)
    BY SameFind
  <2> QED BY <1>1, <2>1, L!FindIs
<1>4. \A v : <<k, v>> \in L!Entries(m) <=> \E i \in 0 .. n - 1 : m.first[i] = k /\ m.second[i] = v
  BY <1>1, <1>2, L!EntryOf
<1>5. \A i \in 0 .. n - 1, j \in 0 .. n - 1 : m.first[i] = k /\ m.first[j] = k => i = j
  BY <1>1 DEF L!MapTable, L!IsTable, L!NoneTwice
<1>6. CASE r = n /\ \A j \in 0 .. n - 1 : m.first[j] # k
  BY <1>2, <1>4, <1>6
<1>7. CASE r \in 0 .. n - 1 /\ m.first[r] = k
  <2>1. r # n
    BY <1>2, <1>7
  <2> QED BY <1>2, <1>4, <1>5, <1>7, <2>1
<1> QED BY <1>3, <1>6, <1>7

LEMMA LogIs ==
    ASSUME NEW m, NEW n, IsLog(m, n),
           NEW K, K = {k \in Key : Origin!Find(m, keyHash, k) # Origin!EndIndex(m)}
    PROVE  [k \in K |-> m.second[Origin!Find(m, keyHash, k)]] = LogOf(L!Entries(m))
<1>1. PICK E : E = L!Entries(m)
  OBVIOUS
<1>2. \A k \in Key : k \in K <=> k \in KeysOf(E)
  BY <1>1, LogHas DEF KeysOf
<1>3. K = KeysOf(E)
  BY <1>2 DEF KeysOf
<1>4. ASSUME NEW k \in K PROVE m.second[Origin!Find(m, keyHash, k)] = CHOOSE v : <<k, v>> \in E
  <2>1. <<k, m.second[Origin!Find(m, keyHash, k)]>> \in E
    BY <1>1, LogHas
  <2>2. \A v : <<k, v>> \in E => v = m.second[Origin!Find(m, keyHash, k)]
    BY <1>1, LogHas
  <2> QED BY <2>1, <2>2
<1> QED BY <1>1, <1>3, <1>4 DEF LogOf

\* emplace enters a key that is not there; what is there stays.
LEMMA EmplaceLogs ==
    ASSUME NEW m, NEW n, IsLog(m, n), NEW k \in Key, NEW v,
           NEW t, t = Origin!Emplace(m, keyHash, k, v)
    PROVE  /\ \E c : IsLog(t, c)
           /\ L!Entries(t) = IF k \in KeysOf(L!Entries(m)) THEN L!Entries(m)
                             ELSE L!Entries(m) \cup {<<k, v>>}
<1>1. PICK E : E = L!Entries(m)
  OBVIOUS
<1>2. t = L!Emplace(m, keyHash, k, v)
  BY SameEmplace
<1>3. L!Lacks(m, n, k) <=> k \notin KeysOf(E)
  <2>1. L!MapTable(m, n, keyHash, Key)
    BY L!MapHasRoom DEF IsLog
  <2> QED BY <1>1, <2>1, L!LacksEntry DEF KeysOf
<1>4. CASE L!Lacks(m, n, k)
  BY <1>1, <1>2, <1>3, <1>4, L!EmplaceIs DEF IsLog
<1>5. CASE ~L!Lacks(m, n, k)
  <2>1. t = m
    BY <1>2, <1>5, L!EmplaceOld DEF IsLog
  <2> QED BY <1>1, <1>3, <1>5, <2>1
<1> QED BY <1>4, <1>5

LEMMA ReserveKeepsLog ==
    ASSUME NEW m, NEW n, IsLog(m, n), NEW r \in Nat, NEW t, t = Origin!Reserve(m, keyHash, r)
    PROVE  \E c : IsLog(t, c) /\ L!Entries(t) = L!Entries(m)
<1>1. t = L!Reserve(m, keyHash, r)
  BY SameReserve
<1> QED BY <1>1, L!ReserveIs DEF IsLog

LEMMA ClearedLog ==
    ASSUME NEW m, NEW n, IsLog(m, n), NEW t, t = Origin!Clear(m)
    PROVE  IsLog(t, n) /\ L!Entries(t) = {}
<1>1. t = L!Clear(m)
  BY SameClear
<1> QED BY <1>1, L!ClearIs DEF IsLog

LEMMA NewLog ==
    ASSUME NullKey \notin Key, \A k \in Key : keyHash[k] \in Nat, NEW t, t = Origin!New
    PROVE  IsLog(t, 8) /\ L!Entries(t) = {}
<1>1. t = L!New
  BY SameNew
<1> QED BY <1>1, L!NewIs DEF IsLog

-----------------------------------------------------------------------------
(* Both tables are sound in every state. *)

BooksInv ==
    /\ keyHash \in KeyHashes /\ alive \in SUBSET Key
    /\ \E n : IsSet(held, n)
    /\ \E n : IsLog(original, n)
    /\ L!Entries(original) \in SUBSET (Key \X BOOLEAN)

LEMMA KeysHashed ==
    ASSUME NEW h \in KeyHashes
    PROVE  /\ NullKey \notin Key /\ Tombstone \notin Key /\ NullKey # Tombstone
           /\ \A k \in Key : h[k] \in Nat
<1>1. h \in [Key \cup {NullKey} -> Nat]
  BY BooksAssumption
<1> QED BY <1>1, BooksAssumption

LEMMA BooksInvInit ==
    ASSUME BooksInit
    PROVE  BooksInv
<1>1. keyHash \in KeyHashes /\ alive \in SUBSET Key
  BY BooksAssumption DEF BooksInit
<1>2. /\ NullKey \notin Key /\ Tombstone \notin Key /\ NullKey # Tombstone
      /\ \A k \in Key : keyHash[k] \in Nat
  BY <1>1, KeysHashed
<1>3. IsSet(held, 8)
  <2>1. held = LockSet!Blank(8)
    BY DEF BooksInit, LockSet!New, LockSet!MinCapacity
  <2> QED BY <1>2, <2>1, BlankSetIs, L!EightIsPow2
<1>4. IsLog(original, 8) /\ L!Entries(original) = {}
  BY <1>2, NewLog DEF BooksInit
<1> QED BY <1>1, <1>3, <1>4 DEF BooksInv

\* A step that leaves a sound set and a sound log keeps the invariant.
LEMMA BooksInvStays ==
    ASSUME BooksInv, keyHash' = keyHash, alive' \in SUBSET Key,
           \E n : IsSet(held', n),
           \E n : IsLog(original', n), L!Entries(original') \in SUBSET (Key \X BOOLEAN)
    PROVE  BooksInv'
<1>1. \E n : IsSet(held, n)'
  BY DEF IsSet, IsTable
<1>2. \E n : IsLog(original, n)'
  BY DEF IsLog
<1> QED BY <1>1, <1>2 DEF BooksInv

\* What insert, erase, clear and reserve make of the set.
LEMMA SetCalls ==
    ASSUME BooksInv
    PROVE  /\ \A k \in Key : \E n : IsSet(LockSet!Insert(held, keyHash, k), n)
           /\ \A k \in Key : \E n : IsSet(LockSet!Erase(held, keyHash, k), n)
           /\ \A r \in Nat : \E n : IsSet(LockSet!Reserve(held, keyHash, r), n)
           /\ \E n : IsSet(LockSet!Clear(held), n)
<1>1. PICK n : IsSet(held, n)
  BY DEF BooksInv
<1>2. ASSUME NEW k \in Key PROVE \E c : IsSet(LockSet!Insert(held, keyHash, k), c)
  BY <1>1, InsertIs
<1>3. ASSUME NEW k \in Key PROVE \E c : IsSet(LockSet!Erase(held, keyHash, k), c)
  BY <1>1, EraseIs
<1>4. ASSUME NEW r \in Nat PROVE \E c : IsSet(LockSet!Reserve(held, keyHash, r), c)
  BY <1>1, SetReserveIs
<1>5. \E c : IsSet(LockSet!Clear(held), c)
  BY <1>1, ClearSetIs
<1> QED BY <1>2, <1>3, <1>4, <1>5

LEMMA BooksInvStep ==
    ASSUME BooksInv, BooksNext
    PROVE  BooksInv'
<1> USE DEF BooksInv
<1>1. /\ NullKey \notin Key /\ Tombstone \notin Key /\ NullKey # Tombstone
      /\ \A k \in Key : keyHash[k] \in Nat
  BY KeysHashed
<1>2. PICK p, q : IsSet(held, p) /\ IsLog(original, q)
  OBVIOUS
<1>3. CASE \E n \in BatchSizes : StartEdit(n)
  <2>1. PICK n \in Nat : StartEdit(n)
    BY <1>3, BooksAssumption
  <2>2. held.size + n \in Nat /\ original.size + n \in Nat
    BY <1>2, <2>1, SetParts DEF IsLog, L!IsMap
  <2>3. (\E c : IsSet(held', c)) /\ keyHash' = keyHash /\ alive' = alive
    BY <2>1, <2>2, SetCalls DEF StartEdit
  <2>4. \E c : IsLog(original', c) /\ L!Entries(original') = L!Entries(original)
    BY <1>2, <2>1, <2>2, ReserveKeepsLog DEF StartEdit
  <2> QED BY <2>3, <2>4, BooksInvStays
<1>4. CASE \E k \in Key : Acquire(k) \/ Erase(k) \/ Contains(k)
  <2>1. (\E c : IsSet(held', c)) /\ UNCHANGED <<keyHash, original, alive>>
    BY <1>2, <1>4, SetCalls DEF Acquire, Erase, Contains
  <2> QED BY <1>2, <2>1, BooksInvStays
<1>5. CASE \E k \in Key : EditTuple(k)
  <2>1. PICK k \in Key : EditTuple(k)
    BY <1>5
  <2>2. (\E c : IsSet(held', c)) /\ keyHash' = keyHash /\ alive' \in SUBSET Key
    BY <2>1, SetCalls DEF EditTuple
  <2>3. PICK v : v = (k \in alive)
    OBVIOUS
  <2>4. v \in BOOLEAN
    BY <2>3
  <2>5. original' = Origin!Emplace(original, keyHash, k, v)
    BY <2>1, <2>3 DEF EditTuple
  <2>6. /\ \E c : IsLog(original', c)
        /\ L!Entries(original') \subseteq L!Entries(original) \cup {<<k, v>>}
    BY <1>2, <2>5, EmplaceLogs
  <2>7. L!Entries(original') \in SUBSET (Key \X BOOLEAN)
    BY <2>4, <2>6
  <2> QED BY <2>2, <2>6, <2>7, BooksInvStays
<1>6. CASE Commit \/ Rollback
  <2>1. original' = Origin!New /\ keyHash' = keyHash /\ held' = LockSet!Clear(held)
    BY <1>6 DEF Commit, Rollback, ReleaseLocks
  <2>2. IsLog(original', 8) /\ L!Entries(original') = {}
    BY <1>1, <2>1, NewLog
  <2>3. \E c : IsSet(held', c)
    BY <2>1, SetCalls
  <2>4. alive' \in SUBSET Key
    <3>1. CASE Commit
      BY <3>1 DEF Commit
    <3>2. CASE Rollback
      <4>1. L!MapTable(original, q, keyHash, Key)
        BY <1>2 DEF IsLog, L!IsMap
      <4>2. \A i \in DOMAIN original.first : original.first[i] # NullKey => original.first[i] \in Key
        BY <4>1, L!MapParts
      <4> QED BY <3>2, <4>2 DEF Rollback
    <3> QED BY <1>6, <3>1, <3>2
  <2> QED BY <2>1, <2>2, <2>3, <2>4, BooksInvStays
<1>7. CASE Forget
  <2>1. (\E c : IsLog(original', c) /\ L!Entries(original') = {}) /\ UNCHANGED <<keyHash, held, alive>>
    BY <1>2, <1>7, ClearedLog DEF Forget
  <2> QED BY <2>1, BooksInvStays
<1> QED BY <1>3, <1>4, <1>5, <1>6, <1>7 DEF BooksNext, OtherCalls

LEMMA BooksInvSound ==
    ASSUME BooksInv
    PROVE  TablesSound
<1>1. PICK n, q : IsSet(held, n) /\ IsLog(original, q)
  BY DEF BooksInv
<1>2. IsTable(held.buckets, n) /\ L!MapTable(original, q, keyHash, Key)
  BY <1>1 DEF IsSet, IsLog, L!IsMap
<1>3. DOMAIN held.buckets = 0 .. n - 1 /\ LockSet!Capacity(held.buckets) = n
  BY <1>2, TableParts
<1>4. DOMAIN original.first = 0 .. q - 1 /\ Origin!EndIndex(original) = q
  BY <1>2, L!MapParts, SameEnd
<1>5. held.size = Len(LockSet!Elements(held))
  BY <1>1, <1>2, ElementsAre DEF HasVisited, IsSet
<1>6. held.tombstones = Cardinality({i \in DOMAIN held.buckets : held.buckets[i] = Tombstone})
  BY <1>1, <1>3 DEF IsSet, Dead
<1>7. original.size = Cardinality({i \in DOMAIN original.first : original.first[i] # NullKey})
  BY <1>1, <1>4, SameCardinality DEF IsLog, L!IsCounted, L!UsedBy, L!Used
<1>8. 2 * (held.size + held.tombstones) <= n /\ 2 * original.size <= q
  BY <1>1 DEF IsSet, IsLog, L!IsMap
<1> QED BY <1>3, <1>4, <1>5, <1>6, <1>7, <1>8 DEF TablesSound

LEMMA BooksInvariant == BooksSpec => []BooksInv
<1>1. BooksInit => BooksInv
  BY BooksInvInit
<1>2. BooksInv /\ [BooksNext]_booksVars => BooksInv'
  <2>1. CASE BooksNext
    BY <2>1, BooksInvStep
  <2>2. CASE UNCHANGED booksVars
    BY <2>2 DEF booksVars, BooksInv, IsSet, IsTable, IsLog
  <2> QED BY <2>1, <2>2
<1> QED BY <1>1, <1>2, PTL DEF BooksSpec

\* TablesSound, for all addresses, hash functions and sizes of files: both
\* counters of the set and that of the map count, and neither table is ever
\* more than half full.
THEOREM TablesStaySound == BooksSpec => []TablesSound
<1>1. BooksInv => TablesSound
  BY BooksInvSound
<1> QED BY <1>1, BooksInvariant, PTL

-----------------------------------------------------------------------------
(* The tables implement LockBook. *)

\* The refinement mapping: the locks and the log that two tables stand for.
LocksIn(s)  == {k \in Key : LockSet!Holds(s, keyHash, k)}
FirstsIn(m) == [k \in {q \in Key : Origin!Find(m, keyHash, q) # Origin!EndIndex(m)} |->
                   m.second[Origin!Find(m, keyHash, k)]]

LEMMA LocksInIs ==
    ASSUME NEW s, NEW n, IsSet(s, n), NEW k \in Key
    PROVE  k \in LocksIn(s) <=> Has(s.buckets, n, k)
BY HoldsIs DEF LocksIn

LEMMA InsertLocks ==
    ASSUME NEW s, NEW n, IsSet(s, n), NEW k \in Key, NEW t, t = LockSet!Insert(s, keyHash, k)
    PROVE  /\ LocksIn(t) = LocksIn(s) \cup {k}
           /\ t.size > s.size <=> k \notin LocksIn(s)
<1>1. PICK c : /\ IsSet(t, c)
               /\ \A x \in Key : Has(t.buckets, c, x) <=> Has(s.buckets, n, x) \/ x = k
               /\ t.size = s.size + (IF Has(s.buckets, n, k) THEN 0 ELSE 1)
  BY InsertIs
<1>2. \A x \in Key : x \in LocksIn(t) <=> x \in LocksIn(s) \/ x = k
  BY <1>1, LocksInIs
<1>3. LocksIn(t) = LocksIn(s) \cup {k}
  BY <1>2 DEF LocksIn
<1>4. s.size \in Nat /\ (k \in LocksIn(s) <=> Has(s.buckets, n, k))
  BY SetParts, LocksInIs
<1> QED BY <1>1, <1>3, <1>4

LEMMA EraseLocks ==
    ASSUME NEW s, NEW n, IsSet(s, n), NEW k \in Key, NEW t, t = LockSet!Erase(s, keyHash, k)
    PROVE  LocksIn(t) = LocksIn(s) \ {k}
<1>1. \A x \in Key : x \in LocksIn(t) <=> x \in LocksIn(s) /\ x # k
  BY EraseIs, LocksInIs
<1> QED BY <1>1 DEF LocksIn

LEMMA ReserveLocks ==
    ASSUME NEW s, NEW n, IsSet(s, n), NEW r \in Nat, NEW t, t = LockSet!Reserve(s, keyHash, r)
    PROVE  LocksIn(t) = LocksIn(s)
<1>1. PICK c : IsSet(t, c) /\ \A k \in Key : Has(t.buckets, c, k) <=> Has(s.buckets, n, k)
  BY SetReserveIs
<1>2. \A x \in Key : x \in LocksIn(t) <=> x \in LocksIn(s)
  BY <1>1, LocksInIs
<1> QED BY <1>2 DEF LocksIn

LEMMA ClearLocks ==
    ASSUME NEW s, NEW n, IsSet(s, n), NEW t, t = LockSet!Clear(s)
    PROVE  LocksIn(t) = {}
<1>1. \A x \in Key : x \notin LocksIn(t)
  BY ClearSetIs, LocksInIs
<1> QED BY <1>1 DEF LocksIn

LEMMA VisitedLocks ==
    ASSUME NEW s, NEW n, IsSet(s, n), NEW v, v = LockSet!Elements(s)
    PROVE  /\ Len(v) = Cardinality(LocksIn(s))
           /\ {v[i] : i \in DOMAIN v} = LocksIn(s)
<1>1. PICK b : b = s.buckets
  OBVIOUS
<1>2. IsTable(b, n)
  BY <1>1 DEF IsSet
<1>3. v \in Seq(Key) /\ Len(v) = Cardinality(Live(b, n)) /\ \A k \in Key : InSeq(v, k) <=> Has(b, n, k)
  BY <1>1, <1>2, ElementsAre DEF HasVisited
<1>4. \A k \in Key : k \in LocksIn(s) <=> Has(b, n, k)
  BY <1>1, LocksInIs
<1>5. LocksIn(s) = {k \in Key : Has(b, n, k)}
  BY <1>4 DEF LocksIn
<1>6. Len(v) = Cardinality(LocksIn(s))
  BY <1>2, <1>3, <1>5, LocksCounted
<1>7. \A k : k \in {v[i] : i \in DOMAIN v} <=> k \in Key /\ InSeq(v, k)
  BY <1>3 DEF InSeq
<1>8. {v[i] : i \in DOMAIN v} = LocksIn(s)
  BY <1>3, <1>5, <1>7
<1> QED BY <1>6, <1>8

LEMMA FirstsAre ==
    ASSUME NEW m, NEW n, IsLog(m, n)
    PROVE  FirstsIn(m) = LogOf(L!Entries(m))
BY LogIs DEF FirstsIn

LEMMA NoEntries == LogOf({}) = << >>
<1>1. KeysOf({}) = {}
  BY DEF KeysOf
<1> QED BY <1>1 DEF LogOf

\* f with k -> v added, unless it has k.
Extended(f, k, v) == [q \in DOMAIN f \cup {k} |-> IF q \in DOMAIN f THEN f[q] ELSE v]

\* The log after an entry for a key without one.
LEMMA LogGrows ==
    ASSUME NEW E, NEW k \in Key, k \notin KeysOf(E), NEW v
    PROVE  LogOf(E \cup {<<k, v>>}) = Extended(LogOf(E), k, v)
<1>1. PICK F : F = E \cup {<<k, v>>}
  OBVIOUS
<1>2. \A q, x : <<q, x>> \in F <=> <<q, x>> \in E \/ (q = k /\ x = v)
  BY <1>1
<1>3. KeysOf(F) = KeysOf(E) \cup {k}
  BY <1>2 DEF KeysOf
<1>4. ASSUME NEW q \in KeysOf(E)
      PROVE  (CHOOSE x : <<q, x>> \in F) = CHOOSE x : <<q, x>> \in E
  <2>1. \A x : <<q, x>> \in F <=> <<q, x>> \in E
    BY <1>2
  <2> QED BY <2>1
<1>5. ASSUME NEW q, q = k PROVE (CHOOSE x : <<q, x>> \in F) = v
  <2>1. \A x : <<q, x>> \in F <=> x = v
    BY <1>2, <1>5 DEF KeysOf
  <2> QED BY <2>1
<1>6. \A q \in KeysOf(E) : LogOf(E)[q] = CHOOSE x : <<q, x>> \in E
  BY DEF LogOf
<1>7. ASSUME NEW q \in KeysOf(E) \cup {k}
      PROVE  (CHOOSE x : <<q, x>> \in F) = IF q \in KeysOf(E) THEN LogOf(E)[q] ELSE v
  <2>1. CASE q \in KeysOf(E)
    <3>1. (CHOOSE x : <<q, x>> \in F) = CHOOSE x : <<q, x>> \in E
      BY <1>4, <2>1
    <3> QED BY <1>6, <2>1, <3>1
  <2>2. CASE q \notin KeysOf(E)
    <3>1. q = k
      BY <2>2
    <3> QED BY <1>5, <2>2, <3>1
  <2> QED BY <2>1, <2>2
<1>8. LogOf(F) = [q \in KeysOf(E) \cup {k} |-> CHOOSE x : <<q, x>> \in F]
  BY <1>3 DEF LogOf
<1>9. Extended(LogOf(E), k, v) =
          [q \in KeysOf(E) \cup {k} |-> IF q \in KeysOf(E) THEN LogOf(E)[q] ELSE v]
  <2>1. DOMAIN LogOf(E) = KeysOf(E)
    BY DEF LogOf
  <2> QED BY <2>1 DEF Extended
<1> QED BY <1>1, <1>7, <1>8, <1>9

\* The restored tuples are those that the log has seen alive, and dead.
WasAlive(m, b) ==
    {m.first[i] : i \in {j \in {x \in DOMAIN m.first : m.first[x] # NullKey} : m.second[j] = b}}

LEMMA WasAliveIs ==
    ASSUME NEW m, NEW n, IsLog(m, n), NEW b, NEW k
    PROVE  k \in WasAlive(m, b) <=> <<k, b>> \in L!Entries(m)
<1>1. L!MapTable(m, n, keyHash, Key)
  BY DEF IsLog, L!IsMap
<1>2. <<k, b>> \in L!Entries(m) <=> k # NullKey /\ \E i \in 0 .. n - 1 : m.first[i] = k /\ m.second[i] = b
  BY <1>1, L!EntryOf
<1>3. DOMAIN m.first = 0 .. n - 1
  BY <1>1, L!MapParts
<1> QED BY <1>2, <1>3 DEF WasAlive

RestoredBy(F, A) == {k \in Key : IF k \in DOMAIN F THEN F[k] ELSE k \in A}

LEMMA Restored ==
    ASSUME NEW m, NEW n, IsLog(m, n), L!Entries(m) \in SUBSET (Key \X BOOLEAN),
           NEW A \in SUBSET Key, NEW R, R = (A \cup WasAlive(m, TRUE)) \ WasAlive(m, FALSE)
    PROVE  R = RestoredBy(FirstsIn(m), A)
<1>1. PICK E, F : E = L!Entries(m) /\ F = FirstsIn(m)
  OBVIOUS
<1>2. \A k : (k \in WasAlive(m, TRUE) <=> <<k, TRUE>> \in E) /\ (k \in WasAlive(m, FALSE) <=> <<k, FALSE>> \in E)
  BY <1>1, WasAliveIs
<1>3. F = LogOf(E)
  BY <1>1, FirstsAre
<1>4. ASSUME NEW k \in Key PROVE k \in R <=> IF k \in DOMAIN F THEN F[k] ELSE k \in A
  <2>1. CASE k \in KeysOf(E)
    <3>1. PICK v : <<k, v>> \in E
      BY <2>1 DEF KeysOf
    <3>2. \A x : <<k, x>> \in E => x = v
      <4>1. PICK r : r = Origin!Find(m, keyHash, k)
        OBVIOUS
      <4>2. \A x : <<k, x>> \in E => x = m.second[r]
        BY <1>1, <4>1, LogHas
      <4> QED BY <3>1, <4>2
    <3>3. k \in DOMAIN F /\ F[k] = v
      BY <1>3, <2>1, <3>1, <3>2 DEF LogOf
    <3>4. v \in BOOLEAN
      BY <1>1, <3>1
    <3>5. CASE v = TRUE
      <4>1. <<k, TRUE>> \in E /\ <<k, FALSE>> \notin E
        BY <3>1, <3>2, <3>5
      <4> QED BY <1>2, <3>3, <3>5, <4>1
    <3>6. CASE v = FALSE
      <4>1. <<k, FALSE>> \in E
        BY <3>1, <3>6
      <4> QED BY <1>2, <3>3, <3>6, <4>1
    <3> QED BY <3>4, <3>5, <3>6
  <2>2. CASE k \notin KeysOf(E)
    <3>1. k \notin DOMAIN F /\ \A x : <<k, x>> \notin E
      BY <1>3, <2>2 DEF KeysOf, LogOf
    <3> QED BY <1>2, <3>1
  <2> QED BY <2>1, <2>2
<1>5. \A k \in R : k \in Key
  BY <1>1, <1>2
<1>6. R = {k \in Key : IF k \in DOMAIN F THEN F[k] ELSE k \in A}
  BY <1>4, <1>5
<1> QED BY <1>1, <1>6 DEF RestoredBy

\* The state of LockBook.
HeldLocks == {k \in Key : LockSet!Holds(held, keyHash, k)}
Firsts    == [k \in Logged |-> original.second[Origin!Find(original, keyHash, k)]]

LEMMA MappedNow ==
    HeldLocks = LocksIn(held) /\ Firsts = FirstsIn(original)
BY DEF HeldLocks, LocksIn, Firsts, Logged, FirstsIn

LEMMA MappedNext ==
    ASSUME keyHash' = keyHash
    PROVE  HeldLocks' = LocksIn(held') /\ Firsts' = FirstsIn(original')
BY DEF HeldLocks, LocksIn, Firsts, Logged, FirstsIn

LEMMA BookStarts ==
    ASSUME BooksInit
    PROVE  Book!BookInit
<1>1. keyHash \in KeyHashes /\ alive \in SUBSET Key
  BY BooksAssumption DEF BooksInit
<1>2. /\ NullKey \notin Key /\ Tombstone \notin Key /\ NullKey # Tombstone
      /\ \A k \in Key : keyHash[k] \in Nat
  BY <1>1, KeysHashed
<1>3. HeldLocks = {}
  <2>1. held = LockSet!Blank(8)
    BY DEF BooksInit, LockSet!New, LockSet!MinCapacity
  <2>2. IsSet(held, 8) /\ \A k \in Key : ~Has(held.buckets, 8, k)
    BY <1>2, <2>1, BlankSetIs, L!EightIsPow2
  <2>3. \A k \in Key : k \notin LocksIn(held)
    BY <2>2, LocksInIs
  <2> QED BY <2>3, MappedNow DEF LocksIn
<1>4. Firsts = << >>
  <2>1. IsLog(original, 8) /\ L!Entries(original) = {}
    BY <1>2, NewLog DEF BooksInit
  <2> QED BY <2>1, FirstsAre, NoEntries, MappedNow
<1>5. answer = Book!Nothing
  BY DEF BooksInit, Nothing, Said, Book!Nothing, Book!Said
<1> QED BY <1>1, <1>3, <1>4, <1>5 DEF Book!BookInit, HeldLocks, Firsts

LEMMA StartEditStutters ==
    ASSUME BooksInv, NEW n \in Nat, StartEdit(n)
    PROVE  UNCHANGED Book!bookVars
<1>1. PICK p, q : IsSet(held, p) /\ IsLog(original, q)
  BY DEF BooksInv
<1>2. held.size + n \in Nat /\ original.size + n \in Nat
  BY <1>1, SetParts DEF IsLog, L!IsMap
<1>3. HeldLocks' = HeldLocks
  <2>1. LocksIn(held') = LocksIn(held)
    BY <1>1, <1>2, ReserveLocks DEF StartEdit
  <2> QED BY <2>1, MappedNow, MappedNext DEF StartEdit
<1>4. Firsts' = Firsts
  <2>1. PICK c : IsLog(original', c) /\ L!Entries(original') = L!Entries(original)
    BY <1>1, <1>2, ReserveKeepsLog DEF StartEdit
  <2>2. FirstsIn(original') = FirstsIn(original)
    BY <1>1, <2>1, FirstsAre
  <2> QED BY <2>2, MappedNow, MappedNext DEF StartEdit
<1>5. UNCHANGED <<alive, answer>>
  BY DEF StartEdit
<1> QED BY <1>3, <1>4, <1>5 DEF Book!bookVars, HeldLocks, Firsts

LEMMA AcquireInserts ==
    ASSUME BooksInv, NEW k \in Key, Acquire(k)
    PROVE  Book!BookInsert(k)
<1>1. PICK p : IsSet(held, p)
  BY DEF BooksInv
<1>2. LocksIn(held') = LocksIn(held) \cup {k} /\ (held'.size > held.size <=> k \notin LocksIn(held))
  BY <1>1, InsertLocks DEF Acquire
<1>3. HeldLocks' = HeldLocks \cup {k} /\ (held'.size > held.size <=> k \notin HeldLocks)
  BY <1>2, MappedNow, MappedNext DEF Acquire
<1>4. answer' = Book!Said(k \notin HeldLocks)
  BY <1>3 DEF Acquire, Said, Book!Said
<1>5. UNCHANGED <<alive, Firsts>>
  BY DEF Acquire, Firsts, Logged
<1> QED BY <1>3, <1>4, <1>5 DEF Book!BookInsert, HeldLocks, Firsts

LEMMA EraseErases ==
    ASSUME BooksInv, NEW k \in Key, Erase(k)
    PROVE  Book!BookErase(k)
<1>1. PICK p : IsSet(held, p)
  BY DEF BooksInv
<1>2. LocksIn(held') = LocksIn(held) \ {k}
  BY <1>1, EraseLocks DEF Erase
<1>3. HeldLocks' = HeldLocks \ {k}
  BY <1>2, MappedNow, MappedNext DEF Erase
<1>4. answer' = Book!Said(k \in HeldLocks)
  <2>1. LockSet!Holds(held, keyHash, k) <=> k \in HeldLocks
    BY DEF HeldLocks
  <2> QED BY <2>1 DEF Erase, Said, Book!Said, LockSet!Holds
<1>5. UNCHANGED <<alive, Firsts>>
  BY DEF Erase, Firsts, Logged
<1> QED BY <1>3, <1>4, <1>5 DEF Book!BookErase, HeldLocks, Firsts

LEMMA ContainsAsks ==
    ASSUME NEW k \in Key, Contains(k)
    PROVE  Book!BookContains(k)
<1>1. answer' = Book!Said(k \in HeldLocks)
  <2>1. LockSet!Holds(held, keyHash, k) <=> k \in HeldLocks
    BY DEF HeldLocks
  <2> QED BY <2>1 DEF Contains, Said, Book!Said, LockSet!Holds
<1>2. UNCHANGED <<alive, HeldLocks, Firsts>>
  BY DEF Contains, HeldLocks, Firsts, Logged
<1> QED BY <1>1, <1>2 DEF Book!BookContains, HeldLocks, Firsts

LEMMA EditTupleChanges ==
    ASSUME BooksInv, NEW k \in Key, EditTuple(k)
    PROVE  Book!BookChange(k)
<1>1. PICK p, q : IsSet(held, p) /\ IsLog(original, q)
  BY DEF BooksInv
<1>2. HeldLocks' = HeldLocks \cup {k}
  <2>1. LocksIn(held') = LocksIn(held) \cup {k}
    BY <1>1, InsertLocks DEF EditTuple
  <2> QED BY <2>1, MappedNow, MappedNext DEF EditTuple
<1>3. PICK v : v = (k \in alive)
  OBVIOUS
<1>4. PICK c : /\ IsLog(original', c)
               /\ L!Entries(original') = IF k \in KeysOf(L!Entries(original)) THEN L!Entries(original)
                                         ELSE L!Entries(original) \cup {<<k, v>>}
  <2>1. original' = Origin!Emplace(original, keyHash, k, v)
    BY <1>3 DEF EditTuple
  <2> QED BY <1>1, <2>1, EmplaceLogs
<1>5. PICK E : E = L!Entries(original)
  OBVIOUS
<1>6. Firsts = LogOf(E) /\ Firsts' = LogOf(L!Entries(original'))
  BY <1>1, <1>4, <1>5, FirstsAre, MappedNow, MappedNext DEF EditTuple
<1>7. DOMAIN Firsts = KeysOf(E)
  BY <1>6 DEF LogOf
<1>8. Firsts' = [x \in DOMAIN Firsts \cup {k} |-> IF x \in DOMAIN Firsts THEN Firsts[x] ELSE v]
  <2>1. CASE k \in KeysOf(E)
    <3>1. Firsts' = LogOf(E) /\ DOMAIN Firsts \cup {k} = KeysOf(E)
      BY <1>4, <1>6, <1>7, <1>5, <2>1
    <3>2. LogOf(E) = [x \in KeysOf(E) |-> LogOf(E)[x]]
      <4>1. \A x \in KeysOf(E) : LogOf(E)[x] = CHOOSE y : <<x, y>> \in E
        BY DEF LogOf
      <4>2. LogOf(E) = [x \in KeysOf(E) |-> CHOOSE y : <<x, y>> \in E]
        BY DEF LogOf
      <4> QED BY <4>1, <4>2
    <3> QED BY <1>6, <1>7, <3>1, <3>2
  <2>2. CASE k \notin KeysOf(E)
    <3>1. LogOf(E \cup {<<k, v>>}) = Extended(LogOf(E), k, v)
      BY <2>2, LogGrows
    <3>2. Firsts' = LogOf(E \cup {<<k, v>>})
      BY <1>4, <1>6, <1>5, <2>2
    <3> QED BY <1>6, <3>1, <3>2 DEF Extended
  <2> QED BY <2>1, <2>2
<1>9. Firsts' = [x \in DOMAIN Firsts \cup {k} |->
                    IF x \in DOMAIN Firsts THEN Firsts[x] ELSE x \in alive]
  <2>1. \A x \in DOMAIN Firsts \cup {k} : x \notin DOMAIN Firsts => (x \in alive) = v
    BY <1>3
  <2> QED BY <1>8, <2>1
<1>10. answer' = Book!Nothing /\ alive' = IF k \in alive THEN alive \ {k} ELSE alive \cup {k}
  BY DEF EditTuple, Nothing, Said, Book!Nothing, Book!Said
<1> QED BY <1>2, <1>9, <1>10 DEF Book!BookChange, HeldLocks, Firsts

LEMMA ReleaseReleases ==
    ASSUME BooksInv, ReleaseLocks, original' = Origin!New, keyHash' = keyHash
    PROVE  Book!BookRelease
<1>1. PICK p : IsSet(held, p)
  BY DEF BooksInv
<1>2. PICK v : v = LockSet!Elements(held)
  OBVIOUS
<1>3. Len(v) = Cardinality(LocksIn(held)) /\ {v[i] : i \in DOMAIN v} = LocksIn(held)
  BY <1>1, <1>2, VisitedLocks
<1>4. Len(v) = Book!Cardinality(HeldLocks) /\ Book!ToSet(v) = HeldLocks
  BY <1>3, MappedNow DEF Book!ToSet, Cardinality, Book!Cardinality
<1>5. ~answer'.was /\ answer'.visited = v
  BY <1>2 DEF ReleaseLocks, Visited
<1>6. HeldLocks' = {}
  <2>1. LocksIn(held') = {}
    BY <1>1, ClearLocks DEF ReleaseLocks
  <2> QED BY <2>1, MappedNext
<1>7. Firsts' = << >>
  <2>1. NullKey \notin Key /\ \A k \in Key : keyHash[k] \in Nat
    BY KeysHashed DEF BooksInv
  <2>2. IsLog(original', 8) /\ L!Entries(original') = {}
    BY <2>1, NewLog
  <2> QED BY <2>2, FirstsAre, NoEntries, MappedNext
<1> QED BY <1>4, <1>5, <1>6, <1>7 DEF Book!BookRelease, HeldLocks, Firsts

LEMMA CommitCommits ==
    ASSUME BooksInv, Commit
    PROVE  Book!BookCommit
<1>1. Book!BookRelease
  BY ReleaseReleases DEF Commit
<1> QED BY <1>1 DEF Commit, Book!BookCommit

LEMMA RollbackRollsBack ==
    ASSUME BooksInv, Rollback
    PROVE  Book!BookRollback
<1>1. PICK q : IsLog(original, q) /\ L!Entries(original) \in SUBSET (Key \X BOOLEAN) /\ alive \in SUBSET Key
  BY DEF BooksInv
<1>2. Book!BookRelease
  BY ReleaseReleases DEF Rollback
<1>3. alive' = (alive \cup WasAlive(original, TRUE)) \ WasAlive(original, FALSE)
  BY DEF Rollback, WasAlive
<1>4. PICK R, A : R = alive' /\ A = alive
  OBVIOUS
<1>5. R = RestoredBy(FirstsIn(original), A)
  BY <1>1, <1>3, <1>4, Restored
<1>6. alive' = {k \in Key : IF k \in DOMAIN Firsts THEN Firsts[k] ELSE k \in alive}
  BY <1>4, <1>5, MappedNow DEF RestoredBy
<1> QED BY <1>2, <1>6 DEF Book!BookRollback, Firsts

LEMMA ForgetForgets ==
    ASSUME BooksInv, Forget
    PROVE  Book!BookForget
<1>1. PICK q : IsLog(original, q)
  BY DEF BooksInv
<1>2. Firsts' = << >>
  <2>1. IsLog(original', q) /\ L!Entries(original') = {}
    BY <1>1, ClearedLog DEF Forget
  <2> QED BY <2>1, FirstsAre, NoEntries, MappedNext DEF Forget
<1>3. UNCHANGED <<alive, HeldLocks>> /\ answer' = Book!Nothing
  BY DEF Forget, HeldLocks, Nothing, Said, Book!Nothing, Book!Said
<1> QED BY <1>2, <1>3 DEF Book!BookForget, HeldLocks, Firsts

LEMMA BookStep ==
    ASSUME BooksInv, [BooksNext]_booksVars
    PROVE  [Book!BookNext]_Book!bookVars
<1>1. CASE \E n \in BatchSizes : StartEdit(n)
  BY <1>1, StartEditStutters, BooksAssumption
<1>2. CASE \E k \in Key : Acquire(k) \/ EditTuple(k)
  BY <1>2, AcquireInserts, EditTupleChanges DEF Book!BookNext
<1>3. CASE Commit \/ Rollback
  BY <1>3, CommitCommits, RollbackRollsBack DEF Book!BookNext
<1>4. CASE (\E k \in Key : Erase(k) \/ Contains(k)) \/ Forget
  BY <1>4, EraseErases, ContainsAsks, ForgetForgets DEF Book!BookNext
<1>5. CASE UNCHANGED booksVars
  BY <1>5 DEF booksVars, Book!bookVars, Logged
<1> QED BY <1>1, <1>2, <1>3, <1>4, <1>5 DEF BooksNext, OtherCalls

\* TablesKeepBook, for all addresses, hash functions and sizes of files: in
\* any sequence of calls the two tables answer like a set and a log of first
\* values.  Tombstones and rehashes lose, invent and duplicate nothing, every
\* lock is given back once, and a rollback restores what the log says.
THEOREM TablesImplementBook == BooksSpec => TablesKeepBook
<1>1. BooksInit => Book!BookInit
  BY BookStarts
<1>2. BooksInv /\ [BooksNext]_booksVars => [Book!BookNext]_Book!bookVars
  BY BookStep
<1> QED BY <1>1, <1>2, BooksInvariant, PTL DEF BooksSpec, TablesKeepBook, Book!BookSpec
=============================================================================
