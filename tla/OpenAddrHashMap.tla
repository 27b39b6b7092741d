-------------------------- MODULE OpenAddrHashMap ---------------------------
(***************************************************************************)
(* The hash map of source/OpenAddrHashMap.hpp as operators on its value:   *)
(* the keys and the values of the buckets and the counter.  A bucket is    *)
(* empty when its key is the sentinel.  An iterator is a bucket index;     *)
(* end() is the capacity.                                                  *)
(*                                                                         *)
(* The release build has no assertions: a caller may pass the sentinel as  *)
(* a key.  operator[] then writes a bucket that still counts as empty.     *)
(***************************************************************************)
EXTENDS HashTableUtils

CONSTANTS Empty,    \* the sentinel key
          NoValue   \* V{}

Blank(capacity) ==
    [first  |-> [i \in 0 .. capacity - 1 |-> Empty],
     second |-> [i \in 0 .. capacity - 1 |-> NoValue],
     size   |-> 0]

New == Blank(MinCapacity)

EndIndex(m) == Capacity(m.first)

\* Iteration: the first live bucket from index i on.
\* Mutant: the last bucket is forgotten.
SkipToLiveMutant(m, i) == Min({j \in i .. EndIndex(m) - 2 : m.first[j] # Empty} \cup {EndIndex(m)})
SkipToLive(m, i) == Min({j \in i .. EndIndex(m) - 1 : m.first[j] # Empty} \cup {EndIndex(m)})

Begin(m) == SkipToLive(m, 0)

\* Mutant: goes round the end of the array, as a probe does.
AdvanceMutant(m, i) == SkipToLive(m, (i + 1) % EndIndex(m))
Advance(m, i) == SkipToLive(m, i + 1)

Put(m, i, k, v) == [first  |-> [m.first EXCEPT ![i] = k],
                    second |-> [m.second EXCEPT ![i] = v],
                    size   |-> m.size + 1]

InsertWithoutGrow(m, hash, k, v) ==
    Put(m, Probe(m.first, hash[k], {Empty}), k, v)

\* A rehash moves the entries in the order of the buckets: moved[i] is the new
\* table after the first i buckets.
\* Mutant: the first bucket is left out.
RehashMutant(m, hash, requested) ==
    LET moved[i \in 0 .. EndIndex(m)] ==
            IF i <= 1 THEN Blank(CapacityFor(requested))
            ELSE IF m.first[i - 1] = Empty THEN moved[i - 1]
            ELSE InsertWithoutGrow(moved[i - 1], hash, m.first[i - 1], m.second[i - 1])
    IN  moved[EndIndex(m)]
Rehash(m, hash, requested) ==
    LET moved[i \in 0 .. EndIndex(m)] ==
            IF i = 0 THEN Blank(CapacityFor(requested))
            ELSE IF m.first[i - 1] = Empty THEN moved[i - 1]
            ELSE InsertWithoutGrow(moved[i - 1], hash, m.first[i - 1], m.second[i - 1])
    IN  moved[EndIndex(m)]

\* Mutant: the entry to be inserted is not counted.
MaybeRehashMutant(m, hash) ==
    IF m.size > EndIndex(m) \div 2 THEN Rehash(m, hash, 2 * EndIndex(m)) ELSE m
MaybeRehash(m, hash) ==
    IF m.size + 1 > EndIndex(m) \div 2 THEN Rehash(m, hash, 2 * EndIndex(m)) ELSE m

\* Mutant: only the first bucket of the probe is looked at.
FindMutant(m, hash, k) ==
    IF m.first[hash[k] % EndIndex(m)] = k THEN hash[k] % EndIndex(m) ELSE EndIndex(m)
Find(m, hash, k) ==
    LET i == Probe(m.first, hash[k], {Empty, k})
    IN  IF m.first[i] = Empty THEN EndIndex(m) ELSE i

\* emplace looks for the key before it makes room for it ...
Emplace(m, hash, k, v) ==
    IF Find(m, hash, k) # EndIndex(m) THEN m
    ELSE InsertWithoutGrow(MaybeRehash(m, hash), hash, k, v)

\* ... and m[k] = v afterwards, so that it may rehash although k is there.
Assign(m, hash, k, v) ==
    LET t == MaybeRehash(m, hash)
        i == Probe(t.first, hash[k], {Empty, k})
    IN  IF t.first[i] = Empty THEN Put(t, i, k, v) ELSE [t EXCEPT !.second[i] = v]

Clear(m) == Blank(EndIndex(m))

Reserve(m, hash, n) ==
    IF BucketsNeeded(n) > EndIndex(m) THEN Rehash(m, hash, BucketsNeeded(n)) ELSE m
=============================================================================
