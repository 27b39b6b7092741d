-------------------------- MODULE OpenAddrHashSet ---------------------------
(***************************************************************************)
(* The hash set of source/OpenAddrHashSet.hpp as operators on its value: a *)
(* bucket array and the two counters.  `hash` is the hash function.  An    *)
(* erased entry leaves a tombstone, so that probes that went past it still *)
(* do; insert takes the first tombstone of its probe.                      *)
(***************************************************************************)
EXTENDS HashTableUtils

CONSTANTS Empty, Tombstone      \* the sentinel keys

IsLive(v) == v \notin {Empty, Tombstone}

Blank(capacity) ==
    [buckets |-> [i \in 0 .. capacity - 1 |-> Empty], size |-> 0, tombstones |-> 0]

New == Blank(MinCapacity)

\* What iteration visits, in its order: seen[i] after the first i buckets.
Elements(s) ==
    LET seen[i \in 0 .. Capacity(s.buckets)] ==
            IF i = 0 THEN <<>>
            ELSE IF IsLive(s.buckets[i - 1]) THEN Append(seen[i - 1], s.buckets[i - 1])
            ELSE seen[i - 1]
    IN  seen[Capacity(s.buckets)]

\* Mutant: the key takes its own bucket, whoever is there.
InsertWithoutGrowMutant(s, hash, v) ==
    [s EXCEPT !.buckets[hash[v] % Capacity(s.buckets)] = v, !.size = @ + 1]
InsertWithoutGrow(s, hash, v) ==
    LET i == Probe(s.buckets, hash[v], {Empty})
    IN  [s EXCEPT !.buckets[i] = v, !.size = @ + 1]

\* A rehash leaves the tombstones behind: moved[i] is the new table after the
\* first i buckets.
Rehash(s, hash, requested) ==
    LET moved[i \in 0 .. Capacity(s.buckets)] ==
            IF i = 0 THEN Blank(CapacityFor(requested))
            ELSE IF IsLive(s.buckets[i - 1])
                 THEN InsertWithoutGrow(moved[i - 1], hash, s.buckets[i - 1])
            ELSE moved[i - 1]
    IN  moved[Capacity(s.buckets)]

\* Mutant: tombstones do not count.
MaybeRehashMutant(s, hash) ==
    LET n == Capacity(s.buckets)
    IN  IF s.size + 1 > n \div 2 THEN Rehash(s, hash, 2 * n) ELSE s
MaybeRehash(s, hash) ==
    LET n == Capacity(s.buckets)
    IN  IF s.size + s.tombstones + 1 > n \div 2 THEN Rehash(s, hash, 2 * n)
        ELSE IF s.tombstones > s.size THEN Rehash(s, hash, n)
        ELSE s

\* contains
Holds(s, hash, v) ==
    s.buckets[Probe(s.buckets, hash[v], {Empty, v})] = v

\* The set after insert(v), which may have rehashed even if v was there.
Insert(s, hash, v) ==
    LET t    == MaybeRehash(s, hash)
        stop == Probe(t.buckets, hash[v], {Empty, v})
        i    == Probe(t.buckets, hash[v], {Empty, Tombstone})
    IN  IF t.buckets[stop] = v THEN t
        ELSE [buckets    |-> [t.buckets EXCEPT ![i] = v],
              size       |-> t.size + 1,
              tombstones |-> t.tombstones - (IF t.buckets[i] = Tombstone THEN 1 ELSE 0)]

Erase(s, hash, v) ==
    LET i == Probe(s.buckets, hash[v], {Empty, v})
    IN  IF s.buckets[i] = Empty THEN s
        ELSE [buckets    |-> [s.buckets EXCEPT ![i] = Tombstone],
              size       |-> s.size - 1,
              tombstones |-> s.tombstones + 1]

Clear(s) == Blank(Capacity(s.buckets))

Reserve(s, hash, n) ==
    IF BucketsNeeded(n) > Capacity(s.buckets) THEN Rehash(s, hash, BucketsNeeded(n)) ELSE s
=============================================================================
