--------------------------- MODULE HashTableUtils ---------------------------
(***************************************************************************)
(* What the two open-addressing tables share: capacities that are powers   *)
(* of two, and linear probing.  A bucket array is a function over          *)
(* 0 .. capacity - 1, as in the code, whose index mask is a remainder      *)
(* because the capacity is a power of two.  The hash of a key (splitmix64  *)
(* of its bits) is any natural number.                                     *)
(***************************************************************************)
EXTENDS Integers, FiniteSets, FiniteSetsExt, Sequences

MinCapacity == 8

Pow2[e \in Nat] == IF e = 0 THEN 1 ELSE 2 * Pow2[e - 1]

\* The least power of two that is at least n (std::bit_ceil).
NextPow2(n) == Pow2[CHOOSE e \in 0 .. n : Pow2[e] >= n /\ \A d \in 0 .. e - 1 : Pow2[d] < n]

\* The capacity a table gets that is asked for `requested` buckets.
CapacityFor(requested) == NextPow2(Max({MinCapacity, requested}))

\* The buckets that reserve(n) asks for.
BucketsNeeded(n) == IF n < 4 THEN MinCapacity ELSE 2 * n

Capacity(buckets) == Cardinality(DOMAIN buckets)

\* The first bucket, from the one the hash h names onwards and round the end
\* of the array, that holds one of the keys a probe stops at.
Probe(buckets, h, stops) ==
    LET n       == Capacity(buckets)
        Stop(d) == buckets[(h + d) % n] \in stops
    IN  (h + CHOOSE d \in 0 .. n - 1 : Stop(d) /\ \A e \in 0 .. d - 1 : ~Stop(e)) % n
=============================================================================
