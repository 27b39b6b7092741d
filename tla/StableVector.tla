---------------------------- MODULE StableVector ----------------------------
(***************************************************************************)
(* The container of source/StableVector.hpp: a list of nodes of PerNode    *)
(* slots, as a sequence of sequences.  Elements are only ever appended, so *)
(* the address <<n, i>> of an element, slot i of node n, is a pointer that *)
(* stays valid.  An iterator is the address it stands at, or End.          *)
(***************************************************************************)
EXTENDS Integers, Sequences

CONSTANTS PerNode,  \* NumPerNode, 2048 for the tuples of a relation
          End       \* the iterator with a null node

ASSUME PerNodeAssumption == PerNode \in Nat \ {0}
ASSUME EndAssumption == End \notin Nat \X Nat

\* The last node (tail_) has to be full for a new one to be linked.
NeedsNode(vec) == vec = <<>> \/ Len(vec[Len(vec)]) = PerNode

Emplace(vec, x) ==
    IF NeedsNode(vec) THEN Append(vec, <<x>>)
    ELSE [vec EXCEPT ![Len(vec)] = Append(@, x)]

\* The address that Emplace gives to its element.
NextAddress(vec) ==
    IF NeedsNode(vec) THEN <<Len(vec) + 1, 1>>
    ELSE <<Len(vec), Len(vec[Len(vec)]) + 1>>

Addresses(vec) == UNION {{n} \X (1 .. Len(vec[n])) : n \in DOMAIN vec}

Begin(vec) == IF vec = <<>> THEN End ELSE <<1, 1>>

\* Mutant: the end of a node is where its array ends.
AfterMutant(vec, a) ==
    IF a[2] < PerNode       THEN <<a[1], a[2] + 1>>
    ELSE IF a[1] < Len(vec) THEN <<a[1] + 1, 1>>
    ELSE End
\* operator++
After(vec, a) ==
    IF a[2] < Len(vec[a[1]]) THEN <<a[1], a[2] + 1>>
    ELSE IF a[1] < Len(vec)  THEN <<a[1] + 1, 1>>
    ELSE End
=============================================================================
