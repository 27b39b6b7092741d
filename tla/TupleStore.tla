----------------------------- MODULE TupleStore -----------------------------
(***************************************************************************)
(* What a relation promises about its tuples: one object per pair of       *)
(* values, created the first time somebody asks for it, and the same       *)
(* object for ever after.  The pair whose key is the sentinel of the hash  *)
(* maps is excepted: asking for it answers with some object.               *)
(***************************************************************************)
CONSTANTS Pair, Address, Excepted

VARIABLES known,    \* the object of every pair asked for so far
          got       \* what the last request answered

storeVars == <<known, got>>

TupleStoreInit == known = <<>> /\ got = {}

Recall(p) ==
    /\ p \in DOMAIN known
    /\ got' = {known[p]}
    /\ UNCHANGED known

Create(p) ==
    /\ p \notin DOMAIN known \cup Excepted
    /\ \E a \in got' \cap (Address \ {known[q] : q \in DOMAIN known}) :
          /\ known' = [q \in DOMAIN known \cup {p} |-> IF q = p THEN a ELSE known[q]]
          /\ got' = {a}

GetExcepted(p) ==
    /\ p \in Excepted
    /\ \E a \in got' \cap Address : got' = {a}
    /\ UNCHANGED known

TupleStoreNext == \E p \in Pair : Recall(p) \/ Create(p) \/ GetExcepted(p)

TupleStoreSpec == TupleStoreInit /\ [][TupleStoreNext]_storeVars
=============================================================================
