-------------------------- MODULE TransactionBooks --------------------------
(***************************************************************************)
(* The two hash tables a transaction keeps: held_locks, a set of the       *)
(* addresses of locks, and original_alive, a map from addresses of tuples  *)
(* to the status they had before the transaction changed them.  Database   *)
(* has them as a mathematical set and function; here they are the tables   *)
(* of the code, with the calls that Transaction makes and, so that the     *)
(* classes are covered, those nobody makes yet (OtherCalls).  When one     *)
(* transaction has ended the next begins; it gets a fresh log, as in the   *)
(* code, and the set as the last one cleared it, which in the code is      *)
(* fresh too.                                                              *)
(***************************************************************************)
EXTENDS Naturals, Sequences, FiniteSets

CONSTANTS
    Key,            \* addresses of tuples; the lock of tuple k has address k
    NullKey, Tombstone, NoStatus,    \* both sentinels and V{}
    KeyHashes,      \* the hash functions to be considered
    BatchSizes,     \* how many tuples a CSV file may have
    Present         \* the tuples that are alive at first

VARIABLES
    keyHash,        \* the hash function: chosen at the start, never changed
    held,           \* Transaction::held_locks
    original,       \* Transaction::original_alive
    alive,          \* the tuples with DataTuple::alive
    answer          \* what the last call returned or visited

booksVars == <<keyHash, held, original, alive, answer>>

\* The addresses of tuples and locks are none of the sentinels; std::hash is
\* a function of the address.
ASSUME BooksAssumption ==
    /\ NullKey \notin Key /\ Tombstone \notin Key /\ NullKey # Tombstone
    /\ KeyHashes \subseteq [Key \cup {NullKey} -> Nat]
    /\ BatchSizes \subseteq Nat /\ Present \subseteq Key

LockSet == INSTANCE OpenAddrHashSet WITH Empty <- NullKey
Origin  == INSTANCE OpenAddrHashMap WITH Empty <- NullKey, NoValue <- NoStatus

\* Calls answer with a Boolean or visit a sequence of locks.
Said(b)      == [was |-> b, visited |-> <<>>]
Nothing      == Said(FALSE)
Visited(seq) == [was |-> FALSE, visited |-> seq]

BooksInit ==
    /\ keyHash \in KeyHashes
    /\ held = LockSet!New
    /\ original = Origin!New
    /\ alive = Present
    /\ answer = Nothing

\* start_edit makes room for a batch of n tuples in both tables.
StartEdit(n) ==
    /\ held' = LockSet!Reserve(held, keyHash, held.size + n)
    /\ original' = Origin!Reserve(original, keyHash, original.size + n)
    /\ UNCHANGED <<keyHash, alive, answer>>

\* acquire enters a lock; a lock that is already held is entered again.
Acquire(k) ==
    /\ held' = LockSet!Insert(held, keyHash, k)
    /\ answer' = Said(held'.size > held.size)
    /\ UNCHANGED <<keyHash, original, alive>>

\* edit_tuple acquires the lock of tuple k, logs its status and changes it.
EditTuple(k) ==
    /\ held' = LockSet!Insert(held, keyHash, k)
    /\ original' = Origin!Emplace(original, keyHash, k, k \in alive)
    /\ alive' = IF k \in alive THEN alive \ {k} ELSE alive \cup {k}
    /\ answer' = Nothing
    /\ UNCHANGED keyHash

\* release_locks walks the set, gives every lock back and clears the set.
ReleaseLocks ==
    /\ answer' = Visited(LockSet!Elements(held))
    /\ held' = LockSet!Clear(held)

\* The log of a transaction that ends is dropped: the next one has its own.
Commit == ReleaseLocks /\ original' = Origin!New /\ UNCHANGED <<keyHash, alive>>

\* rollback restores what iterating over the map finds, then releases.
Rollback ==
    /\ LET live == {i \in DOMAIN original.first : original.first[i] # NullKey}
           WasAlive(b) == {original.first[i] : i \in {j \in live : original.second[j] = b}}
       IN  alive' = (alive \cup WasAlive(TRUE)) \ WasAlive(FALSE)
    /\ ReleaseLocks
    /\ original' = Origin!New
    /\ UNCHANGED keyHash

\* Calls the classes offer and the program does not make.
Erase(k) ==
    /\ answer' = Said(LockSet!Holds(held, keyHash, k))
    /\ held' = LockSet!Erase(held, keyHash, k)
    /\ UNCHANGED <<keyHash, original, alive>>

Contains(k) ==
    /\ answer' = Said(LockSet!Holds(held, keyHash, k))
    /\ UNCHANGED <<keyHash, held, original, alive>>

Forget ==
    /\ original' = Origin!Clear(original)
    /\ answer' = Nothing
    /\ UNCHANGED <<keyHash, held, alive>>

OtherCalls == (\E k \in Key : Erase(k) \/ Contains(k)) \/ Forget

BooksNext ==
    \/ \E n \in BatchSizes : StartEdit(n)
    \/ \E k \in Key : Acquire(k) \/ EditTuple(k)
    \/ Commit \/ Rollback
    \/ OtherCalls

BooksSpec == BooksInit /\ [][BooksNext]_booksVars

-----------------------------------------------------------------------------
(* Properties. *)

\* The counters count, and at least half of the buckets of either table are
\* empty, so that every probe comes to an end.
TablesSound ==
    /\ held.size = Len(LockSet!Elements(held))
    /\ held.tombstones = Cardinality({i \in DOMAIN held.buckets : held.buckets[i] = Tombstone})
    /\ 2 * (held.size + held.tombstones) <= LockSet!Capacity(held.buckets)
    /\ original.size = Cardinality({i \in DOMAIN original.first : original.first[i] # NullKey})
    /\ 2 * original.size <= Origin!EndIndex(original)

\* The tables answer like a set and a log of first values, in any sequence of
\* calls: tombstones and rehashes lose, invent and duplicate nothing, every
\* lock is given back once, and a rollback restores what the log says.
Logged == {k \in Key : Origin!Find(original, keyHash, k) # Origin!EndIndex(original)}
Book == INSTANCE LockBook WITH
            locks  <- {k \in Key : LockSet!Holds(held, keyHash, k)},
            firsts <- [k \in Logged |-> original.second[Origin!Find(original, keyHash, k)]]
TablesKeepBook == Book!BookSpec
=============================================================================
