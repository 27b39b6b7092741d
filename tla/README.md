# A TLA+ verification of the relational database

This directory models the in-memory relational database of this repository: a
single-threaded C++ program that reads one command per line and runs
transactions which add, delete and query tuples of binary relations under
strict two-phase, predicate and index locking with deadlock detection.

The modules translate `src/source/`; the report (`src/docs/ProjectReport_1075201.typ`)
and the comments of the code are what some of the findings quote.

    tlc -workers 2 -config isolation.cfg MCDatabase     # one of the runs
    tlapm DatabaseProofs.tla                            # the proofs

## 1. The system

| component | source | state | operations |
|---|---|---|---|
| tuples, groups, relations | `Relation`, `Group`, `DataTuple` | the tuples ever created, `alive` of each; three indexes (by left value, by right value, diagonal) whose groups are hash maps with an `SLock` each; one lock for the whole relation | `get_tuple`/`ensure_tuple`, `edit_tuple`, `Group::find` |
| locks | `SLock`, `XSLock` | the set of holders; for a tuple also whether it is held exclusively | `acquire`, `release`, `permits_edit`, `permits_read` |
| stages | `Stage` | the kind of the stage, its group or relation, an iterator, "call the previous stage next" | constructor (which takes the locks of the query), `next` with one variant per kind, each of which returns OK, SUSPENDED or FINISHED |
| transactions | `Transaction` | `state`, held and required locks, original values, the rest of the file or the pipeline of stages | `start_edit`, `resume_edit`, `start_query`, `resume_query`, `resume`, `commit`, `rollback` |
| database | `Database` | transactions, relations, the detector | one method per command, and `on_control`, which reacts to a suspension |
| deadlock detector | `DeadlockDetector` | the visited transactions and the call stack of a depth-first search | `detect_cycle` |
| hash map and set | `OpenAddrHashMap`, `OpenAddrHashSet` | buckets with sentinel keys, tombstones in the set, iterators by index | insert, find, erase, rehash, iterate |
| stable vector | `StableVector` | chunks that never move | push, iterate |
| command line | `main.cpp`, `parsing_functions` | none | tokenise, parse a query |
| CSV reader | `csv_parsing_functions` | none | read a file of pairs |

**Interaction.** The client issues one command; `main` calls the `Database`
method, which calls the transaction; an edit calls `Relation::edit_tuple` per
tuple, a query calls `Stage::next` of its last stage, which calls the one before
it. A lock that refuses adds itself to `required_locks` and the operation
returns SUSPENDED all the way to `on_control`, which searches the graph of
`required_locks` and lock holders from the suspended transaction. If there is a
cycle the youngest transaction on it is rolled back; if that is another one, the
suspended transaction is resumed within the same command, where it may be
suspended again. Transactions share nothing but relations, groups and locks, and
interleave only when one is suspended or the client turns to another.

**What is hard.** No threads, but re-entrant state machines: a query is
suspended in the middle of a pipeline of stages and re-entered at its *last*
stage; a batch is suspended in the middle of its tuples; victims and resumptions
nest in one command; locks of two kinds with different rules (edits only *ask*
index locks, never take them); iterators kept over suspensions while tables
grow; transactions that ended but whose undo information did not. Nothing is
persistent: there is no recovery to model. `PROJECT.json` lists each hazard at
its line.

**What makes each part correct.**
locks: the holders and the transactions agree, an exclusive holder is alone.
Transactions: an undo restores exactly what was there and touches nothing
another could have changed. Isolation: what a live transaction has read, or not
found, stays true until it ends (no dirty or unrepeatable reads, no phantoms);
commits are a serial order. Queries: the answers are exactly those of the query,
each once, over any suspensions. Detector: whenever the client has control no
set of transactions waits on itself, and no transaction is rolled back without
need. Control: every command returns, every transaction can end.

## 2. The modules

| module | models | extends |
|---|---|---|
| `RelationData` | relations as tuples and the locks that cover them | |
| `Locks` | `SLock`, `XSLock`, the lock sets of a transaction | `RelationData` |
| `Stage` | atoms, the kind of each stage, its locks and its container; `Eval`, what a query means | `RelationData` |
| `DeadlockDetector` | the search, call by call | `Locks` |
| `Database` | transactions, stages and `on_control`: one action per handler and branch | `DeadlockDetector`, `Stage` |
| `SerialDatabase` | the abstract specification: one committed set, private writes, commits that validate | |
| `DatabaseProperties` | invariants, step properties, the refinement, fairness | `Database` |
| `CommandHistory` | a history variable, what a suspended transaction really waits for, and what can only be said with it | `DatabaseProperties` |
| `MCDatabase`, `MCHistory` | instances: queries and files over small values, without and with the history | `DatabaseProperties`, `CommandHistory` |
| `HashTableUtils` | capacities, linear probing | |
| `OpenAddrHashMap`, `OpenAddrHashSet` | the two tables as operators on their buckets and counters | `HashTableUtils` |
| `StableVector` | nodes, `emplace`, the iterator | |
| `RelationStore` | a relation as it is stored: a vector, three indexes of hash maps, a scan and a walk that others interrupt | `StableVector`, instance of `OpenAddrHashMap` |
| `TupleStore` | the abstract specification of `get_tuple`: one object per pair | |
| `TransactionBooks` | `held_locks` and `original_alive` as tables, with the calls a transaction makes | instances of both tables |
| `LockBook` | the abstract specification of the two: a set and a log of first values | |
| `MCStorage` | instances of the stores: hash functions that collide | `RelationStore`, `TransactionBooks` |
| `QueryParser`, `CsvReader` | tokens, terms, atoms and queries; lines and files | |
| `CommandLine` | the loop of `main`: one action per command | `CsvReader` |
| `CommandProperties` | a reference grammar (an automaton) and what a text means | `CommandLine` |
| `MCCommandLine` | lines with slips of the pen | `CommandProperties` |

Proofs: `DatabaseProofs`, `DetectorProofs`, `IsolationProofs` and
`AnswerProofs` (each extends the ones it needs) about `Database`; `TableLemmas` about
`OpenAddrHashMap` and the buckets and probes of both tables, `StoreProofs` about
`RelationStore`, `BooksProofs` about `TransactionBooks` and `CommandProofs` about
`CommandLine`; section 5.

The modules form three layers that are checked one by one. `Database` sees a
container as the set of its tuples, `held_locks` as a set and `original_alive` as
a function; `RelationStore` and `TransactionBooks` show that the containers of
the code behave so (`IndexesAgree` is `Members` of `RelationData`, `ScanSeesAll`
and `WalkSeesAll` are what `iter` stands for, `TablesKeepBook` is the set and
the function, `GrowsAtGrowth` is the constant `Growth`). `CommandLine` ends
where a method of the database is called, and `Database` begins there.

### State

Of `Database`:

* `tuples`, `alive`: a tuple is created dead on first mention and never removed;
  `alive` is `DataTuple::alive`. A group or relation is the set of created
  tuples its pattern covers (`Members`).
* `holders`, `exclusive`, `held`, `required`: both sides of the lock tables.
  A lock is a record of a pattern, as the group's or relation's lock is
  found by it; a tuple is its own lock.
* `state`, `original`, `edit`, `query`, `bornAt`: the fields of a transaction.
  `query[t]` holds the pipeline: per stage its container (`group`), what its
  iterator has yet to visit (`iter`), whether it holds an input it is not done
  with (`pending`), and which iterators point into a table that was rehashed
  since (`stale`); and what was printed (`answers`, `num`).
* `pc`, `cur`, `stage`, `stack`, `visited`: where the running command is. The
  program's C++ stack is flattened into them, which is possible because a
  SUSPENDED result unwinds the whole pipeline.
* `reads` is auxiliary: what a transaction has seen of a tuple, including that a
  container it scanned did not have it.
* `awaited` (in `CommandHistory`, for `deadlock` and `forgotten_waits`) is a history
  variable: the locks that suspended a transaction, until it is at work again or ends. All
  the program knows of a wait is `required_locks`, which it may empty while the
  transaction goes on waiting.

Of the stores: `tuples` is a sequence of nodes, and the address of a tuple is
node and slot; a group is the two arrays of a hash map; `scan` and `walk` are
iterators, with what they have visited since they started. `hash` is the hash
function, any function to the naturals: collisions are what matters, not
splitmix64. `held` and `original` are the tables of a transaction.

Of the command line: `line` is what `std::getline` gets next, `files` the files
on disk, `call` the last call on the database and `printed` what main said
instead. Who types and who writes files is the environment (`Typing`): in `LineSpec`
any text may appear at any time, in `MCCommandLine` it comes from `Slip` and `Save`.

### Actions

One command is one action that starts it (`Begin`, `Commit`, `Add`, `StartQuery`,
...; each with the variants that refuse) and the steps of `Internal` up to the
step that sets `pc` to "idle". The steps stop where the code branches on
a lock or on data:

* edits: `CheckRelation`, then per tuple `EditTuple`, `EditRefusedByGroup` or
  `EditRefusedByTuple`, and `FinishEdit`;
* queries: a stage is called (`Next*`), gets its input (`Pulled*`) and looks at
  the tuple its iterator is on (`Visit*`). `KeepInput` and `DropInput` are
  `call_next`/`group_iter_valid`. The same three steps serve all kinds of stage;
* `on_control`: `DetectStart`, `DetectFollow`, `DetectBacktrack` are the calls
  and returns of `dfs_tx`, `AbortVictim` rolls back and resumes.

Two outcomes have no defined successor in C++ and lead to `pc = "undefined"`,
where the model stops: `begin()` of an empty group dereferenced
(`VisitEndProduct`) and a stale iterator on an empty bucket (`VisitStale`).

The stores have one action per call on them: `FindTuple` and `CreateTuple` are
the two branches of `ensure_tuple`, `ScanNext` and `WalkNext` one round of a product, from
the comparison with `end()` to `operator++`; `StartEdit`, `Acquire`, `EditTuple`,
`Commit` and `Rollback` what a transaction does to its tables. `erase` and
`contains` of the set and `clear` of the map have no caller (`OtherCalls`); `at`
has none either and is `find`. Nor has `operator--` of the vector's iterator, which is
left out, or `QueryAtom::to_string`, which is modelled because `PrintingIsReadable` is a test of
the parser. `CommandLine` has one action per branch of the loop.

### Abstractions

* The order of a scan is fixed but arbitrary (hash order in the code): the model
  takes the next tuple with CHOOSE. The order in which edges are followed
  (`required_locks` is a set of pointers) is nondeterministic.
* A tuple created *behind the start* of a scan stays dead for the rest of the
  scan, because the scan's lock refuses every edit; a scan would pass over it,
  and the model leaves that visit out. What creation does to a hash table is
  kept: see `Grown` and `stale`.
* A file is a batch of pairs; relations, transactions and variables are model
  values; printing, latency figures and debug output are left out.
* `edit`, `query` and `reads` of a transaction that ends are cleared: no command
  reads them again. Of a query that finished, only what it printed is kept.
  `original` and `required` are *not* cleared on rollback, as in the code.
* The release build has no assertions. Where the code asserts that a key is not
  the sentinel, the model goes on as that build does: the tuple
  (4294967295, 4294967295) is written to a bucket that still counts as empty (the
  report excludes the largest values: "These assume that the values considered are
  all in the range 0..2^32-2 inclusive", `ProjectReport_1075201.typ:723`).
* In `CommandLine` a word whose letters do not matter is one character, values have
  two digits and the largest integer is 12 instead of 4294967295.
* BEGIN of an existing transaction and commands that name an unknown one only
  print an error; they are left out.

## 3. What is checked

The runs of `MCDatabase` share one relation `R`, two variables, and values
{1, 2} unless the table says otherwise; some start with one tuple alive, the others empty. Two values are enough for a tuple on the
diagonal and one off it, for groups that overlap in one tuple, and for a phantom
(created, in a scanned group, not there before). `Growth = {4, 8}` are the
real sizes at which a group's table is rebuilt (capacity 8, load one half);
with two values groups stay below it, which is why `isolation` scales it to 1 and
`growing_group` uses five values and the real size. `MaxAnswers = 5` exceeds the
largest number of answers (4): a query that printed an answer twice, or looped,
would show. The set of transactions is symmetric in every run without a
liveness property. A transaction identifier is used once, as in the code, so
every behaviour is finite but for suspensions and resumptions: no other bound is
needed. Two transactions make one deadlock at a time; three make a command with
several victims, in `deadlock`. That every command
returns and every transaction ends is checked for two only: with three, liveness takes
too long.

| run | instance | properties |
|---|---|---|
| `isolation` | 2 transactions, batches of one and two tuples, a constant atom, a product over another stage's answers, a join, the diagonal; groups rehash at their first tuple | `TypeOK`, `ControlOK`, `LocksAgree`, `UndoProtected`, `ReadsStable`, `NoDirtyReads`, `EditsSpareScans`, `ChangesUnderLock` |
| `answers` | 2 transactions, an empty batch and one of two tuples, queries with every kind of stage but JOIN_LEFT; the client starts commands in suspended transactions | `AnswersExact`, `Serializable` |
| `deadlock` | 3 transactions, a batch of two tuples, two queries with predicates that overlap it; the client rolls ended transactions back and starts no command in suspended ones | `NoUndetectedDeadlock`, `ReadyNeverVictim` |
| `finish` | 2 transactions, a group product over a constant atom, a relation product and its filter, an empty batch and one of two tuples, and no relation at first; fairness of the program and of the client | `CommandReturns`, `TransactionsFinish` |
| `storage` | `MCStorage`: nodes of two slots, six tuples, tables of 8 and 16 buckets, two hash functions; five locks | `IndexesAgree`, `ScanSeesAll`, `WalkSeesAll`, `TablesSound`, `VisitsOnce`, `GrowsAtGrowth`, `OneTuplePerPair`, `TablesKeepBook` |
| `commands` | `MCCommandLine`: every line within two insertions, deletions or replacements of a query with one atom and of a line of a file, within one of any other command | `PrintingIsReadable`, `QueryMeansItsText`, `BlanksDoNotMatter`, `BatchIsTheFile` |

What they show, property by property, is in the comments of
`DatabaseProperties`, `RelationStore`, `TransactionBooks` and
`CommandProperties`. In short:

* **The locking protocol is right.** Index locks
  that are asked but never taken by edits, taken but never asked by queries,
  together with tuple locks, give serializable transactions (`answers` shows it as
  an implementation of `SerialDatabase`).
* **The detector misses no deadlock it can still see.** For a client that starts no command
  in a suspended transaction no deadlock is left standing (`deadlock`), including those completed in
  the nested resumption after a victim, though too much may be rolled back. What a
  transaction waits for is taken from `awaited` there, not from
  `required_locks`: a command refused to a suspended transaction empties the latter
  (`on_control` takes the refusal for FINISHED), and then a deadlock does stay
  (`forgotten_waits`). That costs neither answers nor serializability (`answers`).
* **The containers are right**, with one exception. Over every history of calls
  within the bounds the two tables behave as a set and a map: tombstones, reused
  ones, rehashes to the same and to twice the size, probes that run round the
  end of the array. The vector's iterator may be kept while elements are
  appended. The exception is the pair of largest values, of which every request
  creates another tuple; the others are not affected.
* **The parser reads what is written** and nothing else: compared with an
  automaton for the grammar of a query and with what its words mean, over every line
  within the bounds. An integer that is too large is a variable in a query and
  an error in a file.

Bounds of the stores: the first rehash comes with the fifth entry, the tables
start with 8 buckets and there are six keys, among them the sentinel, so that
tables of two sizes, full up to the load factor, are reached. The hash functions
send four keys to one bucket near the end of the array, or pairs of keys to one bucket each, with
values that part when the table is doubled. Nodes of two slots (2048 in the code) give
three nodes. The two stores share no state: one run goes through them one after the
other (`part`). Bounds of the command line: two slips reach every pair of
mistakes in one atom, such as a missing bracket with one too many elsewhere, or
a comma inside a name; `MaxUint = 12` makes the second digit of a number overflow.

Deadlock (of the model) is checked in every run but those where the
program really may stop: those that may reach `pc = "undefined"` (`isolation`,
whose tables are rehashed under scans and whose group may be empty,
`empty_product`, `growing_group`), `storage`, where all tuples may have been
created and both readers be at their end, and `commands`, where the client quits.

### Fairness

`FairSpec` assumes weak fairness of `Internal`: the program is one
thread that runs the current command on. `FairClientSpec`, the specification of `finish`, also
assumes a client that, for each transaction, resumes it and commits it if it may
do so again and again (strong fairness: while another command runs neither is
enabled). Nothing in the program retries on its own; without such a client a
suspended transaction waits for ever, as documented. `finish` has no commands refused to
suspended transactions: a client that sends one before every resumption empties
`required_locks` each time (finding 6), so that two transactions in a deadlock are resumed for ever.

## 4. Findings

Six runs are expected to find a violation. Each is a counterexample to
something a comment, an assertion or the report says; details and quotes are in
`PROJECT.json`.

1. `spurious_deadlock`: `dfs_tx` marks a finished node with `emplace`, which
   does not overwrite: a transaction met over two edges counts as a cycle.
   A transaction that waits for two locks of one holder, or another that is still on
   the path of the search, is rolled back without any deadlock.
2. `late_rollback`: ROLLBACK of a committed transaction undoes its changes.
3. `ground_query`: a query without variables whose tuples are alive never ends.
4. `empty_product`: a product over another stage's answers dereferences the
   end of an empty group.
5. `growing_group`: a filter creates tuples in a group that is being scanned by
   the same query; when the group's table is rebuilt the answers are wrong. With
   `{(1,1), (1,2), (1,3), (1,4), (2,5)}` and `R(1,X), R(2,Y), R(X,Y)`.
6. `forgotten_waits`: ADD, DELETE or QUERY of a suspended transaction is refused with
   FINISHED, whereupon `on_control` empties its `required_locks`, although it
   waits as before (`Transaction.hpp:94` has them cleared upon "successful completion of an operation
   and when resuming"). The deadlock another transaction then completes is not found:
   both stay suspended until the client resumes the first one, which enters its locks again.

Two more disagreements were met that have no run of their own:

* COMMIT of a suspended transaction. The algorithm of the report
  (`ProjectReport_1075201.typ:605-607`) returns FINISHED for every transaction that is not READY; the code
  (`Transaction.cpp:219`) returns SUSPENDED for a suspended one, so that `on_control` searches
  again and, with finding 1, a refused COMMIT may roll somebody back.
  `CommitSuspended` is what the code does. What the report has would be worse: it would empty
  `required_locks` as in finding 6, and as a mutant (`CommitSuspendedMutant`) it makes `deadlock` fail.
* The body of a query. `main.cpp:131` says "everything after "QUERY <tid>"", but the line is
  searched for the first place where the transaction's name occurs, which for one named `U`
  is inside the word QUERY: `QUERY U R(1,a)` is a syntax error. `Body` is what the code does, and
  `QueryMeansItsText` leaves out the names that occur in QUERY (`Findable`).

Findings 3 to 5 are also why the passing runs' queries are chosen as they are:
each has a variable (or ends on a dead tuple); where answers are compared
(`answers`) groups stay below the size at which they rehash, and the group behind
a product over another stage's answers is never empty (a tuple of it is alive
from the start). `isolation` does go through rehashes under scans and through
empty products: what it checks holds all the same.

## 5. What is proved

For every finite set of transactions and any relations, values, variables,
files, queries, loaded tuples and growth sizes that satisfy the assumptions
(`DatabaseAssumption`, `SentinelAssumption`, `VarAssumption`: types, and that the
special values are distinct from ordinary ones):

| theorem | states | inductive invariant |
|---|---|---|
| `TypeCorrect`, `ControlCorrect` | `Spec => []TypeOK`, `Spec => []ControlOK` | `TypeInv` |
| `LocksCorrect`, `UndoCorrect` | `Spec => []LocksAgree`, `Spec => []UndoProtected` | `TypeInv`, `LocksInv` |
| `ReadyIsSafe` | `Spec => ReadyNeverVictim` | `TypeInv`, `SearchInv` |
| `ChangesCorrect` | `Spec => ChangesUnderLock`, if the client does not roll back ended transactions | `TypeInv`, `LocksInv`, `SearchInv` |
| `ReadsCorrect`, `CleanReadsCorrect` | `Spec => []ReadsStable`, `Spec => []NoDirtyReads`, under the same condition | those and `IsolationInv` |
| `EditsSpareScansCorrect` | `Spec => EditsSpareScans` | `TypeInv`, `LocksInv`, `IsolationInv` |
| `SerializableCorrect` | `Spec => Serializable`, if the client does not roll back ended transactions | `TypeInv`, `LocksInv`, `SearchInv`, `IsolationInv` |
| `AnswersCorrect` | `Spec /\ []NoStale => []AnswersExact`, under the same condition | those and `AnswersInv` |
| `UndisturbedAnswersCorrect` | `Spec => []AnswersExact`, if moreover no group rehashes or no query creates the tuples it looks up | those and `NoStale` |
| `DeadlocksAreBroken` | `HistorySpec => []NoUndetectedDeadlock`, if the client starts no command in a suspended transaction | `TypeInv`, `LocksInv`, `SearchInv`, `DeadlockInv`, `RecordInv`, `SuspendedInv` |
| `MissedDeadlocksWereForgotten` | `HistorySpec => []MissedWasForgotten`: transactions that wait on one another while the client has control include one whose `required_locks` a refused command has emptied | the same without `SuspendedInv` |
| `SuspendedTransactionsWait` | `Spec => []SuspendedWaits`, if the client starts no command in a suspended transaction | `TypeInv`, `SuspendedInv` |

of a relation as it is stored, for every size of a node, any pairs, hash functions
and number of tuples (`PerNodeAssumption`: a node has a slot; `EndAssumption`: `End`
is no address; `StoreAssumption`: the pairs and hash functions are what they are
called, and neither the sentinel key nor the null pointer is an ordinary pair or address):

| theorem | states | inductive invariant |
|---|---|---|
| `ScansAreComplete` | `StoreSpec => []ScanSeesAll` | `ScanInv` |
| `ScansNeverRepeat` | the part of `VisitsOnce` about scans of the vector | `ScanInv` |
| `IndexesAlwaysAgree` | `StoreSpec => []IndexesAgree` | `GroupsInv` |
| `WalksAreComplete` | `StoreSpec => []WalkSeesAll` | `GroupsInv`, `WalkInv` |
| `NothingIsVisitedTwice` | `StoreSpec => VisitsOnce` | `ScanInv`, `GroupsInv`, `WalkInv` |
| `GroupsGrowAtGrowth` | `StoreSpec => GrowsAtGrowth` | `GroupsInv`, `CountInv` |
| `RelationKeepsOneTuplePerPair` | `StoreSpec => OneTuplePerPair`, the refinement of `TupleStore` | `GroupsInv` |

and of the two tables of a transaction, for any addresses, hash functions and batch
sizes with `BooksAssumption` (no address is a sentinel key, a hash is a number; TLC
evaluates it in `storage`):

| theorem | states | inductive invariant |
|---|---|---|
| `TablesStaySound` | `BooksSpec => []TablesSound` | `BooksInv` |
| `TablesImplementBook` | `BooksSpec => TablesKeepBook`, the refinement of `LockBook` | `BooksInv` |

and of the command line, for any characters, any largest integer, any lines and any
files (`ParserAssumption`: the digits, blanks and punctuation are characters, and none
of them is a letter):

| theorem | states | inductive invariant |
|---|---|---|
| `BatchesAreTheirFiles` | `LineSpec => BatchIsTheFile` | `TextsOK` |
| `QueriesPrintReadably` | `LineSpec => []PrintingIsReadable` | `TextsOK`, `CallOK` |

* `TypeInv` is `TypeOK /\ ControlOK`. Types alone are not inductive: that the
  next tuple of a batch is a tuple needs `edit[cur].rel` to be a relation, and that
  `query[cur].iter[stage]` exists needs `stage` to be one of the query's stages;
  both depend on whose command is running and in which state it is. The delicate
  step is `AbortVictim`, after which the suspended transaction is re-entered:
  it must not be the one that was just rolled back.
* `LocksInv` is `LocksAgree /\ UndoProtected /\ UnbegunClean`. `UndoProtected`
  needs the lock tables to agree (releasing the locks of one transaction must
  not take a lock of another away) and needs a transaction to begin without
  undo information. Its steps fall into four kinds, one lemma each: locks kept,
  a shared lock taken (never over an exclusive one: a container's lock is not a
  tuple's, `ContainerIsNoTuple`), a tuple locked exclusively, locks released.
* `SearchInv` says that every active call of the search is for a live transaction and has
  only edges of the waits-for graph left to try, that all calls but the topmost
  are following one (all of them once a cycle is reported), and that a
  transaction that is READY waits for nothing. Nothing about the search being
  *right* is used, so `ReadyIsSafe` holds although reported cycles need not be cycles.
* `IsolationInv` is `ReadsInv /\ ScansInv /\ EditInv`, the argument why predicate
  and tuple locks isolate. `ReadsInv`: whatever a live transaction has read is covered by
  a lock it holds, is as it was, and no other live transaction has changed it.
  An edit asks *every* lock that can cover its tuple (`CoverIsEditLock`: the two or
  three groups, the whole relation, the tuple itself), so nobody has read what it
  changes (`EditUnseen`). The whole relation is asked once per batch, and
  `EditInv` says that the answer stays good until the batch is done or suspended. An
  undo only restores tuples nobody else has read. `ScansInv` is what makes the
  first part true of a query: a stage that scans, or will scan, holds
  its container's lock, and what its iterator has yet to visit is in the container.
  The tuples a filter finds missing are covered too (`FilterCovers`).
* `SerializableCorrect` is the refinement of `SerialDatabase` in
  `DatabaseProperties`. The abstract database is what is left when the undo logs
  of all live transactions are applied (`Db`), and the abstract writes of a transaction
  are read off its undo log (`Writes`). At most one live transaction has an undo entry
  for a tuple, so the logs can be applied in any order; a transaction sees the
  committed value or its own write of whatever it has read, because
  `ReadsInv` keeps others from changing it. A commit, with all that was read still
  standing, is the abstract transaction in one step; every other step leaves `Db` alone.
* `AnswersInv` accounts for every assignment of a running query's variables
  (`QueryOK`): it has been printed, or some stage holds it or will be offered it
  (`Holds`, `Offered`), or a tuple it needs was seen dead. What has been printed
  rests on tuples seen alive and will not come again, and what a stage holds has
  passed every stage before it. Neither half is inductive alone: that nothing is
  printed twice needs to know where each assignment still is, and that nothing is lost needs to
  know which ones a stage may drop. That what was seen is still so at the end,
  after any number of suspensions, is `IsolationInv`. When the first stage is exhausted no assignment is left
  to come (`DoneIsExact`), so the answers are `Eval`.
  `NoStale` says that no iterator has been disturbed by a rehash. The assumption is not idle: run
  `growing_group` violates `AnswersExact` without it. Only `get_tuple` on behalf of a query can
  break it, as an edit only inserts where nobody else scans (`EditsSpareScans`), hence the second theorem.
  Queries that never end (`ground_query`) or end in undefined behaviour (`empty_product`)
  never return to READY and print no final answer; the theorems say nothing of them.
* `DeadlockInv` says that at any time a set of transactions that waits on itself
  contains the running one, since only that one gets in the way of others and it
  waits for nothing until it is suspended, and `SearchCovers` that an edge of a visited
  transaction leads to another visited one (not to the start) or is yet to be tried. A
  search that ends without meeting anybody twice has walked a tree with all edges leading away from its
  start (`SearchIsComplete`); one that meets somebody twice rolls a transaction
  back, who is then in nobody's way, and goes on with the resumed one. All this is about
  waiting as `required_locks` has it. `RecordInv` says that `required_locks` of a suspended
  transaction is what it really waits for, or empty, for any client; `SuspendedInv` that it is not empty
  while the client has control, for one that has no command refused to a suspended
  transaction. The two turn the absence of a deadlock on record into the absence of one.
* `ScanInv` has the shape of the vector (`IsVector`: every node but the last is full,
  none is empty) and says that an iterator has passed exactly the addresses below it.
* The hash tables rest on `TableLemmas`. `IsTable` is what linear probing needs of an array of
  buckets: a key sits where no empty bucket comes before it on its probe, and no key
  sits twice. A probe then ends at the key or, if it is nowhere, at a bucket it may enter
  (`ProbeFinds`, `ProbeReaches`); entering a key there (`EnterKey`) and turning one into a
  tombstone (`BuryKey`) keep the array so. `IsMap` adds that the capacity is a power of two and that the
  counter is at least the number of used buckets and at most half the capacity. "At
  least" is what makes it inductive: an entry under the sentinel key is counted and uses no bucket, so
  the counter is exact (`IsCounted`) only until one is made, which is why
  `GrowsAtGrowth` leaves the largest value out. A rehash is a loop over the buckets, a function that
  recurs on the number of buckets moved. `LoopRuns` shows that it has a solution and `RehashIs`, by
  induction over the buckets, that the new table has the old one's entries. That
  induction is proved from the well-foundedness of the naturals
  (`LeastNumber`, `InductionUpTo`), over a set of numbers instead of a predicate.
* `GroupsInv` says that each group is such a map and that its entries are the tuples that belong
  to it (`IsGroup`), `CountInv` that its counter is the number of those. `WalkInv` is to a walk what
  `ScanInv` is to a scan: as long as the capacity is that of the start, an entry
  has not moved; what has been seen lies behind the iterator, and what was there at the
  start has been seen or lies ahead.
* `BooksInv` says that `held` is a set (`IsSet`: a table whose tombstones are counted too, and the two counters
  together at most half the capacity), `original` a map with an exact counter (`IsLog`)
  and its entries statuses of tuples. There is a lemma per call of the set on the
  locks it then has (`InsertIs`, `EraseIs`, `ClearSetIs`, `SetReserveIs`, `ElementsAre`). The hard one is
  `insert`: growing may take the tombstone away that the key would have taken, and the key goes to
  the *first* bucket that is free, which need not be where its probe ended. The
  refinement maps the set to its locks and the map to the function its entries are
  (`LocksIn`, `FirstsIn`), action by action: `AcquireInserts`, `EditTupleChanges`,
  `RollbackRollsBack`, ...; `StartEdit` is a stutter although it may rehash both tables.
* `BatchesAreTheirFiles` compares two definitions: `parse_csv_file` is a loop over lines with
  `from_chars`, the property says what each line may mean (`Spells`: some zeros, then the decimal
  form of a number within the bound). `SpellsValue` shows, by induction over the
  length of a numeral, that it spells `Value` and no other number, so a line has one meaning
  at the most (`OneMeaning`, `CsvLineIs`) and overflow is told apart from every number that fits.
  `BatchMeans` is the induction over the lines: the batch so far has as many pairs as there were
  meaningful lines, the pair of each of them at its place. The loops (`Value`, the batch, the atoms)
  are functions on the positions of a text, so that they have a solution by `LoopRuns`.
* `CallOK` says that what a QUERY hands to the database is a sequence of `Atoms`: names that are
  names, and terms that are numbers within the bound or words that are no such number. It is
  not obvious that such a term survives printing: a variable may be spelled like an integer that is too
  large, and is read as a variable again only for the same reason (`TermReads`). `AtomReads` takes a printed atom
  apart by positions (one opening parenthesis, the first comma, the last character), `AfterAtom` says
  that in a query the comma inside an atom is at depth one and the one after it at depth zero, so the
  cut leaves exactly the atom, and `PrintedReads` is the induction over the atoms.

`LocksCorrect`, `UndoCorrect`, `ReadyIsSafe`, `EditsSpareScansCorrect` and
`MissedDeadlocksWereForgotten` make no assumption about the client: they cover the
`OutOfTurn` commands. `ChangesCorrect` is false without its assumption, which is what the
run `late_rollback` shows; the theorems on reads, on answers and on serializability
share it, since a late rollback writes without any lock. `DeadlocksAreBroken` is false without its own, which is
what `forgotten_waits` shows, and so is `SuspendedTransactionsWait`.

## 6. Only model-checked, and not modelled

Only model-checked:

* that the query parser reads every text as the grammar does (`QueryMeansItsText`,
  `BlanksDoNotMatter`): the reference definitions and the tokeniser find the words of a text with
  `SelectSeq` and folds, which recur over sequences and about which the library has no
  theorems to cite;
* the two liveness properties, which are beyond the prover, as ENABLED is.

Not modelled: the wording of messages, the prompt, the timing figures, moving and
destroying vectors and tables, the benchmarks and tests. `CommandLine` records
the call it makes on the database and is not composed with `Database`: the two meet in
the arguments of one call at a time and nothing else is shared. Likewise `Database` takes an
index as a set of tuples, of which it keeps the moment of a rehash; that
the tables below behave as such sets is what `storage` checks.

## 7. Plan

Done: the core and its proofs; the hash tables and the stable vector under
relations and transactions; parser, CSV reader and command line; serializability,
the search for deadlocks, waiting and the answers of queries as theorems; every
invariant the runs check as a theorem, every safety property of the stable vector and of the
hash tables, what the CSV reader promises, and that queries survive being printed.

Left: that the query parser agrees with the automaton on every text, which needs the folds of
`IsQueryText` and `QueryMeaning` as recursive functions over the positions of a line.
