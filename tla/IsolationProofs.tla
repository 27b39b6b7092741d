--------------------------- MODULE IsolationProofs ---------------------------
(***************************************************************************)
(* What a live transaction has read stays true until it ends, for every    *)
(* value of the constants and a client that does not roll back what has    *)
(* ended: everything it has read is covered by a lock it holds, an edit    *)
(* asks every lock that covers its tuple, and the undo of one transaction  *)
(* is out of sight for all others.  The scans of a query are locked        *)
(* whatever the client does.                                               *)
(*                                                                         *)
(* It follows that Database implements SerialDatabase: every step is one   *)
(* of the abstract database, seen through the undo logs, or changes        *)
(* nothing there.  At most one live transaction has changed a tuple, so    *)
(* its log says what is committed; what anybody else sees of a tuple is    *)
(* what is alive, and nobody has changed that yet.                         *)
(***************************************************************************)
EXTENDS DetectorProofs

\* t may rely on what it has read of x.
ReadOK(t, x) ==
    /\ state[t] \in Live
    /\ \E l \in held[t] : Covers(l, x)
    /\ reads[t][x] = Before(t, x)
    /\ \A u \in Tid \ {t} : state[u] \in Live => original[u][x] = "none"

\* The client does not roll back what has ended.
Orderly == "rollback_finished" \notin OutOfTurn

ReadsInv == Orderly => \A t \in Tid, x \in Tuple : reads[t][x] # "none" => ReadOK(t, x)

\* With the locks H, a query may go on with every scan its stages have begun or
\* will begin: it holds the locks of their containers.
MayScan(q, i) ==
    \/ Kind(q.atoms, i) \in Filters \cup Products
    \/ Kind(q.atoms, i) \in Joins /\ q.pending[i]
    \/ q.iter[i] # {} \/ i \in q.stale
StageOK(q, i, H) ==
    /\ MayScan(q, i) => q.group[i] \in H
    /\ \A x \in q.iter[i] : Covers(q.group[i], x)
    /\ Kind(q.atoms, i) \in Filters \cup Products => q.group[i] = Container(q.atoms, i, ZeroChannel)
ScanOK(q, H) == \A i \in DOMAIN q.atoms : StageOK(q, i, H)

ScansInv ==
    \A t \in Tid : /\ ScanOK(query[t], held[t])
                   /\ state[t] \in {"EXECUTING_ADD", "EXECUTING_DELETE"} => query[t].atoms = <<>>

\* The check of the whole relation holds good until the batch is done.
EditInv == pc = "edit_tuples" => holders[WholeRel(edit[cur].rel)] \subseteq {cur}

IsolationInv == ReadsInv /\ ScansInv /\ EditInv

LEMMA InitIsolationInv == Init => IsolationInv
  <1> SUFFICES ASSUME Init PROVE IsolationInv
    OBVIOUS
  <1>1. ReadsInv
    BY DEF Init, ReadsInv
  <1>2. ScansInv
    BY DEF Init, ScansInv, ScanOK, NoQuery, BlankQuery
  <1>3. EditInv
    BY DEF Init, EditInv
  <1> QED  BY <1>1, <1>2, <1>3 DEF IsolationInv

-----------------------------------------------------------------------------
(* What has been read. *)

\* Locks are added to those of the transactions that stay alive.
HeldGrow == \A u \in Tid : held[u] \subseteq held'[u]

(* A step that changes no tuple and observes none. *)
LEMMA ReadsKept ==
    ASSUME TypeInv, ReadsInv, UNCHANGED <<alive, original, reads>>, HeldGrow,
           \A u \in Tid : state'[u] \in Live <=> state[u] \in Live
    PROVE  ReadsInv'
  BY DEF ReadsInv, ReadOK, HeldGrow, Before, StatusIn

(* A step that observes tuples nobody else has changed, under a lock. *)
LEMMA ReadsObserved ==
    ASSUME TypeInv, ReadsInv, UNCHANGED <<alive, original>>, HeldGrow,
           \A u \in Tid : state'[u] \in Live <=> state[u] \in Live,
           NEW t \in Tid, state[t] \in Live, NEW S, Observe(t, S),
           \A x \in S \cap Tuple : \E l \in held'[t] : Covers(l, x),
           \A x \in S \cap Tuple, u \in Tid \ {t} : state[u] \in Live => original[u][x] = "none"
    PROVE  ReadsInv'
  <1> SUFFICES ASSUME Orderly, NEW u \in Tid, NEW x \in Tuple, reads'[u][x] # "none"
               PROVE  ReadOK(u, x)'
    BY DEF ReadsInv
  <1>1. /\ reads \in [Tid -> [Tuple -> Status]]
        /\ reads' = [reads EXCEPT ![t] = [y \in Tuple |->
                IF y \in S /\ reads[t][y] = "none" /\ original[t][y] = "none"
                THEN StatusIn(alive, y) ELSE reads[t][y]]]
    BY DEF TypeInv, TypeOK, Observe
  <1>2. Before(u, x)' = Before(u, x)
    BY DEF Before, StatusIn
  <1>3. CASE reads[u][x] # "none"
    <2>1. reads'[u][x] = reads[u][x]
      BY <1>1, <1>3
    <2> QED  BY <1>2, <1>3, <2>1 DEF ReadsInv, ReadOK, HeldGrow
  <1>4. CASE reads[u][x] = "none"
    <2>1. u = t /\ x \in S /\ original[t][x] = "none" /\ reads'[u][x] = StatusIn(alive, x)
      BY <1>1, <1>4
    <2>2. reads'[u][x] = Before(u, x)
      BY <2>1 DEF Before
    <2> QED  BY <1>2, <2>1, <2>2 DEF ReadOK
  <1> QED  BY <1>3, <1>4

(* Nobody else has changed a tuple that does not exist, or that may be read. *)
LEMMA CleanToRead ==
    ASSUME LocksInv, NEW t \in Tid, NEW x \in Tuple,
           x \notin tuples \/ PermitsRead(x, t) \/ PermitsExclusive(x, t)
    PROVE  \A u \in Tid \ {t} : state[u] \in Live => original[u][x] = "none"
  BY DEF LocksInv, UndoProtected, PermitsRead, PermitsExclusive

(* A transaction ends.  Its undo changes only what nobody else has read. *)
LEMMA ReadsOfOthers ==
    ASSUME TypeInv, ReadsInv, NEW t \in Tid, NEW s, s \notin Live,
           state' = [state EXCEPT ![t] = s], original' = original,
           Orderly => alive' = alive \/ (state[t] \in Live /\ alive' = Undo(t)),
           held' = [held EXCEPT ![t] = {}],
           reads' = [reads EXCEPT ![t] = [x \in Tuple |-> "none"]]
    PROVE  ReadsInv'
  <1> SUFFICES ASSUME Orderly, NEW u \in Tid, NEW x \in Tuple, reads'[u][x] # "none"
               PROVE  ReadOK(u, x)'
    BY DEF ReadsInv
  <1>1. /\ reads \in [Tid -> [Tuple -> Status]] /\ held \in [Tid -> SUBSET Lock]
        /\ state \in [Tid -> State]
    BY DEF TypeInv, TypeOK, LocksTypeOK
  <1>2. u # t /\ reads'[u] = reads[u] /\ held'[u] = held[u] /\ state'[u] = state[u]
    BY <1>1
  <1>3. ReadOK(u, x)
    BY <1>2 DEF ReadsInv
  <1>4. x \in alive' <=> x \in alive
    <2>1. CASE state[t] \in Live /\ alive' = Undo(t)
      <3>1. original[t][x] = "none"
        BY <1>2, <1>3, <2>1 DEF ReadOK
      <3> QED  BY <2>1, <3>1 DEF Undo
    <2> QED  BY <2>1
  <1>5. Before(u, x)' = Before(u, x)
    BY <1>4 DEF Before, StatusIn
  <1>6. \A v \in Tid : state'[v] \in Live => state[v] \in Live
    BY <1>1
  <1> QED  BY <1>2, <1>3, <1>5, <1>6 DEF ReadOK

(* Nobody has read the tuple an edit may change: a lock that covers it is one *)
(* the edit has asked.                                                        *)
LEMMA EditUnseen ==
    ASSUME Orderly, TypeInv, LocksInv, ReadsInv, EditInv, EditTuple, NEW u \in Tid \ {cur}
    PROVE  reads[u][NextTuple(cur)] = "none"
  <1> DEFINE x == NextTuple(cur)
  <1>1. cur \in Tid /\ x \in Tuple
    BY EditingType DEF EditTuple
  <1>2. SUFFICES ASSUME reads[u][x] # "none" PROVE FALSE
    OBVIOUS
  <1>3. PICK l \in held[u] : Covers(l, x)
    BY <1>1, <1>2 DEF ReadsInv, ReadOK
  <1>4. l \in Lock /\ u \in holders[l]
    BY <1>3 DEF TypeInv, TypeOK, LocksTypeOK, LocksInv, LocksAgree, HoldersAgree
  <1>5. l \in GroupLocks(x) \cup {WholeRel(x.rel), x}
    BY <1>1, <1>3, <1>4, CoverIsEditLock DEF EditLocks
  <1>6. CASE l \in GroupLocks(x)
    BY <1>4, <1>6 DEF EditTuple, GroupsPermit, PermitsEdit
  <1>7. CASE l = WholeRel(x.rel)
    BY <1>4, <1>7 DEF EditTuple, AtTuple, EditInv, NextTuple
  <1>8. CASE l = x
    BY <1>4, <1>8 DEF EditTuple, PermitsExclusive
  <1> QED  BY <1>5, <1>6, <1>7, <1>8

LEMMA ReadsEdited ==
    ASSUME Orderly, TypeInv, LocksInv, ReadsInv, EditInv, EditTuple
    PROVE  ReadsInv'
  <1> DEFINE x == NextTuple(cur)
  <1>1. cur \in Tid /\ x \in Tuple /\ x \in Lock /\ state' = state /\ state[cur] \in Live
    BY EditingType, LocksAreLocks DEF EditTuple, AtTuple, TypeInv, ControlOK, Live, Executing
  <1>2. /\ reads \in [Tid -> [Tuple -> Status]] /\ original \in [Tid -> [Tuple -> Status]]
        /\ held \in [Tid -> SUBSET Lock]
    BY DEF TypeInv, TypeOK, LocksTypeOK
  <1>3. /\ \A u \in Tid : reads[u][x] # "none" => u = cur
        /\ \A u \in Tid \ {cur} : state[u] \in Live => original[u][x] = "none"
    BY <1>1, EditUnseen, CleanToRead DEF EditTuple
  <1>4. /\ held' = [held EXCEPT ![cur] = held[cur] \cup {x}]
        /\ reads' = [reads EXCEPT ![cur] = [y \in Tuple |->
                IF y \in {x} /\ reads[cur][y] = "none" /\ original[cur][y] = "none"
                THEN StatusIn(alive, y) ELSE reads[cur][y]]]
        /\ \E status : Write(cur, x, status)
    BY DEF EditTuple, AcquireExclusive, Observe
  <1> HIDE DEF x
  <1>5. /\ \A y \in Tuple \ {x} : y \in alive' <=> y \in alive
        /\ \A u \in Tid, y \in Tuple : u # cur \/ y # x => original'[u][y] = original[u][y]
    <2>1. PICK status : Write(cur, x, status)
      BY <1>4
    <2> QED  BY <1>1, <1>2, <2>1 DEF Write, StoreOriginal
  <1>6. \/ /\ x \in alive' <=> x \in alive
           /\ original'[cur][x] = original[cur][x]
        \/ original'[cur][x] = IF original[cur][x] = "none" THEN StatusIn(alive, x) ELSE original[cur][x]
    BY <1>1, <1>2, <1>4 DEF Write, StoreOriginal
  <1> SUFFICES ASSUME NEW u \in Tid, NEW y \in Tuple, reads'[u][y] # "none"
               PROVE  ReadOK(u, y)'
    BY DEF ReadsInv
  <1>7. CASE y # x
    <2>1. reads'[u][y] = reads[u][y] /\ held[u] \subseteq held'[u]
      BY <1>1, <1>2, <1>4, <1>7
    <2>2. Before(u, y)' = Before(u, y)
      BY <1>5, <1>7 DEF Before, StatusIn
    <2> QED  BY <1>1, <1>5, <1>7, <2>1, <2>2 DEF ReadsInv, ReadOK
  <1>8. CASE y = x
    <2>1. u = cur
      BY <1>1, <1>2, <1>3, <1>4, <1>8
    <2>2. reads'[cur][x] = IF reads[cur][x] = "none" /\ original[cur][x] = "none"
                           THEN StatusIn(alive, x) ELSE reads[cur][x]
      BY <1>1, <1>2, <1>4
    <2>3. reads'[cur][x] = Before(cur, x)
      BY <1>1, <1>8, <2>1, <2>2 DEF ReadsInv, ReadOK, Before
    <2>4. Before(u, y)' = Before(u, y)
      BY <1>6, <1>8, <2>1 DEF Before, StatusIn
    <2>5. y \in held'[u] /\ Covers(y, y)
      BY <1>1, <1>2, <1>4, <1>8, <2>1 DEF Covers
    <2>6. \A v \in Tid \ {u} : state'[v] \in Live => original'[v][y] = "none"
      BY <1>1, <1>3, <1>5, <1>8, <2>1
    <2>7. reads'[u][y] = Before(u, y)' /\ state'[u] \in Live
      BY <1>1, <1>8, <2>1, <2>3, <2>4
    <2> QED  BY <2>5, <2>6, <2>7 DEF ReadOK
  <1> QED  BY <1>7, <1>8

-----------------------------------------------------------------------------
(* Scans and the locks of what they scan. *)

(* The updates of a query that begin no scan. *)
LEMMA ScanUpdates ==
    ASSUME NEW atoms, NEW q \in QueryOn(atoms), NEW H, ScanOK(q, H), NEW i \in DOMAIN atoms
    PROVE  /\ \A H2 : H \subseteq H2 => ScanOK(q, H2)
           /\ ScanOK(Answered(q), H)
           /\ \A c : ScanOK([q EXCEPT !.channel = c], H)
           /\ ScanOK([q EXCEPT !.pending[i] = FALSE], H)
           /\ Kind(atoms, i) \in Filters => ScanOK([q EXCEPT !.pending[i] = TRUE], H)
           /\ \A S \in SUBSET q.iter[i] : ScanOK([q EXCEPT !.iter[i] = S], H)
  <1>1. q.atoms = atoms /\ \A j \in DOMAIN atoms : StageOK(q, j, H)
    BY DEF QueryOn, ScanOK
  <1>2. \A H2 : H \subseteq H2 => ScanOK(q, H2)
    BY <1>1 DEF ScanOK, StageOK
  <1>3. ScanOK(Answered(q), H)
    <2>1. /\ Answered(q).atoms = atoms /\ Answered(q).group = q.group /\ Answered(q).iter = q.iter
          /\ Answered(q).pending = q.pending /\ Answered(q).stale = q.stale
      BY <1>1 DEF Answered, QueryOn
    <2> QED  BY <1>1, <2>1 DEF ScanOK, StageOK, MayScan
  <1>4. ASSUME NEW c PROVE ScanOK([q EXCEPT !.channel = c], H)
    <2> DEFINE r == [q EXCEPT !.channel = c]
    <2>1. r.atoms = atoms /\ r.group = q.group /\ r.iter = q.iter /\ r.pending = q.pending /\ r.stale = q.stale
      BY <1>1 DEF QueryOn
    <2> HIDE DEF r
    <2>2. ScanOK(r, H)
      BY <1>1, <2>1 DEF ScanOK, StageOK, MayScan
    <2> QED  BY <2>2 DEF r
  <1>5. ASSUME NEW b \in BOOLEAN, ~b \/ Kind(atoms, i) \in Filters
        PROVE  ScanOK([q EXCEPT !.pending[i] = b], H)
    <2> DEFINE r == [q EXCEPT !.pending[i] = b]
    <2>1. /\ r.atoms = atoms /\ r.group = q.group /\ r.iter = q.iter /\ r.stale = q.stale
          /\ \A j \in DOMAIN atoms : r.pending[j] = IF j = i THEN b ELSE q.pending[j]
      BY <1>1 DEF QueryOn
    <2> HIDE DEF r
    <2>2. \A j \in DOMAIN atoms : MayScan(r, j) => MayScan(q, j)
      BY <1>1, <1>5, <2>1 DEF MayScan
    <2>3. ScanOK(r, H)
      BY <1>1, <2>1, <2>2 DEF ScanOK, StageOK
    <2> QED  BY <2>3 DEF r
  <1>6. ASSUME NEW S \in SUBSET q.iter[i] PROVE ScanOK([q EXCEPT !.iter[i] = S], H)
    <2> DEFINE r == [q EXCEPT !.iter[i] = S]
    <2>1. /\ r.atoms = atoms /\ r.group = q.group /\ r.pending = q.pending /\ r.stale = q.stale
          /\ \A j \in DOMAIN atoms : r.iter[j] = IF j = i THEN S ELSE q.iter[j]
      BY <1>1 DEF QueryOn
    <2> HIDE DEF r
    <2>2. \A j \in DOMAIN atoms : (MayScan(r, j) => MayScan(q, j)) /\ r.iter[j] \subseteq q.iter[j]
      BY <1>1, <2>1 DEF MayScan
    <2>3. ScanOK(r, H)
      BY <1>1, <2>1, <2>2 DEF ScanOK, StageOK
    <2> QED  BY <2>3 DEF r
  <1> QED  BY <1>2, <1>3, <1>4, <1>5, <1>6

(* A scan of container l begins under its lock: with a new input of a join or *)
(* over again. rest is what it has to visit.                                  *)
LEMMA ScanBegins ==
    ASSUME NEW atoms, NEW q \in QueryOn(atoms), NEW H, ScanOK(q, H), NEW i \in DOMAIN atoms,
           NEW b \in BOOLEAN, NEW l \in H, Kind(atoms, i) \in Joins \/ l = q.group[i],
           NEW rest \in SUBSET Tuple, \A x \in rest : Covers(l, x)
    PROVE  ScanOK([q EXCEPT !.pending[i] = b, !.group[i] = l, !.iter[i] = rest, !.stale = @ \ {i}], H)
  <1> DEFINE r == [q EXCEPT !.pending[i] = b, !.group[i] = l, !.iter[i] = rest, !.stale = @ \ {i}]
  <1>1. q.atoms = atoms /\ \A j \in DOMAIN atoms : StageOK(q, j, H)
    BY DEF QueryOn, ScanOK
  <1>2. /\ r.atoms = atoms /\ r.stale = q.stale \ {i}
        /\ \A j \in DOMAIN atoms : /\ r.pending[j] = IF j = i THEN b ELSE q.pending[j]
                                   /\ r.group[j] = IF j = i THEN l ELSE q.group[j]
                                   /\ r.iter[j] = IF j = i THEN rest ELSE q.iter[j]
    BY <1>1 DEF QueryOn
  <1> HIDE DEF r
  <1>3. Filters \cap Joins = {} /\ Products \cap Joins = {}
    BY DEF Filters, Products, Joins
  <1>4. ASSUME NEW j \in DOMAIN atoms PROVE StageOK(r, j, H)
    <2>1. CASE j = i
      BY <1>1, <1>2, <1>3, <2>1 DEF StageOK
    <2>2. CASE j # i
      BY <1>1, <1>2, <2>2 DEF StageOK, MayScan
    <2> QED  BY <2>1, <2>2
  <1>5. ScanOK(r, H)
    BY <1>2, <1>4 DEF ScanOK
  <1> QED  BY <1>5 DEF r

(* The creation of a tuple only makes an iterator stale that scans.           *)
LEMMA ScanDisturbed ==
    ASSUME NEW atoms, NEW q \in QueryOn(atoms), NEW H, ScanOK(q, H), NEW x
    PROVE  ScanOK(Disturbed(q, x), H)
  <1> DEFINE r == Disturbed(q, x)
  <1>1. q.atoms = atoms /\ \A j \in DOMAIN atoms : StageOK(q, j, H)
    BY DEF QueryOn, ScanOK
  <1>2. /\ r.atoms = atoms /\ r.group = q.group /\ r.iter = q.iter /\ r.pending = q.pending
        /\ \A j \in r.stale : \/ j \in q.stale
                              \/ Kind(atoms, j) \in Products
                              \/ Kind(atoms, j) \in Joins /\ q.pending[j]
    BY <1>1 DEF Disturbed, QueryOn
  <1> HIDE DEF r
  <1>3. \A j \in DOMAIN atoms : MayScan(r, j) => MayScan(q, j)
    BY <1>1, <1>2 DEF MayScan
  <1>4. ScanOK(r, H)
    BY <1>1, <1>2, <1>3 DEF ScanOK, StageOK
  <1> QED  BY <1>4 DEF r

LEMMA ScanMore ==
    ASSUME NEW q, NEW H, NEW H2, ScanOK(q, H), H \subseteq H2
    PROVE  ScanOK(q, H2)
  BY DEF ScanOK, StageOK

(* A query that has run to its end keeps the locks of its containers.         *)
LEMMA ScanFinished ==
    ASSUME NEW atoms \in Queries, NEW q \in QueryOn(atoms), NEW H, ScanOK(q, H)
    PROVE  ScanOK([BlankQuery(atoms) EXCEPT !.answers = q.answers, !.num = q.num], H)
  <1> DEFINE r == [BlankQuery(atoms) EXCEPT !.answers = q.answers, !.num = q.num]
  <1>1. q.atoms = atoms /\ \A i \in DOMAIN atoms : StageOK(q, i, H)
    BY DEF QueryOn, ScanOK
  <1>2. /\ r.atoms = atoms /\ r.stale = {}
        /\ \A i \in DOMAIN atoms : /\ r.group[i] = Container(atoms, i, ZeroChannel)
                                   /\ r.iter[i] = {} /\ r.pending[i] = FALSE
    BY DEF BlankQuery
  <1> HIDE DEF r
  <1>3. ScanOK(r, H)
    BY <1>1, <1>2 DEF ScanOK, StageOK, MayScan
  <1> QED  BY <1>3 DEF r

(* A query that starts holds the locks of the containers of its filters and   *)
(* products.                                                                  *)
LEMMA ScanStarts ==
    ASSUME NEW atoms \in Queries, NEW H, SetupLocks(atoms, ZeroChannel) \subseteq H
    PROVE  ScanOK(NewQuery(atoms), H)
  <1> DEFINE r == NewQuery(atoms)
  <1>1. /\ r.atoms = atoms /\ r.stale = {}
        /\ \A i \in DOMAIN atoms :
              /\ r.group[i] = Container(atoms, i, ZeroChannel) /\ r.pending[i] = FALSE
              /\ r.iter[i] = IF Initial(atoms, i)
                             THEN Members(Container(atoms, i, ZeroChannel), tuples) ELSE {}
    BY DEF NewQuery, BlankQuery
  <1>2. \A i \in DOMAIN atoms :
            Kind(atoms, i) \in Filters \cup Products => Container(atoms, i, ZeroChannel) \in H
    BY DEF SetupLocks
  <1> HIDE DEF r
  <1>3. \A i \in DOMAIN atoms : StageOK(r, i, H)
    BY <1>1, <1>2 DEF StageOK, MayScan, Initial, Members
  <1>4. ScanOK(r, H)
    BY <1>1, <1>3 DEF ScanOK
  <1> QED  BY <1>4 DEF r

Editing == {"EXECUTING_ADD", "EXECUTING_DELETE"}

(* A step that leaves all queries as they are.                                *)
LEMMA ScansKept ==
    ASSUME ScansInv, HeldGrow, query' = query,
           \A u \in Tid : state'[u] \in Editing => state[u] \in Editing
    PROVE  ScansInv'
  <1> SUFFICES ASSUME NEW u \in Tid
               PROVE  /\ ScanOK(query'[u], held'[u])
                      /\ state'[u] \in Editing => query'[u].atoms = <<>>
    BY DEF ScansInv, Editing
  <1>1. ScanOK(query[u], held[u]) /\ (state[u] \in Editing => query[u].atoms = <<>>)
    BY DEF ScansInv, Editing
  <1>2. ScanOK(query[u], held'[u])
    BY <1>1, ScanMore DEF HeldGrow
  <1> QED  BY <1>1, <1>2

(* A step that changes the query of one transaction.                          *)
LEMMA ScansSet ==
    ASSUME TypeInv, ScansInv, NEW t \in Tid, NEW q, query' = [query EXCEPT ![t] = q],
           ScanOK(q, held'[t]), state'[t] \in Editing => q.atoms = <<>>,
           \A u \in Tid \ {t} : held'[u] = held[u] /\ state'[u] = state[u]
    PROVE  ScansInv'
  <1> SUFFICES ASSUME NEW u \in Tid
               PROVE  /\ ScanOK(query'[u], held'[u])
                      /\ state'[u] \in Editing => query'[u].atoms = <<>>
    BY DEF ScansInv, Editing
  <1>1. query'[u] = IF u = t THEN q ELSE query[u]
    BY DEF TypeInv, TypeOK
  <1>2. CASE u = t
    BY <1>1, <1>2
  <1>3. CASE u # t
    BY <1>1, <1>3 DEF ScansInv, Editing
  <1> QED  BY <1>2, <1>3

(* A step that creates a tuple.                                               *)
LEMMA ScansEnsured ==
    ASSUME TypeInv, ScansInv, HeldGrow, NEW x \in Tuple, EnsureTuple(x), state' = state
    PROVE  ScansInv'
  <1> SUFFICES ASSUME NEW u \in Tid
               PROVE  /\ ScanOK(query'[u], held'[u])
                      /\ state'[u] \in Editing => query'[u].atoms = <<>>
    BY DEF ScansInv, Editing
  <1>1. PICK atoms \in Queries \cup {<<>>} : query[u] \in QueryOn(atoms)
    BY DEF TypeInv, TypeOK, IsQuery
  <1>2. ScanOK(Disturbed(query[u], x), held[u])
    BY <1>1, ScanDisturbed DEF ScansInv
  <1>3. query'[u] = Disturbed(query[u], x) /\ query'[u].atoms = query[u].atoms
    BY EnsureTupleType DEF EnsureTuple, TypeInv
  <1>4. ScanOK(query'[u], held'[u])
    BY <1>2, <1>3, ScanMore DEF HeldGrow
  <1> QED  BY <1>3, <1>4 DEF ScansInv, Editing

-----------------------------------------------------------------------------
(* The steps of an edit. *)

LEMMA IsolationInvEdit ==
    ASSUME TypeInv, LocksInv, IsolationInv,
           CheckRelation \/ EditTuple \/ EditRefusedByGroup \/ EditRefusedByTuple \/ FinishEdit
    PROVE  IsolationInv'
  <1> USE DEF IsolationInv
  <1>1. /\ pc \in {"edit", "edit_tuples"} /\ cur \in Tid /\ state[cur] \in Editing
        /\ state \in [Tid -> State] /\ held \in [Tid -> SUBSET Lock]
        /\ holders \in [Lock -> SUBSET Tid]
    BY DEF CheckRelation, EditTuple, EditRefusedByGroup, EditRefusedByTuple, FinishEdit, AtTuple,
       TypeInv, TypeOK, LocksTypeOK, ControlOK, Editing
  <1>2. CASE CheckRelation
    <2>1. HeldGrow /\ UNCHANGED <<alive, original, reads, query, state, holders, edit>>
      BY <1>2 DEF CheckRelation, holderVars, dataVars, txVars, jobVars, HeldGrow
    <2>2. EditInv'
      BY <1>2, <2>1 DEF CheckRelation, EditInv, PermitsEdit, Goto, Suspend
    <2> QED  BY <2>1, <2>2, ReadsKept, ScansKept
  <1>3. CASE EditTuple
    <2>1. /\ NextTuple(cur) \in Tuple
          /\ \A u \in Tid : [edit EXCEPT ![cur].todo = Tail(@)][u].rel = edit[u].rel
      BY <1>3, EditingType DEF EditTuple
    <2>2. /\ held' = [held EXCEPT ![cur] = @ \cup {NextTuple(cur)}]
          /\ holders' = [holders EXCEPT ![NextTuple(cur)] = @ \cup {cur}]
          /\ state' = state /\ cur' = cur /\ pc = "edit_tuples"
          /\ edit' = [edit EXCEPT ![cur].todo = Tail(@)]
      BY <1>3 DEF EditTuple, AcquireExclusive, AtTuple, controlVars
    <2>3. HeldGrow
      BY <1>1, <2>2 DEF HeldGrow
    <2>4. ReadsInv'
      BY <1>3, ReadsEdited DEF ReadsInv
    <2>5. ScansInv'
      BY <1>3, <2>1, <2>2, <2>3, ScansEnsured DEF EditTuple
    <2>6. EditInv'
      <3>1. edit'[cur].rel = edit[cur].rel
        BY <1>1, <2>1, <2>2
      <3>2. \A l \in Lock : holders[l] \subseteq {cur} => holders'[l] \subseteq {cur}
        BY <1>1, <2>2
      <3>3. WholeRel(edit[cur].rel) \in Lock
        BY <1>1, LocksAreLocks DEF TypeInv, ControlOK, Editing
      <3> QED  BY <2>2, <3>1, <3>2, <3>3 DEF EditInv
    <2> QED  BY <2>4, <2>5, <2>6
  <1>4. CASE EditRefusedByGroup
    <2>1. HeldGrow /\ UNCHANGED <<alive, original, reads, query, state>> /\ pc' = "detect"
      BY <1>4 DEF EditRefusedByGroup, Suspend, holderVars, dataVars, txVars, jobVars, HeldGrow
    <2> QED  BY <2>1, ReadsKept, ScansKept DEF EditInv
  <1>5. CASE EditRefusedByTuple
    <2>1. /\ HeldGrow /\ UNCHANGED <<alive, original, reads, state>> /\ pc' = "detect"
          /\ EnsureTuple(NextTuple(cur)) /\ NextTuple(cur) \in Tuple
      BY <1>5, EditingType DEF EditRefusedByTuple, Suspend, holderVars, txVars, HeldGrow
    <2> QED  BY <2>1, ReadsKept, ScansEnsured DEF EditInv
  <1>6. CASE FinishEdit
    <2>1. /\ HeldGrow /\ UNCHANGED <<alive, original, reads, query>> /\ pc' = "idle"
          /\ state' = [state EXCEPT ![cur] = "READY"]
      BY <1>6 DEF FinishEdit, Finish, Return, holderVars, dataVars, HeldGrow
    <2>2. \A u \in Tid : /\ state'[u] \in Live <=> state[u] \in Live
                         /\ state'[u] \in Editing => state[u] \in Editing
      BY <1>1, <2>1 DEF Live, Executing, Editing
    <2> QED  BY <2>1, <2>2, ReadsKept, ScansKept DEF EditInv
  <1> QED  BY <1>2, <1>3, <1>4, <1>5, <1>6

-----------------------------------------------------------------------------
(* The steps of a query. *)

(* The running query and the locks it holds. *)
LEMMA RunningScans ==
    ASSUME TypeInv, IsolationInv, pc \in {"next", "pulled", "visit"}
    PROVE  /\ cur \in Tid /\ state[cur] = "EXECUTING_QUERY" /\ state[cur] \in Live
           /\ Q.atoms \in Queries /\ Q.atoms \in Seq(Atom) /\ Q \in QueryOn(Q.atoms)
           /\ stage \in DOMAIN Q.atoms
           /\ Target \in Tuple /\ Source \in Lock /\ Q.iter[stage] \subseteq Tuple
           /\ ScanOK(Q, held[cur]) /\ StageOK(Q, stage, held[cur])
           /\ KindOf \in Filters \cup Products => Source \in held[cur]
           /\ KindOf \in Filters => Covers(Source, Target)
  <1>1. /\ cur \in Tid /\ state[cur] = "EXECUTING_QUERY"
        /\ Q.atoms \in Queries /\ Q.atoms \in Seq(Atom) /\ Q \in QueryOn(Q.atoms)
        /\ stage \in DOMAIN Q.atoms /\ Q.channel \in [Var -> Value]
        /\ Target \in Tuple /\ Source \in Lock /\ Q.iter[stage] \subseteq Tuple
    BY RunningType, QueriesType DEF TypeInv, ControlOK
  <1>2. ScanOK(Q, held[cur]) /\ StageOK(Q, stage, held[cur])
    BY <1>1 DEF IsolationInv, ScansInv, ScanOK, Q
  <1>3. KindOf \in Filters \cup Products => Source \in held[cur]
    BY <1>2 DEF StageOK, MayScan, KindOf, Source
  <1>4. KindOf \in Filters => Covers(Source, Target)
    BY <1>1, <1>2, ZeroChannelType, FilterCovers DEF StageOK, KindOf, Source, Target
  <1> QED  BY <1>1, <1>2, <1>3, <1>4 DEF Live, Executing

(* A tuple may be observed if nobody else has changed it; so may the tuples   *)
(* that are missing from a container.                                         *)
LEMMA MayObserve ==
    ASSUME LocksInv, NEW t \in Tid
    PROVE  /\ \A x \in Tuple : x \notin tuples \/ PermitsRead(x, t) =>
                \A u \in Tid \ {t} : state[u] \in Live => original[u][x] = "none"
           /\ \A l : \A x \in Missing(l) : Covers(l, x) /\ x \in Tuple /\ x \notin tuples
  BY CleanToRead DEF Missing

(* The updates of the running query by its stages, and its end.               *)
LEMMA RunningScanUpdates ==
    ASSUME TypeInv, IsolationInv, pc \in {"next", "pulled", "visit"},
           NEW H, held[cur] \subseteq H
    PROVE  /\ ScanOK(Q, H)
           /\ ScanOK(DropInput, H) /\ (KindOf \in Filters => ScanOK(KeepInput, H))
           /\ Q.iter[stage] # {} => ScanOK(Advanced, H) /\ \A c : ScanOK([Advanced EXCEPT !.channel = c], H)
           /\ ScanOK([BlankQuery(Q.atoms) EXCEPT !.answers = Q.answers, !.num = Q.num], H)
  <1>1. /\ Q.atoms \in Queries /\ Q \in QueryOn(Q.atoms) /\ stage \in DOMAIN Q.atoms
        /\ ScanOK(Q, H) /\ Q.iter[stage] \subseteq Tuple
    BY RunningScans, ScanMore
  <1>2. ScanOK(DropInput, H) /\ (KindOf \in Filters => ScanOK(KeepInput, H))
    BY <1>1, ScanUpdates DEF DropInput, KeepInput, KindOf
  <1>3. ScanOK(Advanced, H) /\ Advanced \in QueryOn(Q.atoms)
    <2>1. Q.iter[stage] \ {Visited} \subseteq Q.iter[stage]
      OBVIOUS
    <2>2. [Q EXCEPT !.iter[stage] = Q.iter[stage] \ {Visited}] \in QueryOn(Q.atoms)
      BY <1>1, <2>1, QueryUpdateType
    <2>3. ScanOK([Q EXCEPT !.iter[stage] = Q.iter[stage] \ {Visited}], H)
      BY <1>1, <2>1, ScanUpdates
    <2> QED  BY <2>2, <2>3 DEF Advanced
  <1>4. \A c : ScanOK([Advanced EXCEPT !.channel = c], H)
    BY <1>1, <1>3, ScanUpdates
  <1>5. ScanOK([BlankQuery(Q.atoms) EXCEPT !.answers = Q.answers, !.num = Q.num], H)
    BY <1>1, ScanFinished
  <1> QED  BY <1>1, <1>2, <1>3, <1>4, <1>5

(* A stage returns OK with the query q. *)
LEMMA ScansReturnOK ==
    ASSUME TypeInv, IsolationInv, pc \in {"next", "pulled", "visit"}, held' = held, state' = state,
           NEW q \in QueryOn(Q.atoms), ScanOK(q, held[cur]), ReturnOK(q)
    PROVE  ScansInv'
  <1>1. ScanOK(Answered(q), held[cur])
    BY RunningScans, ScanUpdates
  <1>2. PICK r \in {q, Answered(q)} : query' = [query EXCEPT ![cur] = r]
    BY DEF ReturnOK, SetQuery
  <1> QED  BY <1>1, <1>2, ScansSet, RunningScans DEF IsolationInv, Editing

(* The running query ends.                                                    *)
LEMMA ScansReturnFinished ==
    ASSUME TypeInv, IsolationInv, pc \in {"next", "pulled", "visit"}, ReturnFinished,
           held[cur] \subseteq held'[cur], \A u \in Tid \ {cur} : held'[u] = held[u]
    PROVE  /\ ScansInv' /\ pc' = "idle"
           /\ \A u \in Tid : state'[u] \in Live <=> state[u] \in Live
  <1>1. /\ query' = [query EXCEPT ![cur] =
                [BlankQuery(Q.atoms) EXCEPT !.answers = Q.answers, !.num = Q.num]]
        /\ state' = [state EXCEPT ![cur] = "READY"] /\ pc' = "idle"
    BY DEF ReturnFinished, SetQuery, Finish, Return
  <1>2. cur \in Tid /\ state[cur] \in Live /\ state \in [Tid -> State]
    BY RunningScans DEF TypeInv, TypeOK
  <1>3. ScansInv'
    BY <1>1, <1>2, RunningScanUpdates, ScansSet DEF IsolationInv, Editing
  <1> QED  BY <1>1, <1>2, <1>3 DEF Live

(* The running query is changed by a stage that does not end it.              *)
LEMMA ScansSetQuery ==
    ASSUME TypeInv, IsolationInv, pc \in {"next", "pulled", "visit"}, state' = state,
           \A u \in Tid \ {cur} : held'[u] = held[u],
           NEW q, SetQuery(q), ScanOK(q, held'[cur])
    PROVE  ScansInv'
  BY RunningScans, ScansSet DEF IsolationInv, Editing, SetQuery

(* The scans the running stage may begin: of its own container, again or      *)
(* where a rehash has left it, and of the group a join has just locked.       *)
LEMMA ScanOfRest ==
    ASSUME TypeInv, IsolationInv, pc \in {"next", "pulled", "visit"},
           Source \in held[cur], NEW rest \in SUBSET Members(Source, tuples)
    PROVE  ScanOK([Q EXCEPT !.iter[stage] = rest, !.stale = @ \ {stage}], held[cur])
  <1>1. /\ Q \in QueryOn(Q.atoms) /\ stage \in DOMAIN Q.atoms /\ ScanOK(Q, held[cur])
        /\ Q.pending[stage] \in BOOLEAN /\ Source \in Lock
    BY RunningScans DEF QueryOn
  <1>2. rest \in SUBSET Tuple /\ \A x \in rest : Covers(Source, x)
    BY DEF Members, TypeInv, TypeOK
  <1>3. ScanOK([Q EXCEPT !.pending[stage] = Q.pending[stage], !.group[stage] = Source,
                         !.iter[stage] = rest, !.stale = @ \ {stage}], held[cur])
    BY <1>1, <1>2, ScanBegins DEF Source
  <1>4. [Q EXCEPT !.pending[stage] = Q.pending[stage], !.group[stage] = Source,
                  !.iter[stage] = rest, !.stale = @ \ {stage}]
            = [Q EXCEPT !.iter[stage] = rest, !.stale = @ \ {stage}]
    BY <1>1 DEF QueryOn, Source
  <1> QED  BY <1>3, <1>4

LEMMA ScanOfSource ==
    ASSUME TypeInv, IsolationInv, pc \in {"next", "pulled", "visit"}, Source \in held[cur]
    PROVE  ScanOK(Scanning(Q, Source), held[cur])
  <1>1. Q \in QueryOn(Q.atoms) /\ stage \in DOMAIN Q.atoms
    BY RunningScans
  <1>2. Scanning(Q, Source) = [Q EXCEPT !.iter[stage] = Members(Source, tuples), !.stale = @ \ {stage}]
    BY <1>1 DEF Scanning, QueryOn, Source
  <1> QED  BY <1>2, ScanOfRest

LEMMA ScanOfGroup ==
    ASSUME TypeInv, IsolationInv, pc \in {"next", "pulled", "visit"}, KindOf \in Joins,
           NEW H, held[cur] \subseteq H, NEW l \in H
    PROVE  ScanOK(Scanning(KeepInput, l), H)
  <1>1. Q \in QueryOn(Q.atoms) /\ stage \in DOMAIN Q.atoms /\ ScanOK(Q, H)
    BY RunningScans, ScanMore
  <1>2. Members(l, tuples) \in SUBSET Tuple /\ \A x \in Members(l, tuples) : Covers(l, x)
    BY DEF Members, TypeInv, TypeOK
  <1>3. ScanOK([Q EXCEPT !.pending[stage] = TRUE, !.group[stage] = l,
                         !.iter[stage] = Members(l, tuples), !.stale = @ \ {stage}], H)
    BY <1>1, <1>2, ScanBegins DEF KindOf
  <1> QED  BY <1>1, <1>3 DEF Scanning, KeepInput, QueryOn

(* What is missing from a container whose lock is held may be observed.       *)
LEMMA MissingObserved ==
    ASSUME LocksInv, NEW t \in Tid, NEW H, NEW l \in H
    PROVE  \A x \in Missing(l) \cap Tuple :
                /\ \E k \in H : Covers(k, x)
                /\ \A u \in Tid \ {t} : state[u] \in Live => original[u][x] = "none"
  BY MayObserve

(* What is the same in all steps of a query. *)
LEMMA QuerySteps ==
    ASSUME TypeInv,
           \/ GetTuple \/ NextConstConst \/ NextPull \/ NextContinue
           \/ PulledConstConst \/ PulledFilter \/ PulledProduct \/ PulledJoin
           \/ Visit \/ VisitStale \/ VisitEndJoin \/ VisitEndProduct
    PROVE  /\ pc \in {"next", "pulled", "visit"} /\ UNCHANGED <<alive, original>>
           /\ EditInv' /\ \A u \in Tid : state'[u] \in Live <=> state[u] \in Live
           /\ state' = state \/ state' = [state EXCEPT ![cur] = "READY"]
  <1>1. /\ pc \in {"next", "pulled", "visit"} /\ UNCHANGED <<alive, original>>
        /\ state' = state \/ state' = [state EXCEPT ![cur] = "READY"]
    BY DEF GetTuple, NextConstConst, NextPull, NextContinue, PulledConstConst,
       PulledFilter, PulledProduct, PulledJoin, Visit, VisitStale, VisitEndJoin, VisitEndProduct,
       ReturnFinished, dataVars, txVars
  <1>2. pc' # "edit_tuples"
    BY DEF GetTuple, NextConstConst, NextPull, NextContinue, PulledConstConst,
       PulledFilter, PulledProduct, PulledJoin, Visit, VisitStale, VisitEndJoin, VisitEndProduct,
       Suspend, CallPrevious, ReturnFinished, Finish, Return, ReturnOK, Goto, controlVars
  <1>3. state \in [Tid -> State] /\ cur \in Tid /\ state[cur] \in Live
    BY <1>1 DEF TypeInv, TypeOK, ControlOK, Live, Executing
  <1> QED  BY <1>1, <1>2, <1>3 DEF EditInv, Live

LEMMA IsolationInvNext ==
    ASSUME TypeInv, LocksInv, IsolationInv, GetTuple \/ NextConstConst \/ NextPull \/ NextContinue
    PROVE  IsolationInv'
  <1>1. /\ pc \in {"next", "pulled", "visit"} /\ UNCHANGED <<alive, original>>
        /\ EditInv' /\ \A u \in Tid : state'[u] \in Live <=> state[u] \in Live
        /\ ReadsInv /\ ScansInv
    BY QuerySteps DEF IsolationInv
  <1>2. cur \in Tid /\ state[cur] \in Live /\ Target \in Tuple /\ Target \in Lock
    BY <1>1, RunningScans, LocksAreLocks
  <1>3. CASE NextPull \/ NextContinue
    <2>1. HeldGrow /\ UNCHANGED <<reads, query, state>>
      BY <1>3 DEF NextPull, NextContinue, lockVars, holderVars, txVars, jobVars, HeldGrow
    <2> QED  BY <1>1, <2>1, ReadsKept, ScansKept DEF IsolationInv
  <1>4. CASE GetTuple
    <2>1. HeldGrow /\ UNCHANGED <<reads, state>> /\ EnsureTuple(Target)
      BY <1>4 DEF GetTuple, lockVars, txVars, HeldGrow
    <2> QED  BY <1>1, <1>2, <2>1, ReadsKept, ScansEnsured DEF IsolationInv
  <1>5. CASE NextConstConst
    <2>1. CASE Suspend({Target}) /\ UNCHANGED <<holderVars, state, reads, query>>
      <3>1. HeldGrow
        BY <2>1 DEF holderVars, HeldGrow
      <3> QED  BY <1>1, <2>1, <3>1, ReadsKept, ScansKept DEF IsolationInv
    <2>2. CASE /\ PermitsRead(Target, cur) /\ Observe(cur, {Target})
               /\ \/ cur \in holders[Target] /\ UNCHANGED holderVars
                  \/ AcquireShared(cur, {Target})
               /\ \/ CallPrevious /\ UNCHANGED <<state, query>>
                  \/ ReturnFinished
      <3>1. HeldGrow /\ Target \in held'[cur] /\ \A u \in Tid \ {cur} : held'[u] = held[u]
        <4>1. held \in [Tid -> SUBSET Lock]
          BY DEF TypeInv, TypeOK, LocksTypeOK
        <4>2. cur \in holders[Target] => Target \in held[cur]
          BY <1>2 DEF LocksInv, LocksAgree, HoldersAgree
        <4> QED  BY <1>2, <2>2, <4>1, <4>2 DEF AcquireShared, holderVars, HeldGrow
      <3>2. Covers(Target, Target)
        BY DEF Covers
      <3>3. \A u \in Tid \ {cur} : state[u] \in Live => original[u][Target] = "none"
        BY <1>2, <2>2, CleanToRead
      <3>4. ReadsInv'
        BY <1>1, <1>2, <2>2, <3>1, <3>2, <3>3, ReadsObserved
      <3>5. ScansInv'
        BY <1>1, <1>2, <2>2, <3>1, ScansKept, ScansReturnFinished DEF HeldGrow
      <3> QED  BY <1>1, <3>4, <3>5 DEF IsolationInv
    <2> QED  BY <1>5, <2>1, <2>2 DEF NextConstConst
  <1> QED  BY <1>3, <1>4, <1>5

LEMMA IsolationInvPulled ==
    ASSUME TypeInv, LocksInv, IsolationInv,
           PulledConstConst \/ PulledFilter \/ PulledProduct \/ PulledJoin
    PROVE  IsolationInv'
  <1>1. /\ pc \in {"next", "pulled", "visit"} /\ UNCHANGED <<alive, original>>
        /\ EditInv' /\ \A u \in Tid : state'[u] \in Live <=> state[u] \in Live
        /\ ReadsInv /\ ScansInv
    BY QuerySteps DEF IsolationInv
  <1>2. /\ cur \in Tid /\ state[cur] \in Live /\ Target \in Tuple /\ Target \in Lock
        /\ Q.atoms \in Queries /\ Q.atoms \in Seq(Atom) /\ Q \in QueryOn(Q.atoms)
        /\ stage \in DOMAIN Q.atoms /\ Q.channel \in [Var -> Value]
        /\ held \in [Tid -> SUBSET Lock] /\ tuples \subseteq Tuple
    BY <1>1, RunningScans, RunningType, LocksAreLocks DEF TypeInv, TypeOK, LocksTypeOK
  <1>3. CASE PulledConstConst
    <2>1. HeldGrow /\ UNCHANGED <<reads, state, held>> /\ ReturnOK(Q)
      BY <1>3 DEF PulledConstConst, holderVars, txVars, HeldGrow
    <2>2. ScanOK(Q, held[cur])
      BY <1>1, RunningScans
    <2> QED  BY <1>1, <1>2, <2>1, <2>2, ReadsKept, ScansReturnOK DEF IsolationInv
  <1>4. CASE PulledFilter
    <2>1. HeldGrow /\ UNCHANGED <<state, held>> /\ KindOf \in Filters
      BY <1>4 DEF PulledFilter, holderVars, HeldGrow
    <2>2. Source \in held'[cur] /\ Covers(Source, Target)
      BY <1>1, <2>1, RunningScans
    <2>3. /\ ScanOK(DropInput, held[cur]) /\ ScanOK(KeepInput, held[cur])
          /\ DropInput \in QueryOn(Q.atoms)
      BY <1>1, <2>1, RunningScanUpdates, StageUpdateType
    <2>4. CASE SetQuery(KeepInput) /\ UNCHANGED reads
      BY <1>1, <1>2, <2>1, <2>3, <2>4, ReadsKept, ScansSetQuery DEF IsolationInv
    <2>5. CASE /\ Observe(cur, {Target})
               /\ Target \in tuples => PermitsRead(Target, cur)
               /\ ReturnOK(DropInput) \/ SetQuery(DropInput)
      <3>1. \A u \in Tid \ {cur} : state[u] \in Live => original[u][Target] = "none"
        BY <1>2, <2>5, CleanToRead
      <3>2. ReadsInv'
        BY <1>1, <1>2, <2>1, <2>2, <2>5, <3>1, ReadsObserved
      <3>3. ScansInv'
        BY <1>1, <1>2, <2>1, <2>3, <2>5, ScansReturnOK, ScansSetQuery
      <3> QED  BY <1>1, <3>2, <3>3 DEF IsolationInv
    <2> QED  BY <1>4, <2>4, <2>5 DEF PulledFilter
  <1>5. CASE PulledProduct
    <2>1. HeldGrow /\ UNCHANGED held /\ KindOf \in Products
      BY <1>5 DEF PulledProduct, holderVars, HeldGrow
    <2>2. Source \in held'[cur]
      BY <1>1, <2>1, RunningScans
    <2>3. CASE ReturnFinished /\ UNCHANGED reads
      BY <1>1, <1>2, <2>1, <2>3, ReadsKept, ScansReturnFinished DEF IsolationInv
    <2>4. CASE UNCHANGED <<state, query, reads>>
      BY <1>1, <1>2, <2>1, <2>4, ReadsKept, ScansKept DEF IsolationInv
    <2>5. CASE SetQuery(Scanning(Q, Source)) /\ Observe(cur, Missing(Source)) /\ UNCHANGED state
      <3>1. ScanOK(Scanning(Q, Source), held'[cur])
        BY <1>1, <1>2, <2>1, <2>2, ScanOfSource
      <3>2. ReadsInv'
        BY <1>1, <1>2, <2>1, <2>2, <2>5, ReadsObserved, MissingObserved
      <3>3. ScansInv'
        BY <1>1, <1>2, <2>1, <2>5, <3>1, ScansSetQuery
      <3> QED  BY <1>1, <3>2, <3>3 DEF IsolationInv
    <2> QED  BY <1>5, <2>3, <2>4, <2>5 DEF PulledProduct
  <1>6. CASE PulledJoin
    <2> DEFINE group == Container(Q.atoms, stage, Q.channel)
    <2>1. /\ SetQuery(Scanning(KeepInput, group)) /\ AcquireShared(cur, {group})
          /\ Observe(cur, Missing(group)) /\ UNCHANGED state /\ KindOf \in Joins
      BY <1>6 DEF PulledJoin
    <2>2. group \in Lock
      BY <1>2, ContainerType
    <2> HIDE DEF group
    <2>3. /\ held[cur] \subseteq held'[cur] /\ group \in held'[cur] /\ HeldGrow
          /\ \A u \in Tid \ {cur} : held'[u] = held[u]
      BY <1>2, <2>1 DEF AcquireShared, HeldGrow
    <2>4. ScanOK(Scanning(KeepInput, group), held'[cur])
      BY <1>1, <1>2, <2>1, <2>2, <2>3, ScanOfGroup
    <2>5. ReadsInv'
      BY <1>1, <1>2, <2>1, <2>3, ReadsObserved, MissingObserved
    <2>6. ScansInv'
      BY <1>1, <1>2, <2>1, <2>3, <2>4, ScansSetQuery
    <2> QED  BY <1>1, <2>5, <2>6 DEF IsolationInv
  <1> QED  BY <1>3, <1>4, <1>5, <1>6

LEMMA IsolationInvVisit ==
    ASSUME TypeInv, LocksInv, IsolationInv, Visit \/ VisitStale \/ VisitEndJoin \/ VisitEndProduct
    PROVE  IsolationInv'
  <1>1. /\ pc \in {"next", "pulled", "visit"} /\ UNCHANGED <<alive, original, state, held>>
        /\ EditInv' /\ HeldGrow /\ ReadsInv /\ ScansInv
    BY QuerySteps DEF IsolationInv, HeldGrow, Visit, VisitStale, VisitEndJoin, VisitEndProduct,
       lockVars, holderVars, txVars
  <1>2. /\ cur \in Tid /\ state[cur] \in Live /\ Q.iter[stage] \subseteq Tuple
        /\ Q.atoms \in Queries /\ Q.atoms \in Seq(Atom) /\ Q \in QueryOn(Q.atoms)
        /\ stage \in DOMAIN Q.atoms
        /\ held \in [Tid -> SUBSET Lock] /\ tuples \subseteq Tuple
        /\ StageOK(Q, stage, held[cur])
    BY <1>1, RunningScans DEF TypeInv, TypeOK, LocksTypeOK
  <1>3. CASE Visit
    <2>1. Visited \in Q.iter[stage] /\ Visited \in Tuple
      BY <1>2, <1>3 DEF Visit, Visited
    <2>2. Source \in held'[cur] /\ Covers(Source, Visited)
      BY <1>1, <1>2, <2>1 DEF StageOK, MayScan, Source
    <2>3. /\ ScanOK(Advanced, held[cur]) /\ \A c : ScanOK([Advanced EXCEPT !.channel = c], held[cur])
          /\ Advanced \in QueryOn(Q.atoms)
      BY <1>1, <2>1, RunningScanUpdates, StageUpdateType
    <2> DEFINE bound == Bind(Q.atoms, stage, Advanced.channel, Visited)
    <2>4. [Advanced EXCEPT !.channel = bound] \in QueryOn(Q.atoms)
      <3>1. Advanced.channel \in [Var -> Value]
        BY <2>3 DEF QueryOn
      <3> QED  BY <1>2, <2>1, <2>3, <3>1, BindType, QueryUpdateType
    <2> HIDE DEF bound
    <2>5. CASE UNCHANGED <<query, reads>>
      BY <1>1, <2>5, ReadsKept, ScansKept DEF IsolationInv
    <2>6. CASE /\ PermitsRead(Visited, cur) /\ Observe(cur, {Visited})
               /\ ReturnOK([Advanced EXCEPT !.channel = bound]) \/ SetQuery(Advanced)
      <3>1. \A u \in Tid \ {cur} : state[u] \in Live => original[u][Visited] = "none"
        BY <1>2, <2>1, <2>6, CleanToRead
      <3>2. ReadsInv'
        BY <1>1, <1>2, <2>1, <2>2, <2>6, <3>1, ReadsObserved
      <3>3. ScansInv'
        BY <1>1, <1>2, <2>3, <2>4, <2>6, ScansReturnOK, ScansSetQuery
      <3> QED  BY <1>1, <3>2, <3>3 DEF IsolationInv
    <2> QED  BY <1>3, <2>5, <2>6 DEF Visit, bound
  <1>4. CASE VisitStale
    <2>1. stage \in Q.stale /\ UNCHANGED reads
      BY <1>4 DEF VisitStale, txVars
    <2>2. Source \in held'[cur]
      BY <1>1, <1>2, <2>1 DEF StageOK, MayScan, Source
    <2>3. CASE UNCHANGED query
      BY <1>1, <2>1, <2>3, ReadsKept, ScansKept DEF IsolationInv
    <2>4. ASSUME NEW rest \in SUBSET Members(Source, tuples),
                 SetQuery([Q EXCEPT !.iter[stage] = rest, !.stale = @ \ {stage}])
          PROVE  IsolationInv'
      <3>1. ScanOK([Q EXCEPT !.iter[stage] = rest, !.stale = @ \ {stage}], held'[cur])
        BY <1>1, <1>2, <2>2, ScanOfRest
      <3> QED  BY <1>1, <2>1, <2>4, <3>1, ReadsKept, ScansSetQuery DEF IsolationInv
    <2> QED  BY <1>4, <2>3, <2>4 DEF VisitStale
  <1>5. CASE VisitEndJoin
    <2>1. UNCHANGED reads /\ SetQuery(DropInput)
      BY <1>5 DEF VisitEndJoin, txVars
    <2> QED  BY <1>1, <2>1, RunningScanUpdates, ReadsKept, ScansSetQuery DEF IsolationInv
  <1>6. CASE VisitEndProduct
    <2>1. UNCHANGED <<reads, query>>
      BY <1>6 DEF VisitEndProduct, txVars, jobVars
    <2> QED  BY <1>1, <2>1, ReadsKept, ScansKept DEF IsolationInv
  <1> QED  BY <1>3, <1>4, <1>5, <1>6

-----------------------------------------------------------------------------
(* Commands, the search for a deadlock and its victims. *)

LEMMA NoQueryScans ==
    ASSUME NEW H
    PROVE  ScanOK(NoQuery, H) /\ NoQuery.atoms = <<>>
  BY DEF ScanOK, NoQuery, BlankQuery

(* A transaction ends: what was left of its query goes with its locks.        *)
LEMMA IsolationEnds ==
    ASSUME TypeInv, IsolationInv, NEW t \in Tid, NEW s \in {"COMMITTED", "ABORTED"},
           state' = [state EXCEPT ![t] = s], original' = original,
           Orderly => alive' = alive \/ (state[t] \in Live /\ alive' = Undo(t)),
           ReleaseLocks(t), Close(t)
    PROVE  ReadsInv' /\ ScansInv'
  <1>1. /\ held' = [held EXCEPT ![t] = {}] /\ query' = [query EXCEPT ![t] = NoQuery]
        /\ reads' = [reads EXCEPT ![t] = [x \in Tuple |-> "none"]]
        /\ s \notin Live
    BY DEF ReleaseLocks, Close, Live, Executing
  <1>2. ReadsInv'
    BY <1>1, ReadsOfOthers DEF IsolationInv
  <1>3. held \in [Tid -> SUBSET Lock] /\ state \in [Tid -> State]
    BY DEF TypeInv, TypeOK, LocksTypeOK
  <1>4. ScansInv'
    BY <1>1, <1>3, NoQueryScans, ScansSet DEF IsolationInv
  <1> QED  BY <1>2, <1>4

LEMMA IsolationInvDetect ==
    ASSUME TypeInv, SearchInv, IsolationInv,
           DetectStart \/ DetectFollow \/ DetectBacktrack \/ AbortVictim
    PROVE  IsolationInv'
  <1>1. CASE DetectStart \/ DetectFollow \/ DetectBacktrack
    <2>1. /\ UNCHANGED <<alive, original, reads, query, state>> /\ HeldGrow
          /\ pc' # "edit_tuples"
      BY <1>1 DEF DetectStart, DetectFollow, DetectBacktrack, lockVars, dataVars, txVars, jobVars,
         HeldGrow, Goto, Return
    <2> QED  BY <2>1, ReadsKept, ScansKept DEF IsolationInv, EditInv
  <1>2. CASE AbortVictim
    <2>1. PICK victim \in Tid : state[victim] \in Live /\ Abort(victim)
      BY <1>2, VictimWaits DEF Live
    <2>2. pc' # "edit_tuples"
      BY <1>2 DEF AbortVictim, AfterRollback, Return, Reenter
    <2>3. ReadsInv' /\ ScansInv'
      BY <2>1, IsolationEnds DEF Abort
    <2> QED  BY <2>2, <2>3 DEF IsolationInv, EditInv
  <1> QED  BY <1>1, <1>2

LEMMA IsolationInvStartQuery ==
    ASSUME TypeInv, LocksInv, IsolationInv, NEW t \in Tid, NEW atoms \in Queries, StartQuery(t, atoms)
    PROVE  ReadsInv' /\ ScansInv'
  <1> DEFINE locks == SetupLocks(atoms, ZeroChannel)
  <1>1. /\ AcquireShared(t, locks) /\ UNCHANGED <<alive, original>>
        /\ Observe(t, UNION {Missing(Container(atoms, i, ZeroChannel)) :
                        i \in {j \in DOMAIN atoms : Initial(atoms, j)}})
        /\ query' = [query EXCEPT ![t] = NewQuery(atoms)]
        /\ state[t] = "READY" /\ state' = [state EXCEPT ![t] = "EXECUTING_QUERY"]
    BY DEF StartQuery, dataVars
  <1>2. held \in [Tid -> SUBSET Lock] /\ state \in [Tid -> State] /\ locks \subseteq Lock
    BY SetupLocksType, ZeroChannelType, QueriesType DEF TypeInv, TypeOK, LocksTypeOK
  <1>3. \A i \in DOMAIN atoms : Initial(atoms, i) => Container(atoms, i, ZeroChannel) \in locks
    BY DEF Initial, SetupLocks
  <1> HIDE DEF locks
  <1>4. HeldGrow /\ locks \subseteq held'[t] /\ \A u \in Tid \ {t} : held'[u] = held[u]
    BY <1>1, <1>2 DEF AcquireShared, HeldGrow
  <1>5. /\ state[t] \in Live /\ state'[t] \notin Editing
        /\ \A u \in Tid \ {t} : state'[u] = state[u]
        /\ \A u \in Tid : state'[u] \in Live <=> state[u] \in Live
    BY <1>1, <1>2 DEF Live, Executing, Editing
  <1>6. ReadsInv'
    <2> DEFINE S == UNION {Missing(Container(atoms, i, ZeroChannel)) :
                            i \in {j \in DOMAIN atoms : Initial(atoms, j)}}
    <2>1. ASSUME NEW x \in S \cap Tuple
          PROVE  /\ \E l \in held'[t] : Covers(l, x)
                 /\ \A u \in Tid \ {t} : state[u] \in Live => original[u][x] = "none"
      <3>1. PICK i \in DOMAIN atoms :
                Initial(atoms, i) /\ x \in Missing(Container(atoms, i, ZeroChannel))
        BY <2>1
      <3>2. Container(atoms, i, ZeroChannel) \in held'[t]
        BY <1>3, <1>4, <3>1
      <3> QED  BY <3>1, <3>2, MissingObserved
    <2> HIDE DEF S
    <2>2. Observe(t, S)
      BY <1>1 DEF S
    <2> QED  BY <1>1, <1>4, <1>5, <2>1, <2>2, ReadsObserved DEF IsolationInv
  <1>7. ScanOK(NewQuery(atoms), held'[t])
    BY <1>4, ScanStarts DEF locks
  <1>8. ScansInv'
    BY <1>1, <1>4, <1>5, <1>7, ScansSet DEF IsolationInv
  <1> QED  BY <1>6, <1>8

LEMMA IsolationInvCommands ==
    ASSUME TypeInv, LocksInv, IsolationInv, NEW t \in Tid, Command(t)
    PROVE  IsolationInv'
  <1>1. state \in [Tid -> State] /\ held \in [Tid -> SUBSET Lock]
    BY DEF TypeInv, TypeOK, LocksTypeOK
  <1>2. EditInv'
    <2>1. pc' # "edit_tuples"
      BY DEF Command, Begin, Commit, CommitSuspended, CommitFinished, Rollback, Add, Delete, StartEdit,
         AddRefused, StartRefused, StartQuery, QueryNoRelation, Resume, ResumeRefused, Refuse,
         Finish, Return, Reenter, controlVars
    <2> QED  BY <2>1 DEF EditInv
  <1>3. CASE Begin(t)
    <2>1. /\ UNCHANGED <<alive, original, reads, query, held>>
          /\ state[t] = "ABSENT" /\ state' = [state EXCEPT ![t] = "READY"]
      BY <1>3 DEF Begin, lockVars, dataVars, jobVars
    <2>2. ReadsInv'
      <3>1. \A x \in Tuple : original[t][x] = "none"
        BY <2>1 DEF LocksInv, UnbegunClean
      <3>2. ASSUME Orderly, NEW u \in Tid, NEW x \in Tuple, reads'[u][x] # "none"
            PROVE  ReadOK(u, x)'
        <4>1. ReadOK(u, x)
          BY <2>1, <3>2 DEF IsolationInv, ReadsInv
        <4>2. state'[u] = state[u]
          BY <1>1, <2>1, <4>1 DEF ReadOK, Live, Executing
        <4>3. \A v \in Tid \ {u} : state'[v] \in Live => original[v][x] = "none"
          BY <1>1, <2>1, <3>1, <4>1 DEF ReadOK
        <4>4. Before(u, x)' = Before(u, x)
          BY <2>1 DEF Before, StatusIn
        <4> QED  BY <2>1, <4>1, <4>2, <4>3, <4>4 DEF ReadOK
      <3> QED  BY <3>2 DEF ReadsInv
    <2>3. ScansInv'
      BY <1>1, <2>1, ScansKept DEF IsolationInv, HeldGrow, Editing
    <2> QED  BY <1>2, <2>2, <2>3 DEF IsolationInv
  <1>4. CASE Commit(t)
    <2>1. ReadsInv' /\ ScansInv'
      BY <1>4, IsolationEnds DEF Commit, dataVars
    <2> QED  BY <1>2, <2>1 DEF IsolationInv
  <1>5. CASE Rollback(t)
    <2>1. Orderly => state[t] \in Live
      BY <1>5 DEF Rollback, Orderly
    <2>2. ReadsInv' /\ ScansInv'
      BY <1>5, <2>1, IsolationEnds DEF Rollback, Abort
    <2> QED  BY <1>2, <2>2 DEF IsolationInv
  <1>6. ASSUME NEW r \in RelName, NEW batch \in Batches, Add(t, r, batch) \/ Delete(t, r, batch)
        PROVE  IsolationInv'
    <2>1. PICK s \in Editing : StartEdit(t, r, batch, s)
      BY <1>6 DEF Add, Delete, Editing
    <2>2. /\ UNCHANGED <<alive, original, reads, held>> /\ query' = [query EXCEPT ![t] = NoQuery]
          /\ state[t] = "READY" /\ state' = [state EXCEPT ![t] = s]
      BY <2>1 DEF StartEdit, lockVars
    <2>3. /\ HeldGrow /\ \A u \in Tid : state'[u] \in Live <=> state[u] \in Live
          /\ \A u \in Tid \ {t} : held'[u] = held[u] /\ state'[u] = state[u]
      BY <1>1, <2>1, <2>2 DEF HeldGrow, Live, Executing, Editing
    <2> QED  BY <1>2, <2>2, <2>3, ReadsKept, NoQueryScans, ScansSet DEF IsolationInv
  <1>7. ASSUME NEW atoms \in Queries, StartQuery(t, atoms) PROVE IsolationInv'
    BY <1>2, <1>7, IsolationInvStartQuery DEF IsolationInv
  <1>8. ASSUME \/ CommitSuspended(t) \/ Refuse(t) \/ Resume(t)
               \/ \E r \in RelName : AddRefused(t, r)
        PROVE  IsolationInv'
    <2>1. UNCHANGED <<alive, original, reads, query, state>> /\ HeldGrow
      BY <1>8 DEF CommitSuspended, Refuse, Resume, AddRefused, lockVars, holderVars, dataVars, txVars,
         jobVars, HeldGrow
    <2> QED  BY <1>2, <2>1, ReadsKept, ScansKept DEF IsolationInv
  <1> QED
    BY <1>3, <1>4, <1>5, <1>6, <1>7, <1>8
    DEF Command, CommitFinished, StartRefused, QueryNoRelation, ResumeRefused

LEMMA IsolationInvStep ==
    ASSUME TypeInv, LocksInv, SearchInv, IsolationInv, [Next]_vars
    PROVE  IsolationInv'
  <1>1. CASE Internal
    BY <1>1, IsolationInvEdit, IsolationInvNext, IsolationInvPulled, IsolationInvVisit,
       IsolationInvDetect
    DEF Internal
  <1>2. CASE \E t \in Tid : Command(t)
    BY <1>2, IsolationInvCommands
  <1>3. CASE UNCHANGED vars
    <2>1. /\ UNCHANGED <<alive, original, reads, query, state, holders, edit, pc, cur>>
          /\ HeldGrow
      BY <1>3 DEF vars, lockVars, dataVars, txVars, jobVars, controlVars, HeldGrow
    <2> QED  BY <2>1, ReadsKept, ScansKept DEF IsolationInv, EditInv
  <1> QED  BY <1>1, <1>2, <1>3 DEF Next

LEMMA IsolationInvHolds == Spec => []IsolationInv
  BY InitIsolationInv, TypeInvHolds, LocksInvHolds, SearchInvHolds, IsolationInvStep, PTL DEF Spec

-----------------------------------------------------------------------------

(* A scan only walks groups whose locks its transaction holds, and an edit    *)
(* creates a tuple only after the groups it enters have permitted the edit.   *)
LEMMA EditsSpareScansStep ==
    ASSUME TypeInv, LocksInv, IsolationInv, [Next]_vars, pc = "edit_tuples",
           NEW t \in Tid
    PROVE  query'[t].stale \subseteq query[t].stale
  <1> DEFINE x == NextTuple(cur)
  <1>1. ASSUME AtTuple, GroupsPermit(cur, x), EnsureTuple(x)
        PROVE  query'[t].stale \subseteq query[t].stale
    <2>1. PICK atoms \in Queries \cup {<<>>} : query[t] \in QueryOn(atoms)
      BY DEF TypeInv, TypeOK, IsQuery
    <2>2. query'[t] = Disturbed(query[t], x) /\ query[t].atoms = atoms
      BY <1>1, <2>1 DEF EnsureTuple, QueryOn
    <2>3. ASSUME NEW i \in query'[t].stale, i \notin query[t].stale PROVE FALSE
      <3>1. /\ i \in DOMAIN atoms /\ query[t].group[i] \in GroupLocks(x)
            /\ MayScan(query[t], i)
        BY <2>1, <2>2, <2>3 DEF Disturbed, QueryOn, Grown, MayScan
      <3>2. query[t].group[i] \in held[t]
        BY <2>2, <3>1 DEF IsolationInv, ScansInv, ScanOK, StageOK
      <3>3. t \in holders[query[t].group[i]]
        BY <3>2 DEF TypeInv, TypeOK, LocksTypeOK, LocksInv, LocksAgree, HoldersAgree
      <3>4. t = cur
        BY <1>1, <3>1, <3>3 DEF GroupsPermit, PermitsEdit
      <3>5. query[t].atoms = <<>>
        BY <3>4 DEF IsolationInv, ScansInv, TypeInv, ControlOK
      <3> QED  BY <2>2, <3>1, <3>5
    <2> QED  BY <2>3
  <1>2. CASE EditTuple \/ EditRefusedByTuple
    BY <1>1, <1>2 DEF EditTuple, EditRefusedByTuple
  <1>3. CASE ~(EditTuple \/ EditRefusedByTuple)
    <2>1. query' = query
      <3>1. CASE Internal
        BY <1>3, <3>1 DEF Internal, CheckRelation, EditRefusedByGroup, FinishEdit,
           GetTuple, NextConstConst, NextPull, NextContinue, PulledConstConst, PulledFilter,
           PulledProduct, PulledJoin, Visit, VisitStale, VisitEndJoin, VisitEndProduct,
           DetectStart, DetectFollow, DetectBacktrack, AbortVictim, jobVars
      <3>2. CASE \E u \in Tid : Command(u)
        BY <3>2 DEF Command, Begin, Commit, CommitSuspended, CommitFinished, Rollback, Add, Delete,
           StartEdit, AddRefused, StartRefused, StartQuery, QueryNoRelation, Resume, ResumeRefused,
           Refuse
      <3>3. CASE UNCHANGED vars
        BY <3>3 DEF vars, jobVars
      <3> QED  BY <3>1, <3>2, <3>3 DEF Next
    <2> QED  BY <2>1
  <1> QED  BY <1>2, <1>3

(* What a live transaction has observed of a tuple, or of its absence from a  *)
(* container it scanned, stays as it was until the transaction ends, but for  *)
(* its own edits: the locks of its scans, of the tuples it visited and of     *)
(* those it looked up keep every edit and every undo of another away.         *)
THEOREM ReadsCorrect ==
    ASSUME "rollback_finished" \notin OutOfTurn
    PROVE  Spec => []ReadsStable
  <1>1. IsolationInv => ReadsStable
    BY DEF Orderly, IsolationInv, ReadsInv, ReadOK, ReadsStable
  <1> QED  BY <1>1, IsolationInvHolds, PTL

(* No live transaction has observed a change another has yet to commit.       *)
THEOREM CleanReadsCorrect ==
    ASSUME "rollback_finished" \notin OutOfTurn
    PROVE  Spec => []NoDirtyReads
  <1>1. IsolationInv => NoDirtyReads
    BY DEF Orderly, IsolationInv, ReadsInv, ReadOK, NoDirtyReads
  <1> QED  BY <1>1, IsolationInvHolds, PTL

(* ADD and DELETE never rehash a table that the scan of a suspended query     *)
(* walks, whatever the client rolls back: what a suspended query still        *)
(* iterates over is locked.                                                   *)
THEOREM EditsSpareScansCorrect == Spec => EditsSpareScans
  <1>1. TypeInv /\ LocksInv /\ IsolationInv /\ [Next]_vars =>
            [pc = "edit_tuples" => \A t \in Tid : query'[t].stale \subseteq query[t].stale]_vars
    BY EditsSpareScansStep
  <1> QED
    BY <1>1, TypeInvHolds, LocksInvHolds, IsolationInvHolds, PTL DEF Spec, EditsSpareScans

-----------------------------------------------------------------------------
(* The refinement mapping: what Serial is instantiated with. *)

Wrote(t, x) == state[t] \in Live /\ original[t][x] # "none"

Db ==
    {x \in Tuple :
        \/ \E t \in Tid : state[t] \in Live /\ original[t][x] = "alive"
        \/ /\ \A t \in Tid : state[t] \in Live => original[t][x] = "none"
           /\ x \in alive}

SerialStatus ==
    [t \in Tid |-> CASE state[t] = "ABSENT"    -> "absent"
                     [] state[t] = "COMMITTED" -> "committed"
                     [] state[t] = "ABORTED"   -> "aborted"
                     [] OTHER                  -> "live"]

Writes ==
    [t \in Tid |-> [x \in Tuple |->
        IF state[t] \in Live /\ original[t][x] # "none" THEN StatusIn(alive, x) ELSE "none"]]

\* What is committed of x.
Committed(x) == IF x \in Db THEN "alive" ELSE "dead"

(* The actions of the abstract database, in terms of the mapping. *)
LEMMA SerialActions ==
    ASSUME NEW t \in Tid
    PROVE  /\ Serial!SerialBegin(t) <=>
                /\ SerialStatus[t] = "absent"
                /\ SerialStatus' = [SerialStatus EXCEPT ![t] = "live"]
                /\ UNCHANGED <<Db, reads, Writes>>
           /\ Serial!SerialWork(t) <=>
                /\ SerialStatus[t] = "live"
                /\ reads' = [reads EXCEPT ![t] = reads'[t]]
                /\ Writes' = [Writes EXCEPT ![t] = Writes'[t]]
                /\ \A x \in Tuple :
                    /\ \/ reads'[t][x] = reads[t][x]
                       \/ reads[t][x] = "none" /\ Writes[t][x] = "none" /\ reads'[t][x] = Committed(x)
                    /\ Writes'[t][x] \in {Writes[t][x], "alive", "dead"}
                /\ UNCHANGED <<Db, SerialStatus>>
           /\ Serial!SerialCommit(t) <=>
                /\ SerialStatus[t] = "live"
                /\ \A x \in Tuple : reads[t][x] \in {"none", Committed(x)}
                /\ Db' = {x \in Tuple : Writes[t][x] = "alive" \/ (Writes[t][x] = "none" /\ x \in Db)}
                /\ SerialStatus' = [SerialStatus EXCEPT ![t] = "committed"]
                /\ reads' = [reads EXCEPT ![t] = [x \in Tuple |-> "none"]]
                /\ Writes' = [Writes EXCEPT ![t] = [x \in Tuple |-> "none"]]
           /\ Serial!SerialAbort(t) <=>
                /\ SerialStatus[t] = "live"
                /\ SerialStatus' = [SerialStatus EXCEPT ![t] = "aborted"]
                /\ reads' = [reads EXCEPT ![t] = [x \in Tuple |-> "none"]]
                /\ Writes' = [Writes EXCEPT ![t] = [x \in Tuple |-> "none"]]
                /\ UNCHANGED Db
  <1>1. Serial!SerialBegin(t) <=>
            /\ SerialStatus[t] = "absent"
            /\ SerialStatus' = [SerialStatus EXCEPT ![t] = "live"]
            /\ UNCHANGED <<Db, reads, Writes>>
    BY DEF Serial!SerialBegin, Db, SerialStatus, Writes
  <1>2. Serial!SerialWork(t) <=>
            /\ SerialStatus[t] = "live"
            /\ reads' = [reads EXCEPT ![t] = reads'[t]]
            /\ Writes' = [Writes EXCEPT ![t] = Writes'[t]]
            /\ \A x \in Tuple :
                /\ \/ reads'[t][x] = reads[t][x]
                   \/ reads[t][x] = "none" /\ Writes[t][x] = "none" /\ reads'[t][x] = Committed(x)
                /\ Writes'[t][x] \in {Writes[t][x], "alive", "dead"}
            /\ UNCHANGED <<Db, SerialStatus>>
    BY DEF Serial!SerialWork, Serial!Committed, Committed, Db, SerialStatus, Writes
  <1>3. Serial!SerialCommit(t) <=>
            /\ SerialStatus[t] = "live"
            /\ \A x \in Tuple : reads[t][x] \in {"none", Committed(x)}
            /\ Db' = {x \in Tuple : Writes[t][x] = "alive" \/ (Writes[t][x] = "none" /\ x \in Db)}
            /\ SerialStatus' = [SerialStatus EXCEPT ![t] = "committed"]
            /\ reads' = [reads EXCEPT ![t] = [x \in Tuple |-> "none"]]
            /\ Writes' = [Writes EXCEPT ![t] = [x \in Tuple |-> "none"]]
    BY DEF Serial!SerialCommit, Serial!Committed, Serial!Forget, Committed, Db, SerialStatus, Writes
  <1>4. Serial!SerialAbort(t) <=>
            /\ SerialStatus[t] = "live"
            /\ SerialStatus' = [SerialStatus EXCEPT ![t] = "aborted"]
            /\ reads' = [reads EXCEPT ![t] = [x \in Tuple |-> "none"]]
            /\ Writes' = [Writes EXCEPT ![t] = [x \in Tuple |-> "none"]]
            /\ UNCHANGED Db
    BY DEF Serial!SerialAbort, Serial!Forget, Db, SerialStatus, Writes
  <1> QED  BY <1>1, <1>2, <1>3, <1>4

LEMMA SerialStatusIs ==
    ASSUME TypeInv, NEW t \in Tid
    PROVE  /\ SerialStatus[t] = "live" <=> state[t] \in Live
           /\ SerialStatus[t] = "absent" <=> state[t] = "ABSENT"
  BY DEF SerialStatus, TypeInv, TypeOK, State, Live, Executing

(* Two live transactions never have the same tuple in their logs. *)
LEMMA OneWriter ==
    ASSUME LocksInv, NEW t \in Tid, NEW u \in Tid, NEW x \in Tuple, Wrote(t, x), Wrote(u, x)
    PROVE  t = u
  BY DEF LocksInv, UndoProtected, Wrote

(* What is committed of a tuple is what the log of its writer says, and what  *)
(* is alive if it has none.                                                   *)
LEMMA DbWritten ==
    ASSUME LocksInv, NEW t \in Tid, NEW x \in Tuple, Wrote(t, x)
    PROVE  x \in Db <=> original[t][x] = "alive"
  <1>1. \A u \in Tid : state[u] \in Live /\ original[u][x] = "alive" => u = t
    BY OneWriter DEF Wrote
  <1> QED  BY <1>1 DEF Db, Wrote

LEMMA DbClean ==
    ASSUME NEW x \in Tuple, \A u \in Tid : ~Wrote(u, x)
    PROVE  x \in Db <=> x \in alive
  BY DEF Db, Wrote

-----------------------------------------------------------------------------
(* The steps. *)

\* No transaction begins or ends.
SameStatus ==
    \A u \in Tid : state'[u] = state[u] \/ (state[u] \in Live /\ state'[u] \in Live)

(* A step that changes no tuple and no log looks like none. *)
LEMMA SameView ==
    ASSUME UNCHANGED <<alive, original>>, SameStatus
    PROVE  UNCHANGED <<Db, Writes, SerialStatus>>
  <1>1. \A u \in Tid : state'[u] \in Live <=> state[u] \in Live
    BY DEF SameStatus
  <1>2. Db' = Db
    BY <1>1 DEF Db
  <1>3. Writes' = Writes
    BY <1>1 DEF Writes, StatusIn
  <1>4. \A u \in Tid : SerialStatus'[u] = SerialStatus[u]
    BY DEF SameStatus, SerialStatus, Live, Executing
  <1>5. SerialStatus' = SerialStatus
    BY <1>4 DEF SerialStatus
  <1> QED  BY <1>2, <1>3, <1>5

(* A step that observes tuples is work on them: nobody else has changed what  *)
(* is new to its transaction.                                                 *)
LEMMA ObservingIsWork ==
    ASSUME Orderly, TypeInv, IsolationInv', UNCHANGED <<alive, original>>, SameStatus,
           NEW t \in Tid, state[t] \in Live, NEW S, Observe(t, S)
    PROVE  Serial!SerialWork(t)
  <1>1. UNCHANGED <<Db, Writes, SerialStatus>>
    BY SameView
  <1>2. reads \in [Tid -> [Tuple -> Status]] /\ Writes \in [Tid -> [Tuple -> Status]]
    BY DEF TypeInv, TypeOK, Writes, Status, StatusIn
  <1>3. reads' = [reads EXCEPT ![t] = reads'[t]] /\ Writes' = [Writes EXCEPT ![t] = Writes'[t]]
    BY <1>1, <1>2 DEF Observe
  <1>4. ASSUME NEW x \in Tuple, reads'[t][x] # reads[t][x]
        PROVE  reads[t][x] = "none" /\ Writes[t][x] = "none" /\ reads'[t][x] = Committed(x)
    <2>1. reads[t][x] = "none" /\ original[t][x] = "none" /\ reads'[t][x] = StatusIn(alive, x)
      BY <1>2, <1>4 DEF Observe
    <2>2. \A u \in Tid \ {t} : state'[u] \in Live => original'[u][x] = "none"
      <3>1. reads'[t][x] # "none"
        BY <2>1 DEF StatusIn
      <3> QED  BY <3>1 DEF IsolationInv, ReadsInv, Orderly, ReadOK
    <2>3. \A u \in Tid : ~Wrote(u, x)
      BY <2>1, <2>2 DEF Wrote, SameStatus
    <2>4. StatusIn(alive, x) = Committed(x)
      BY <2>3, DbClean DEF StatusIn, Committed
    <2> QED  BY <2>1, <2>4 DEF Writes
  <1>5. SerialStatus[t] = "live"
    BY SerialStatusIs
  <1> QED  BY <1>1, <1>3, <1>4, <1>5, SerialActions

(* An edit is work: the log keeps what is committed and the transaction what  *)
(* it makes of it.                                                            *)
LEMMA EditingIsWork ==
    ASSUME Orderly, TypeInv, LocksInv, LocksInv', EditTuple
    PROVE  \E t \in Tid : t = cur /\ Serial!SerialWork(t)
  <1>0. PICK x \in Tuple : x = NextTuple(cur)
    BY EditingType DEF EditTuple
  <1>1. /\ cur \in Tid /\ state' = state /\ state[cur] \in Live
        /\ reads \in [Tid -> [Tuple -> Status]] /\ original \in [Tid -> [Tuple -> Status]]
        /\ alive \in SUBSET Tuple
    BY EditingType DEF EditTuple, AtTuple, TypeInv, TypeOK, ControlOK, Live, Executing
  <1>2. PICK status \in {"alive", "dead"} : Write(cur, x, status)
    BY <1>0 DEF EditTuple
  <1>3. \A u \in Tid \ {cur} : ~Wrote(u, x) /\ ~Wrote(u, x)'
    <2>1. \A u \in Tid \ {cur} : ~Wrote(u, x)
      BY <1>0, <1>1, CleanToRead DEF EditTuple, Wrote
    <2>2. \A u \in Tid \ {cur} : original'[u] = original[u]
      BY <1>1, <1>2 DEF Write, StoreOriginal
    <2> QED  BY <1>1, <2>1, <2>2 DEF Wrote
  <1>4. /\ \A u \in Tid \ {cur} : original'[u] = original[u]
        /\ \A y \in Tuple \ {x} : /\ original'[cur][y] = original[cur][y]
                                  /\ y \in alive' <=> y \in alive
    BY <1>1, <1>2 DEF Write, StoreOriginal
  <1>5. \/ original'[cur][x] = original[cur][x] /\ (original[cur][x] = "none" => alive' = alive)
        \/ original[cur][x] = "none" /\ original'[cur][x] = StatusIn(alive, x)
    BY <1>1, <1>2 DEF Write, StoreOriginal
  <1>6. Db' = Db
    <2>1. ASSUME NEW y \in Tuple \ {x}
          PROVE  y \in Db' <=> y \in Db
      <3>1. \A u \in Tid : original'[u][y] = original[u][y] /\ (y \in alive' <=> y \in alive)
        BY <1>4
      <3> QED  BY <1>1, <3>1 DEF Db
    <2>2. x \in Db' <=> x \in Db
      <3>1. CASE original[cur][x] # "none"
        <4>1. Wrote(cur, x) /\ original'[cur][x] = original[cur][x]
          BY <1>1, <1>5, <3>1 DEF Wrote
        <4>2. \A u \in Tid \ {cur} : state[u] \in Live => original[u][x] = "none"
          BY <1>3 DEF Wrote
        <4> QED  BY <1>1, <1>4, <4>1, <4>2 DEF Db, Wrote
      <3>2. CASE original[cur][x] = "none"
        <4>1. \A u \in Tid \ {cur} : state[u] \in Live => original[u][x] = "none"
          BY <1>3 DEF Wrote
        <4>2. x \in Db <=> x \in alive
          BY <1>1, <3>2, <4>1 DEF Db
        <4>3. CASE original'[cur][x] = "none" /\ alive' = alive
          BY <1>1, <1>4, <4>1, <4>2, <4>3 DEF Db
        <4>4. CASE original'[cur][x] = StatusIn(alive, x)
          BY <1>1, <1>4, <4>1, <4>2, <4>4 DEF Db, StatusIn
        <4> QED  BY <1>5, <3>2, <4>3, <4>4
      <3> QED  BY <3>1, <3>2
    <2> QED  BY <2>1, <2>2 DEF Db
  <1>7. /\ \A u \in Tid \ {cur} : Writes'[u] = Writes[u]
        /\ \A y \in Tuple : Writes'[cur][y] \in {Writes[cur][y], "alive", "dead"}
    <2>1. ASSUME NEW u \in Tid \ {cur}, NEW y \in Tuple
          PROVE  Writes'[u][y] = Writes[u][y]
      <3>1. CASE y = x
        BY <1>1, <1>3, <1>4, <2>1, <3>1 DEF Writes, Wrote
      <3>2. CASE y # x
        <4>1. original'[u][y] = original[u][y] /\ (y \in alive' <=> y \in alive)
          BY <1>4, <3>2
        <4> QED  BY <1>1, <4>1 DEF Writes, StatusIn
      <3> QED  BY <3>1, <3>2
    <2>2. ASSUME NEW y \in Tuple
          PROVE  Writes'[cur][y] \in {Writes[cur][y], "alive", "dead"}
      <3>1. CASE y = x
        BY <1>1, <1>5, <3>1 DEF Writes, StatusIn
      <3>2. CASE y # x
        <4>1. original'[cur][y] = original[cur][y] /\ (y \in alive' <=> y \in alive)
          BY <1>4, <3>2
        <4> QED  BY <1>1, <4>1 DEF Writes, StatusIn
      <3> QED  BY <3>1, <3>2
    <2>3. \A u \in Tid \ {cur} : Writes'[u] = Writes[u]
      BY <2>1 DEF Writes
    <2> QED  BY <2>2, <2>3
  <1>8. Writes' = [Writes EXCEPT ![cur] = Writes'[cur]]
    <2>1. Writes = [u \in Tid |-> Writes[u]] /\ Writes' = [u \in Tid |-> Writes'[u]]
      BY DEF Writes
    <2> QED  BY <1>7, <2>1
  <1>9. /\ reads' = [reads EXCEPT ![cur] = reads'[cur]]
        /\ \A y \in Tuple : \/ reads'[cur][y] = reads[cur][y]
                            \/ /\ y = x /\ reads[cur][y] = "none" /\ original[cur][y] = "none"
                               /\ reads'[cur][y] = StatusIn(alive, y)
    BY <1>0, <1>1 DEF EditTuple, Observe
  <1>10. original[cur][x] = "none" => Writes[cur][x] = "none" /\ StatusIn(alive, x) = Committed(x)
    <2>1. original[cur][x] = "none" => \A u \in Tid : ~Wrote(u, x)
      BY <1>3 DEF Wrote
    <2> QED  BY <1>1, <2>1, DbClean DEF Writes, StatusIn, Committed
  <1>11. SerialStatus' = SerialStatus /\ SerialStatus[cur] = "live"
    BY <1>1, SerialStatusIs DEF SerialStatus
  <1>12. /\ Writes' = [Writes EXCEPT ![cur] = Writes'[cur]]
         /\ \A y \in Tuple :
               /\ \/ reads'[cur][y] = reads[cur][y]
                  \/ /\ reads[cur][y] = "none" /\ Writes[cur][y] = "none"
                     /\ reads'[cur][y] = Committed(y)
               /\ Writes'[cur][y] \in {Writes[cur][y], "alive", "dead"}
    BY <1>7, <1>8, <1>9, <1>10
  <1>13. PICK me \in Tid : me = cur
    BY <1>1
  <1>14. Serial!SerialWork(me)
    <2>1. /\ SerialStatus[me] = "live" /\ reads' = [reads EXCEPT ![me] = reads'[me]]
          /\ Writes' = [Writes EXCEPT ![me] = Writes'[me]] /\ UNCHANGED <<Db, SerialStatus>>
      BY <1>6, <1>9, <1>11, <1>12, <1>13
    <2>2. \A y \in Tuple :
              /\ \/ reads'[me][y] = reads[me][y]
                 \/ reads[me][y] = "none" /\ Writes[me][y] = "none" /\ reads'[me][y] = Committed(y)
              /\ Writes'[me][y] \in {Writes[me][y], "alive", "dead"}
      BY <1>12, <1>13
    <2> QED  BY <2>1, <2>2, SerialActions
  <1> QED  BY <1>13, <1>14

(* The log of a transaction that begins is empty. *)
LEMMA BeginningIsBegin ==
    ASSUME TypeInv, LocksInv, NEW t \in Tid, Begin(t)
    PROVE  Serial!SerialBegin(t)
  <1>1. /\ state[t] = "ABSENT" /\ state' = [state EXCEPT ![t] = "READY"]
        /\ UNCHANGED <<alive, original, reads>> /\ state \in [Tid -> State]
        /\ \A x \in Tuple : original[t][x] = "none"
    BY DEF Begin, dataVars, TypeInv, TypeOK, LocksInv, UnbegunClean
  <1>2. \A u \in Tid \ {t} : state'[u] = state[u]
    BY <1>1
  <1>3. ASSUME NEW u \in Tid, NEW x \in Tuple, original[u][x] # "none"
        PROVE  state'[u] \in Live <=> state[u] \in Live
    BY <1>1, <1>2, <1>3
  <1>4. Db' = Db
    BY <1>1, <1>3 DEF Db
  <1>5. Writes' = Writes
    BY <1>1, <1>3 DEF Writes, StatusIn
  <1>6. SerialStatus[t] = "absent" /\ SerialStatus' = [SerialStatus EXCEPT ![t] = "live"]
    BY <1>1 DEF SerialStatus
  <1> QED  BY <1>1, <1>4, <1>5, <1>6, SerialActions

\* t ends in state s, and with it its log and what it has read.
Ends(t, s) ==
    /\ state[t] \in Live /\ state' = [state EXCEPT ![t] = s]
    /\ original' = original
    /\ reads' = [reads EXCEPT ![t] = [x \in Tuple |-> "none"]]

(* Whatever the end of a transaction does to the tuples it has changed, the   *)
(* writes of the others stay what they are.                                   *)
LEMMA WritesEnd ==
    ASSUME TypeInv, LocksInv, NEW t \in Tid, NEW s \in {"COMMITTED", "ABORTED"}, Ends(t, s),
           \A x \in Tuple : original[t][x] = "none" => (x \in alive' <=> x \in alive)
    PROVE  /\ Writes' = [Writes EXCEPT ![t] = [x \in Tuple |-> "none"]]
           /\ \A u \in Tid, x \in Tuple : Wrote(u, x)' <=> Wrote(u, x) /\ u # t
           /\ SerialStatus[t] = "live"
           /\ SerialStatus' = [SerialStatus EXCEPT ![t] = IF s = "COMMITTED" THEN "committed" ELSE "aborted"]
  <1>1. /\ state \in [Tid -> State] /\ state'[t] = s /\ s \notin Live /\ state[t] \in Live
        /\ original' = original /\ \A u \in Tid \ {t} : state'[u] = state[u]
    BY DEF Ends, TypeInv, TypeOK, Live, Executing
  <1>2. \A u \in Tid, x \in Tuple : Wrote(u, x)' <=> Wrote(u, x) /\ u # t
    BY <1>1 DEF Wrote
  <1>3. ASSUME NEW u \in Tid \ {t}, NEW x \in Tuple
        PROVE  Writes'[u][x] = Writes[u][x]
    <2>1. CASE Wrote(u, x)
      <3>1. original[t][x] = "none"
        BY <1>1, <1>3, <2>1, OneWriter DEF Wrote
      <3> QED  BY <1>1, <1>3, <3>1 DEF Writes, StatusIn
    <2>2. CASE ~Wrote(u, x)
      BY <1>1, <1>3, <2>2 DEF Writes, Wrote
    <2> QED  BY <2>1, <2>2
  <1>4. \A x \in Tuple : Writes'[t][x] = "none"
    BY <1>1 DEF Writes
  <1>5. Writes' = [Writes EXCEPT ![t] = [x \in Tuple |-> "none"]]
    <2>1. Writes' = [u \in Tid |-> [x \in Tuple |-> Writes'[u][x]]]
      BY DEF Writes
    <2>2. Writes = [u \in Tid |-> [x \in Tuple |-> Writes[u][x]]]
      BY DEF Writes
    <2> QED  BY <1>3, <1>4, <2>1, <2>2
  <1>6. SerialStatus[t] = "live"
    BY SerialStatusIs, <1>1
  <1>7. SerialStatus' = [SerialStatus EXCEPT ![t] = IF s = "COMMITTED" THEN "committed" ELSE "aborted"]
    BY <1>1 DEF SerialStatus
  <1> QED  BY <1>2, <1>5, <1>6, <1>7

(* What a transaction that commits has read is committed, and its changes    *)
(* take effect.                                                               *)
LEMMA CommittingIsCommit ==
    ASSUME Orderly, TypeInv, LocksInv, IsolationInv, NEW t \in Tid, Commit(t)
    PROVE  Serial!SerialCommit(t)
  <1>1. Ends(t, "COMMITTED") /\ alive' = alive
    BY DEF Commit, Close, Ends, Live, dataVars
  <1>2. /\ Writes' = [Writes EXCEPT ![t] = [x \in Tuple |-> "none"]]
        /\ \A u \in Tid, x \in Tuple : Wrote(u, x)' <=> Wrote(u, x) /\ u # t
        /\ SerialStatus[t] = "live"
        /\ SerialStatus' = [SerialStatus EXCEPT ![t] = "committed"]
    BY <1>1, WritesEnd
  <1>3. ASSUME NEW x \in Tuple, reads[t][x] # "none"
        PROVE  reads[t][x] = Committed(x)
    <2>1. reads[t][x] = Before(t, x) /\ state[t] \in Live
          /\ \A u \in Tid \ {t} : state[u] \in Live => original[u][x] = "none"
      BY <1>3 DEF IsolationInv, ReadsInv, ReadOK
    <2>2. CASE original[t][x] = "none"
      <3>1. \A u \in Tid : ~Wrote(u, x)
        BY <2>1, <2>2 DEF Wrote
      <3> QED  BY <2>1, <2>2, <3>1, DbClean DEF Before, StatusIn, Committed
    <2>3. CASE original[t][x] # "none"
      <3>1. Wrote(t, x) /\ original[t][x] \in Status
        BY <2>1, <2>3 DEF Wrote, TypeInv, TypeOK
      <3> QED  BY <2>1, <2>3, <3>1, DbWritten DEF Before, Committed, Status
    <2> QED  BY <2>2, <2>3
  <1>4. ASSUME NEW x \in Tuple
        PROVE  x \in Db' <=> Writes[t][x] = "alive" \/ (Writes[t][x] = "none" /\ x \in Db)
    <2>1. state[t] \in Live /\ original' = original
          /\ \A u \in Tid : state'[u] \in Live <=> state[u] \in Live /\ u # t
      BY <1>1 DEF Ends, Live, Executing, TypeInv, TypeOK
    <2>2. CASE Wrote(t, x)
      <3>1. \A u \in Tid : state'[u] \in Live => original'[u][x] = "none"
        BY <2>1, <2>2, OneWriter DEF Wrote
      <3>2. x \in Db' <=> x \in alive
        BY <1>1, <3>1 DEF Db
      <3> QED  BY <2>2, <3>2 DEF Writes, Wrote, StatusIn
    <2>3. CASE ~Wrote(t, x)
      <3>1. original[t][x] = "none" /\ Writes[t][x] = "none"
        BY <2>1, <2>3 DEF Wrote, Writes
      <3>2. x \in Db' <=> x \in Db
        BY <1>1, <2>1, <3>1 DEF Db
      <3> QED  BY <3>1, <3>2
    <2> QED  BY <2>2, <2>3
  <1>5. Db' = {x \in Tuple : Writes[t][x] = "alive" \/ (Writes[t][x] = "none" /\ x \in Db)}
    <2>1. Db' = {x \in Tuple : x \in Db'}
      BY DEF Db
    <2> QED  BY <1>4, <2>1
  <1>6. /\ \A x \in Tuple : reads[t][x] \in {"none", Committed(x)}
        /\ reads' = [reads EXCEPT ![t] = [x \in Tuple |-> "none"]]
    BY <1>1, <1>3 DEF Ends
  <1> QED  BY <1>2, <1>5, <1>6, SerialActions

(* A rollback of a live transaction leaves what is committed as it is.        *)
LEMMA AbortingIsAbort ==
    ASSUME TypeInv, LocksInv, NEW t \in Tid, state[t] \in Live, Abort(t)
    PROVE  Serial!SerialAbort(t)
  <1>1. Ends(t, "ABORTED") /\ alive' = Undo(t)
    BY DEF Abort, Close, Ends
  <1>2. \A x \in Tuple : x \in alive' <=> \/ original[t][x] = "alive"
                                          \/ original[t][x] = "none" /\ x \in alive
    BY <1>1 DEF Undo
  <1>3. /\ Writes' = [Writes EXCEPT ![t] = [x \in Tuple |-> "none"]]
        /\ \A u \in Tid, x \in Tuple : Wrote(u, x)' <=> Wrote(u, x) /\ u # t
        /\ SerialStatus[t] = "live"
        /\ SerialStatus' = [SerialStatus EXCEPT ![t] = "aborted"]
    BY <1>1, <1>2, WritesEnd
  <1>4. state[t] \in Live /\ original' = original
        /\ \A u \in Tid : state'[u] \in Live <=> state[u] \in Live /\ u # t
    BY <1>1 DEF Ends, Live, Executing, TypeInv, TypeOK
  <1>5. ASSUME NEW x \in Tuple
        PROVE  x \in Db' <=> x \in Db
    <2>1. CASE Wrote(t, x)
      <3>1. \A u \in Tid : state'[u] \in Live => original'[u][x] = "none"
        BY <1>4, <2>1, OneWriter DEF Wrote
      <3>2. x \in Db' <=> x \in alive'
        BY <3>1 DEF Db
      <3>3. x \in Db <=> original[t][x] = "alive"
        BY <2>1, DbWritten
      <3> QED  BY <1>2, <2>1, <3>2, <3>3 DEF Wrote
    <2>2. CASE ~Wrote(t, x)
      <3>1. original[t][x] = "none" /\ (x \in alive' <=> x \in alive)
        BY <1>2, <1>4, <2>2 DEF Wrote
      <3> QED  BY <1>4, <3>1 DEF Db
    <2> QED  BY <2>1, <2>2
  <1>6. Db' = Db
    <2>1. Db' = {x \in Tuple : x \in Db'} /\ Db = {x \in Tuple : x \in Db}
      BY DEF Db
    <2> QED  BY <1>5, <2>1
  <1> QED  BY <1>1, <1>3, <1>6, SerialActions DEF Ends

-----------------------------------------------------------------------------
(* The refinement. *)

\* What a step may look like that is not an edit, a begin or an end.
LooksOrNothing ==
    /\ UNCHANGED <<alive, original>> /\ SameStatus
    /\ \/ UNCHANGED reads
       \/ \E t \in Tid : \E S : state[t] \in Live /\ Observe(t, S)

LEMMA LooksRefines ==
    ASSUME Orderly, TypeInv, IsolationInv', LooksOrNothing
    PROVE  UNCHANGED <<Db, SerialStatus, reads, Writes>> \/ Serial!SerialNext
  <1>1. CASE UNCHANGED reads
    BY <1>1, SameView DEF LooksOrNothing
  <1>2. CASE \E t \in Tid : \E S : state[t] \in Live /\ Observe(t, S)
    <2>1. PICK t \in Tid : \E S : state[t] \in Live /\ Observe(t, S)
      BY <1>2
    <2>2. Serial!SerialWork(t)
      BY <2>1, ObservingIsWork DEF LooksOrNothing
    <2> QED  BY <2>2 DEF Serial!SerialNext
  <1> QED  BY <1>1, <1>2 DEF LooksOrNothing

LEMMA QueriesLook ==
    ASSUME TypeInv,
           \/ GetTuple \/ NextConstConst \/ NextPull \/ NextContinue
           \/ PulledConstConst \/ PulledFilter \/ PulledProduct \/ PulledJoin
           \/ Visit \/ VisitStale \/ VisitEndJoin \/ VisitEndProduct
    PROVE  LooksOrNothing
  <1>1. /\ pc \in {"next", "pulled", "visit"} /\ UNCHANGED <<alive, original>>
        /\ \A u \in Tid : state'[u] \in Live <=> state[u] \in Live
        /\ state' = state \/ state' = [state EXCEPT ![cur] = "READY"]
    BY QuerySteps
  <1>2. cur \in Tid /\ state[cur] \in Live /\ state \in [Tid -> State]
    BY <1>1 DEF TypeInv, TypeOK, ControlOK, Live, Executing
  <1>3. UNCHANGED reads \/ \E S : Observe(cur, S)
    <2>1. CASE GetTuple \/ NextConstConst \/ NextPull \/ NextContinue
      BY <2>1 DEF GetTuple, NextConstConst, NextPull, NextContinue, txVars
    <2>2. CASE PulledConstConst \/ PulledFilter \/ PulledProduct \/ PulledJoin
      BY <2>2 DEF PulledConstConst, PulledFilter, PulledProduct, PulledJoin, txVars
    <2>3. CASE Visit \/ VisitStale \/ VisitEndJoin \/ VisitEndProduct
      BY <2>3 DEF Visit, VisitStale, VisitEndJoin, VisitEndProduct, txVars
    <2> QED  BY <2>1, <2>2, <2>3
  <1>4. SameStatus
    BY <1>1, <1>2 DEF SameStatus, Live
  <1> QED  BY <1>1, <1>2, <1>3, <1>4 DEF LooksOrNothing

LEMMA OthersLook ==
    ASSUME TypeInv,
           \/ CheckRelation \/ EditRefusedByGroup \/ EditRefusedByTuple \/ FinishEdit
           \/ DetectStart \/ DetectFollow \/ DetectBacktrack
    PROVE  LooksOrNothing
  <1>1. CASE FinishEdit
    <2>1. cur \in Tid /\ state[cur] \in Live /\ state \in [Tid -> State]
      BY <1>1 DEF FinishEdit, TypeInv, TypeOK, ControlOK, Live, Executing
    <2> QED  BY <1>1, <2>1 DEF FinishEdit, LooksOrNothing, SameStatus, Live, dataVars
  <1>2. CASE \/ CheckRelation \/ EditRefusedByGroup \/ EditRefusedByTuple
             \/ DetectStart \/ DetectFollow \/ DetectBacktrack
    BY <1>2 DEF CheckRelation, EditRefusedByGroup, EditRefusedByTuple, DetectStart, DetectFollow,
       DetectBacktrack, LooksOrNothing, SameStatus, dataVars, txVars
  <1> QED  BY <1>1, <1>2

LEMMA CommandsRefine ==
    ASSUME Orderly, TypeInv, LocksInv, IsolationInv, IsolationInv', NEW t \in Tid, Command(t)
    PROVE  UNCHANGED <<Db, SerialStatus, reads, Writes>> \/ Serial!SerialNext
  <1>0. state \in [Tid -> State]
    BY DEF TypeInv, TypeOK
  <1>1. CASE Begin(t)
    BY <1>1, BeginningIsBegin DEF Serial!SerialNext
  <1>2. CASE Commit(t)
    BY <1>2, CommittingIsCommit DEF Serial!SerialNext
  <1>3. CASE Rollback(t)
    BY <1>3, AbortingIsAbort DEF Rollback, Orderly, Serial!SerialNext
  <1>4. CASE \E atoms \in Queries : StartQuery(t, atoms)
    <2>1. LooksOrNothing
      BY <1>0, <1>4 DEF StartQuery, LooksOrNothing, SameStatus, Live, Executing, dataVars
    <2> QED  BY <2>1, LooksRefines
  <1>5. CASE \E r \in RelName, batch \in Batches : Add(t, r, batch) \/ Delete(t, r, batch)
    <2>1. LooksOrNothing
      BY <1>0, <1>5 DEF Add, Delete, StartEdit, LooksOrNothing, SameStatus, Live, Executing
    <2> QED  BY <2>1, LooksRefines
  <1>6. CASE \/ CommitSuspended(t) \/ CommitFinished(t) \/ StartRefused(t)
             \/ (\E r \in RelName : AddRefused(t, r))
             \/ (\E atoms \in Queries : QueryNoRelation(t, atoms))
             \/ Resume(t) \/ ResumeRefused(t)
    <2>1. LooksOrNothing
      BY <1>6 DEF CommitSuspended, CommitFinished, StartRefused, AddRefused, QueryNoRelation, Resume,
         ResumeRefused, Refuse, LooksOrNothing, SameStatus, dataVars, txVars
    <2> QED  BY <2>1, LooksRefines
  <1> QED  BY <1>1, <1>2, <1>3, <1>4, <1>5, <1>6 DEF Command

LEMMA StepRefines ==
    ASSUME Orderly, TypeInv, LocksInv, LocksInv', SearchInv, IsolationInv, IsolationInv', [Next]_vars
    PROVE  UNCHANGED <<Db, SerialStatus, reads, Writes>> \/ Serial!SerialNext
  <1>1. CASE EditTuple
    BY <1>1, EditingIsWork DEF Serial!SerialNext
  <1>2. CASE AbortVictim
    <2>1. PICK victim \in Tid : state[victim] \in Live /\ Abort(victim)
      BY <1>2, VictimWaits DEF Live
    <2>2. Serial!SerialAbort(victim)
      BY <2>1, AbortingIsAbort
    <2> QED  BY <2>2 DEF Serial!SerialNext
  <1>3. CASE Internal /\ ~EditTuple /\ ~AbortVictim
    <2>1. LooksOrNothing
      BY <1>3, QueriesLook, OthersLook DEF Internal
    <2> QED  BY <2>1, LooksRefines
  <1>4. CASE \E t \in Tid : Command(t)
    BY <1>4, CommandsRefine
  <1>5. CASE UNCHANGED vars
    <2>1. LooksOrNothing
      BY <1>5 DEF vars, dataVars, txVars, LooksOrNothing, SameStatus
    <2> QED  BY <2>1, LooksRefines
  <1> QED  BY <1>1, <1>2, <1>3, <1>4, <1>5 DEF Next

(* The loaded tuples are committed and nobody has begun.                      *)
LEMMA InitRefines ==
    ASSUME Init
    PROVE  Serial!SerialInit
  <1>1. /\ alive = Loaded /\ Loaded \subseteq Tuple
        /\ state = [t \in Tid |-> "ABSENT"]
        /\ original = [t \in Tid |-> [x \in Tuple |-> "none"]]
        /\ reads = [t \in Tid |-> [x \in Tuple |-> "none"]]
    BY DatabaseAssumption DEF Init
  <1>2. Db = Loaded
    BY <1>1 DEF Db
  <1>3. SerialStatus = [t \in Tid |-> "absent"]
    BY <1>1 DEF SerialStatus
  <1>4. Writes = [t \in Tid |-> [x \in Tuple |-> "none"]]
    BY <1>1 DEF Writes
  <1> QED  BY <1>1, <1>2, <1>3, <1>4 DEF Serial!SerialInit, Db, SerialStatus, Writes

(* Committed transactions are serializable in the order of their commits and *)
(* rolled back ones leave no trace: Database implements SerialDatabase, under *)
(* any client that does not roll back what has ended.                         *)
THEOREM SerializableCorrect ==
    ASSUME "rollback_finished" \notin OutOfTurn
    PROVE  Spec => Serializable
  <1>1. Init => Serial!SerialInit
    BY InitRefines
  <1>2. TypeInv /\ LocksInv /\ LocksInv' /\ SearchInv /\ IsolationInv /\ IsolationInv' /\ [Next]_vars
            => [Serial!SerialNext]_(Serial!serialVars)
    <2>1. Orderly
      BY DEF Orderly
    <2>2. UNCHANGED <<Db, SerialStatus, reads, Writes>> => UNCHANGED Serial!serialVars
      BY DEF Serial!serialVars, Db, SerialStatus, Writes
    <2> QED  BY <2>1, <2>2, StepRefines
  <1> QED
    BY <1>1, <1>2, TypeInvHolds, LocksInvHolds, SearchInvHolds, IsolationInvHolds, PTL
    DEF Spec, Serializable, Serial!SerialSpec
=============================================================================
