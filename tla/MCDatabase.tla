----------------------------- MODULE MCDatabase -----------------------------
(* Small instances of Database for TLC. *)
EXTENDS DatabaseProperties, TLC

CONSTANTS X, Y

Symm == Permutations(Tid)

R(a, b) == [rel |-> "R", left |-> a, right |-> b]

\* Files of one tuple, of two (on the diagonal and off it), and an empty one.
OneEdit   == {<< <<1, 2>> >>}
TwoEdits  == {<< <<1, 1>> >>, << <<1, 2>>, <<2, 2>> >>}
PairEdit  == {<< <<2, 2>>, <<1, 2>> >>}
EmptyEdit == {<<>>, << <<2, 1>>, <<1, 2>> >>}

\* Tuples alive at the start.
Loop == {R(1, 1)}
Arc  == {R(2, 1)}

\* A constant atom, which may enter (1, 2) in the group another scan goes over,
\* and the diagonal; a product over the answers of another stage, of a group
\* that may be empty; a join.
GroupQueries == {<<R(1, 2), R(X, X)>>, <<R(2, X), R(1, Y)>>, <<R(1, X), R(X, Y)>>}
\* Every kind of stage, a product over the answers of another stage included.
AnyQueries == {<<R(1, 2), R(X, Y), R(Y, X)>>, <<R(1, X), R(X, 2)>>,
               <<R(2, X), R(Y, X), R(1, 2)>>, <<R(2, X), R(1, Y)>>}
\* Two predicates that an edit of (1, 2) runs into, and that tuple itself.
OverlappingQueries == {<<R(1, X)>>, <<R(X, 2), R(1, 2)>>}
\* A group product over a constant atom; a relation product and its filter.
FinishQueries == {<<R(X, 2), R(1, 2)>>, <<R(X, Y), R(Y, X)>>}
\* An atom without variables.
GroundQueries == {<<R(1, 2)>>}
\* A filter that enters (1, Y) in the group scanned for X, which is full.
GrowingQueries == {<<R(1, X), R(2, Y), R(X, Y)>>}
FullGroup == {R(1, 1), R(1, 2), R(1, 3), R(1, 4), R(2, 5)}
\* A product over the answers of another stage.
NestedQueries == {<<R(1, X), R(2, Y)>>}
=============================================================================
