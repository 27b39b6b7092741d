---------------------------- MODULE QueryParser -----------------------------
(***************************************************************************)
(* The tokeniser and the query parser of source/parsing_functions.cpp.  A  *)
(* text is a sequence of characters; a word whose letters do not matter    *)
(* may be one character.  A std::optional is a set of at most one element. *)
(***************************************************************************)
EXTENDS Integers, FiniteSets, FiniteSetsExt, SequencesExt

CONSTANTS
    Char,               \* the characters
    Letter,             \* what std::isalnum accepts besides the digits
    MaxUint             \* the largest uint32_t

Space == " "
Tab   == "tab"
CR    == "cr"
White == {Space, Tab, CR}

Numeral == <<"0", "1", "2", "3", "4", "5", "6", "7", "8", "9">>
Digit   == {Numeral[i] : i \in DOMAIN Numeral}
DigitValue(c) == (CHOOSE i \in DOMAIN Numeral : Numeral[i] = c) - 1

ASSUME ParserAssumption ==
    /\ Letter \cup Digit \cup White \cup {"(", ")", ",", "_", "#"} \subseteq Char
    /\ Letter \cap (White \cup {"(", ")", ",", "_"}) = {}
    /\ MaxUint \in Nat

IsAlnum(c) == c \in Letter \cup Digit

AllOf(text, Test(_)) == \A i \in DOMAIN text : Test(text[i])

\* text without the characters of S at either end.
\* Mutant: one character at the most.
TrimMutant(text, S) ==
    LET first == IF text # <<>> /\ Head(text) \in S THEN Tail(text) ELSE text
    IN  IF first # <<>> /\ Last(first) \in S THEN Front(first) ELSE first
Trim(text, S) ==
    LET kept == {i \in DOMAIN text : text[i] \notin S}
    IN  IF kept = {} THEN <<>> ELSE SubSeq(text, Min(kept), Max(kept))

\* The elements of S, a set of positions in text, in their order.
InOrder(text, S) == SelectSeq([i \in DOMAIN text |-> i], LAMBDA i : i \in S)

\* The pieces of text between the positions of cuts, empty ones included.
Pieces(text, cuts) ==
    LET ends == <<0>> \o InOrder(text, cuts) \o <<Len(text) + 1>>
    IN  [k \in 1 .. Len(ends) - 1 |-> SubSeq(text, ends[k] + 1, ends[k + 1] - 1)]

Tokenise(line) ==
    SelectSeq(Pieces(line, {i \in DOMAIN line : line[i] \in White}),
              LAMBDA token : token # <<>>)

-----------------------------------------------------------------------------
(* Terms. *)

Constant(v)    == [constant |-> v]
Variable(name) == [variable |-> name]

\* The number that digits spell: value[i] that of the first i.
Value(text) ==
    LET value[i \in 0 .. Len(text)] ==
            IF i = 0 THEN 0 ELSE 10 * value[i - 1] + DigitValue(text[i])
    IN  value[Len(text)]

\* std::from_chars over the whole text: no sign, no blank, within 32 bits.
\* Mutant: the value is cut off at 32 bits.
FromCharsMutant(text) ==
    IF text # <<>> /\ AllOf(text, LAMBDA c : c \in Digit)
    THEN {Value(text) % (MaxUint + 1)} ELSE {}
FromChars(text) ==
    IF text # <<>> /\ AllOf(text, LAMBDA c : c \in Digit) /\ Value(text) <= MaxUint
    THEN {Value(text)} ELSE {}

\* Whatever is no number but spelled like a name is a variable, an integer
\* beyond 32 bits included.
ParseTerm(text) ==
    LET sv == Trim(text, {Space})
    IN  IF sv = <<>> THEN {}
        ELSE IF FromChars(sv) # {} THEN {Constant(v) : v \in FromChars(sv)}
        ELSE IF AllOf(sv, LAMBDA c : IsAlnum(c) \/ c = "_") THEN {Variable(sv)}
        ELSE {}

-----------------------------------------------------------------------------
(* Atoms and queries. *)

Positions(text, c) == {i \in DOMAIN text : text[i] = c}

Atom(rel, l, r) == [relation |-> rel, left |-> l, right |-> r]

\* Mutant: spelled like a variable.
IsRelationNameMutant(name) == name # <<>> /\ AllOf(name, LAMBDA c : IsAlnum(c) \/ c = "_")
IsRelationName(name) == name # <<>> /\ AllOf(name, IsAlnum)

\* Two terms, parted by the first comma.
ParseArgs(args) ==
    LET comma == Positions(args, ",")
    IN  IF comma = {} THEN {}
        ELSE ParseTerm(SubSeq(args, 1, Min(comma) - 1))
                 \X ParseTerm(SubSeq(args, Min(comma) + 1, Len(args)))

\* A name, a parenthesis, the terms and a parenthesis.
ParseAtom(text) ==
    LET sv     == Trim(text, {Space})
        lparen == Positions(sv, "(")
        name   == Trim(SubSeq(sv, 1, Min(lparen) - 1), {Space})
    IN  IF lparen = {} \/ sv[Len(sv)] # ")" \/ ~IsRelationName(name) THEN {}
        ELSE {Atom(name, args[1], args[2]) :
                 args \in ParseArgs(SubSeq(sv, Min(lparen) + 1, Len(sv) - 1))}

Depth(text, i) ==
    Cardinality({j \in 1 .. i : text[j] = "("}) - Cardinality({j \in 1 .. i : text[j] = ")"})

IsBlank(text) == AllOf(text, LAMBDA c : c \in {Space, Tab})

\* The body ends, or has a comma outside parentheses.
Cut(body, i) == i = Len(body) + 1 \/ (body[i] = "," /\ Depth(body, i) = 0)

\* What lies between position i and the last cut before it.
Token(body, i) == SubSeq(body, Max({0} \cup {j \in 1 .. i - 1 : Cut(body, j)}) + 1, i - 1)

\* The atoms so far and that of one more token, if it has one.
WithAtom(atoms, token) == {Append(seq, atom) : seq \in atoms, atom \in ParseAtom(token)}

\* atoms[i]: the atoms found when position i is done.  Blank tokens are skipped.
ParseQuery(body) ==
    LET atoms[i \in 0 .. Len(body) + 1] ==
            IF i = 0 THEN {<<>>}
            ELSE IF ~Cut(body, i) \/ IsBlank(Token(body, i)) THEN atoms[i - 1]
            ELSE WithAtom(atoms[i - 1], Token(body, i))
    IN  IF \E i \in DOMAIN body : Depth(body, i) \notin {0, 1} THEN {}
        ELSE atoms[Len(body) + 1] \ {<<>>}

-----------------------------------------------------------------------------
(* QueryAtom::to_string. *)

Decimal[v \in Nat] ==
    IF v < 10 THEN <<Numeral[v + 1]>> ELSE Decimal[v \div 10] \o <<Numeral[(v % 10) + 1]>>

TermString(term) ==
    IF "constant" \in DOMAIN term THEN Decimal[term.constant] ELSE term.variable

\* Mutant: the left term twice.
AtomStringMutant(atom) ==
    atom.relation \o <<"(">> \o TermString(atom.left) \o <<",", Space>>
                  \o TermString(atom.left) \o <<")">>
AtomString(atom) ==
    atom.relation \o <<"(">> \o TermString(atom.left) \o <<",", Space>>
                  \o TermString(atom.right) \o <<")">>
=============================================================================
