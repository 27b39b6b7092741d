------------------------- MODULE CommandProperties --------------------------
(***************************************************************************)
(* What the command line promises, against definitions of its own: a       *)
(* finite automaton for the text of a query, and what its words mean.      *)
(***************************************************************************)
EXTENDS CommandLine

-----------------------------------------------------------------------------
(* Reference definitions. *)

IsWord(c) == IsAlnum(c) \/ c = "_"

\* What a character leads to, where a query is made of items, each of them
\* blank or name ( left , right ), with blanks around each of them.
Places == {"item", "blank", "name", "after name", "before left", "left", "after left",
           "before right", "right", "after right", "done", "wrong"}

Leads(from, c) ==
    CASE from = "item"  /\ c \in {Space, ","}            -> "item"
      [] from = "item"  /\ c = Tab                       -> "blank"
      [] from = "item"  /\ IsAlnum(c)                    -> "name"
      [] from = "blank" /\ c \in {Space, Tab}            -> "blank"
      [] from = "blank" /\ c = ","                       -> "item"
      [] from = "name"  /\ IsAlnum(c)                    -> "name"
      [] from \in {"name", "after name"} /\ c = Space    -> "after name"
      [] from \in {"name", "after name"} /\ c = "("      -> "before left"
      [] from = "before left" /\ c = Space               -> "before left"
      [] from \in {"before left", "left"} /\ IsWord(c)   -> "left"
      [] from \in {"left", "after left"} /\ c = Space    -> "after left"
      [] from \in {"left", "after left"} /\ c = ","      -> "before right"
      [] from = "before right" /\ c = Space              -> "before right"
      [] from \in {"before right", "right"} /\ IsWord(c) -> "right"
      [] from \in {"right", "after right"} /\ c = Space  -> "after right"
      [] from \in {"right", "after right"} /\ c = ")"    -> "done"
      [] from = "done"  /\ c = Space                     -> "done"
      [] from = "done"  /\ c = ","                       -> "item"
      [] OTHER                                           -> "wrong"

Automaton == [from \in Places |-> [c \in Char |-> Leads(from, c)]]

IsQueryText(text) ==
    /\ FoldLeft(LAMBDA from, c : Automaton[from][c], "item", text) \in {"item", "blank", "done"}
    /\ \E i \in DOMAIN text : text[i] = "("

\* The numeral text, which may begin with zeros, is the number v.
Spells(text, v) ==
    \E z \in 0 .. Len(text) :
        /\ \A i \in 1 .. z : text[i] = "0"
        /\ SubSeq(text, z + 1, Len(text)) = Decimal[v]

TermMeaning(word) ==
    IF \E v \in 0 .. MaxUint : Spells(word, v)
    THEN Constant(CHOOSE v \in 0 .. MaxUint : Spells(word, v)) ELSE Variable(word)

\* The words of a query are, three by three, its relations and their terms.
QueryMeaning(text) ==
    LET words == SelectSeq(Pieces(text, {i \in DOMAIN text : ~IsWord(text[i])}),
                           LAMBDA word : word # <<>>)
    IN  [k \in 1 .. Len(words) \div 3 |->
            Atom(words[3 * k - 2], TermMeaning(words[3 * k - 1]), TermMeaning(words[3 * k]))]

\* The text of a line after its second token.
TextAfterTid(text) ==
    LET ends == {i \in DOMAIN text : Len(Tokenise(SubSeq(text, 1, i))) = 2}
        end  == Min({i \in ends : i = Len(text) \/ text[i + 1] \in White})
    IN  SubSeq(text, end + 1, Len(text))

\* The pairs a line of a file may stand for: one at most.
LineMeaning(text) ==
    LET sv == IF text # <<>> /\ Last(text) = CR THEN Front(text) ELSE text
    IN  {p \in (0 .. MaxUint) \X (0 .. MaxUint) :
            \E i \in DOMAIN sv : /\ sv[i] = ","
                                 /\ Spells(SubSeq(sv, 1, i - 1), p[1])
                                 /\ Spells(SubSeq(sv, i + 1, Len(sv)), p[2])}

-----------------------------------------------------------------------------
(* Properties. *)

\* The name of the transaction does not occur in the word QUERY, the one place
\* before it where main would find it.
Findable(tid) ==
    \A i \in 1 .. 5 : ~IsPrefix(tid, SubSeq(Word["QUERY"], i, 5))

QueryLine == line' # line /\ Is("QUERY") /\ Len(Toks) >= 3 /\ line' = <<>>

ReadAs(text) ==
    IF IsQueryText(text) THEN call' = Call("QUERY", Toks[2], NoName, <<>>, QueryMeaning(text))
                         ELSE call' = NoCall /\ printed' = "syntax error"

\* A line QUERY tid text asks exactly what its text says or, if the text is no
\* query, nothing at all.
QueryMeansItsText ==
    [][QueryLine /\ Findable(Toks[2]) => ReadAs(TextAfterTid(Strip(line)))]_lineVars

\* A query that is printed atom by atom is read as the same query.
PrintingIsReadable ==
    call.op = "QUERY" =>
        LET text == [k \in DOMAIN call.atoms |-> AtomString(call.atoms[k]) \o <<",">>]
        IN  ParseQuery(FlattenSeq(text)) = {call.atoms}

\* One more blank where there is one already makes no difference to a query.
Squeezed(text) ==
    LET kept == {i \in DOMAIN text : i = 1 \/ text[i] # Space \/ text[i - 1] # Space}
    IN  [k \in 1 .. Cardinality(kept) |-> text[InOrder(text, kept)[k]]]
Asks(text) ==
    LET toks == Tokenise(text)
    IN  IF Len(toks) >= 3 /\ toks[1] = Word["QUERY"]
        THEN <<toks[2], ParseQuery(Body(text, toks[2]))>> ELSE <<>>
BlanksDoNotMatter ==
    [][Len(line') = Len(line) + 1 /\ Squeezed(line') = Squeezed(line)
          => Asks(Strip(line')) = Asks(Strip(line))]_lineVars

\* An edit is called with the pairs of its file, each of them exactly, in their
\* order, and with nothing the file does not say.
EditReadsFile ==
    call' # call /\ call'.op \in {"ADD", "DELETE"} =>
        LET name  == Toks[4]
            lines == IF name \in DOMAIN files THEN files[name] ELSE <<>>
            Good(k) == {j \in 1 .. k : LineMeaning(lines[j]) # {}}
        IN  /\ Len(call'.batch) = Cardinality(Good(Len(lines)))
            /\ \A k \in Good(Len(lines)) :
                    LineMeaning(lines[k]) = {call'.batch[Cardinality(Good(k))]}
BatchIsTheFile == [][EditReadsFile]_lineVars
=============================================================================
