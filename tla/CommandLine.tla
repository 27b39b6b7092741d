---------------------------- MODULE CommandLine -----------------------------
(***************************************************************************)
(* The loop of main.cpp: it reads a line, splits it into tokens and makes  *)
(* one call on the database, or none.  `line` is the line std::getline     *)
(* gets next; who types it and who writes the files is left to the         *)
(* environment.  Of a call its arguments are kept; ADD and DELETE carry    *)
(* what start_edit reads from the file they name.                          *)
(***************************************************************************)
EXTENDS CsvReader

CONSTANTS NoName    \* an argument a call does not have

VARIABLES
    line,           \* the line that is read next
    files,          \* the files on disk: name -> lines
    call,           \* what main has last called on the database
    printed,        \* what main has last printed itself
    running         \* neither QUIT nor the end of the input was read

lineVars == <<line, files, call, printed, running>>

\* How the commands are spelled.  The letters matter for QUERY alone.
Word == [QUERY |-> <<"Q", "U", "E", "R", "Y">>, BEGIN |-> <<"BEGIN">>, ADD |-> <<"ADD">>,
         DELETE |-> <<"DELETE">>, COMMIT |-> <<"COMMIT">>, ROLLBACK |-> <<"ROLLBACK">>,
         RESUME |-> <<"RESUME">>, QUIT |-> <<"QUIT">>]

Call(op, tid, rel, batch, atoms) ==
    [op |-> op, tid |-> tid, rel |-> rel, batch |-> batch, atoms |-> atoms]
NoCall == Call("none", NoName, NoName, <<>>, <<>>)

LineInit ==
    /\ call = NoCall
    /\ printed = "nothing"
    /\ running = TRUE

Strip(text) == Trim(text, White)
Toks        == Tokenise(Strip(line))

\* Blank lines and comments.
Ignored == Strip(line) = <<>> \/ IsPrefix(<<"#">>, Strip(line))

\* The line is the command op with n tokens (for QUERY, n or more).
Is(op)           == ~Ignored /\ Toks[1] = Word[op]
HasTokens(op, n) == Len(Toks) = n \/ (op = "QUERY" /\ Len(Toks) >= n)

Calls(c) ==
    /\ call' = c
    /\ printed' = "nothing"
    /\ UNCHANGED running

Prints(text) ==
    /\ call' = NoCall
    /\ printed' = text
    /\ UNCHANGED running

NextLine == running /\ line' = <<>> /\ UNCHANGED files

SkipLine == NextLine /\ Ignored /\ Prints("nothing")

\* BEGIN, COMMIT, ROLLBACK and RESUME name a transaction.
NameCommand(op) ==
    /\ NextLine /\ Is(op) /\ HasTokens(op, 2)
    /\ Calls(Call(op, Toks[2], NoName, <<>>, <<>>))

\* ADD and DELETE name a transaction, a relation and a file.
EditCommand(op) ==
    /\ NextLine /\ Is(op) /\ HasTokens(op, 4)
    /\ Calls(Call(op, Toks[2], Toks[3], ParseCsvFile(files, Toks[4]), <<>>))

\* The first place in the line where the name of the transaction occurs ...
BodyStart(text, tid) ==
    Min({i \in DOMAIN text : IsPrefix(tid, SubSeq(text, i, Len(text)))}) + Len(tid)

\* ... and what follows it, without leading blanks.
Body(text, tid) ==
    LET rest == {i \in DOMAIN text : i >= BodyStart(text, tid) /\ text[i] # Space}
    IN  IF rest = {} THEN <<>> ELSE SubSeq(text, Min(rest), Len(text))

QueryCommand ==
    /\ NextLine /\ Is("QUERY") /\ HasTokens("QUERY", 3)
    /\ LET query == ParseQuery(Body(Strip(line), Toks[2]))
       IN  \/ \E atoms \in query : Calls(Call("QUERY", Toks[2], NoName, <<>>, atoms))
           \/ query = {} /\ Prints("syntax error")

Usage(op, n) == NextLine /\ Is(op) /\ ~HasTokens(op, n) /\ Prints("usage")

UnknownCommand ==
    /\ NextLine /\ ~Ignored /\ \A op \in DOMAIN Word : ~Is(op)
    /\ Prints("unknown command")

\* QUIT, whatever follows it, and the end of the input.
Quit ==
    /\ running /\ (Is("QUIT") \/ line = <<>>)
    /\ line' = <<>>
    /\ call' = NoCall
    /\ printed' = IF line = <<>> THEN "nothing" ELSE "goodbye"
    /\ running' = FALSE
    /\ UNCHANGED files

ReadLine ==
    \/ SkipLine
    \/ \E op \in {"BEGIN", "COMMIT", "ROLLBACK", "RESUME"} : NameCommand(op) \/ Usage(op, 2)
    \/ \E op \in {"ADD", "DELETE"} : EditCommand(op) \/ Usage(op, 4)
    \/ QueryCommand \/ Usage("QUERY", 3)
    \/ UnknownCommand
    \/ Quit

\* The environment: lines are typed and files are written.
TextsOK ==
    /\ line \in Seq(Char)
    /\ \A name \in DOMAIN files : files[name] \in Seq(Seq(Char))
Typing == TextsOK' /\ UNCHANGED <<call, printed, running>>

LineSpec == LineInit /\ TextsOK /\ [][ReadLine \/ Typing]_lineVars
=============================================================================
