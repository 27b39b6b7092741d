--------------------------- MODULE MCCommandLine ----------------------------
(***************************************************************************)
(* Small instances of CommandLine for TLC: somebody types one of a few     *)
(* lines with up to two slips, and saves or enters it.  Every line within  *)
(* two insertions, deletions and replacements of them is read.             *)
(***************************************************************************)
EXTENDS CommandProperties

CONSTANTS Slips,    \* what may be typed by mistake
          Lines     \* the lines meant, each with the number of slips allowed

VARIABLE slips      \* how many more slips there may be

mcVars == <<lineVars, slips>>

Chars == Letter \cup Digit \cup White \cup {"(", ")", ",", "_", "-", "#"}

A == <<"a">>
File == <<"f">>
Said(seq) == Word["QUERY"] \o <<Space>> \o seq

\* One atom, and two.
OneAtom  == Said(<<"a", Space, "R", "(", "1", ",", "a", ")">>)
TwoAtoms == Said(<<"a", Space, "R", "(", "a", ",", "2", ")", ",", Space,
                   "a", "(", "1", "2", ",", "R", ")">>)
CsvLine  == <<"1", "2", ",", "0", "1", CR>>
Simple(op) == Word[op] \o <<Space>> \o A
Editing(op) == Word[op] \o <<Space, "a", Space, "R", Space>> \o File

AnyLines ==
    {<<OneAtom, 2>>, <<TwoAtoms, 1>>, <<CsvLine, 2>>, <<Word["QUIT"], 1>>}
        \cup {<<Simple(op), 1>> : op \in {"BEGIN", "COMMIT", "ROLLBACK", "RESUME"}}
        \cup {<<Editing(op), 1>> : op \in {"ADD", "DELETE"}}

MCInit ==
    /\ LineInit
    /\ files = [f \in {File} |-> <<CsvLine>>]
    /\ \E meant \in Lines : line = meant[1] /\ slips = meant[2]

Slip ==
    /\ slips > 0 /\ line # <<>>
    /\ \/ \E i \in 1 .. Len(line) + 1, c \in Slips : line' = InsertAt(line, i, c)
       \/ \E i \in DOMAIN line, c \in Slips : line' = ReplaceAt(line, i, c)
       \/ \E i \in DOMAIN line : line' = RemoveAt(line, i)
    /\ slips' = slips - 1
    /\ UNCHANGED <<files, call, printed, running>>

\* The line becomes the second of the file, which is then added.
Save ==
    /\ line # <<>> /\ line[1] \in Digit \cup {","} /\ Len(files[File]) = 1
    /\ files' = [files EXCEPT ![File] = Append(@, line)]
    /\ line' = Editing("ADD") /\ slips' = 0
    /\ UNCHANGED <<call, printed, running>>

Enter == ReadLine /\ slips' = 0

MCNext == Slip \/ Save \/ Enter

MCSpec == MCInit /\ [][MCNext]_mcVars
=============================================================================
