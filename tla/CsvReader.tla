----------------------------- MODULE CsvReader ------------------------------
(***************************************************************************)
(* source/csv_parsing_functions.cpp: the lines of a file that are pairs of *)
(* 32-bit integers, in their order; every other line is skipped.           *)
(***************************************************************************)
EXTENDS QueryParser

\* One carriage return is dropped from the end of the line.
ParseCsvLine(line) ==
    LET sv    == IF line # <<>> /\ line[Len(line)] = CR THEN Front(line) ELSE line
        comma == Positions(sv, ",")
    IN  IF Cardinality(comma) # 1 THEN {}
        ELSE FromChars(SubSeq(sv, 1, Min(comma) - 1))
                 \X FromChars(SubSeq(sv, Min(comma) + 1, Len(sv)))

\* files has the lines of the files that can be opened, by their names.  A file
\* that cannot be opened is an empty batch.  batch[k]: after the first k lines.
ParseCsvFile(files, name) ==
    LET lines == IF name \in DOMAIN files THEN files[name] ELSE <<>>
        batch[k \in 0 .. Len(lines)] ==
            IF k = 0 THEN <<>>
            ELSE IF ParseCsvLine(lines[k]) = {} THEN batch[k - 1]
            ELSE Append(batch[k - 1], CHOOSE p \in ParseCsvLine(lines[k]) : TRUE)
    IN  batch[Len(lines)]
=============================================================================
