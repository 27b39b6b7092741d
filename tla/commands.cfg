SPECIFICATION MCSpec
CONSTANTS
    Char <- Chars
    Letter = {"Q", "U", "E", "R", "Y", "a", "f", "BEGIN", "ADD", "DELETE", "COMMIT", "ROLLBACK", "RESUME", "QUIT"}
    MaxUint = 12
    NoName = NoName
    Slips = {" ", "tab", "cr", "(", ")", ",", "_", "-", "R", "2"}
    Lines <- AnyLines
INVARIANTS PrintingIsReadable
PROPERTIES QueryMeansItsText BlanksDoNotMatter BatchIsTheFile
CHECK_DEADLOCK FALSE
