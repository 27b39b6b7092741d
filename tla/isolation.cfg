SPECIFICATION Spec
CONSTANTS
    RelName = {"R"}
    Value = {1, 2}
    Var = {X, Y}
    X = X
    Y = Y
    Wild = Wild
    Diag = Diag
    Tid = {t1, t2}
    NoTid = NoTid
    Batches <- TwoEdits
    Queries <- GroupQueries
    Loaded <- Arc
    OutOfTurn = {}
    Growth = {1}
    MaxAnswers = 5
INVARIANTS TypeOK ControlOK LocksAgree UndoProtected ReadsStable NoDirtyReads
PROPERTIES EditsSpareScans ChangesUnderLock
SYMMETRY Symm
CHECK_DEADLOCK FALSE
