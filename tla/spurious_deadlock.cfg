SPECIFICATION Spec
CONSTANTS
    RelName = {"R"}
    Value = {1, 2}
    Var = {X, Y}
    X = X
    Y = Y
    Wild = Wild
    Diag = Diag
    Tid = {t1, t2}
    NoTid = NoTid
    Batches <- OneEdit
    Queries <- OverlappingQueries
    Loaded = {}
    OutOfTurn = {}
    Growth = {4, 8}
    MaxAnswers = 5
INVARIANTS ReportedCycleIsReal
