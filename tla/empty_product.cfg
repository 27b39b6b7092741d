SPECIFICATION Spec
CONSTANTS
    RelName = {"R"}
    Value = {1, 2}
    Var = {X, Y}
    X = X
    Y = Y
    Wild = Wild
    Diag = Diag
    Tid = {t1}
    NoTid = NoTid
    Batches <- OneEdit
    Queries <- NestedQueries
    Loaded = {}
    OutOfTurn = {}
    Growth = {4, 8}
    MaxAnswers = 5
INVARIANTS NoEndDereference
CHECK_DEADLOCK FALSE
