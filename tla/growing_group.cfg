SPECIFICATION Spec
CONSTANTS
    RelName = {"R"}
    Value = {1, 2, 3, 4, 5}
    Var = {X, Y}
    X = X
    Y = Y
    Wild = Wild
    Diag = Diag
    Tid = {t1}
    NoTid = NoTid
    Batches <- OneEdit
    Queries <- GrowingQueries
    Loaded <- FullGroup
    OutOfTurn = {}
    Growth = {4, 8}
    MaxAnswers = 5
INVARIANTS AnswersExact
CHECK_DEADLOCK FALSE
