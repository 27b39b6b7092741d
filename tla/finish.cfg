SPECIFICATION FairClientSpec
CONSTANTS
    RelName = {"R"}
    Value = {1, 2}
    Var = {X, Y}
    X = X
    Y = Y
    Wild = Wild
    Diag = Diag
    Tid = {t1, t2}
    NoTid = NoTid
    Batches <- EmptyEdit
    Queries <- FinishQueries
    Loaded = {}
    OutOfTurn = {}
    Growth = {4, 8}
    MaxAnswers = 5
PROPERTIES CommandReturns TransactionsFinish
