SPECIFICATION MCSpec
CONSTANTS
    PerNode = 2
    End = End
    Value = {1, 2, 3, 4, 5, 9}
    MaxValue = 9
    Pair <- PairsOf
    Empty = Empty
    NoValue = NoValue
    Hashes <- PairHashes
    MaxTuples = 6
    Key = {1, 2, 3, 4, 5}
    NullKey = NullKey
    Tombstone = Tombstone
    NoStatus = NoStatus
    KeyHashes <- AddressHashes
    BatchSizes = {3}
    Present = {1, 2}
INVARIANTS IndexesAgree ScanSeesAll WalkSeesAll TablesSound
PROPERTIES VisitsOnce GrowsAtGrowth OneTuplePerPair TablesKeepBook
CHECK_DEADLOCK FALSE
