SPECIFICATION FairSpec
CONSTANTS
    Docs = {1, 2, 3, 4}
    Timestamp <- MCTimestamp
    SourceOf <- MCSourceOf
    Sources = {1, 2}
    Lookback = 4
    Period = 2
    MaxLag = 1
    ReadTime = 1
    PageSize = 2
    BatchSize = 2
    MaxRetries = 2
    MaxTime = 8
INVARIANTS TypeOK ExitIsTruthful NothingMissed
PROPERTIES ReadIsExact RunsEnd
CHECK_DEADLOCK FALSE
