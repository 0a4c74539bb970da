CONSTANTS
    Doc <- MCDoc
    MaxRetry = 2
    MaxToken = 1
    MaxStarts = 1
    None = None
    v1 = v1
    v2 = v2
    v3 = v3
SPECIFICATION LiveSpec
INVARIANTS
    TypeOK
    ToldOnce
    LossTold
PROPERTY
    SyncEnds
CHECK_DEADLOCK FALSE
