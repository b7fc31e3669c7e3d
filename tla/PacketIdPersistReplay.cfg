SPECIFICATION PersistSpec
CONSTANTS
    MaxId = 4
    MaxStamp = 2
    MaxTime = 3
    StartTime = 2
    SeqBacktrack = 2
    TimeBacktrack = 1
    ReapInterval = 1
INVARIANT RejectsPriorSession
