SPECIFICATION PersistSpec
CONSTANTS
    MaxId = 3
    MaxStamp = 2
    MaxTime = 3
    StartTime = 2
    SeqBacktrack = 2
    TimeBacktrack = 1
    ReapInterval = 1
INVARIANTS
    CopiesOrdered
    WrittenIsFile
    FreshSessionRefuses
PROPERTY FileAdvances
