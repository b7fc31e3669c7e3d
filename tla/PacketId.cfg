SPECIFICATION Spec
CONSTANTS
    MaxId = 5
    MaxStamp = 1
    MaxTime = 5
    StartTime = 2
    SeqBacktrack = 2
    TimeBacktrack = 1
    ReapInterval = 2
INVARIANTS
    TypeOK
    AcceptedOnce
    MarksAreTrue
    ExpiredSuffix
    WindowFull
    BacktrackBounded
