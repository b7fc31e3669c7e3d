SPECIFICATION Spec
CONSTANTS
    MaxId = 4
    MaxStamp = 0
    MaxTime = 5
    StartTime = 2
    SeqBacktrack = 2
    TimeBacktrack = 1
    ReapInterval = 2
INVARIANT LateWithinWindow
