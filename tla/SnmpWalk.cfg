\* Two calls; the device restarts once and may answer with an error.
SPECIFICATION FairSpec
CONSTANTS
    Rows = 2
    Holes = {1}
    Limits = {1, 3}
    Retries = 1
    UseAuth = TRUE
    Window = 1
    IdSpace = 16
    MaxClock = 2
    MaxRestarts = 1
    MaxErrors = 1
    MaxCalls = 2
    MaxAnswers = 1
INVARIANTS
    TypeOK
    ClockBehind
    WalkPrefix
    WalkComplete
PROPERTIES
    CallEnds
\* The calls run out.
CHECK_DEADLOCK FALSE
