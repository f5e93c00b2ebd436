\* The monitoring loop alone, with edits, failures and restarts.
SPECIFICATION FairSpec
CONSTANTS
    None = None
    ScheduleIds = {c1, c2}
    Choices <- MCChoices
    Workers = {loop}
    Loop = loop
    MaxClock = 3
    MaxErrors = 1
    MaxFailures = 1
    MaxRestarts = 1
    MaxEdits = 3
INVARIANTS
    TypeOK
PROPERTIES
    Spaced
    DueRuns
\* The clock and the edits run out.
CHECK_DEADLOCK FALSE
