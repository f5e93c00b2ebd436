\* A schedule is deleted while it is being diagnosed.
SPECIFICATION Spec
CONSTANTS
    None = None
    ScheduleIds = {c1}
    Choices <- MCShort
    Workers = {loop}
    Loop = loop
    MaxClock = 1
    MaxErrors = 0
    MaxFailures = 0
    MaxRestarts = 0
    MaxEdits = 2
PROPERTIES
    OnlyCreated
CHECK_DEADLOCK FALSE
