\* Two request threads, two agents, two jobs, two failures or restarts.
SPECIFICATION FairSpec
CONSTANTS
    AgentIds = {a1, a2}
    Threads = {w1, w2}
    JobIds = {j1, j2}
    NoJob = NoJob
    MaxFailures = 2
CHECK_DEADLOCK FALSE
INVARIANTS
    TypeOK
    OneThread
    Accounted
PROPERTIES
    Lifecycle
    JobEnds
