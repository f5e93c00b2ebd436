\* Two threads in run_due_schedules and one operator; nothing fails.
SPECIFICATION Spec
CONSTANTS
    None = None
    s1 = s1
    s2 = s2
    sch1 = sch1
    sch2 = sch2
    r1 = r1
    r2 = r2
    Services = {s1}
    Schedules = {sch1}
    ServiceOf <- MCOneService
    RuleIds = {r1, r2}
    RuleChoices <- MCRules
    Findings <- MCUpDown
    AlertIds = {a1, a2}
    IncidentIds = {i1, i2}
    Workers = {loop, http}
    Operators = {op}
    AlertLimit = 2
    IncidentLimit = 2
    MaxClock = 0
    MaxFaults = 2
    MaxFailures = 0
    MaxRuleEdits = 2
INVARIANTS
    TypeOK
    IncidentRefs
    SeverityExact
SYMMETRY MCThreads
\* The pools of ids run out.
CHECK_DEADLOCK FALSE
