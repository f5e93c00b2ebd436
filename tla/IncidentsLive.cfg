\* Faults and failures end; lists return one alert at a time.
SPECIFICATION FairSpec
CONSTANTS
    None = None
    s1 = s1
    s2 = s2
    sch1 = sch1
    sch2 = sch2
    r1 = r1
    r2 = r2
    Services = {s1}
    Schedules = {sch1}
    ServiceOf <- MCOneService
    RuleIds = {r1, r2}
    RuleChoices <- MCRules
    Findings <- MCUpDown
    AlertIds = {a1, a2, a3, a4}
    IncidentIds = {i1, i2, i3, i4}
    Workers = {loop}
    Operators = {op}
    AlertLimit = 1
    IncidentLimit = 4
    MaxClock = 0
    MaxFaults = 2
    MaxFailures = 1
    MaxRuleEdits = 2
PROPERTIES
    Settles
CHECK_DEADLOCK FALSE
