\* One monitoring thread, nobody at the API but the rules; calls fail.
SPECIFICATION Spec
CONSTANTS
    None = None
    s1 = s1
    s2 = s2
    sch1 = sch1
    sch2 = sch2
    r1 = r1
    r2 = r2
    Services = {s1, s2}
    Schedules = {sch1, sch2}
    ServiceOf <- MCTwoServices
    RuleIds = {r1, r2}
    RuleChoices <- MCRules
    Findings <- MCFindings
    AlertIds = {a1, a2, a3}
    IncidentIds = {i1, i2}
    Workers = {loop}
    Operators = {}
    AlertLimit = 3
    IncidentLimit = 2
    MaxClock = 1
    MaxFaults = 2
    MaxFailures = 1
    MaxRuleEdits = 2
INVARIANTS
    UniqueFiring
    UniqueActive
    UnhealthyCovered
PROPERTIES
    AlertResolvedFinal
    HealthyClears
\* The pools of ids run out.
CHECK_DEADLOCK FALSE
