\* The service is on an agent node or nowhere; the network changes meanwhile.
SPECIFICATION Spec
CONSTANTS
    None = None
    g1 = g1
    g2 = g2
    g3 = g3
    Nodes = {1, 2, 3, 4}
    Agents = {g1, g2, g3}
    AgentOf <- MCFour
    Dests = {None, 1}
    Requests = {None, 4}
    Neighbours <- MCLinks
    Kinds = {"icmp", "tcp", "dns", "traceroute"}
    Qualities = {45, 60}
    PoolSize = 2
    MaxChanges = 2
    MaxErrors = 1
INVARIANTS
    TargetBlamed
    NoFalseAlarm
    SingleFaultFound
\* The diagnosis ends.
CHECK_DEADLOCK FALSE
