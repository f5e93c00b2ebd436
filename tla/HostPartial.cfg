\* diagnose link and path of a network without faults: the rules see a list
\* without host probes.
SPECIFICATION Spec
CONSTANTS
    NamedLoopback = TRUE
    Commands = {"link", "path"}
    Targets = {"1.1.1.1"}
    Faults = {"link_full", "path_moved"}
    Transient = {}
    MaxFaults = 1
    MaxChanges = 0
CHECK_DEADLOCK FALSE
INVARIANT CriticalJustified
