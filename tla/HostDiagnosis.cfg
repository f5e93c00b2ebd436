\* diagnose host and all, against a name and an address, with up to two faults,
\* of which the outages may come or go twice while the probes run.
SPECIFICATION Spec
CONSTANTS
    NamedLoopback = TRUE
    Commands = {"host", "all"}
    Targets = {"1.1.1.1", "target"}
    Faults = {"link_down", "no_route", "gateway_down", "wan_down", "lan_lossy", "wan_lossy",
              "wan_slow", "dns_down", "dns_slow", "no_resolver", "target_down", "port_filtered",
              "cpu_high", "nic_drops", "link_full", "jittery", "hop_mute", "core_lossy",
              "path_moved", "no_tools", "route_unseen", "unknown_os", "gateway_mute"}
    Transient = {"link_down", "no_route", "gateway_down", "wan_down", "dns_down",
                 "route_unseen"}
    MaxFaults = 2
    MaxChanges = 2
CHECK_DEADLOCK FALSE
INVARIANTS
    HealthyQuiet
    SingleFaultNamed
    OutageNotMissed
    
    SuppressionSound
