--------------------------- MODULE HostDiagnosis ---------------------------
(***************************************************************************)
(* `netforge diagnose host | link | path | all`: the collectors run their  *)
(* probes one after the other over several seconds, while the network may  *)
(* change; record_and_compare and detect_path_change use and extend the    *)
(* history of earlier runs; the rule engine then analyses the list and     *)
(* the command exits with the report's code.                               *)
(***************************************************************************)
EXTENDS Integers, Sequences, FiniteSets, Probes, Baselines

CONSTANTS
    Commands,           \* the commands that may be given
    Targets,            \* the hosts they may be given
    Faults,             \* what may be wrong with the network
    Transient,          \* what may come or go while the probes run
    MaxFaults,          \* bound: faults that are present in one run
    MaxChanges          \* bound: changes of the network during one run

ASSUME CommandsAssumption == Commands \subseteq {"host", "link", "path", "all"}
ASSUME FaultsAssumption == IsFiniteSet(Faults) /\ Transient \subseteq Faults
ASSUME BoundsAssumption == MaxFaults \in Nat /\ MaxChanges \in Nat

VARIABLES
    faults,             \* what is wrong with the network now
    ever,               \* ghost: what was wrong at some time of this run
    changes,            \* how often the network changed
    command,            \* the command line: the domains and the target
    target,
    todo,               \* the probes the collector has still to run
    results,            \* the list of DiagnosticResults
    cache,              \* _PING_CACHE of this process
    samples,            \* HistoryStore: the metric rows of each key
    paths,              \* HistoryStore: the fingerprints of the target
    report,             \* the DiagnosisReport, or NoReport
    exit_code

vars == <<faults, ever, changes, command, target, todo, results, cache, samples, paths,
          report, exit_code>>

NoReport == << >>
NotCached == << >>

SampleKeys == ({"latency", "packet_loss"} \X Public) \cup {<<"link_utilization", "eth">>}

-----------------------------------------------------------------------------
(* What the collectors do, in order                                        *)

collect_host_diagnostics(host) ==
    <<<<"check_host", "1.1.1.1">>, <<"check_host", "8.8.8.8">>, <<"check_host", host>>,
      <<"interfaces">>, <<"routing">>, <<"gateway">>, <<"dns">>,
      <<"tcp", 53>>, <<"tcp", 80>>, <<"tcp", 443>>, <<"udp">>,
      <<"ping", "1.1.1.1">>, <<"ping", "8.8.8.8">>,
      <<"latency", "1.1.1.1">>, <<"latency", "8.8.8.8">>,
      <<"resources">>, <<"baselines", {"latency", "packet_loss"}>>>>

collect_link == <<<<"util">>, <<"errors">>, <<"congestion">>, <<"baselines", {"link_utilization"}>>>>

collect_path_diagnostics == <<<<"traceroute">>, <<"path_change">>>>

Collector(cmd, host) ==
    CASE cmd = "host" -> collect_host_diagnostics(host)
      [] cmd = "link" -> collect_link
      [] cmd = "path" -> collect_path_diagnostics
      [] cmd = "all" -> collect_host_diagnostics(host) \o collect_link \o collect_path_diagnostics

\* The probes that neither read nor write state of the process or the store.
Observation(step) ==
    CASE step[1] = "check_host" -> <<check_host(step[2], faults)>>
      [] step[1] = "interfaces" -> inspect_interfaces(faults)
      [] step[1] = "routing" -> <<inspect_routing_table(faults)>>
      [] step[1] = "gateway" -> <<check_gateway_reachability(faults)>>
      [] step[1] = "dns" -> <<resolve_hostname(target, faults)>>
      [] step[1] = "tcp" -> <<test_tcp(step[2], faults)>>
      [] step[1] = "udp" -> <<test_udp(faults)>>
      [] step[1] = "resources" -> inspect_resources_and_activity(faults)
      [] step[1] = "util" -> measure_link_utilization(faults)
      [] step[1] = "errors" -> measure_link_errors(faults)
      [] step[1] = "congestion" ->
           measure_link_congestion(by_module(results, "link_utilization"),
                                   by_module(results, "link_errors"), faults)
      [] step[1] = "traceroute" -> <<traceroute_to_result(target, faults)>>

Stateless == {"check_host", "interfaces", "routing", "gateway", "dns", "tcp", "udp",
              "resources", "util", "errors", "congestion", "traceroute"}

-----------------------------------------------------------------------------
\* What five healthy runs have left in the history, or nothing.
Learned(runs) ==
    /\ samples = [k \in SampleKeys |->
                    [i \in 1 .. runs |-> CASE k[1] = "latency" -> 20
                                           [] k[1] = "packet_loss" -> 0
                                           [] OTHER -> 10]]
    /\ paths = [i \in 1 .. runs |-> path_fingerprint(run_traceroute(target, {}), {})]

Init ==
    /\ faults \in {f \in SUBSET Faults : Cardinality(f) <= MaxFaults}
    /\ ever = faults
    /\ changes = 0
    /\ command \in Commands
    /\ target \in Targets
    /\ todo = Collector(command, target)
    /\ results = << >>
    /\ cache = [h \in Public |-> NotCached]
    /\ \E runs \in {0, 5} : Learned(runs)
    /\ report = NoReport
    /\ exit_code = 0

\* The network gets a fault or loses one while the probes run.
Change(x) ==
    /\ changes < MaxChanges
    /\ todo # << >>
    /\ Cardinality(ever \cup {x}) <= MaxFaults
    /\ faults' = IF x \in faults THEN faults \ {x} ELSE faults \cup {x}
    /\ ever' = ever \cup {x}
    /\ changes' = changes + 1
    /\ UNCHANGED <<command, target, todo, results, cache, samples, paths, report, exit_code>>

Next1(kinds) == todo # << >> /\ Head(todo)[1] \in kinds

Add(rs) == results' = results \o rs /\ todo' = Tail(todo)

Observe ==
    /\ Next1(Stateless)
    /\ Add(Observation(Head(todo)))
    /\ UNCHANGED <<faults, ever, changes, command, target, cache, samples, paths, report, exit_code>>

\* run_ping for ping_host and measure_latency: a cached answer of less than
\* 15 seconds is used again; an error is not cached.
Ping(expired) ==
    /\ Next1({"ping", "latency"})
    /\ LET host == Head(todo)[2]
           cached == cache[host] # NotCached /\ ~expired
           data == IF cached THEN cache[host] ELSE run_ping(host, faults)
       IN  /\ expired => cache[host] # NotCached
           /\ cache' = IF cached \/ data.error THEN cache ELSE [cache EXCEPT ![host] = data]
           /\ Add(<<IF Head(todo)[1] = "ping" THEN ping_host(host, data)
                    ELSE measure_latency(host, data)>>)
    /\ UNCHANGED <<faults, ever, changes, command, target, samples, paths, report, exit_code>>

\* The sample of a result that compare_probe_metrics records, if any.
Sample(r) ==
    CASE r.module = "latency" -> r.m.avg_ms
      [] r.module = "packet_loss" -> r.m.packet_loss_percent
      [] r.module = "link_utilization" -> r.m.util_percent
      [] OTHER -> NoValue

Key(r) == <<r.module, r.target>>

\* record_and_compare: the statistics are read before the sample is saved.
Delta(r) ==
    LET verdict == compare(rolling_stats(samples[Key(r)], 20), Sample(r), TRUE,
                           IF r.module = "latency" THEN 5 ELSE 1)
    IN  Result("baseline_delta", r.target, verdict.status,
               [deviated |-> verdict.deviated, ratio |-> verdict.ratio,
                sample_count |-> verdict.sample_count])

compare_probe_metrics ==
    /\ Next1({"baselines"})
    /\ LET measured == SelectSeq(results, LAMBDA r : r.module \in Head(todo)[2] /\ Sample(r) # NoValue)
       IN  /\ Add([i \in DOMAIN measured |-> Delta(measured[i])])
           /\ samples' = [k \in SampleKeys |->
                            LET own == SelectSeq(measured, LAMBDA r : Key(r) = k)
                            IN  samples[k] \o [i \in DOMAIN own |-> Sample(own[i])]]
    /\ UNCHANGED <<faults, ever, changes, command, target, cache, paths, report, exit_code>>

\* The new fingerprint is saved first, then the second newest row is read.
detect_path_change ==
    /\ Next1({"path_change"})
    /\ LET fingerprint == first_by_module(results, "traceroute").m.path_fingerprint
           rows == Append(paths, fingerprint)
           changed == has_previous(rows) /\ previous_snapshot(rows) # fingerprint
       IN  /\ paths' = rows
           /\ Add(<<Result("path_change", target, IF changed THEN "degraded" ELSE "healthy",
                           [changed |-> changed])>>)
    /\ UNCHANGED <<faults, ever, changes, command, target, cache, samples, report, exit_code>>

exit_from_report(rep, strict) ==
    IF (strict /\ rep.status # "healthy") \/ rep.status = "failed" THEN 1 ELSE 0

Conclude(strict) ==
    /\ todo = << >> /\ report = NoReport
    /\ report' = analyze(results)
    /\ exit_code' = exit_from_report(report', strict)
    /\ UNCHANGED <<faults, ever, changes, command, target, todo, results, cache, samples, paths>>

Next ==
    \/ \E x \in Transient : Change(x)
    \/ Observe
    \/ \E expired \in BOOLEAN : Ping(expired)
    \/ compare_probe_metrics
    \/ detect_path_change
    \/ \E strict \in BOOLEAN : Conclude(strict)

Spec == Init /\ [][Next]_vars

-----------------------------------------------------------------------------
Done == report # NoReport
Steady == Done /\ changes = 0
Found == {issue.rule_id : issue \in Range(report.issues)}

\* Deviations that hurt nobody end to end (a new path, jitter without load, a
\* resolver whose servers are not listed) are observations: the report is
\* healthy, no probe finding is escalated and --strict exits with 0
\* (evidence.py, ReportStatus, the corroboration of the path rules).
Harmless == {"path_moved", "jittery", "no_resolver"}
HealthyQuiet ==
    Steady /\ faults \subseteq Harmless => report.status = "healthy" /\ exit_code = 0

\* A single lasting fault is the verdict's primary root cause: of all rules that
\* see a symptom of it, the one that names it is sorted first and its
\* consequences are suppressed or rank below (RuleEngine.analyze).
Root(x) ==
    CASE x = "link_down" -> "ALL_INTERFACES_DOWN"
      [] x = "no_route" -> "NO_DEFAULT_GATEWAY"
      [] x = "gateway_down" -> "GATEWAY_UNREACHABLE"
      [] x = "wan_down" -> "GATEWAY_HEALTHY_WAN_OUTAGE"
      [] x \in {"lan_lossy", "wan_lossy"} -> "SEVERE_PACKET_LOSS"
      [] x = "dns_down" -> "DNS_FAIL_IP_HEALTHY"
      [] x = "dns_slow" -> "SLOW_DNS_RESOLUTION"
      [] x = "target_down" -> "TARGET_SPECIFIC_FAILURE"
      [] x = "port_filtered" -> "PORT_BLOCKED_FIREWALL"
      [] x = "cpu_high" -> "HOST_RESOURCE_SATURATION"
      [] x = "nic_drops" -> "INTERFACE_ERRORS"
      [] x = "link_full" -> "LINK_SATURATION"
      [] x = "core_lossy" -> "LAST_MILE_VS_CORE"
      [] OTHER -> "none"
Visible(x) ==
    /\ Root(x) # "none"
    /\ x \in {"dns_down", "dns_slow", "target_down"} => target \notin Public
    /\ x \in {"link_full", "core_lossy"} => command = "all"
SingleFaultNamed ==
    \A x \in Faults : Steady /\ faults = {x} /\ Visible(x) => report.verdict = Root(x)

\* When the target cannot be reached from beginning to end, the command says so:
\* the report is failed and the exit code 1, whatever else is wrong and whatever
\* is suppressed, as long as ping can be run.
OutageNotMissed ==
    Steady /\ ~Reachable(target, faults) /\ "no_tools" \notin faults =>
        report.status = "failed" /\ exit_code = 1

\* What a critical issue names, and what the probes mistake for it: a routing
\* table that could not be read for one that is empty, a gateway that sends no
\* ICMP or is not found in the table for one that does not forward.
CausesOf(rule_id) ==
    CASE rule_id = "ALL_INTERFACES_DOWN" -> {"link_down"}
      [] rule_id = "NO_DEFAULT_GATEWAY" -> {"link_down", "no_route"}
      [] rule_id = "GATEWAY_UNREACHABLE" -> {"gateway_down", "link_down", "no_route"}
      [] rule_id \in {"GATEWAY_HEALTHY_WAN_OUTAGE", "TOTAL_INTERNET_OUTAGE"} ->
           {"wan_down", "gateway_down"}
      [] OTHER -> {}
MistakenFor(rule_id) ==
    CASE rule_id = "NO_DEFAULT_GATEWAY" -> {"route_unseen", "unknown_os"}
      [] rule_id = "GATEWAY_UNREACHABLE" -> {"route_unseen", "unknown_os", "gateway_mute"}
      [] OTHER -> {}
CriticalIssues == {issue \in Range(report.issues) : issue.severity = CRITICAL}

\* A critical issue comes from its cause, or from the one misreading of that
\* cause, at some time while the probes ran: reading a changing network at
\* different times, the routing table twice and ping from the cache, adds no
\* other way to a critical issue (gateway_rules.py, link_rules.py, context.py).
CriticalExplained ==
    Done => \A issue \in CriticalIssues :
                (CausesOf(issue.rule_id) \cup MistakenFor(issue.rule_id)) \cap ever # {}

\* A critical issue's root cause, as its text states it, was there at some time
\* while the probes ran (root_cause in gateway_rules.py, link_rules.py).
CriticalJustified ==
    Done => \A issue \in CriticalIssues : CausesOf(issue.rule_id) \cap ever # {}

\* Suppression never loses the last explanation: an issue that the engine drops
\* is dropped in favour of one that the report still has, although issues that
\* are themselves suppressed suppress others (engine.py, suppressed_ids).
SuppressionSound ==
    Done => \A raw \in Range(RawIssues(results)) :
                raw.rule_id \notin Found =>
                    \E issue \in Range(report.issues) : raw.rule_id \in issue.suppressed

=============================================================================
