---------------------------- MODULE RuleEngine ----------------------------
(***************************************************************************)
(* The rule engine of analysis/: queries over the list of probe results,   *)
(* the anomalies of the evidence correlator, the 23 default rules and the  *)
(* report that RuleEngine.analyze makes of them.                           *)
(*                                                                         *)
(* A result is [module, target, status, m]; m holds the metrics a rule     *)
(* reads and NoValue stands for a metric that is missing or None.          *)
(* Percentages and milliseconds are whole, rates are in tenths a second,   *)
(* ratios and confidences in hundredths.  Titles, evidence text and        *)
(* recommendations are left out: no rule reads them.                       *)
(***************************************************************************)
EXTENDS Integers, Sequences, SequencesExt

NoValue == -1

Public == {"1.1.1.1", "8.8.8.8"}

Values(S) == S \ {NoValue}

(* AnalysisContext                                                         *)

by_module(rs, module) == SelectSeq(rs, LAMBDA r : r.module = module)

Places(rs, module) == {i \in DOMAIN rs : rs[i].module = module}

Has(rs, module) == Places(rs, module) # {}

first_by_module(rs, module) == rs[Min(Places(rs, module))]

ResultsOf(rs, module) == {rs[i] : i \in Places(rs, module)}

Metrics(rs, module) == {r.m : r \in ResultsOf(rs, module)}

has_active_interface(rs) ==
    \E m \in Metrics(rs, "interface") : m.is_up /\ ~m.named_loopback

all_interfaces_down(rs) == Has(rs, "interface") /\ ~has_active_interface(rs)

has_default_gateway(rs) ==
    Has(rs, "routing") /\ first_by_module(rs, "routing").m.default_gateway

\* Mutant: a gateway that loses some echoes counts as unreachable.
is_gateway_reachableStrict(rs) ==
    IF ~Has(rs, "gateway") THEN "unknown"
    ELSE LET status == first_by_module(rs, "gateway").status
         IN  CASE status = "healthy" -> "yes"
               [] status \in {"failed", "degraded"} -> "no"
               [] status = "unknown" -> "unknown"

\* is_gateway_reachable: "yes", "no" or "unknown" for True, False and None.
is_gateway_reachable(rs) ==
    IF ~Has(rs, "gateway") THEN "unknown"
    ELSE LET gw == first_by_module(rs, "gateway")
         IN  CASE gw.status = "healthy" -> "yes"
               [] gw.status = "failed" -> "no"
               [] gw.status = "degraded" ->
                    IF gw.m.packet_loss_percent >= 99 THEN "no" ELSE "yes"
               [] gw.status = "unknown" -> "unknown"

losses(rs) == Values({m.packet_loss_percent : m \in Metrics(rs, "packet_loss")})

\* Mutant: 100% loss counts as a host that answers.
is_ip_connectivity_workingLoose(rs) ==
    \/ \E r \in ResultsOf(rs, "connectivity") :
          r.target \in Public /\ r.status = "healthy"
    \/ \E loss \in losses(rs) : loss <= 100

is_ip_connectivity_working(rs) ==
    \/ \E r \in ResultsOf(rs, "connectivity") :
          r.target \in Public /\ r.status = "healthy"
    \/ \E loss \in losses(rs) : loss < 100

is_dns_resolution_working(rs) ==
    Has(rs, "dns") /\ first_by_module(rs, "dns").status = "healthy"

get_dns_servers(rs) == Has(rs, "dns") /\ first_by_module(rs, "dns").m.dns_servers

get_max_packet_loss(rs) == Max(losses(rs) \cup {0})

\* The sum of a metric over the results, and how many results have it.
Total(rs, metric) ==
    FoldLeft(LAMBDA sum, r : sum + Max({r.m[metric], 0}), 0, rs)

Samples(rs, metric) == Len(SelectSeq(rs, LAMBDA r : r.m[metric] # NoValue))

\* An average is compared with a bound without dividing; with no sample it is 0.
get_avg_packet_loss_below(rs, bound) ==
    LET ls == by_module(rs, "packet_loss")
    IN  \/ Samples(ls, "packet_loss_percent") = 0
        \/ Total(ls, "packet_loss_percent") < bound * Samples(ls, "packet_loss_percent")

get_avg_latency_above(rs, bound) ==
    LET ls == SelectSeq(rs, LAMBDA r : r.module \in {"latency", "traffic_jitter", "gateway"})
    IN  Total(ls, "avg_ms") > bound * Samples(ls, "avg_ms")

get_jitter(rs, module) ==
    LET js == Values({m.jitter_ms : m \in Metrics(rs, module)})
    IN  IF js = {} THEN NoValue ELSE Max(js)

get_max_jitter(rs) == Max({get_jitter(rs, "latency"), 0})

get_max_link_utilization(rs) ==
    Max(Values({m.util_percent : m \in Metrics(rs, "link_utilization")}) \cup {0})

\* No probe sets under_load or load_phase, so the load is the links' alone.
has_confirmed_jitter_pattern(rs) ==
    LET endpoint == IF get_jitter(rs, "latency") > 0 THEN get_jitter(rs, "latency")
                    ELSE get_jitter(rs, "traffic_jitter")
    IN  /\ get_jitter(rs, "gateway") >= 40
        /\ endpoint >= 40
        /\ get_max_link_utilization(rs) >= 70

\* The first resource_network result's metric, 0 when there is none.
Resource(rs, metric) ==
    IF Has(rs, "resource_network") THEN first_by_module(rs, "resource_network").m[metric] ELSE 0

get_max_link_drop_rate(rs) ==
    IF Has(rs, "link_errors") THEN Max({m.drops_per_sec : m \in Metrics(rs, "link_errors")})
    ELSE Resource(rs, "active_drops_per_sec")

get_path_hops(rs) ==
    IF Has(rs, "traceroute") THEN first_by_module(rs, "traceroute").m.hops ELSE << >>

path_changed(rs) == Has(rs, "path_change") /\ first_by_module(rs, "path_change").m.changed

-----------------------------------------------------------------------------
(* Issues.  Severities are ordered as analyze sorts them.                  *)

CRITICAL == 0
HIGH == 1
MEDIUM == 2
LOW == 3

build_issue(rule_id, severity, confidence, suppressed) ==
    [rule_id |-> rule_id, severity |-> severity,
     confidence |-> Max({5, Min({99, confidence})}), suppressed |-> suppressed]

When(condition, issue) == IF condition THEN <<issue>> ELSE << >>

(* EvidenceCorrelator.correlate                                            *)

end_to_end_failed(rs) ==
    \E r \in Range(rs) : /\ r.module \in {"connectivity", "packet_loss"}
                         /\ r.status \in {"failed", "degraded"}

worst_loss(rs) == IF losses(rs) = {} THEN 100 ELSE Max(losses(rs))

BadHops(hops) == {i \in DOMAIN hops : hops[i].loss_percent >= 50 /\ hops[i].address}

Anomaly(name, confidence) == build_issue(name, LOW, confidence, {})

correlate(rs) ==
    LET delay == SelectSeq(rs, LAMBDA r : r.module \in {"latency", "traffic_jitter"})
    IN  When(/\ BadHops(get_path_hops(rs)) # {}
             /\ \E r \in Range(rs) : r.module = "connectivity" /\ r.status = "healthy"
             /\ worst_loss(rs) < 30
             /\ ~end_to_end_failed(rs),
             Anomaly("EVIDENCE_HOP_LOSS", 62))
        \o When(path_changed(rs) /\ ~end_to_end_failed(rs), Anomaly("EVIDENCE_PATH_CHANGE", 58))
        \o When(/\ delay # << >>
                /\ delay[1].m.jitter_ms >= 20
                /\ worst_loss(rs) < 30
                /\ ~end_to_end_failed(rs),
                Anomaly("EVIDENCE_LATENCY_WIGGLE", 55))

-----------------------------------------------------------------------------
(* The rules, in the files' order                                          *)

AllInterfacesDownRule(rs) ==
    When(all_interfaces_down(rs),
         build_issue("ALL_INTERFACES_DOWN", CRITICAL, 98,
                     {"TOTAL_INTERNET_OUTAGE", "NO_DEFAULT_GATEWAY",
                      "DNS_FAIL_IP_HEALTHY", "GATEWAY_UNREACHABLE"}))

ActivePacketDropsRule(rs) ==
    LET drops == Resource(rs, "active_drops_per_sec")
        errors == Resource(rs, "active_errors_per_sec")
    IN  When(drops >= 5 \/ errors >= 5,
             build_issue("ACTIVE_PACKET_DROPS", HIGH,
                         IF drops > 50 \/ errors > 50 THEN 95 ELSE 85, {}))

\* Mutant: it speaks for a dead interface too, and suppresses that rule.
NoDefaultGatewayRuleMutual(rs) ==
    When(~has_default_gateway(rs),
         build_issue("NO_DEFAULT_GATEWAY", CRITICAL, 96,
                     {"ALL_INTERFACES_DOWN", "TOTAL_INTERNET_OUTAGE", "DNS_FAIL_IP_HEALTHY"}))

NoDefaultGatewayRule(rs) ==
    When(~all_interfaces_down(rs) /\ ~has_default_gateway(rs),
         build_issue("NO_DEFAULT_GATEWAY", CRITICAL, 96,
                     {"TOTAL_INTERNET_OUTAGE", "DNS_FAIL_IP_HEALTHY"}))

GatewayUnreachableRule(rs) ==
    When(has_default_gateway(rs) /\ is_gateway_reachable(rs) = "no",
         build_issue("GATEWAY_UNREACHABLE", CRITICAL, 95,
                     {"GATEWAY_HEALTHY_WAN_OUTAGE", "TOTAL_INTERNET_OUTAGE",
                      "DNS_FAIL_IP_HEALTHY", "DNS_TIMEOUT"}))

GatewayHealthyWANOutageRule(rs) ==
    LET reachable == is_gateway_reachable(rs)
    IN  When(/\ has_default_gateway(rs)
             /\ reachable # "no"
             /\ ~(reachable = "unknown" /\ all_interfaces_down(rs))
             /\ ~is_ip_connectivity_working(rs)
             /\ get_max_packet_loss(rs) >= 99,
             build_issue("GATEWAY_HEALTHY_WAN_OUTAGE", CRITICAL,
                         IF reachable = "yes" THEN 94 ELSE 88,
                         {"DNS_FAIL_IP_HEALTHY", "DNS_TIMEOUT"}))

TotalInternetOutageRule(rs) ==
    When(/\ ~all_interfaces_down(rs) /\ has_default_gateway(rs)
         /\ is_gateway_reachable(rs) = "unknown"
         /\ ~is_ip_connectivity_working(rs)
         /\ get_max_packet_loss(rs) >= 99,
         build_issue("TOTAL_INTERNET_OUTAGE", CRITICAL, 90,
                     {"DNS_FAIL_IP_HEALTHY", "DNS_TIMEOUT"}))

\* Mutant: the two confidences are swapped.
DNSFailureSwapped(rs) ==
    When(/\ Has(rs, "dns") /\ ~is_dns_resolution_working(rs)
         /\ is_ip_connectivity_working(rs),
         build_issue("DNS_FAIL_IP_HEALTHY", HIGH, IF get_dns_servers(rs) THEN 90 ELSE 95, {}))

DNSFailureWithHealthyIPRule(rs) ==
    When(/\ Has(rs, "dns") /\ ~is_dns_resolution_working(rs)
         /\ is_ip_connectivity_working(rs),
         build_issue("DNS_FAIL_IP_HEALTHY", HIGH, IF get_dns_servers(rs) THEN 95 ELSE 90, {}))

DNSTimeoutRule(rs) ==
    When(/\ Has(rs, "dns")
         /\ first_by_module(rs, "dns").status \in {"failed", "unknown"}
         /\ first_by_module(rs, "dns").m.says_timeout
         /\ is_ip_connectivity_working(rs),
         build_issue("DNS_TIMEOUT", HIGH, 92, {}))

SlowDNSResolutionRule(rs) ==
    When(/\ is_dns_resolution_working(rs)
         /\ first_by_module(rs, "dns").m.resolution_time_ms >= 180
         /\ ~get_avg_latency_above(rs, 200),
         build_issue("SLOW_DNS_RESOLUTION", MEDIUM, 85, {}))

SeverePacketLossRule(rs) ==
    LET severe == ~get_avg_packet_loss_below(rs, 20)
    IN  When(~get_avg_packet_loss_below(rs, 10) /\ get_max_packet_loss(rs) < 100,
             build_issue("SEVERE_PACKET_LOSS", IF severe THEN HIGH ELSE MEDIUM,
                         IF severe THEN 92 ELSE 80, {}))

HighJitterLatencySpikeRule(rs) ==
    When(/\ get_max_jitter(rs) >= 40
         /\ has_confirmed_jitter_pattern(rs)
         /\ Resource(rs, "cpu_percent") < 85,
         build_issue("HIGH_JITTER_LATENCY", MEDIUM, 85, {}))

PortBlockedByFirewallRule(rs) ==
    LET statuses == {r.status : r \in ResultsOf(rs, "tcp")}
    IN  When(is_ip_connectivity_working(rs) /\ {"failed", "healthy"} \subseteq statuses,
             build_issue("PORT_BLOCKED_FIREWALL", HIGH, 88, {}))

TargetSpecificFailureRule(rs) ==
    LET conn == ResultsOf(rs, "connectivity")
    IN  When(/\ \E r \in conn : r.status = "failed"
             /\ \E r \in conn : r.status = "healthy" /\ r.target \in Public,
             build_issue("TARGET_SPECIFIC_FAILURE", HIGH, 91, {}))

HostSaturationBufferbloatRule(rs) ==
    LET cpu == Resource(rs, "cpu_percent")
        ram == Resource(rs, "memory_percent")
    IN  When(cpu >= 85 \/ ram >= 90,
             build_issue("HOST_RESOURCE_SATURATION",
                         IF cpu >= 95 \/ ram >= 95 THEN HIGH ELSE MEDIUM,
                         IF cpu >= 90 /\ ram >= 90 THEN 92 ELSE 85, {}))

\* Both path rules need an end-to-end sign before they speak.
Corroborated(rs) == ~is_ip_connectivity_working(rs) \/ get_max_packet_loss(rs) >= 15

\* Mutant: a new path is an issue without an end-to-end sign.
PathChangeRuleAlone(rs) ==
    When(path_changed(rs), build_issue("PATH_CHANGE", MEDIUM, 72, {}))

PathChangeRule(rs) ==
    When(path_changed(rs) /\ Corroborated(rs), build_issue("PATH_CHANGE", MEDIUM, 72, {}))

HighHopLossRule(rs) ==
    LET hops == IF get_path_hops(rs) = << >> /\ Has(rs, "hop_metrics")
                THEN first_by_module(rs, "hop_metrics").m.hops ELSE get_path_hops(rs)
    IN  When(BadHops(hops) # {} /\ Corroborated(rs), build_issue("HIGH_HOP_LOSS", HIGH, 68, {}))

LastMileVsCoreRule(rs) ==
    LET hops == get_path_hops(rs)
        early(metric) == Max({hops[i][metric] : i \in 1 .. 2})
        late(metric) == Max({hops[i][metric] : i \in 3 .. Len(hops)})
        last_mile == early("loss_percent") >= 50 /\ late("loss_percent") < 30
        core == /\ late("loss_percent") >= 50 /\ early("loss_percent") < 20
                /\ late("avg_rtt_ms") > early("avg_rtt_ms") + 80
    IN  When(Len(hops) >= 3 /\ (last_mile \/ core),
             build_issue("LAST_MILE_VS_CORE", HIGH, IF last_mile THEN 78 ELSE 75, {}))

LinkSaturationRule(rs) ==
    LET util == get_max_link_utilization(rs)
    IN  When(util >= 75,
             build_issue("LINK_SATURATION", IF util >= 90 THEN HIGH ELSE MEDIUM,
                         IF util >= 90 THEN 86 ELSE 78, {}))

InterfaceErrorsRule(rs) ==
    When(\/ get_max_link_drop_rate(rs) >= 5
         \/ \E m \in Metrics(rs, "link_errors") : m.errors_per_sec >= 5,
         build_issue("INTERFACE_ERRORS", HIGH, 90, {"ACTIVE_PACKET_DROPS"}))

ElephantFlowRule(rs) ==
    When(Has(rs, "flow_analysis") /\ first_by_module(rs, "flow_analysis").m.elephant_flows > 0,
         build_issue("ELEPHANT_FLOW", MEDIUM, 84, {}))

LinkCongestionWithPathLossRule(rs) ==
    When(/\ \/ get_max_link_utilization(rs) >= 75
            \/ \E m \in Metrics(rs, "link_congestion") : m.congestion_score >= 45
         /\ \/ \E h \in Range(get_path_hops(rs)) : h.loss_percent >= 30
            \/ get_max_packet_loss(rs) >= 5,
         build_issue("LINK_CONGESTION_WITH_PATH_LOSS", HIGH, 80, {"HIGH_HOP_LOSS"}))

SuddenDegradationRule(rs) ==
    LET bad == {m \in Metrics(rs, "baseline_delta") :
                    m.deviated /\ m.sample_count >= 5 /\ m.ratio >= 150}
    IN  When(bad # {},
             build_issue("SUDDEN_DEGRADATION",
                         IF \E m \in bad : m.ratio >= 250 THEN HIGH ELSE MEDIUM, 80, {}))

MeshPartitionRule(rs) ==
    IF ~Has(rs, "mesh_summary") THEN << >>
    ELSE LET m == first_by_module(rs, "mesh_summary").m
             all == m.failed_count = m.target_count
         IN  When(m.target_count > 0 /\ m.failed_count > 0,
                  build_issue("MESH_PARTITION", IF all THEN CRITICAL ELSE HIGH,
                              IF all THEN 90 ELSE 82, {}))

DEFAULT_RULES(rs) ==
    AllInterfacesDownRule(rs) \o ActivePacketDropsRule(rs)
    \o NoDefaultGatewayRule(rs) \o GatewayUnreachableRule(rs)
    \o GatewayHealthyWANOutageRule(rs) \o TotalInternetOutageRule(rs)
    \o DNSFailureWithHealthyIPRule(rs) \o DNSTimeoutRule(rs) \o SlowDNSResolutionRule(rs)
    \o SeverePacketLossRule(rs) \o HighJitterLatencySpikeRule(rs)
    \o PortBlockedByFirewallRule(rs) \o TargetSpecificFailureRule(rs)
    \o HostSaturationBufferbloatRule(rs) \o PathChangeRule(rs) \o HighHopLossRule(rs)
    \o LastMileVsCoreRule(rs) \o LinkSaturationRule(rs) \o InterfaceErrorsRule(rs)
    \o ElephantFlowRule(rs) \o LinkCongestionWithPathLossRule(rs)
    \o SuddenDegradationRule(rs) \o MeshPartitionRule(rs)

-----------------------------------------------------------------------------
(* RuleEngine.analyze                                                      *)

RawIssues(rs) == correlate(rs) \o DEFAULT_RULES(rs)

suppressed_ids(raw) == UNION {issue.suppressed : issue \in Range(raw)}

\* The sort is stable: equal keys keep the order of the rules.
Before(raw, i, j) ==
    LET x == raw[i]
        y == raw[j]
    IN  \/ x.severity < y.severity
        \/ x.severity = y.severity /\ x.confidence > y.confidence
        \/ x.severity = y.severity /\ x.confidence = y.confidence /\ i < j

\* The issues that none suppresses, each after those that are sorted before it.
ActiveIssues(raw) ==
    LET suppressed == suppressed_ids(raw)
        active == {i \in DOMAIN raw : raw[i].rule_id \notin suppressed}
        place(i) == Cardinality({j \in active : Before(raw, j, i)})
    IN  [k \in 1 .. Cardinality(active) |-> raw[CHOOSE i \in active : place(i) = k - 1]]

ReportStatus(rs, active) ==
    IF \E i \in Range(active) : i.severity \in {CRITICAL, HIGH} /\ i.confidence >= 75
    THEN "failed"
    ELSE IF \/ \E r \in Range(rs) : /\ r.status = "degraded"
                                   /\ r.module \notin {"path_change", "traceroute"}
            \/ \E i \in Range(active) : i.severity \in {CRITICAL, HIGH, MEDIUM}
    THEN "degraded" ELSE "healthy"

synthesize_verdict(active) ==
    CASE active = << >> -> "all_passed"
      [] active # << >> /\ \A i \in Range(active) : i.severity = LOW -> "no_confirmed_fault"
      [] OTHER -> active[1].rule_id

analyze(rs) ==
    LET active == ActiveIssues(RawIssues(rs))
        count(status) == Len(SelectSeq(rs, LAMBDA r : r.status = status))
    IN  [status |-> ReportStatus(rs, active),
         verdict |-> synthesize_verdict(active),
         issues |-> active,
         failed_probes |-> count("failed"),
         degraded_probes |-> count("degraded"),
         healthy_probes |-> count("healthy")]

=============================================================================
