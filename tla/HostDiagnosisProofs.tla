------------------------ MODULE HostDiagnosisProofs ------------------------
(***************************************************************************)
(* Suppression loses no explanation and a critical issue is never made up, *)
(* whatever faults come and go while the probes run, in any number; and a  *)
(* target that cannot be reached from beginning to end is always reported. *)
(***************************************************************************)
EXTENDS HostDiagnosis, FiniteSetTheorems, NaturalsInduction,
        WellFoundedInduction, TLAPS

-----------------------------------------------------------------------------
(* Issues and where they come from.                                         *)

\* The rules that suppress nothing, are below critical and are no further used.
Plain == {"EVIDENCE_HOP_LOSS", "EVIDENCE_PATH_CHANGE", "EVIDENCE_LATENCY_WIGGLE",
          "ACTIVE_PACKET_DROPS", "DNS_FAIL_IP_HEALTHY", "SLOW_DNS_RESOLUTION",
          "SEVERE_PACKET_LOSS", "HIGH_JITTER_LATENCY", "PORT_BLOCKED_FIREWALL",
          "TARGET_SPECIFIC_FAILURE", "HOST_RESOURCE_SATURATION", "PATH_CHANGE",
          "HIGH_HOP_LOSS", "LAST_MILE_VS_CORE", "LINK_SATURATION", "ELEPHANT_FLOW",
          "SUDDEN_DEGRADATION"}

Names == Plain \cup {"ALL_INTERFACES_DOWN", "NO_DEFAULT_GATEWAY", "GATEWAY_UNREACHABLE",
                     "GATEWAY_HEALTHY_WAN_OUTAGE", "TOTAL_INTERNET_OUTAGE", "DNS_TIMEOUT",
                     "INTERFACE_ERRORS", "LINK_CONGESTION_WITH_PATH_LOSS",
                     "MESH_PARTITION"}

IssueType == [rule_id : Names, severity : 0 .. 3, confidence : Int,
              suppressed : SUBSET Names]

LEMMA BuildIssue ==
    ASSUME NEW id \in Names, NEW severity \in 0 .. 3, NEW confidence \in Int,
           NEW ids \in SUBSET Names
    PROVE  LET x == build_issue(id, severity, confidence, ids)
           IN  /\ x \in IssueType
               /\ x.rule_id = id /\ x.severity = severity /\ x.suppressed = ids
               /\ confidence \in 5 .. 99 => x.confidence = confidence
<1> DEFINE low == Min({99, confidence})
           c == Max({5, low})
<1>1. low = IF confidence < 99 THEN confidence ELSE 99
  BY DEF Min
<1>2. low \in Int
  BY <1>1
<1> HIDE DEF low
<1>3. c = IF low > 5 THEN low ELSE 5
  BY <1>2 DEF Max
<1>4. c \in Int
  BY <1>2, <1>3
<1>6. confidence \in 5 .. 99 => c = confidence
  <2> SUFFICES ASSUME confidence \in 5 .. 99 PROVE c = confidence
    OBVIOUS
  <2>1. low = confidence
    BY <1>1
  <2> QED
    BY <1>3, <2>1
<1>5. build_issue(id, severity, confidence, ids) =
        [rule_id |-> id, severity |-> severity, confidence |-> c, suppressed |-> ids]
  BY DEF build_issue, low
<1> HIDE DEF c
<1> QED
  BY <1>4, <1>5, <1>6 DEF IssueType

\* What is known of an issue that a rule found in the results rs.
Origin(rs, x) ==
    \/ /\ x.rule_id = "ALL_INTERFACES_DOWN" /\ all_interfaces_down(rs)
       /\ x.suppressed = {"TOTAL_INTERNET_OUTAGE", "NO_DEFAULT_GATEWAY",
                          "DNS_FAIL_IP_HEALTHY", "GATEWAY_UNREACHABLE"}
    \/ /\ x.rule_id = "NO_DEFAULT_GATEWAY"
       /\ ~all_interfaces_down(rs) /\ ~has_default_gateway(rs)
       /\ x.suppressed = {"TOTAL_INTERNET_OUTAGE", "DNS_FAIL_IP_HEALTHY"}
    \/ /\ x.rule_id = "GATEWAY_UNREACHABLE"
       /\ has_default_gateway(rs) /\ is_gateway_reachable(rs) = "no"
       /\ x.suppressed = {"GATEWAY_HEALTHY_WAN_OUTAGE", "TOTAL_INTERNET_OUTAGE",
                          "DNS_FAIL_IP_HEALTHY", "DNS_TIMEOUT"}
    \/ /\ x.rule_id = "GATEWAY_HEALTHY_WAN_OUTAGE"
       /\ has_default_gateway(rs) /\ is_gateway_reachable(rs) # "no"
       /\ get_max_packet_loss(rs) >= 99
       /\ x.suppressed = {"DNS_FAIL_IP_HEALTHY", "DNS_TIMEOUT"}
    \/ /\ x.rule_id = "TOTAL_INTERNET_OUTAGE"
       /\ ~all_interfaces_down(rs) /\ has_default_gateway(rs)
       /\ is_gateway_reachable(rs) = "unknown" /\ get_max_packet_loss(rs) >= 99
       /\ x.suppressed = {"DNS_FAIL_IP_HEALTHY", "DNS_TIMEOUT"}
    \/ /\ x.rule_id = "DNS_TIMEOUT" /\ x.severity # CRITICAL
       /\ Has(rs, "dns") /\ first_by_module(rs, "dns").m.says_timeout
       /\ x.suppressed = {}
    \/ /\ x.rule_id = "INTERFACE_ERRORS" /\ x.severity # CRITICAL
       /\ x.suppressed = {"ACTIVE_PACKET_DROPS"}
    \/ /\ x.rule_id = "LINK_CONGESTION_WITH_PATH_LOSS" /\ x.severity # CRITICAL
       /\ x.suppressed = {"HIGH_HOP_LOSS"}
    \/ /\ x.rule_id = "MESH_PARTITION" /\ Has(rs, "mesh_summary")
       /\ x.suppressed = {}
    \/ x.rule_id \in Plain /\ x.severity # CRITICAL /\ x.suppressed = {}

Sound(rs, s) == s \in Seq(IssueType) /\ \A i \in DOMAIN s : Origin(rs, s[i])

LEMMA SoundNone ==
    ASSUME NEW rs
    PROVE  Sound(rs, << >>)
  BY DEF Sound

LEMMA SoundOne ==
    ASSUME NEW rs, NEW x \in IssueType, Origin(rs, x)
    PROVE  Sound(rs, <<x>>)
<1>1. <<x>> \in Seq(IssueType) /\ DOMAIN <<x>> = {1} /\ <<x>>[1] = x
  OBVIOUS
<1> QED
  BY <1>1, Zenon DEF Sound

LEMMA SoundPlain ==
    ASSUME NEW rs, NEW id \in Plain, NEW severity \in {HIGH, MEDIUM, LOW},
           NEW confidence \in Int
    PROVE  Sound(rs, <<build_issue(id, severity, confidence, {})>>)
<1> DEFINE x == build_issue(id, severity, confidence, {})
<1>0. id \in Names
  BY DEF Names
<1>1. severity \in 0 .. 3 /\ severity # CRITICAL
  BY DEF CRITICAL, HIGH, MEDIUM, LOW
<1>2. x \in IssueType /\ x.rule_id = id /\ x.severity = severity /\ x.suppressed = {}
  <2>1. {} \in SUBSET Names
    OBVIOUS
  <2> QED
    BY <1>0, <1>1, <2>1, BuildIssue
<1> HIDE DEF x
<1>3. Origin(rs, x)
  BY <1>1, <1>2 DEF Origin
<1>4. Sound(rs, <<x>>)
  BY <1>2, <1>3, SoundOne, Zenon
<1> QED
  BY <1>4 DEF x

LEMMA SoundCat ==
    ASSUME NEW rs, NEW s, NEW t, Sound(rs, s), Sound(rs, t)
    PROVE  Sound(rs, s \o t)
<1>1. s \in Seq(IssueType) /\ t \in Seq(IssueType)
  BY DEF Sound
<1>2. PICK m \in Nat, n \in Nat :
         m = Len(s) /\ DOMAIN s = 1 .. m /\ n = Len(t) /\ DOMAIN t = 1 .. n
  BY <1>1
<1>3. s \o t \in Seq(IssueType) /\ DOMAIN (s \o t) = 1 .. m + n
  BY <1>1, <1>2
<1>4. \A i \in 1 .. m + n : (s \o t)[i] = IF i <= m THEN s[i] ELSE t[i - m]
  BY <1>1, <1>2
<1>5. \A i \in 1 .. m + n : Origin(rs, (s \o t)[i])
  <2> SUFFICES ASSUME NEW i \in 1 .. m + n PROVE Origin(rs, (s \o t)[i])
    OBVIOUS
  <2>1. CASE i <= m
    <3>1. i \in DOMAIN s /\ (s \o t)[i] = s[i]
      BY <1>2, <1>4, <2>1
    <3> QED
      BY <3>1 DEF Sound
  <2>2. CASE i > m
    <3>1. i - m \in DOMAIN t /\ (s \o t)[i] = t[i - m]
      BY <1>2, <1>4, <2>2
    <3> QED
      BY <3>1 DEF Sound
  <2> QED
    BY <1>2, <2>1, <2>2
<1> QED
  BY <1>3, <1>5 DEF Sound

\* A rule that reports nothing or one plain issue.
LEMMA SoundRule ==
    ASSUME NEW rs, NEW id \in Plain, NEW severity \in {HIGH, MEDIUM, LOW},
           NEW confidence \in Int,
           NEW s \in {<< >>, <<build_issue(id, severity, confidence, {})>>}
    PROVE  Sound(rs, s)
<1>1. CASE s = << >>
  BY <1>1, SoundNone, Zenon
<1>2. CASE s = <<build_issue(id, severity, confidence, {})>>
  BY <1>2, SoundPlain, Zenon
<1> QED
  BY <1>1, <1>2

LEMMA SoundAnomalies ==
    ASSUME NEW rs
    PROVE  Sound(rs, correlate(rs))
<1>0. LOW \in {HIGH, MEDIUM, LOW}
  OBVIOUS
<1>1. ASSUME NEW id \in Plain, NEW confidence \in Int, NEW c
      PROVE  Sound(rs, When(c, Anomaly(id, confidence)))
  <2>1. When(c, Anomaly(id, confidence)) \in {<< >>, <<build_issue(id, LOW, confidence, {})>>}
    BY Zenon DEF When, Anomaly
  <2>2. PICK s : s = When(c, Anomaly(id, confidence))
    OBVIOUS
  <2>3. s \in {<< >>, <<build_issue(id, LOW, confidence, {})>>}
    BY <2>1, <2>2, Zenon
  <2>4. Sound(rs, s)
    BY <1>0, <2>3, SoundRule
  <2> QED
    BY <2>2, <2>4, Zenon
<1>2. /\ "EVIDENCE_HOP_LOSS" \in Plain /\ "EVIDENCE_PATH_CHANGE" \in Plain
      /\ "EVIDENCE_LATENCY_WIGGLE" \in Plain /\ 62 \in Int /\ 58 \in Int /\ 55 \in Int
  BY DEF Plain
<1> DEFINE delay == SelectSeq(rs, LAMBDA r : r.module \in {"latency", "traffic_jitter"})
           p == When(/\ BadHops(get_path_hops(rs)) # {}
                     /\ \E r \in Range(rs) : r.module = "connectivity" /\ r.status = "healthy"
                     /\ worst_loss(rs) < 30
                     /\ ~end_to_end_failed(rs),
                     Anomaly("EVIDENCE_HOP_LOSS", 62))
           q == When(path_changed(rs) /\ ~end_to_end_failed(rs),
                     Anomaly("EVIDENCE_PATH_CHANGE", 58))
           t == When(/\ delay # << >>
                     /\ delay[1].m.jitter_ms >= 20
                     /\ worst_loss(rs) < 30
                     /\ ~end_to_end_failed(rs),
                     Anomaly("EVIDENCE_LATENCY_WIGGLE", 55))
<1>3. correlate(rs) = (p \o q) \o t
  BY Zenon DEF correlate
<1>4. Sound(rs, p)
  BY <1>1, <1>2, Zenon
<1>5. Sound(rs, q)
  BY <1>1, <1>2, Zenon
<1>6. Sound(rs, t)
  BY <1>1, <1>2, Zenon
<1> HIDE DEF p, q, t
<1>7. Sound(rs, p \o q)
  BY <1>4, <1>5, SoundCat, Zenon
<1> QED
  BY <1>3, <1>6, <1>7, SoundCat, Zenon

LEMMA SoundPlainRules ==
    ASSUME NEW rs
    PROVE  /\ Sound(rs, ActivePacketDropsRule(rs))
           /\ Sound(rs, DNSFailureWithHealthyIPRule(rs))
           /\ Sound(rs, SlowDNSResolutionRule(rs))
           /\ Sound(rs, SeverePacketLossRule(rs))
           /\ Sound(rs, HighJitterLatencySpikeRule(rs))
           /\ Sound(rs, PortBlockedByFirewallRule(rs))
           /\ Sound(rs, TargetSpecificFailureRule(rs))
           /\ Sound(rs, HostSaturationBufferbloatRule(rs))
           /\ Sound(rs, PathChangeRule(rs))
           /\ Sound(rs, HighHopLossRule(rs))
           /\ Sound(rs, LastMileVsCoreRule(rs))
           /\ Sound(rs, LinkSaturationRule(rs))
           /\ Sound(rs, ElephantFlowRule(rs))
           /\ Sound(rs, SuddenDegradationRule(rs))
<1>0. HIGH \in {HIGH, MEDIUM, LOW} /\ MEDIUM \in {HIGH, MEDIUM, LOW}
  OBVIOUS
<1>1. Sound(rs, ActivePacketDropsRule(rs))
  <2>1. "ACTIVE_PACKET_DROPS" \in Plain
    BY DEF Plain
  <2> DEFINE severity == HIGH
             confidence == IF Resource(rs, "active_drops_per_sec") > 50 \/ Resource(rs, "active_errors_per_sec") > 50
                         THEN 95 ELSE 85
  <2>2. severity \in {HIGH, MEDIUM, LOW} /\ confidence \in Int
    BY <1>0
  <2>3. ActivePacketDropsRule(rs) \in {<< >>, <<build_issue("ACTIVE_PACKET_DROPS", severity, confidence, {})>>}
    BY Zenon DEF ActivePacketDropsRule, When
  <2> HIDE DEF severity, confidence
  <2> QED
    BY <2>1, <2>2, <2>3, SoundRule
<1>2. Sound(rs, DNSFailureWithHealthyIPRule(rs))
  <2>1. "DNS_FAIL_IP_HEALTHY" \in Plain
    BY DEF Plain
  <2> DEFINE severity == HIGH
             confidence == IF get_dns_servers(rs) THEN 95 ELSE 90
  <2>2. severity \in {HIGH, MEDIUM, LOW} /\ confidence \in Int
    BY <1>0
  <2>3. DNSFailureWithHealthyIPRule(rs) \in {<< >>, <<build_issue("DNS_FAIL_IP_HEALTHY", severity, confidence, {})>>}
    BY Zenon DEF DNSFailureWithHealthyIPRule, When
  <2> HIDE DEF severity, confidence
  <2> QED
    BY <2>1, <2>2, <2>3, SoundRule
<1>3. Sound(rs, SlowDNSResolutionRule(rs))
  <2>1. "SLOW_DNS_RESOLUTION" \in Plain
    BY DEF Plain
  <2> DEFINE severity == MEDIUM
             confidence == 85
  <2>2. severity \in {HIGH, MEDIUM, LOW} /\ confidence \in Int
    BY <1>0
  <2>3. SlowDNSResolutionRule(rs) \in {<< >>, <<build_issue("SLOW_DNS_RESOLUTION", severity, confidence, {})>>}
    BY Zenon DEF SlowDNSResolutionRule, When
  <2> HIDE DEF severity, confidence
  <2> QED
    BY <2>1, <2>2, <2>3, SoundRule
<1>4. Sound(rs, SeverePacketLossRule(rs))
  <2>1. "SEVERE_PACKET_LOSS" \in Plain
    BY DEF Plain
  <2> DEFINE severity == IF ~get_avg_packet_loss_below(rs, 20) THEN HIGH ELSE MEDIUM
             confidence == IF ~get_avg_packet_loss_below(rs, 20) THEN 92 ELSE 80
  <2>2. severity \in {HIGH, MEDIUM, LOW} /\ confidence \in Int
    BY <1>0
  <2>3. SeverePacketLossRule(rs) \in {<< >>, <<build_issue("SEVERE_PACKET_LOSS", severity, confidence, {})>>}
    BY Zenon DEF SeverePacketLossRule, When
  <2> HIDE DEF severity, confidence
  <2> QED
    BY <2>1, <2>2, <2>3, SoundRule
<1>5. Sound(rs, HighJitterLatencySpikeRule(rs))
  <2>1. "HIGH_JITTER_LATENCY" \in Plain
    BY DEF Plain
  <2> DEFINE severity == MEDIUM
             confidence == 85
  <2>2. severity \in {HIGH, MEDIUM, LOW} /\ confidence \in Int
    BY <1>0
  <2>3. HighJitterLatencySpikeRule(rs) \in {<< >>, <<build_issue("HIGH_JITTER_LATENCY", severity, confidence, {})>>}
    BY Zenon DEF HighJitterLatencySpikeRule, When
  <2> HIDE DEF severity, confidence
  <2> QED
    BY <2>1, <2>2, <2>3, SoundRule
<1>6. Sound(rs, PortBlockedByFirewallRule(rs))
  <2>1. "PORT_BLOCKED_FIREWALL" \in Plain
    BY DEF Plain
  <2> DEFINE severity == HIGH
             confidence == 88
  <2>2. severity \in {HIGH, MEDIUM, LOW} /\ confidence \in Int
    BY <1>0
  <2>3. PortBlockedByFirewallRule(rs) \in {<< >>, <<build_issue("PORT_BLOCKED_FIREWALL", severity, confidence, {})>>}
    BY Zenon DEF PortBlockedByFirewallRule, When
  <2> HIDE DEF severity, confidence
  <2> QED
    BY <2>1, <2>2, <2>3, SoundRule
<1>7. Sound(rs, TargetSpecificFailureRule(rs))
  <2>1. "TARGET_SPECIFIC_FAILURE" \in Plain
    BY DEF Plain
  <2> DEFINE severity == HIGH
             confidence == 91
  <2>2. severity \in {HIGH, MEDIUM, LOW} /\ confidence \in Int
    BY <1>0
  <2>3. TargetSpecificFailureRule(rs) \in {<< >>, <<build_issue("TARGET_SPECIFIC_FAILURE", severity, confidence, {})>>}
    BY Zenon DEF TargetSpecificFailureRule, When
  <2> HIDE DEF severity, confidence
  <2> QED
    BY <2>1, <2>2, <2>3, SoundRule
<1>8. Sound(rs, HostSaturationBufferbloatRule(rs))
  <2>1. "HOST_RESOURCE_SATURATION" \in Plain
    BY DEF Plain
  <2> DEFINE severity == IF Resource(rs, "cpu_percent") >= 95 \/ Resource(rs, "memory_percent") >= 95
                       THEN HIGH ELSE MEDIUM
             confidence == IF Resource(rs, "cpu_percent") >= 90 /\ Resource(rs, "memory_percent") >= 90
                         THEN 92 ELSE 85
  <2>2. severity \in {HIGH, MEDIUM, LOW} /\ confidence \in Int
    BY <1>0
  <2>3. HostSaturationBufferbloatRule(rs) \in {<< >>, <<build_issue("HOST_RESOURCE_SATURATION", severity, confidence, {})>>}
    BY Zenon DEF HostSaturationBufferbloatRule, When
  <2> HIDE DEF severity, confidence
  <2> QED
    BY <2>1, <2>2, <2>3, SoundRule
<1>9. Sound(rs, PathChangeRule(rs))
  <2>1. "PATH_CHANGE" \in Plain
    BY DEF Plain
  <2> DEFINE severity == MEDIUM
             confidence == 72
  <2>2. severity \in {HIGH, MEDIUM, LOW} /\ confidence \in Int
    BY <1>0
  <2>3. PathChangeRule(rs) \in {<< >>, <<build_issue("PATH_CHANGE", severity, confidence, {})>>}
    BY Zenon DEF PathChangeRule, When
  <2> HIDE DEF severity, confidence
  <2> QED
    BY <2>1, <2>2, <2>3, SoundRule
<1>10. Sound(rs, HighHopLossRule(rs))
  <2>1. "HIGH_HOP_LOSS" \in Plain
    BY DEF Plain
  <2> DEFINE severity == HIGH
             confidence == 68
  <2>2. severity \in {HIGH, MEDIUM, LOW} /\ confidence \in Int
    BY <1>0
  <2>3. HighHopLossRule(rs) \in {<< >>, <<build_issue("HIGH_HOP_LOSS", severity, confidence, {})>>}
    BY Zenon DEF HighHopLossRule, When
  <2> HIDE DEF severity, confidence
  <2> QED
    BY <2>1, <2>2, <2>3, SoundRule
<1>11. Sound(rs, LastMileVsCoreRule(rs))
  <2>1. "LAST_MILE_VS_CORE" \in Plain
    BY DEF Plain
  <2>2. PICK severity \in {HIGH}, confidence \in {75, 78} :
          LastMileVsCoreRule(rs) \in {<< >>, <<build_issue("LAST_MILE_VS_CORE", severity, confidence, {})>>}
    BY Zenon DEF LastMileVsCoreRule, When
  <2>3. severity \in {HIGH, MEDIUM, LOW} /\ confidence \in Int
    BY <1>0
  <2> QED
    BY <2>1, <2>2, <2>3, SoundRule
<1>12. Sound(rs, LinkSaturationRule(rs))
  <2>1. "LINK_SATURATION" \in Plain
    BY DEF Plain
  <2> DEFINE severity == IF get_max_link_utilization(rs) >= 90 THEN HIGH ELSE MEDIUM
             confidence == IF get_max_link_utilization(rs) >= 90 THEN 86 ELSE 78
  <2>2. severity \in {HIGH, MEDIUM, LOW} /\ confidence \in Int
    BY <1>0
  <2>3. LinkSaturationRule(rs) \in {<< >>, <<build_issue("LINK_SATURATION", severity, confidence, {})>>}
    BY Zenon DEF LinkSaturationRule, When
  <2> HIDE DEF severity, confidence
  <2> QED
    BY <2>1, <2>2, <2>3, SoundRule
<1>13. Sound(rs, ElephantFlowRule(rs))
  <2>1. "ELEPHANT_FLOW" \in Plain
    BY DEF Plain
  <2> DEFINE severity == MEDIUM
             confidence == 84
  <2>2. severity \in {HIGH, MEDIUM, LOW} /\ confidence \in Int
    BY <1>0
  <2>3. ElephantFlowRule(rs) \in {<< >>, <<build_issue("ELEPHANT_FLOW", severity, confidence, {})>>}
    BY Zenon DEF ElephantFlowRule, When
  <2> HIDE DEF severity, confidence
  <2> QED
    BY <2>1, <2>2, <2>3, SoundRule
<1>14. Sound(rs, SuddenDegradationRule(rs))
  <2>1. "SUDDEN_DEGRADATION" \in Plain
    BY DEF Plain
  <2>2. PICK severity \in {HIGH, MEDIUM}, confidence \in {80} :
          SuddenDegradationRule(rs) \in {<< >>, <<build_issue("SUDDEN_DEGRADATION", severity, confidence, {})>>}
    BY Zenon DEF SuddenDegradationRule, When
  <2>3. severity \in {HIGH, MEDIUM, LOW} /\ confidence \in Int
    BY <1>0
  <2> QED
    BY <2>1, <2>2, <2>3, SoundRule
<1> QED
  BY <1>1, <1>2, <1>3, <1>4, <1>5, <1>6, <1>7, <1>8, <1>9, <1>10,
     <1>11, <1>12, <1>13, <1>14

\* A rule whose issue is critical, or suppresses others, or may be suppressed.
LEMMA SoundSpecial ==
    ASSUME NEW rs, NEW id \in Names, NEW severity \in 0 .. 3,
           NEW confidence \in Int, NEW ids \in SUBSET Names,
           NEW s \in {<< >>, <<build_issue(id, severity, confidence, ids)>>},
           s # << >> => \A x : /\ x.rule_id = id /\ x.severity = severity
                               /\ x.suppressed = ids
                               => Origin(rs, x)
    PROVE  Sound(rs, s)
<1> DEFINE x == build_issue(id, severity, confidence, ids)
<1>1. x \in IssueType /\ x.rule_id = id /\ x.severity = severity /\ x.suppressed = ids
  BY BuildIssue
<1>2. CASE s = << >>
  BY <1>2, SoundNone, Zenon
<1>3. CASE s # << >>
  <2>1. s = <<x>>
    BY <1>3, Zenon
  <2> HIDE DEF x
  <2>2. Origin(rs, x)
    BY <1>1, <1>3, Zenon
  <2> QED
    BY <1>1, <2>1, <2>2, SoundOne, Zenon
<1> QED
  BY <1>2, <1>3

LEMMA SoundSpecialRules ==
    ASSUME NEW rs
    PROVE  /\ Sound(rs, AllInterfacesDownRule(rs))
           /\ Sound(rs, NoDefaultGatewayRule(rs))
           /\ Sound(rs, GatewayUnreachableRule(rs))
           /\ Sound(rs, GatewayHealthyWANOutageRule(rs))
           /\ Sound(rs, TotalInternetOutageRule(rs))
           /\ Sound(rs, DNSTimeoutRule(rs))
           /\ Sound(rs, InterfaceErrorsRule(rs))
           /\ Sound(rs, LinkCongestionWithPathLossRule(rs))
           /\ Sound(rs, MeshPartitionRule(rs))
<1>1. Sound(rs, AllInterfacesDownRule(rs))
  <2> DEFINE severity == CRITICAL
             confidence == 98
             ids == {"TOTAL_INTERNET_OUTAGE", "NO_DEFAULT_GATEWAY",
                     "DNS_FAIL_IP_HEALTHY", "GATEWAY_UNREACHABLE"}
  <2>1. "ALL_INTERFACES_DOWN" \in Names /\ severity \in 0 .. 3 /\ confidence \in Int /\ ids \in SUBSET Names
    BY DEF Names, Plain, CRITICAL, HIGH
  <2>2. AllInterfacesDownRule(rs) \in {<< >>, <<build_issue("ALL_INTERFACES_DOWN", severity, confidence, ids)>>}
    BY Zenon DEF AllInterfacesDownRule, When
  <2>3. AllInterfacesDownRule(rs) # << >> =>
          all_interfaces_down(rs)
    BY Zenon DEF AllInterfacesDownRule, When
  <2>4. ASSUME AllInterfacesDownRule(rs) # << >>, NEW x, x.rule_id = "ALL_INTERFACES_DOWN",
               x.severity = severity, x.suppressed = ids
        PROVE  Origin(rs, x)
    BY <2>3, <2>4 DEF Origin, CRITICAL, HIGH
  <2> HIDE DEF severity, confidence, ids
  <2> QED
    BY <2>1, <2>2, <2>4, SoundSpecial
<1>2. Sound(rs, NoDefaultGatewayRule(rs))
  <2> DEFINE severity == CRITICAL
             confidence == 96
             ids == {"TOTAL_INTERNET_OUTAGE", "DNS_FAIL_IP_HEALTHY"}
  <2>1. "NO_DEFAULT_GATEWAY" \in Names /\ severity \in 0 .. 3 /\ confidence \in Int /\ ids \in SUBSET Names
    BY DEF Names, Plain, CRITICAL, HIGH
  <2>2. NoDefaultGatewayRule(rs) \in {<< >>, <<build_issue("NO_DEFAULT_GATEWAY", severity, confidence, ids)>>}
    BY Zenon DEF NoDefaultGatewayRule, When
  <2>3. NoDefaultGatewayRule(rs) # << >> =>
          ~all_interfaces_down(rs) /\ ~has_default_gateway(rs)
    BY Zenon DEF NoDefaultGatewayRule, When
  <2>4. ASSUME NoDefaultGatewayRule(rs) # << >>, NEW x, x.rule_id = "NO_DEFAULT_GATEWAY",
               x.severity = severity, x.suppressed = ids
        PROVE  Origin(rs, x)
    BY <2>3, <2>4 DEF Origin, CRITICAL, HIGH
  <2> HIDE DEF severity, confidence, ids
  <2> QED
    BY <2>1, <2>2, <2>4, SoundSpecial
<1>3. Sound(rs, GatewayUnreachableRule(rs))
  <2> DEFINE severity == CRITICAL
             confidence == 95
             ids == {"GATEWAY_HEALTHY_WAN_OUTAGE", "TOTAL_INTERNET_OUTAGE",
                     "DNS_FAIL_IP_HEALTHY", "DNS_TIMEOUT"}
  <2>1. "GATEWAY_UNREACHABLE" \in Names /\ severity \in 0 .. 3 /\ confidence \in Int /\ ids \in SUBSET Names
    BY DEF Names, Plain, CRITICAL, HIGH
  <2>2. GatewayUnreachableRule(rs) \in {<< >>, <<build_issue("GATEWAY_UNREACHABLE", severity, confidence, ids)>>}
    BY Zenon DEF GatewayUnreachableRule, When
  <2>3. GatewayUnreachableRule(rs) # << >> =>
          has_default_gateway(rs) /\ is_gateway_reachable(rs) = "no"
    BY Zenon DEF GatewayUnreachableRule, When
  <2>4. ASSUME GatewayUnreachableRule(rs) # << >>, NEW x, x.rule_id = "GATEWAY_UNREACHABLE",
               x.severity = severity, x.suppressed = ids
        PROVE  Origin(rs, x)
    BY <2>3, <2>4 DEF Origin, CRITICAL, HIGH
  <2> HIDE DEF severity, confidence, ids
  <2> QED
    BY <2>1, <2>2, <2>4, SoundSpecial
<1>4. Sound(rs, GatewayHealthyWANOutageRule(rs))
  <2> DEFINE severity == CRITICAL
             confidence == IF is_gateway_reachable(rs) = "yes" THEN 94 ELSE 88
             ids == {"DNS_FAIL_IP_HEALTHY", "DNS_TIMEOUT"}
  <2>1. "GATEWAY_HEALTHY_WAN_OUTAGE" \in Names /\ severity \in 0 .. 3 /\ confidence \in Int /\ ids \in SUBSET Names
    BY DEF Names, Plain, CRITICAL, HIGH
  <2>2. GatewayHealthyWANOutageRule(rs) \in {<< >>, <<build_issue("GATEWAY_HEALTHY_WAN_OUTAGE", severity, confidence, ids)>>}
    BY Zenon DEF GatewayHealthyWANOutageRule, When
  <2>3. GatewayHealthyWANOutageRule(rs) # << >> =>
          /\ has_default_gateway(rs) /\ is_gateway_reachable(rs) # "no"
          /\ get_max_packet_loss(rs) >= 99
    BY Zenon DEF GatewayHealthyWANOutageRule, When
  <2>4. ASSUME GatewayHealthyWANOutageRule(rs) # << >>, NEW x, x.rule_id = "GATEWAY_HEALTHY_WAN_OUTAGE",
               x.severity = severity, x.suppressed = ids
        PROVE  Origin(rs, x)
    BY <2>3, <2>4 DEF Origin, CRITICAL, HIGH
  <2> HIDE DEF severity, confidence, ids
  <2> QED
    BY <2>1, <2>2, <2>4, SoundSpecial
<1>5. Sound(rs, TotalInternetOutageRule(rs))
  <2> DEFINE severity == CRITICAL
             confidence == 90
             ids == {"DNS_FAIL_IP_HEALTHY", "DNS_TIMEOUT"}
  <2>1. "TOTAL_INTERNET_OUTAGE" \in Names /\ severity \in 0 .. 3 /\ confidence \in Int /\ ids \in SUBSET Names
    BY DEF Names, Plain, CRITICAL, HIGH
  <2>2. TotalInternetOutageRule(rs) \in {<< >>, <<build_issue("TOTAL_INTERNET_OUTAGE", severity, confidence, ids)>>}
    BY Zenon DEF TotalInternetOutageRule, When
  <2>3. TotalInternetOutageRule(rs) # << >> =>
          /\ ~all_interfaces_down(rs) /\ has_default_gateway(rs)
          /\ is_gateway_reachable(rs) = "unknown" /\ get_max_packet_loss(rs) >= 99
    BY Zenon DEF TotalInternetOutageRule, When
  <2>4. ASSUME TotalInternetOutageRule(rs) # << >>, NEW x, x.rule_id = "TOTAL_INTERNET_OUTAGE",
               x.severity = severity, x.suppressed = ids
        PROVE  Origin(rs, x)
    BY <2>3, <2>4 DEF Origin, CRITICAL, HIGH
  <2> HIDE DEF severity, confidence, ids
  <2> QED
    BY <2>1, <2>2, <2>4, SoundSpecial
<1>6. Sound(rs, DNSTimeoutRule(rs))
  <2> DEFINE severity == HIGH
             confidence == 92
             ids == {}
  <2>1. "DNS_TIMEOUT" \in Names /\ severity \in 0 .. 3 /\ confidence \in Int /\ ids \in SUBSET Names
    BY DEF Names, Plain, CRITICAL, HIGH
  <2>2. DNSTimeoutRule(rs) \in {<< >>, <<build_issue("DNS_TIMEOUT", severity, confidence, ids)>>}
    BY Zenon DEF DNSTimeoutRule, When
  <2>3. DNSTimeoutRule(rs) # << >> =>
          Has(rs, "dns") /\ first_by_module(rs, "dns").m.says_timeout
    BY Zenon DEF DNSTimeoutRule, When
  <2>4. ASSUME DNSTimeoutRule(rs) # << >>, NEW x, x.rule_id = "DNS_TIMEOUT",
               x.severity = severity, x.suppressed = ids
        PROVE  Origin(rs, x)
    BY <2>3, <2>4 DEF Origin, CRITICAL, HIGH
  <2> HIDE DEF severity, confidence, ids
  <2> QED
    BY <2>1, <2>2, <2>4, SoundSpecial
<1>7. Sound(rs, InterfaceErrorsRule(rs))
  <2> DEFINE severity == HIGH
             confidence == 90
             ids == {"ACTIVE_PACKET_DROPS"}
  <2>1. "INTERFACE_ERRORS" \in Names /\ severity \in 0 .. 3 /\ confidence \in Int /\ ids \in SUBSET Names
    BY DEF Names, Plain, CRITICAL, HIGH
  <2>2. InterfaceErrorsRule(rs) \in {<< >>, <<build_issue("INTERFACE_ERRORS", severity, confidence, ids)>>}
    BY Zenon DEF InterfaceErrorsRule, When
  <2>4. ASSUME InterfaceErrorsRule(rs) # << >>, NEW x, x.rule_id = "INTERFACE_ERRORS",
               x.severity = severity, x.suppressed = ids
        PROVE  Origin(rs, x)
    BY <2>4 DEF Origin, CRITICAL, HIGH
  <2> HIDE DEF severity, confidence, ids
  <2> QED
    BY <2>1, <2>2, <2>4, SoundSpecial
<1>8. Sound(rs, LinkCongestionWithPathLossRule(rs))
  <2> DEFINE severity == HIGH
             confidence == 80
             ids == {"HIGH_HOP_LOSS"}
  <2>1. "LINK_CONGESTION_WITH_PATH_LOSS" \in Names /\ severity \in 0 .. 3 /\ confidence \in Int /\ ids \in SUBSET Names
    BY DEF Names, Plain, CRITICAL, HIGH
  <2>2. LinkCongestionWithPathLossRule(rs) \in {<< >>, <<build_issue("LINK_CONGESTION_WITH_PATH_LOSS", severity, confidence, ids)>>}
    BY Zenon DEF LinkCongestionWithPathLossRule, When
  <2>4. ASSUME LinkCongestionWithPathLossRule(rs) # << >>, NEW x, x.rule_id = "LINK_CONGESTION_WITH_PATH_LOSS",
               x.severity = severity, x.suppressed = ids
        PROVE  Origin(rs, x)
    BY <2>4 DEF Origin, CRITICAL, HIGH
  <2> HIDE DEF severity, confidence, ids
  <2> QED
    BY <2>1, <2>2, <2>4, SoundSpecial
<1>9. Sound(rs, MeshPartitionRule(rs))
  <2> DEFINE severity == IF first_by_module(rs, "mesh_summary").m.failed_count =
                             first_by_module(rs, "mesh_summary").m.target_count
                          THEN CRITICAL ELSE HIGH
             confidence == IF first_by_module(rs, "mesh_summary").m.failed_count =
                               first_by_module(rs, "mesh_summary").m.target_count
                            THEN 90 ELSE 82
             ids == {}
  <2>1. "MESH_PARTITION" \in Names /\ severity \in 0 .. 3 /\ confidence \in Int /\ ids \in SUBSET Names
    BY DEF Names, Plain, CRITICAL, HIGH
  <2>2. MeshPartitionRule(rs) \in {<< >>, <<build_issue("MESH_PARTITION", severity, confidence, ids)>>}
    BY Zenon DEF MeshPartitionRule, When
  <2>3. MeshPartitionRule(rs) # << >> =>
          Has(rs, "mesh_summary")
    BY Zenon DEF MeshPartitionRule, When
  <2>4. ASSUME MeshPartitionRule(rs) # << >>, NEW x, x.rule_id = "MESH_PARTITION",
               x.severity = severity, x.suppressed = ids
        PROVE  Origin(rs, x)
    BY <2>3, <2>4 DEF Origin, CRITICAL, HIGH
  <2> HIDE DEF severity, confidence, ids
  <2> QED
    BY <2>1, <2>2, <2>4, SoundSpecial
<1> QED
  BY <1>1, <1>2, <1>3, <1>4, <1>5, <1>6, <1>7, <1>8, <1>9

LEMMA SoundCat6 ==
    ASSUME NEW rs, NEW a, NEW b, NEW c, NEW d, NEW e, NEW f,
           Sound(rs, a), Sound(rs, b), Sound(rs, c), Sound(rs, d), Sound(rs, e), Sound(rs, f)
    PROVE  Sound(rs, a \o b \o c \o d \o e \o f)
<1>1. Sound(rs, a \o b)
  BY SoundCat, Zenon
<1>2. Sound(rs, a \o b \o c)
  BY <1>1, SoundCat, Zenon
<1>3. Sound(rs, a \o b \o c \o d)
  BY <1>2, SoundCat, Zenon
<1>4. Sound(rs, a \o b \o c \o d \o e)
  BY <1>3, SoundCat, Zenon
<1> QED
  BY <1>4, SoundCat, Zenon

\* Whatever the results are, each issue has a rule and the rule its reason.
LEMMA RawSound ==
    ASSUME NEW rs
    PROVE  Sound(rs, RawIssues(rs))
<1> DEFINE p1 == AllInterfacesDownRule(rs) \o ActivePacketDropsRule(rs) \o NoDefaultGatewayRule(rs)
                  \o GatewayUnreachableRule(rs) \o GatewayHealthyWANOutageRule(rs) \o TotalInternetOutageRule(rs)
           p2 == p1 \o DNSFailureWithHealthyIPRule(rs) \o DNSTimeoutRule(rs)
                  \o SlowDNSResolutionRule(rs) \o SeverePacketLossRule(rs) \o HighJitterLatencySpikeRule(rs)
           p3 == p2 \o PortBlockedByFirewallRule(rs) \o TargetSpecificFailureRule(rs)
                  \o HostSaturationBufferbloatRule(rs) \o PathChangeRule(rs) \o HighHopLossRule(rs)
           p4 == p3 \o LastMileVsCoreRule(rs) \o LinkSaturationRule(rs)
                  \o InterfaceErrorsRule(rs) \o ElephantFlowRule(rs) \o LinkCongestionWithPathLossRule(rs)
           p5 == p4 \o SuddenDegradationRule(rs) \o MeshPartitionRule(rs)
<1>0. DEFAULT_RULES(rs) = p5
  BY Zenon DEF DEFAULT_RULES
<1> HIDE DEF p1, p2, p3, p4, p5
<1>1. Sound(rs, p1)
  BY SoundPlainRules, SoundSpecialRules, SoundCat6 DEF p1
<1>2. Sound(rs, p2)
  BY <1>1, SoundPlainRules, SoundSpecialRules, SoundCat6 DEF p2
<1>3. Sound(rs, p3)
  BY <1>2, SoundPlainRules, SoundSpecialRules, SoundCat6 DEF p3
<1>4. Sound(rs, p4)
  BY <1>3, SoundPlainRules, SoundSpecialRules, SoundCat6 DEF p4
<1>5. Sound(rs, p5)
  <2>1. Sound(rs, p4 \o SuddenDegradationRule(rs))
    BY <1>4, SoundPlainRules, SoundCat, Zenon
  <2> QED
    BY <2>1, SoundSpecialRules, SoundCat, Zenon DEF p5
<1> QED
  BY <1>0, <1>5, SoundAnomalies, SoundCat, Zenon DEF RawIssues

-----------------------------------------------------------------------------
(* The report's issues are the raw ones that none suppresses.               *)

LEMMA BeforeOrder ==
    ASSUME NEW raw \in Seq(IssueType)
    PROVE  /\ \A i \in DOMAIN raw : ~Before(raw, i, i)
           /\ \A i, j, k \in DOMAIN raw :
                Before(raw, i, j) /\ Before(raw, j, k) => Before(raw, i, k)
           /\ \A i, j \in DOMAIN raw : i # j => Before(raw, i, j) \/ Before(raw, j, i)
<1>1. \A i \in DOMAIN raw : i \in Int /\ raw[i] \in IssueType
  OBVIOUS
<1>2. \A i \in DOMAIN raw : raw[i].severity \in Int /\ raw[i].confidence \in Int
  BY <1>1 DEF IssueType
<1> QED
  BY <1>1, <1>2 DEF Before

LEMMA ActiveRange ==
    ASSUME NEW raw \in Seq(IssueType)
    PROVE  Range(ActiveIssues(raw)) =
              {raw[i] : i \in {i \in DOMAIN raw : raw[i].rule_id \notin suppressed_ids(raw)}}
<1> DEFINE A == {i \in DOMAIN raw : raw[i].rule_id \notin suppressed_ids(raw)}
           Pre(i) == {j \in A : Before(raw, j, i)}
           r == [i \in A |-> Cardinality(Pre(i))]
           N == Cardinality(A)
<1>1. IsFiniteSet(A) /\ N \in Nat
  <2>1. PICK n \in Nat : DOMAIN raw = 1 .. n
    OBVIOUS
  <2>2. IsFiniteSet(1 .. n)
    BY FS_Interval
  <2>3. IsFiniteSet(A)
    BY <2>1, <2>2, FS_Subset, A \in SUBSET (1 .. n)
  <2> QED
    BY <2>3, FS_CardinalityType
<1>2. ActiveIssues(raw) =
        [k \in 1 .. N |-> raw[CHOOSE i \in A : Cardinality(Pre(i)) = k - 1]]
  BY Zenon DEF ActiveIssues
<1>3. /\ \A i \in A : ~Before(raw, i, i)
      /\ \A i, j, k \in A : Before(raw, i, j) /\ Before(raw, j, k) => Before(raw, i, k)
      /\ \A i, j \in A : i # j => Before(raw, i, j) \/ Before(raw, j, i)
  BY BeforeOrder, A \subseteq DOMAIN raw, Zenon
<1> HIDE DEF A
<1>4. ASSUME NEW i \in A
      PROVE  IsFiniteSet(Pre(i)) /\ Cardinality(Pre(i)) \in 0 .. N - 1
  <2>1. Pre(i) \in SUBSET A /\ i \notin Pre(i)
    BY <1>3
  <2> HIDE DEF Pre
  <2>2. IsFiniteSet(Pre(i)) /\ Cardinality(Pre(i)) <= N /\ Cardinality(Pre(i)) # N
    BY <1>1, <2>1, FS_Subset
  <2>3. Cardinality(Pre(i)) \in Nat
    BY <2>2, FS_CardinalityType
  <2> QED
    BY <1>1, <2>2, <2>3
<1>5. ASSUME NEW i \in A, NEW j \in A, Before(raw, i, j)
      PROVE  Cardinality(Pre(i)) # Cardinality(Pre(j))
  <2>1. Pre(i) \in SUBSET Pre(j) /\ i \in Pre(j) /\ i \notin Pre(i)
    BY <1>3, <1>5
  <2>2. IsFiniteSet(Pre(j))
    BY <1>4
  <2> HIDE DEF Pre
  <2> QED
    BY <2>1, <2>2, FS_Subset
<1>6. ASSUME NEW i \in A, NEW j \in A, Cardinality(Pre(i)) = Cardinality(Pre(j))
      PROVE  i = j
  <2>1. ~Before(raw, i, j) /\ ~Before(raw, j, i)
    BY <1>5, <1>6, Zenon
  <2> QED
    BY <1>3, <2>1, Zenon
<1> HIDE DEF Pre
<1>7. \A k \in 1 .. N : \E i \in A : Cardinality(Pre(i)) = k - 1
  <2> DEFINE T == 0 .. N - 1
  <2>1. IsFiniteSet(T) /\ Cardinality(T) = N
    <3>1. \A b \in Int : IsFiniteSet(0 .. b)
                         /\ Cardinality(0 .. b) = IF 0 > b THEN 0 ELSE b - 0 + 1
      BY FS_Interval
    <3> HIDE DEF N
    <3>2. PICK b \in Int : b = N - 1
      BY <1>1
    <3>3. IsFiniteSet(0 .. b) /\ Cardinality(0 .. b) = IF 0 > b THEN 0 ELSE b - 0 + 1
      BY <3>1, Zenon
    <3>4. (IF 0 > b THEN 0 ELSE b - 0 + 1) = N
      BY <1>1, <3>2
    <3> QED
      BY <3>2, <3>3, <3>4
  <2>2. r \in [A -> T]
    BY <1>4
  <2>3. r \in Injection(A, T)
    BY <1>6, <2>2 DEF Injection, IsInjective
  <2>4. r \in Surjection(A, T)
    BY <2>1, <2>3, FS_Injection, Zenon
  <2>5. \A k \in T : \E i \in A : r[i] = k
    BY <2>4 DEF Surjection
  <2> SUFFICES ASSUME NEW k \in 1 .. N PROVE \E i \in A : Cardinality(Pre(i)) = k - 1
    OBVIOUS
  <2>6. k - 1 \in T
    BY <1>1
  <2> HIDE DEF T
  <2> QED
    BY <2>5, <2>6
<1> DEFINE at(k) == CHOOSE i \in A : Cardinality(Pre(i)) = k - 1
<1>8. \A k \in 1 .. N : at(k) \in A
  BY <1>7
<1>9. ASSUME NEW i \in A PROVE \E k \in 1 .. N : at(k) = i
  <2>1. PICK k \in 1 .. N : k - 1 = Cardinality(Pre(i))
    <3>1. Cardinality(Pre(i)) + 1 \in 1 .. N
          /\ (Cardinality(Pre(i)) + 1) - 1 = Cardinality(Pre(i))
      BY <1>1, <1>4
    <3> QED
      BY <3>1
  <2>2. at(k) = i
    BY <1>6, <2>1, Zenon
  <2> QED
    BY <2>2
<1>10. DOMAIN ActiveIssues(raw) = 1 .. N
       /\ \A k \in 1 .. N : ActiveIssues(raw)[k] = raw[at(k)]
  BY <1>2
<1> HIDE DEF at
<1>11. Range(ActiveIssues(raw)) = {raw[i] : i \in A}
  <2>1. \A x : x \in Range(ActiveIssues(raw)) <=> \E k \in 1 .. N : x = raw[at(k)]
    BY <1>10 DEF Range
  <2> QED
    BY <1>8, <1>9, <2>1
<1> QED
  BY <1>11 DEF A

\* Whoever is suppressed is suppressed by an issue that is not.
LEMMA Explained ==
    ASSUME NEW rs, NEW raw, Sound(rs, raw),
           ~(Has(rs, "dns") /\ first_by_module(rs, "dns").m.says_timeout),
           NEW i \in DOMAIN raw, raw[i].rule_id \in suppressed_ids(raw)
    PROVE  \E j \in DOMAIN raw : /\ raw[j].rule_id \notin suppressed_ids(raw)
                                 /\ raw[i].rule_id \in raw[j].suppressed
<1>1. \A k \in DOMAIN raw : Origin(rs, raw[k])
  BY DEF Sound
<1>2. \A id : id \in suppressed_ids(raw) <=> \E k \in DOMAIN raw : id \in raw[k].suppressed
  BY DEF suppressed_ids, Range
<1>3. PICK j \in DOMAIN raw : raw[i].rule_id \in raw[j].suppressed
  BY <1>2
<1>4. CASE raw[j].rule_id \notin suppressed_ids(raw)
  BY <1>3, <1>4
<1>5. CASE raw[j].rule_id \in suppressed_ids(raw)
  <2>1. PICK k \in DOMAIN raw : raw[j].rule_id \in raw[k].suppressed
    BY <1>2, <1>5
  <2>2. Origin(rs, raw[i]) /\ Origin(rs, raw[j]) /\ Origin(rs, raw[k])
    BY <1>1
  <2>3. raw[k].rule_id = "ALL_INTERFACES_DOWN" /\ raw[j].rule_id = "GATEWAY_UNREACHABLE"
        /\ raw[i].rule_id \in raw[k].suppressed
    BY <1>3, <2>1, <2>2 DEF Origin, Plain
  <2>4. \A l \in DOMAIN raw : "ALL_INTERFACES_DOWN" \notin raw[l].suppressed
    BY <1>1 DEF Origin
  <2> QED
    BY <1>2, <2>3, <2>4
<1> QED
  BY <1>4, <1>5

-----------------------------------------------------------------------------
(* What the probes' results say of the faults e that there have been.       *)

IsSeq(s) == s \in Seq(Range(s))

Unrouted == {"link_down", "no_route", "route_unseen", "unknown_os"}
Unanswered == Unrouted \cup {"gateway_down", "gateway_mute"}
Outage == {"wan_down", "gateway_down"}

Losses == {NoValue, 0, 25, 40, 100}

Evidence(r, e) ==
    /\ r.module # "mesh_summary"
    /\ r.module = "dns" => r.m.says_timeout = FALSE
    /\ r.module = "routing" => r.m.default_gateway = TRUE \/ Unrouted \cap e # {}
    /\ r.module = "gateway" =>
         /\ r.status \in {"healthy", "degraded", "failed", "unknown"}
         /\ \/ r.status # "failed" /\ r.m.packet_loss_percent \in Losses \ {100}
            \/ Unanswered \cap e # {}
    /\ r.module = "packet_loss" =>
         /\ r.m.packet_loss_percent \in Losses
         /\ r.m.packet_loss_percent = 100 => Outage \cap e # {}

\* An interface that is not the loopback, and that is up or was down.
Working(r, e) ==
    /\ r.module = "interface" /\ r.m.named_loopback = FALSE
    /\ r.m.is_up = TRUE \/ "link_down" \in e

Supported(rs, e) ==
    /\ IsSeq(rs)
    /\ \A i \in DOMAIN rs : Evidence(rs[i], e)
    /\ \A i \in DOMAIN rs : rs[i].module = "interface" => \E j \in DOMAIN rs : Working(rs[j], e)

LEMMA SeqRange ==
    ASSUME NEW S, NEW u \in Seq(S)
    PROVE  IsSeq(u)
<1>1. PICK n \in Nat : n = Len(u) /\ DOMAIN u = 1 .. n
  OBVIOUS
<1>2. \A i \in 1 .. n : u[i] \in Range(u)
  BY <1>1 DEF Range
<1> QED
  BY <1>1, <1>2 DEF IsSeq

\* u consists of the elements of s and those of t.
Joined(s, t, u) ==
    /\ IsSeq(u)
    /\ \A i \in DOMAIN s : i \in DOMAIN u /\ u[i] = s[i]
    /\ \A i \in DOMAIN t : \E k \in DOMAIN u : u[k] = t[i]
    /\ \A k \in DOMAIN u : \/ \E i \in DOMAIN s : u[k] = s[i]
                           \/ \E i \in DOMAIN t : u[k] = t[i]

LEMMA SeqCat ==
    ASSUME NEW s, NEW t, IsSeq(s), IsSeq(t)
    PROVE  Joined(s, t, s \o t)
<1> DEFINE u == s \o t
           S == Range(s) \cup Range(t)
<1>0. S = Range(s) \cup Range(t)
  OBVIOUS
<1>1. s \in Seq(S) /\ t \in Seq(S)
  <2>1. s \in Seq(Range(s)) /\ t \in Seq(Range(t))
    BY DEF IsSeq
  <2> HIDE DEF S
  <2> QED
    BY <1>0, <2>1
<1> HIDE DEF S
<1>2. PICK m \in Nat, n \in Nat :
         m = Len(s) /\ DOMAIN s = 1 .. m /\ n = Len(t) /\ DOMAIN t = 1 .. n
  BY <1>1
<1>3. u \in Seq(S) /\ Len(u) = m + n /\ DOMAIN u = 1 .. m + n
  BY <1>1, <1>2
<1>4. \A i \in 1 .. m + n : u[i] = IF i <= m THEN s[i] ELSE t[i - m]
  BY <1>1, <1>2
<1> HIDE DEF u
<1>5. \A i \in DOMAIN s : i \in DOMAIN u /\ u[i] = s[i]
  BY <1>2, <1>3, <1>4
<1>6. \A i \in DOMAIN t : \E k \in DOMAIN u : u[k] = t[i]
  <2> SUFFICES ASSUME NEW i \in DOMAIN t PROVE \E k \in DOMAIN u : u[k] = t[i]
    OBVIOUS
  <2>1. m + i \in DOMAIN u /\ u[m + i] = t[i]
    BY <1>2, <1>3, <1>4
  <2> QED
    BY <2>1
<1>7. \A k \in DOMAIN u : (\E i \in DOMAIN s : u[k] = s[i]) \/ (\E i \in DOMAIN t : u[k] = t[i])
  <2> SUFFICES ASSUME NEW k \in DOMAIN u
               PROVE  (\E i \in DOMAIN s : u[k] = s[i]) \/ (\E i \in DOMAIN t : u[k] = t[i])
    OBVIOUS
  <2>1. CASE k <= m
    BY <1>2, <1>3, <1>4, <2>1
  <2>2. CASE k > m
    <3>1. k - m \in DOMAIN t /\ u[k] = t[k - m]
      BY <1>2, <1>3, <1>4, <2>2
    <3> QED
      BY <3>1
  <2> QED
    BY <1>2, <1>3, <2>1, <2>2
<1>8. IsSeq(u)
  BY <1>3, SeqRange
<1> QED
  BY <1>5, <1>6, <1>7, <1>8, Zenon DEF u, Joined

LEMMA SupportedCat ==
    ASSUME NEW s, NEW t, NEW e, Supported(s, e), Supported(t, e)
    PROVE  Supported(s \o t, e)
<1>1. PICK u : u = s \o t
  OBVIOUS
<1>2. Joined(s, t, u)
  BY <1>1, SeqCat, Zenon DEF Supported
<1>3. \A k \in DOMAIN u : Evidence(u[k], e)
  BY <1>2, Zenon DEF Supported, Joined
<1>4. ASSUME NEW k \in DOMAIN u, u[k].module = "interface"
      PROVE  \E j \in DOMAIN u : Working(u[j], e)
  BY <1>2, <1>4, Zenon DEF Supported, Joined
<1>5. Supported(u, e)
  BY <1>2, <1>3, <1>4, Zenon DEF Supported, Joined
<1> QED
  BY <1>1, <1>5, Zenon

LEMMA SupportedMore ==
    ASSUME NEW rs, NEW e, NEW f, e \subseteq f, Supported(rs, e)
    PROVE  Supported(rs, f)
<1>1. \A r : Evidence(r, e) => Evidence(r, f)
  <2>1. Unrouted \cap e # {} => Unrouted \cap f # {}
    OBVIOUS
  <2>2. Unanswered \cap e # {} => Unanswered \cap f # {}
    OBVIOUS
  <2>3. Outage \cap e # {} => Outage \cap f # {}
    OBVIOUS
  <2> QED
    BY <2>1, <2>2, <2>3, Zenon DEF Evidence
<1>2. \A r : Working(r, e) => Working(r, f)
  BY Zenon DEF Working
<1> QED
  BY <1>1, <1>2, Zenon DEF Supported

LEMMA SupportedNone ==
    ASSUME NEW e
    PROVE  Supported(<< >>, e)
<1>1. << >> \in Seq(Range(<< >>)) /\ DOMAIN << >> = {}
  OBVIOUS
<1> QED
  BY <1>1, Zenon DEF Supported, IsSeq

LEMMA SupportedOne ==
    ASSUME NEW r, NEW e, Evidence(r, e), r.module # "interface"
    PROVE  Supported(<<r>>, e)
<1>1. <<r>> \in Seq(Range(<<r>>)) /\ DOMAIN <<r>> = {1} /\ <<r>>[1] = r
  <2>1. DOMAIN <<r>> = {1} /\ <<r>>[1] = r
    OBVIOUS
  <2>2. r \in Range(<<r>>)
    BY <2>1, Zenon DEF Range
  <2>3. <<r>> \in Seq(Range(<<r>>))
    BY <2>2
  <2> QED
    BY <2>1, <2>3
<1> QED
  BY <1>1, Zenon DEF Supported, IsSeq

\* The probes that a report of an outage is made of.
Heard == {"routing", "gateway", "connectivity", "packet_loss"}

Mute(rs) == \A i \in DOMAIN rs : rs[i].module \notin Heard

LEMMA MuteOne ==
    ASSUME NEW r, r.module \notin Heard
    PROVE  Mute(<<r>>)
<1>1. DOMAIN <<r>> = {1} /\ <<r>>[1] = r
  OBVIOUS
<1> QED
  BY <1>1, Zenon DEF Mute

LEMMA MuteNone == Mute(<< >>)
<1>1. DOMAIN << >> = {}
  OBVIOUS
<1> QED
  BY <1>1, Zenon DEF Mute

\* Results of the probes that neither a critical rule nor an outage reads.
Silent == {"tcp", "udp", "resource_network", "network_activity",
           "link_utilization", "link_errors", "link_congestion", "latency",
           "baseline_delta", "traceroute", "path_change"}

LEMMA SilentEvidence ==
    ASSUME NEW r, NEW e, r.module \in Silent
    PROVE  Evidence(r, e) /\ r.module # "interface" /\ r.module \notin Heard
  BY DEF Evidence, Silent, Heard

LEMMA SupportedSilent ==
    ASSUME NEW rs, NEW e, IsSeq(rs), \A i \in DOMAIN rs : rs[i].module \in Silent
    PROVE  Supported(rs, e) /\ Mute(rs)
  BY SilentEvidence, Zenon DEF Supported, Mute

-----------------------------------------------------------------------------
(* The probes.                                                              *)

LEMMA PublicNames == \A host \in Public : host # "gateway"
  BY DEF Public

LEMMA Echo ==
    ASSUME NEW host, NEW f
    PROVE  /\ EchoLoss(host, f) \in {0, 25, 40, 100}
           /\ EchoLoss(host, f) = 100 => ~Answered(host, f)
<1>1. CASE ~Answered(host, f)
  BY <1>1 DEF EchoLoss
<1>2. CASE Answered(host, f)
  <2>1. EchoLoss(host, f) \in {0, 25, 40}
    <3>1. EchoLoss(host, f) = IF "lan_lossy" \in f THEN 25
                              ELSE IF "wan_lossy" \in f /\ host # "gateway" THEN 40 ELSE 0
      BY <1>2, Zenon DEF EchoLoss
    <3>2. CASE "lan_lossy" \in f
      BY <3>1, <3>2, Zenon
    <3>3. CASE "lan_lossy" \notin f /\ "wan_lossy" \in f /\ host # "gateway"
      BY <3>1, <3>3, Zenon
    <3>4. CASE "lan_lossy" \notin f /\ ~("wan_lossy" \in f /\ host # "gateway")
      BY <3>1, <3>4, Zenon
    <3> QED
      BY <3>2, <3>3, <3>4, Zenon
  <2> QED
    BY <2>1
<1> QED
  BY <1>1, <1>2, Zenon

\* What run_ping returns, or a cached answer of it, says of a host.
PingSays(data, e, cause) ==
    data.loss \in Losses /\ (data.loss = 100 => cause \cap e # {})

LEMMA RunPing ==
    ASSUME NEW host, NEW f
    PROVE  LET data == run_ping(host, f)
           IN  /\ data.loss \in Losses
               /\ data.loss = 100 => HasRoute(f) /\ ~Answered(host, f)
<1> DEFINE loss == EchoLoss(host, f)
           data == run_ping(host, f)
           jitter == IF "jittery" \in f THEN 50 ELSE 2
<1>1. loss \in {0, 25, 40, 100} /\ (loss = 100 => ~Answered(host, f))
  BY Echo, Zenon
<1>2. data = CASE "no_tools" \in f -> PingData(TRUE, NoValue, FALSE, 0, 0)
               [] "no_tools" \notin f /\ ~HasRoute(f) -> PingData(FALSE, NoValue, FALSE, 0, 0)
               [] "no_tools" \notin f /\ HasRoute(f) /\ loss = 100 ->
                    PingData(FALSE, 100, FALSE, 0, 0)
               [] OTHER -> PingData(FALSE, loss, TRUE, EchoTime(host, f), jitter)
  BY Zenon DEF run_ping
<1> HIDE DEF loss, data, jitter
<1>3. NoValue \in Losses /\ NoValue # 100 /\ 100 \in Losses /\ {0, 25, 40, 100} \subseteq Losses
  BY DEF Losses, NoValue
<1>4. CASE "no_tools" \in f
  <2>1. data = PingData(TRUE, NoValue, FALSE, 0, 0)
    BY <1>2, <1>4
  <2> QED
    BY <1>3, <2>1 DEF PingData, data
<1>5. CASE "no_tools" \notin f /\ ~HasRoute(f)
  <2>1. data = PingData(FALSE, NoValue, FALSE, 0, 0)
    BY <1>2, <1>5
  <2> QED
    BY <1>3, <2>1 DEF PingData, data
<1>6. CASE "no_tools" \notin f /\ HasRoute(f) /\ loss = 100
  <2>1. data = PingData(FALSE, 100, FALSE, 0, 0)
    BY <1>2, <1>6
  <2> QED
    BY <1>1, <1>3, <1>6, <2>1 DEF PingData, data
<1>7. CASE "no_tools" \notin f /\ HasRoute(f) /\ loss # 100
  <2>1. data = PingData(FALSE, loss, TRUE, EchoTime(host, f), jitter)
    BY <1>2, <1>7
  <2> QED
    BY <1>1, <1>3, <1>7, <2>1 DEF PingData, data
<1> QED
  BY <1>4, <1>5, <1>6, <1>7, Zenon

LEMMA PublicPing ==
    ASSUME NEW host \in Public, NEW f, NEW e, f \subseteq e
    PROVE  PingSays(run_ping(host, f), e, Outage)
<1>1. HasRoute(f) /\ ~Answered(host, f) => Outage \cap e # {}
  BY PublicNames DEF Answered, WanWorks, LanWorks, Outage
<1> QED
  BY <1>1, RunPing, Zenon DEF PingSays

LEMMA GatewayPing ==
    ASSUME NEW f, NEW e, f \subseteq e
    PROVE  PingSays(run_ping("gateway", f), e, Unanswered)
<1>1. HasRoute(f) /\ ~Answered("gateway", f) => Unanswered \cap e # {}
  BY DEF Answered, Speaks, LanWorks, Unanswered
<1> QED
  BY <1>1, RunPing, Zenon DEF PingSays

LEMMA PingEvidence ==
    ASSUME NEW host, NEW data, NEW e, PingSays(data, e, Outage)
    PROVE  Supported(<<ping_host(host, data)>>, e)
<1> DEFINE r == ping_host(host, data)
<1>1. r.module = "packet_loss" /\ r.m = [packet_loss_percent |-> data.loss]
  BY Zenon DEF ping_host, Result
<1> HIDE DEF r
<1>2. r.m.packet_loss_percent = data.loss
  BY <1>1
<1>3. Evidence(r, e) /\ r.module # "interface"
  BY <1>1, <1>2 DEF Evidence, PingSays
<1> QED
  BY <1>3, SupportedOne, Zenon DEF r

LEMMA LatencyEvidence ==
    ASSUME NEW host, NEW data, NEW e
    PROVE  Supported(<<measure_latency(host, data)>>, e) /\ Mute(<<measure_latency(host, data)>>)
<1> DEFINE r == measure_latency(host, data)
<1>1. r.module = "latency"
  BY Zenon DEF measure_latency, Result
<1> HIDE DEF r
<1>2. r.module \in Silent
  BY <1>1 DEF Silent
<1>3. Evidence(r, e) /\ r.module # "interface" /\ r.module \notin Heard
  BY <1>2, SilentEvidence, Zenon
<1> QED
  BY <1>3, SupportedOne, MuteOne, Zenon DEF r

\* The metric is there when the table was read and has a default route.
LEMMA RouteFound ==
    ASSUME NEW f
    PROVE  /\ inspect_routing_table(f).module = "routing"
           /\ inspect_routing_table(f).m.default_gateway = RouteRead(f)
<1> DEFINE status == CASE "unknown_os" \in f -> "unknown"
                       [] RouteRead(f) -> "healthy"
                       [] OTHER -> "failed"
           m == [default_gateway |-> RouteRead(f)]
           r == inspect_routing_table(f)
<1>1. r = Result("routing", "none", status, m)
  BY Zenon DEF inspect_routing_table
<1>2. m.default_gateway = RouteRead(f)
  BY Zenon
<1> HIDE DEF status, m, r
<1>3. r.module = "routing" /\ r.m = m
  BY <1>1, Zenon DEF Result
<1> QED
  BY <1>2, <1>3, Zenon DEF r

LEMMA RouteMissed ==
    ASSUME NEW f, NEW e, f \subseteq e, ~RouteRead(f)
    PROVE  Unrouted \cap e # {}
  BY DEF RouteRead, HasRoute, Unrouted

LEMMA GatewayEvidence ==
    ASSUME NEW f, NEW e, f \subseteq e
    PROVE  Supported(<<check_gateway_reachability(f)>>, e)
<1> DEFINE data == run_ping("gateway", f)
           unprobed == [packet_loss_percent |-> NoValue, avg_ms |-> NoValue, jitter_ms |-> NoValue]
           probed == [packet_loss_percent |-> data.loss, avg_ms |-> data.avg_ms,
                      jitter_ms |-> data.jitter_ms]
           status == CASE data.loss >= 99 -> "failed"
                       [] data.loss \in 1 .. 98 -> "degraded"
                       [] data.loss = 0 -> "healthy"
           r == check_gateway_reachability(f)
<1>1. r = CASE ~RouteRead(f) -> Result("gateway", "none", "failed", unprobed)
            [] RouteRead(f) /\ data.loss = NoValue -> Result("gateway", "gateway", "unknown", unprobed)
            [] OTHER -> Result("gateway", "gateway", status, probed)
  BY RouteFound, Zenon DEF check_gateway_reachability
<1>2. data.loss \in Losses /\ (data.loss = 100 => Unanswered \cap e # {})
  BY GatewayPing, Zenon DEF PingSays
<1>3. probed.packet_loss_percent = data.loss /\ unprobed.packet_loss_percent = NoValue
  BY Zenon
<1>4. data.loss # NoValue => /\ status \in {"healthy", "degraded", "failed"}
                             /\ status = "failed" => data.loss = 100
  <2> DEFINE loss == data.loss
  <2>1. loss \in Losses
    BY <1>2
  <2> HIDE DEF loss
  <2>2. loss # NoValue => loss \in {0, 25, 40, 100}
    BY <2>1 DEF Losses
  <2>3. CASE loss = 0
    BY <2>3 DEF loss
  <2>4. CASE loss \in {25, 40}
    BY <2>4 DEF loss
  <2>5. CASE loss = 100
    BY <2>5 DEF loss
  <2> QED
    BY <2>2, <2>3, <2>4, <2>5 DEF loss
<1> HIDE DEF data, unprobed, probed, status, r
<1>5. ASSUME ~RouteRead(f)
      PROVE  Evidence(r, e) /\ r.module # "interface"
  <2>1. r = Result("gateway", "none", "failed", unprobed)
    BY <1>1, <1>5
  <2>2. r.module = "gateway" /\ r.status = "failed" /\ r.m = unprobed
    BY <2>1, Zenon DEF Result
  <2>3. Unanswered \cap e # {}
    BY <1>5, RouteMissed DEF Unanswered
  <2> QED
    BY <2>2, <2>3 DEF Evidence
<1>6. ASSUME RouteRead(f) /\ data.loss = NoValue
      PROVE  Evidence(r, e) /\ r.module # "interface"
  <2>1. r = Result("gateway", "gateway", "unknown", unprobed)
    BY <1>1, <1>6
  <2>2. r.module = "gateway" /\ r.status = "unknown" /\ r.m.packet_loss_percent = NoValue
    BY <1>3, <2>1 DEF Result
  <2> QED
    BY <2>2 DEF Evidence, Losses, NoValue
<1>7. ASSUME RouteRead(f) /\ data.loss # NoValue
      PROVE  Evidence(r, e) /\ r.module # "interface"
  <2>1. r = Result("gateway", "gateway", status, probed)
    BY <1>1, <1>7
  <2>2. r.module = "gateway" /\ r.status = status /\ r.m.packet_loss_percent = data.loss
    BY <1>3, <2>1 DEF Result
  <2> QED
    BY <1>2, <1>4, <1>7, <2>2 DEF Evidence
<1>8. Evidence(r, e) /\ r.module # "interface"
  BY <1>5, <1>6, <1>7, Zenon
<1> QED
  BY <1>8, SupportedOne, Zenon DEF r

LEMMA InterfaceEvidence ==
    ASSUME NEW f, NEW e, f \subseteq e
    PROVE  Supported(inspect_interfaces(f), e) /\ Mute(inspect_interfaces(f))
<1> DEFINE up == "link_down" \notin f
           lo == Result("interface", "loopback", "healthy",
                        [is_up |-> TRUE, named_loopback |-> NamedLoopback])
           eth == Result("interface", "eth", IF up THEN "healthy" ELSE "failed",
                         [is_up |-> up, named_loopback |-> FALSE])
           rs == inspect_interfaces(f)
<1>1. rs = <<lo, eth>>
  BY Zenon DEF inspect_interfaces
<1>2. lo.module = "interface" /\ eth.module = "interface"
  BY Zenon DEF Result
<1>0. "interface" \notin Heard
  BY DEF Heard
<1>3. eth.m.named_loopback = FALSE /\ eth.m.is_up = up
  BY Zenon DEF Result
<1>4. Working(eth, e)
  BY <1>2, <1>3, Zenon DEF Working
<1>5. Evidence(lo, e) /\ Evidence(eth, e)
  BY <1>2, Zenon DEF Evidence
<1> HIDE DEF lo, eth, rs
<1>6. DOMAIN rs = {1, 2} /\ rs[1] = lo /\ rs[2] = eth
  BY <1>1
<1>7. rs \in Seq({lo, eth})
  BY <1>1
<1>8. IsSeq(rs)
  BY <1>7, SeqRange
<1>9. \A i \in DOMAIN rs : Evidence(rs[i], e)
  BY <1>5, <1>6, Zenon
<1>10. \E j \in DOMAIN rs : Working(rs[j], e)
  BY <1>4, <1>6, Zenon
<1>11. Mute(rs)
  BY <1>0, <1>2, <1>6, Zenon DEF Mute, lo, eth
<1> QED
  BY <1>8, <1>9, <1>10, <1>11, Zenon DEF Supported, rs

LEMMA RoutingEvidence ==
    ASSUME NEW f, NEW e, f \subseteq e
    PROVE  /\ Supported(<<inspect_routing_table(f)>>, e)
           /\ inspect_routing_table(f).module = "routing"
<1> DEFINE r == inspect_routing_table(f)
<1>1. r.module = "routing" /\ r.m.default_gateway = RouteRead(f)
  BY RouteFound, Zenon
<1>2. RouteRead(f) = TRUE \/ Unrouted \cap e # {}
  <2>1. RouteRead(f) \in BOOLEAN
    BY Zenon DEF RouteRead
  <2>2. RouteRead(f) \/ Unrouted \cap e # {}
    BY RouteMissed, Zenon
  <2> QED
    BY <2>1, <2>2, Zenon
<1> HIDE DEF r
<1>3. Evidence(r, e) /\ r.module # "interface"
  BY <1>1, <1>2, Zenon DEF Evidence
<1> QED
  BY <1>1, <1>3, SupportedOne, Zenon DEF r

LEMMA NameEvidence ==
    ASSUME NEW host, NEW f, NEW e
    PROVE  Supported(<<resolve_hostname(host, f)>>, e) /\ Mute(<<resolve_hostname(host, f)>>)
<1> DEFINE r == resolve_hostname(host, f)
<1>1. r.module = "dns" /\ r.m.says_timeout = FALSE
  BY Zenon DEF resolve_hostname, Result
<1> HIDE DEF r
<1>2. Evidence(r, e) /\ r.module # "interface"
  BY <1>1, Zenon DEF Evidence
<1>3. r.module \notin Heard
  BY <1>1 DEF Heard
<1> QED
  BY <1>2, <1>3, SupportedOne, MuteOne, Zenon DEF r

LEMMA SilentOne ==
    ASSUME NEW r, NEW e, r.module \in Silent
    PROVE  Supported(<<r>>, e) /\ Mute(<<r>>)
  BY SilentEvidence, SupportedOne, MuteOne, Zenon

LEMMA SilentTwo ==
    ASSUME NEW r, NEW s, NEW e, r.module \in Silent, s.module \in Silent
    PROVE  Supported(<<r, s>>, e) /\ Mute(<<r, s>>)
<1>1. PICK rs : rs = <<r, s>>
  OBVIOUS
<1>2. DOMAIN rs = {1, 2} /\ rs[1] = r /\ rs[2] = s /\ rs \in Seq({r, s})
  BY <1>1
<1>3. IsSeq(rs)
  BY <1>2, SeqRange
<1>4. \A i \in DOMAIN rs : rs[i].module \in Silent
  BY <1>2, Zenon
<1> QED
  BY <1>1, <1>3, <1>4, SupportedSilent, Zenon

LEMMA ResourceEvidence ==
    ASSUME NEW f, NEW e
    PROVE  /\ Supported(inspect_resources_and_activity(f), e)
           /\ Mute(inspect_resources_and_activity(f))
<1> DEFINE cpu == IF "cpu_high" \in f THEN 96 ELSE 20
           drops == NicDrops(f)
           memory == 50
           a == Result("resource_network", "none",
                 CASE drops > 0 -> "degraded"
                   [] drops = 0 /\ (cpu >= 95 \/ memory >= 95) -> "failed"
                   [] drops = 0 /\ cpu < 95 /\ memory < 95 /\ (cpu >= 85 \/ memory >= 90) -> "degraded"
                   [] OTHER -> "healthy",
                 [cpu_percent |-> cpu, memory_percent |-> memory,
                  active_errors_per_sec |-> 0, active_drops_per_sec |-> drops])
           b == Result("network_activity", "none", "healthy", NoMetrics)
<1>1. inspect_resources_and_activity(f) = <<a, b>>
  BY Zenon DEF inspect_resources_and_activity
<1>2. a.module = "resource_network" /\ b.module = "network_activity"
  BY Zenon DEF Result
<1> HIDE DEF a, b
<1>3. a.module \in Silent /\ b.module \in Silent
  BY <1>2 DEF Silent
<1> QED
  BY <1>1, <1>3, SilentTwo, Zenon

\* The results of one module are numbered from 1.
LEMMA ByModule ==
    ASSUME NEW rs, NEW module
    PROVE  \E n \in Nat : DOMAIN by_module(rs, module) = 1 .. n
<1> DEFINE s == by_module(rs, module)
<1>1. Len(s) \in Nat /\ DOMAIN s = 1 .. Len(s)
  BY DEF by_module
<1> QED
  BY <1>1, Zenon

LEMMA LinkEvidence ==
    ASSUME NEW us, NEW es, NEW f, NEW e,
           NEW n \in Nat, DOMAIN us = 1 .. n
    PROVE  /\ Supported(measure_link_utilization(f), e) /\ Mute(measure_link_utilization(f))
           /\ Supported(measure_link_errors(f), e) /\ Mute(measure_link_errors(f))
           /\ Supported(measure_link_congestion(us, es, f), e)
           /\ Mute(measure_link_congestion(us, es, f))
<1>0. /\ "link_utilization" \in Silent /\ "link_errors" \in Silent
      /\ "link_congestion" \in Silent
  BY DEF Silent
<1>1. Supported(measure_link_utilization(f), e) /\ Mute(measure_link_utilization(f))
  <2> DEFINE util == IF "link_full" \in f THEN 95 ELSE 10
             r == Result("link_utilization", "eth", IF util >= 75 THEN "degraded" ELSE "healthy",
                         [util_percent |-> util])
  <2>1. r.module \in Silent
    BY <1>0, Zenon DEF Result
  <2>2. measure_link_utilization(f) = IF "link_down" \in f THEN << >> ELSE <<r>>
    BY Zenon DEF measure_link_utilization
  <2> HIDE DEF r
  <2> QED
    BY <2>1, <2>2, SilentOne, SupportedNone, MuteNone, Zenon
<1>2. Supported(measure_link_errors(f), e) /\ Mute(measure_link_errors(f))
  <2> DEFINE drops == NicDrops(f)
             r == Result("link_errors", "eth",
                         CASE drops >= 50 -> "failed"
                           [] drops \in 5 .. 49 -> "degraded"
                           [] OTHER -> "healthy",
                         [drops_per_sec |-> drops, errors_per_sec |-> 0])
  <2>1. r.module \in Silent
    BY <1>0, Zenon DEF Result
  <2>2. measure_link_errors(f) = <<r>>
    BY Zenon DEF measure_link_errors
  <2> HIDE DEF r
  <2> QED
    BY <2>1, <2>2, SilentOne, Zenon
<1>3. /\ Supported(measure_link_congestion(us, es, f), e)
      /\ Mute(measure_link_congestion(us, es, f))
  <2> DEFINE utils == IF us = << >> THEN measure_link_utilization(f) ELSE us
             errors == es[1].m
             congestion(u) ==
               LET score == congestion_score(u.m.util_percent, errors.drops_per_sec,
                                             errors.errors_per_sec)
                   state == congestion_state(score)
               IN  Result("link_congestion", u.target,
                          CASE state = "severe" -> "failed"
                            [] state \in {"moderate", "mild"} -> "degraded"
                            [] state = "clear" -> "healthy",
                          [congestion_score |-> score])
             rs == [i \in DOMAIN utils |-> congestion(utils[i])]
  <2>1. measure_link_congestion(us, es, f) = rs
    BY Zenon DEF measure_link_congestion
  <2>2. \A u : congestion(u).module \in Silent
    BY <1>0, Zenon DEF Result
  <2> HIDE DEF congestion
  <2>3. PICK k \in Nat : DOMAIN utils = 1 .. k
    <3>1. PICK v : v = measure_link_utilization(f)
      OBVIOUS
    <3>2. v \in Seq(Range(v))
      BY <1>1, <3>1, Zenon DEF Supported, IsSeq
    <3>3. PICK j \in Nat : DOMAIN v = 1 .. j
      BY <3>2
    <3> QED
      BY <3>1, <3>3, Zenon
  <2> HIDE DEF utils
  <2>4. \A i \in DOMAIN rs : rs[i].module \in Silent
    BY <2>2
  <2>5. rs \in Seq({congestion(utils[i]) : i \in DOMAIN utils})
    BY <2>3
  <2> HIDE DEF rs
  <2>6. IsSeq(rs)
    BY <2>5, SeqRange
  <2> QED
    BY <2>1, <2>4, <2>6, SupportedSilent, Zenon
<1> QED
  BY <1>1, <1>2, <1>3

LEMMA TraceEvidence ==
    ASSUME NEW host, NEW f, NEW e
    PROVE  /\ Supported(<<traceroute_to_result(host, f)>>, e)
           /\ Mute(<<traceroute_to_result(host, f)>>)
<1> DEFINE r == traceroute_to_result(host, f)
<1>1. r.module = "traceroute"
  <2> DEFINE hops == run_traceroute(host, f)
             high == {i \in DOMAIN hops : hops[i].loss_percent >= 50}
             none == [hops |-> << >>, path_fingerprint |-> NoPath]
             status == IF high # {} THEN "degraded" ELSE "healthy"
             m == [hops |-> hops, path_fingerprint |-> path_fingerprint(hops, f)]
  <2>1. r = CASE "no_tools" \in f -> Result("traceroute", host, "unknown", none)
          [] "no_tools" \notin f /\ hops = << >> -> Result("traceroute", host, "failed", none)
          [] OTHER -> Result("traceroute", host, status, m)
    BY Zenon DEF traceroute_to_result
  <2> HIDE DEF hops, none, status, m, r
  <2>2. CASE "no_tools" \in f
    BY <2>1, <2>2 DEF Result
  <2>3. CASE "no_tools" \notin f /\ hops = << >>
    BY <2>1, <2>3 DEF Result
  <2>4. CASE "no_tools" \notin f /\ hops # << >>
    BY <2>1, <2>4 DEF Result
  <2> QED
    BY <2>2, <2>3, <2>4
<1> HIDE DEF r
<1>2. r.module \in Silent
  BY <1>1 DEF Silent
<1> QED
  BY <1>2, SilentOne, Zenon DEF r

LEMMA OtherEvidence ==
    ASSUME NEW host, NEW port, NEW f, NEW e
    PROVE  /\ Supported(<<check_host(host, f)>>, e)
           /\ Supported(<<test_tcp(port, f)>>, e) /\ Mute(<<test_tcp(port, f)>>)
           /\ Supported(<<test_udp(f)>>, e) /\ Mute(<<test_udp(f)>>)
<1>0. "tcp" \in Silent /\ "udp" \in Silent
  BY DEF Silent
<1>1. Supported(<<check_host(host, f)>>, e)
  <2> DEFINE r == check_host(host, f)
  <2>1. r.module = "connectivity"
    BY Zenon DEF check_host, Result
  <2> HIDE DEF r
  <2>2. Evidence(r, e) /\ r.module # "interface"
    BY <2>1 DEF Evidence
  <2> QED
    BY <2>2, SupportedOne, Zenon DEF r
<1>2. test_tcp(port, f).module = "tcp"
  BY Zenon DEF test_tcp, Result
<1>3. test_udp(f).module = "udp"
  BY Zenon DEF test_udp, Result
<1> QED
  BY <1>0, <1>1, <1>2, <1>3, SilentOne, Zenon

-----------------------------------------------------------------------------
(* One run of the command.                                                  *)

LEMMA Observed ==
    ASSUME NEW step, step[1] \in Stateless, NEW e, faults \subseteq e
    PROVE  /\ Supported(Observation(step), e)
           /\ step[1] = "routing" => Observation(step) = <<inspect_routing_table(faults)>>
           /\ step[1] = "gateway" => Observation(step) = <<check_gateway_reachability(faults)>>
           /\ step[1] = "check_host" => Observation(step) = <<check_host(step[2], faults)>>
           /\ step[1] \notin {"routing", "gateway", "check_host"} => Mute(Observation(step))
<1> DEFINE us == by_module(results, "link_utilization")
           es == by_module(results, "link_errors")
<1>0. /\ Supported(measure_link_utilization(faults), e)
      /\ Mute(measure_link_utilization(faults))
      /\ Supported(measure_link_errors(faults), e) /\ Mute(measure_link_errors(faults))
      /\ Supported(measure_link_congestion(us, es, faults), e)
      /\ Mute(measure_link_congestion(us, es, faults))
  BY ByModule, LinkEvidence, Zenon
<1>1. CASE step[1] = "check_host"
  <2>1. Observation(step) = <<check_host(step[2], faults)>>
    BY <1>1 DEF Observation
  <2> QED
    BY <1>1, <2>1, OtherEvidence, Zenon
<1>2. CASE step[1] = "interfaces"
  <2>1. Observation(step) = inspect_interfaces(faults)
    BY <1>2 DEF Observation
  <2> QED
    BY <1>2, <2>1, InterfaceEvidence, Zenon
<1>3. CASE step[1] = "routing"
  <2>1. Observation(step) = <<inspect_routing_table(faults)>>
    BY <1>3 DEF Observation
  <2> QED
    BY <1>3, <2>1, RoutingEvidence, Zenon
<1>4. CASE step[1] = "gateway"
  <2>1. Observation(step) = <<check_gateway_reachability(faults)>>
    BY <1>4 DEF Observation
  <2> QED
    BY <1>4, <2>1, GatewayEvidence, Zenon
<1>5. CASE step[1] = "dns"
  <2>1. Observation(step) = <<resolve_hostname(target, faults)>>
    BY <1>5 DEF Observation
  <2> QED
    BY <1>5, <2>1, NameEvidence, Zenon
<1>6. CASE step[1] = "tcp"
  <2>1. Observation(step) = <<test_tcp(step[2], faults)>>
    BY <1>6 DEF Observation
  <2> QED
    BY <1>6, <2>1, OtherEvidence, Zenon
<1>7. CASE step[1] = "udp"
  <2>1. Observation(step) = <<test_udp(faults)>>
    BY <1>7 DEF Observation
  <2> QED
    BY <1>7, <2>1, OtherEvidence, Zenon
<1>8. CASE step[1] = "resources"
  <2>1. Observation(step) = inspect_resources_and_activity(faults)
    BY <1>8 DEF Observation
  <2> QED
    BY <1>8, <2>1, ResourceEvidence, Zenon
<1>9. CASE step[1] = "util"
  <2>1. Observation(step) = measure_link_utilization(faults)
    BY <1>9 DEF Observation
  <2> QED
    BY <1>9, <2>1, <1>0, Zenon
<1>10. CASE step[1] = "errors"
  <2>1. Observation(step) = measure_link_errors(faults)
    BY <1>10 DEF Observation
  <2> QED
    BY <1>10, <2>1, <1>0, Zenon
<1>11. CASE step[1] = "congestion"
  <2>1. Observation(step) = measure_link_congestion(us, es, faults)
    BY <1>11 DEF Observation
  <2> QED
    BY <1>11, <2>1, <1>0, Zenon
<1>12. CASE step[1] = "traceroute"
  <2>1. Observation(step) = <<traceroute_to_result(target, faults)>>
    BY <1>12 DEF Observation
  <2> QED
    BY <1>12, <2>1, TraceEvidence, Zenon
<1> QED
  BY <1>1, <1>2, <1>3, <1>4, <1>5, <1>6, <1>7, <1>8, <1>9, <1>10, <1>11, <1>12
     DEF Stateless

\* Pings go to public addresses.
Steps(t) ==
    /\ IsSeq(t)
    /\ \A i \in DOMAIN t : t[i][1] \in {"ping", "latency"} => t[i][2] \in Public

Routed(t) == \E i \in DOMAIN t : t[i][1] = "routing"

LEMMA StepsCat ==
    ASSUME NEW s, NEW t, Steps(s), Steps(t)
    PROVE  Steps(s \o t) /\ (Routed(s) => Routed(s \o t))
<1>1. PICK u : u = s \o t
  OBVIOUS
<1>2. Joined(s, t, u)
  BY <1>1, SeqCat, Zenon DEF Steps
<1>3. IsSeq(u)
  BY <1>2, Zenon DEF Joined
<1>4. \A k \in DOMAIN u : u[k][1] \in {"ping", "latency"} => u[k][2] \in Public
  BY <1>2, Zenon DEF Joined, Steps
<1>5. Routed(s) => Routed(u)
  BY <1>2, Zenon DEF Joined, Routed
<1> QED
  BY <1>1, <1>3, <1>4, <1>5, Zenon DEF Steps

\* A tuple of seventeen members, whatever they are.
LEMMA Seventeen ==
    ASSUME NEW a1, NEW a2, NEW a3, NEW a4, NEW a5, NEW a6, NEW a7, NEW a8, NEW a9,
           NEW a10, NEW a11, NEW a12, NEW a13, NEW a14, NEW a15, NEW a16, NEW a17
    PROVE  LET t == <<a1, a2, a3, a4, a5, a6, a7, a8, a9,
                        a10, a11, a12, a13, a14, a15, a16, a17>>
           IN  IsSeq(t) /\ DOMAIN t = 1 .. 17
<1>0. PICK t : t = <<a1, a2, a3, a4, a5, a6, a7, a8, a9,
                        a10, a11, a12, a13, a14, a15, a16, a17>>
  OBVIOUS
<1> DEFINE S == {a1, a2, a3, a4, a5, a6, a7, a8, a9,
                 a10, a11, a12, a13, a14, a15, a16, a17}
<1>1. t \in Seq(S)
  BY <1>0
<1>2. DOMAIN t = 1 .. 17
  BY <1>0
<1> HIDE DEF S
<1> QED
  BY <1>0, <1>1, <1>2, SeqRange, Zenon

LEMMA StepsHost ==
    ASSUME NEW host
    PROVE  Steps(collect_host_diagnostics(host)) /\ Routed(collect_host_diagnostics(host))
<1>0. PICK t : t = collect_host_diagnostics(host)
  OBVIOUS
<1>1. IsSeq(t) /\ DOMAIN t = 1 .. 17
  BY <1>0, Seventeen DEF collect_host_diagnostics
<1>3. \A i \in 1 .. 17 : t[i][1] \in {"ping", "latency"} => i \in 12 .. 15
  BY <1>0 DEF collect_host_diagnostics
<1>4. \A i \in 12 .. 15 : t[i][2] \in Public
  BY <1>0 DEF collect_host_diagnostics, Public
<1>5. t[5][1] = "routing"
  BY <1>0 DEF collect_host_diagnostics
<1>6. Steps(t)
  <2>1. \A i \in DOMAIN t : t[i][1] \in {"ping", "latency"} => t[i][2] \in Public
    BY <1>1, <1>3, <1>4, Zenon
  <2> QED
    BY <1>1, <2>1, Zenon DEF Steps
<1>7. Routed(t)
  <2>1. 5 \in DOMAIN t
    BY <1>1
  <2> QED
    BY <1>5, <2>1, Zenon DEF Routed
<1> QED
  BY <1>0, <1>6, <1>7, Zenon

LEMMA StepsLink == Steps(collect_link)
<1>1. PICK t : t = collect_link
  OBVIOUS
<1>2. DOMAIN t = 1 .. 4 /\ t \in Seq({t[i] : i \in 1 .. 4})
  BY <1>1 DEF collect_link
<1>3. \A i \in 1 .. 4 : t[i][1] \notin {"ping", "latency"}
  BY <1>1 DEF collect_link
<1>4. IsSeq(t)
  BY <1>2, SeqRange
<1> QED
  BY <1>1, <1>2, <1>3, <1>4, Zenon DEF Steps

LEMMA StepsPath == Steps(collect_path_diagnostics)
<1>1. PICK t : t = collect_path_diagnostics
  OBVIOUS
<1>2. DOMAIN t = 1 .. 2 /\ t \in Seq({t[i] : i \in 1 .. 2})
  BY <1>1 DEF collect_path_diagnostics
<1>3. \A i \in 1 .. 2 : t[i][1] \notin {"ping", "latency"}
  BY <1>1 DEF collect_path_diagnostics
<1>4. IsSeq(t)
  BY <1>2, SeqRange
<1> QED
  BY <1>1, <1>2, <1>3, <1>4, Zenon DEF Steps

LEMMA StepsOf ==
    ASSUME NEW cmd \in {"host", "link", "path", "all"}, NEW host
    PROVE  /\ Steps(Collector(cmd, host))
           /\ cmd \in {"host", "all"} => Routed(Collector(cmd, host))
<1>1. CASE cmd = "host"
  <2>1. Collector(cmd, host) = collect_host_diagnostics(host)
    BY <1>1 DEF Collector
  <2> QED
    BY <2>1, StepsHost, Zenon
<1>2. CASE cmd = "link"
  <2>1. Collector(cmd, host) = collect_link
    BY <1>2 DEF Collector
  <2> QED
    BY <1>2, <2>1, StepsLink
<1>3. CASE cmd = "path"
  <2>1. Collector(cmd, host) = collect_path_diagnostics
    BY <1>3 DEF Collector
  <2> QED
    BY <1>3, <2>1, StepsPath
<1>4. CASE cmd = "all"
  <2>1. Collector(cmd, host) =
          collect_host_diagnostics(host) \o collect_link \o collect_path_diagnostics
    BY <1>4 DEF Collector
  <2> QED
    BY <2>1, StepsHost, StepsLink, StepsPath, StepsCat, Zenon
<1> QED
  BY <1>1, <1>2, <1>3, <1>4

\* The first step is done: it was the routing probe, or that is still to come.
LEMMA StepsTail ==
    ASSUME NEW t, Steps(t), t # << >>
    PROVE  /\ Steps(Tail(t))
           /\ Head(t)[1] \in {"ping", "latency"} => Head(t)[2] \in Public
           /\ Routed(t) => Head(t)[1] = "routing" \/ Routed(Tail(t))
<1>1. t \in Seq(Range(t))
  BY Zenon DEF Steps, IsSeq
<1>2. PICK n \in Nat : n = Len(t) /\ DOMAIN t = 1 .. n
  BY <1>1
<1>3. n >= 1
  BY <1>1, <1>2
<1>4. PICK u : u = Tail(t)
  OBVIOUS
<1>5. u \in Seq(Range(t)) /\ DOMAIN u = 1 .. n - 1 /\ \A i \in 1 .. n - 1 : u[i] = t[i + 1]
  BY <1>1, <1>2, <1>3, <1>4
<1>6. PICK h : h = Head(t) /\ h = t[1]
  BY <1>1, <1>2, <1>3
<1>7. \A i \in DOMAIN t : t[i][1] \in {"ping", "latency"} => t[i][2] \in Public
  BY Zenon DEF Steps
<1>8. Steps(u)
  <2>1. IsSeq(u)
    BY <1>5, SeqRange
  <2>2. \A i \in 1 .. n - 1 : i + 1 \in DOMAIN t
    BY <1>2
  <2>3. \A i \in DOMAIN u : \E k \in DOMAIN t : u[i] = t[k]
    BY <1>5, <2>2, Zenon
  <2> QED
    BY <1>7, <2>1, <2>3, Zenon DEF Steps
<1>9. h[1] \in {"ping", "latency"} => h[2] \in Public
  <2>1. 1 \in DOMAIN t
    BY <1>2, <1>3
  <2> QED
    BY <1>6, <1>7, <2>1, Zenon
<1>10. Routed(t) => h[1] = "routing" \/ Routed(u)
  <2> SUFFICES ASSUME NEW i \in DOMAIN t, t[i][1] = "routing", h[1] # "routing"
               PROVE  Routed(u)
    BY Zenon DEF Routed
  <2>1. i # 1
    BY <1>6, Zenon
  <2>2. PICK k \in DOMAIN u : i = k + 1
    <3>1. i - 1 \in DOMAIN u /\ i = (i - 1) + 1
      BY <1>2, <1>5, <2>1
    <3> QED
      BY <3>1, Zenon
  <2>3. u[k] = t[i]
    BY <1>5, <2>2
  <2> QED
    BY <2>3, Zenon DEF Routed
<1> QED
  BY <1>4, <1>6, <1>8, <1>9, <1>10, Zenon

-----------------------------------------------------------------------------
(* What the critical rules read in the results.                             *)

LEMMA MinOf ==
    ASSUME NEW S \in SUBSET Nat, S # {}
    PROVE  Min(S) \in S
<1> DEFINE R == OpToRel(<, Nat)
<1>1. PICK x \in S : \A y \in S : ~(<<y, x>> \in R)
  BY NatLessThanWellFounded, WFMin, Zenon
<1>2. \A y \in S : ~(y < x)
  BY <1>1 DEF OpToRel
<1>3. \A y \in S : x <= y
  BY <1>2
<1> QED
  BY <1>3 DEF Min

\* The first result of a module is one of its results.
LEMMA First ==
    ASSUME NEW rs, NEW module, IsSeq(rs), Has(rs, module)
    PROVE  \E i \in DOMAIN rs : rs[i].module = module /\ first_by_module(rs, module) = rs[i]
<1> DEFINE P == Places(rs, module)
<1>1. P \in SUBSET Nat /\ P # {}
  <2>1. \A i \in DOMAIN rs : i \in Nat
    BY DEF IsSeq
  <2> QED
    BY <2>1, Zenon DEF Places, Has
<1>2. Min(P) \in P
  BY <1>1, MinOf, Zenon
<1> QED
  BY <1>2, Zenon DEF Places, first_by_module

LEMMA DownInterfaces ==
    ASSUME NEW rs, NEW e, Supported(rs, e), all_interfaces_down(rs)
    PROVE  "link_down" \in e
<1>1. PICK i \in DOMAIN rs : rs[i].module = "interface"
  BY Zenon DEF all_interfaces_down, Has, Places
<1>2. PICK j \in DOMAIN rs : Working(rs[j], e)
  BY <1>1, Zenon DEF Supported
<1>3. rs[j].m \in Metrics(rs, "interface")
  BY <1>2, Zenon DEF Working, Metrics, ResultsOf, Places
<1>4. ~(rs[j].m.is_up /\ ~rs[j].m.named_loopback)
  BY <1>3, Zenon DEF all_interfaces_down, has_active_interface
<1> QED
  BY <1>2, <1>4, Zenon DEF Working

LEMMA NoGateway ==
    ASSUME NEW rs, NEW e, Supported(rs, e), Has(rs, "routing"), ~has_default_gateway(rs)
    PROVE  Unrouted \cap e # {}
<1>1. PICK i \in DOMAIN rs : rs[i].module = "routing" /\ first_by_module(rs, "routing") = rs[i]
  BY First, Zenon DEF Supported
<1>2. ~rs[i].m.default_gateway
  BY <1>1, Zenon DEF has_default_gateway
<1>3. rs[i].m.default_gateway = TRUE \/ Unrouted \cap e # {}
  BY <1>1, Zenon DEF Supported, Evidence
<1> QED
  BY <1>2, <1>3, Zenon

LEMMA LostGateway ==
    ASSUME NEW rs, NEW e, Supported(rs, e), is_gateway_reachable(rs) = "no"
    PROVE  Unanswered \cap e # {}
<1>0. Has(rs, "gateway")
  <2>1. "unknown" # "no"
    OBVIOUS
  <2> QED
    BY <2>1, Zenon DEF is_gateway_reachable
<1>1. PICK i \in DOMAIN rs : rs[i].module = "gateway" /\ first_by_module(rs, "gateway") = rs[i]
  BY <1>0, First, Zenon DEF Supported
<1>2. PICK gw : gw = rs[i]
  OBVIOUS
<1>3. "no" = CASE gw.status = "healthy" -> "yes"
               [] gw.status = "failed" -> "no"
               [] gw.status = "degraded" ->
                    IF gw.m.packet_loss_percent >= 99 THEN "no" ELSE "yes"
               [] gw.status = "unknown" -> "unknown"
  BY <1>0, <1>1, <1>2, Zenon DEF is_gateway_reachable
<1>4. Evidence(gw, e) /\ gw.module = "gateway"
  BY <1>1, <1>2, Zenon DEF Supported
<1>5. /\ gw.status \in {"healthy", "degraded", "failed", "unknown"}
      /\ \/ gw.status # "failed" /\ gw.m.packet_loss_percent \in Losses \ {100}
         \/ Unanswered \cap e # {}
  BY <1>4, Zenon DEF Evidence
<1>6. CASE gw.status \in {"healthy", "unknown"}
  BY <1>3, <1>6
<1>7. CASE gw.status = "failed"
  BY <1>5, <1>7
<1>8. CASE gw.status = "degraded"
  <2> SUFFICES ASSUME gw.m.packet_loss_percent \in Losses \ {100} PROVE FALSE
    BY <1>5, Zenon
  <2>1. ~(gw.m.packet_loss_percent >= 99)
    BY DEF Losses, NoValue
  <2> QED
    BY <1>3, <1>8, <2>1
<1> QED
  BY <1>5, <1>6, <1>7, <1>8

LEMMA LostEchoes ==
    ASSUME NEW rs, NEW e, Supported(rs, e), get_max_packet_loss(rs) >= 99
    PROVE  Outage \cap e # {}
<1> DEFINE S == losses(rs) \cup {0}
<1>1. ASSUME NEW loss \in losses(rs)
      PROVE  /\ loss \in {0, 25, 40, 100}
             /\ loss = 100 => Outage \cap e # {}
  <2>1. PICK i \in DOMAIN rs : rs[i].module = "packet_loss" /\ loss = rs[i].m.packet_loss_percent
    BY Zenon DEF losses, Values, Metrics, ResultsOf, Places
  <2>2. Evidence(rs[i], e)
    BY Zenon DEF Supported
  <2>3. loss \in Losses /\ (loss = 100 => Outage \cap e # {})
    BY <2>1, <2>2, Zenon DEF Evidence
  <2>4. loss # NoValue
    BY Zenon DEF losses, Values
  <2> QED
    BY <2>3, <2>4 DEF Losses
<1>2. S \in SUBSET {0, 25, 40, 100} /\ 0 \in S
  BY <1>1
<1>3. Max(S) = get_max_packet_loss(rs)
  BY Zenon DEF get_max_packet_loss
<1> HIDE DEF S
<1>4. Max(S) \in S
  <2>1. \E x \in S : \A y \in S : x >= y
    <3>1. CASE 100 \in S
      BY <1>2, <3>1
    <3>2. CASE 100 \notin S /\ 40 \in S
      BY <1>2, <3>2
    <3>3. CASE 100 \notin S /\ 40 \notin S /\ 25 \in S
      BY <1>2, <3>3
    <3>4. CASE 100 \notin S /\ 40 \notin S /\ 25 \notin S
      BY <1>2, <3>4
    <3> QED
      BY <3>1, <3>2, <3>3, <3>4
  <2> QED
    BY <2>1, Zenon DEF Max
<1>5. Max(S) = 100
  <2>1. PICK v \in S : v = Max(S) /\ v >= 99
    BY <1>3, <1>4, Zenon
  <2> QED
    BY <1>2, <2>1
<1>6. 100 \in losses(rs)
  BY <1>4, <1>5 DEF S
<1> QED
  BY <1>1, <1>6, Zenon

\* A critical issue names something that there has been.
LEMMA Justified ==
    ASSUME NEW rs, NEW e, Supported(rs, e), Has(rs, "routing"),
           NEW x, Origin(rs, x), x.severity = CRITICAL
    PROVE  (CausesOf(x.rule_id) \cup MistakenFor(x.rule_id)) \cap e # {}
<1>1. CASE x.rule_id = "ALL_INTERFACES_DOWN" /\ all_interfaces_down(rs)
  BY <1>1, DownInterfaces DEF CausesOf, MistakenFor
<1>2. CASE x.rule_id = "NO_DEFAULT_GATEWAY" /\ ~has_default_gateway(rs)
  BY <1>2, NoGateway DEF CausesOf, MistakenFor, Unrouted
<1>3. CASE x.rule_id = "GATEWAY_UNREACHABLE" /\ is_gateway_reachable(rs) = "no"
  BY <1>3, LostGateway DEF CausesOf, MistakenFor, Unanswered, Unrouted
<1>4. CASE x.rule_id = "GATEWAY_HEALTHY_WAN_OUTAGE" /\ get_max_packet_loss(rs) >= 99
  BY <1>4, LostEchoes DEF CausesOf, MistakenFor, Outage
<1>5. CASE x.rule_id = "TOTAL_INTERNET_OUTAGE" /\ get_max_packet_loss(rs) >= 99
  BY <1>5, LostEchoes DEF CausesOf, MistakenFor, Outage
<1>6. ~Has(rs, "mesh_summary")
  BY Zenon DEF Has, Places, Supported, Evidence
<1> QED
  BY <1>1, <1>2, <1>3, <1>4, <1>5, <1>6, Zenon DEF Origin

\* The probes of host diagnosis never leave the word timeout in a DNS result.
LEMMA NoDnsTimeout ==
    ASSUME NEW rs, NEW e, Supported(rs, e)
    PROVE  ~(Has(rs, "dns") /\ first_by_module(rs, "dns").m.says_timeout)
<1> SUFFICES ASSUME Has(rs, "dns"), first_by_module(rs, "dns").m.says_timeout PROVE FALSE
  OBVIOUS
<1>1. PICK i \in DOMAIN rs : rs[i].module = "dns" /\ first_by_module(rs, "dns") = rs[i]
  BY First, Zenon DEF Supported
<1>2. rs[i].m.says_timeout = FALSE
  BY <1>1, Zenon DEF Supported, Evidence
<1> QED
  BY <1>1, <1>2, Zenon

-----------------------------------------------------------------------------
(* The invariants.                                                          *)

\* The results, and the pings that are cached, are supported by what has been
\* wrong so far; a report is the analysis of all results.
HostInv ==
    /\ faults \subseteq ever
    /\ Steps(todo)
    /\ Supported(results, ever)
    /\ cache \in [Public -> Range(cache)]
    /\ \A h \in Public : cache[h] = NotCached \/ PingSays(cache[h], ever, Outage)
    /\ report # NoReport => todo = << >> /\ report = analyze(results)

\* The routing table is read before the report is made.
RouteInv == Has(results, "routing") \/ Routed(todo)

LEMMA InitHostInv ==
    ASSUME Init
    PROVE  HostInv /\ (command \in {"host", "all"} => RouteInv)
<1>1. faults \subseteq ever /\ results = << >> /\ report = NoReport
  BY Zenon DEF Init
<1>2. cache = [h \in Public |-> NotCached]
  BY Zenon DEF Init
<1>3. \A h \in Public : cache[h] = NotCached
  BY <1>2
<1>4. cache \in [Public -> Range(cache)]
  BY <1>2 DEF Range
<1>5. command \in {"host", "link", "path", "all"} /\ todo = Collector(command, target)
  BY CommandsAssumption, Zenon DEF Init
<1>6. Steps(todo) /\ (command \in {"host", "all"} => Routed(todo))
  BY <1>5, StepsOf, Zenon
<1>7. Supported(results, ever)
  BY <1>1, SupportedNone, Zenon
<1> QED
  BY <1>1, <1>3, <1>4, <1>6, <1>7, Zenon DEF HostInv, RouteInv

LEMMA JoinedHas ==
    ASSUME NEW s, NEW t, NEW u, Joined(s, t, u), NEW module, Has(s, module) \/ Has(t, module)
    PROVE  Has(u, module)
<1>1. \A rs : Has(rs, module) <=> \E i \in DOMAIN rs : rs[i].module = module
  BY DEF Has, Places
<1>2. CASE Has(s, module)
  <2>1. PICK i \in DOMAIN s : s[i].module = module
    BY <1>1, <1>2
  <2>2. i \in DOMAIN u /\ u[i] = s[i]
    BY Zenon DEF Joined
  <2> QED
    BY <1>1, <2>1, <2>2, Zenon
<1>3. CASE Has(t, module)
  <2>1. PICK i \in DOMAIN t : t[i].module = module
    BY <1>1, <1>3
  <2>2. PICK k \in DOMAIN u : u[k] = t[i]
    BY Zenon DEF Joined
  <2> QED
    BY <1>1, <2>1, <2>2, Zenon
<1> QED
  BY <1>2, <1>3

\* A probe's results are added and the next probe comes up.
LEMMA AddStep ==
    ASSUME HostInv, todo # << >>, NEW rs, Supported(rs, ever),
           Add(rs), UNCHANGED <<faults, ever, report>>
    PROVE  /\ faults' \subseteq ever' /\ Steps(todo') /\ Supported(results', ever')
           /\ report' # NoReport => todo' = << >> /\ report' = analyze(results')
           /\ RouteInv /\ (Head(todo)[1] = "routing" => Has(rs, "routing")) => RouteInv'
<1>1. results' = results \o rs /\ todo' = Tail(todo)
  BY Zenon DEF Add
<1>2. Steps(todo) /\ Supported(results, ever) /\ faults \subseteq ever
  BY Zenon DEF HostInv
<1>3. /\ Steps(Tail(todo))
      /\ Routed(todo) => Head(todo)[1] = "routing" \/ Routed(Tail(todo))
  BY <1>2, StepsTail, Zenon
<1>4. Supported(results \o rs, ever)
  BY <1>2, SupportedCat, Zenon
<1>5. report' = NoReport
  BY Zenon DEF HostInv
<1>6. Has(results, "routing") \/ Has(rs, "routing") => Has(results', "routing")
  <2>1. Joined(results, rs, results')
    BY <1>1, <1>2, SeqCat, Zenon DEF Supported
  <2> QED
    BY <2>1, JoinedHas, Zenon
<1>7. RouteInv /\ (Head(todo)[1] = "routing" => Has(rs, "routing")) => RouteInv'
  BY <1>1, <1>3, <1>6, Zenon DEF RouteInv
<1> QED
  BY <1>1, <1>2, <1>3, <1>4, <1>5, <1>7, Zenon

\* The probes other than Ping leave the cache as it is.
LEMMA CacheKept ==
    ASSUME HostInv, UNCHANGED <<cache, ever>>
    PROVE  /\ cache' \in [Public -> Range(cache')]
           /\ \A h \in Public : cache'[h] = NotCached \/ PingSays(cache'[h], ever', Outage)
  BY Zenon DEF HostInv

LEMMA ChangeInv ==
    ASSUME HostInv, NEW x \in Transient, Change(x)
    PROVE  HostInv' /\ (RouteInv => RouteInv')
<1>1. /\ ever' = ever \cup {x} /\ todo # << >>
      /\ faults' = IF x \in faults THEN faults \ {x} ELSE faults \cup {x}
      /\ todo' = todo /\ results' = results /\ cache' = cache /\ report' = report
  BY Zenon DEF Change
<1>2. faults \subseteq ever /\ ever \subseteq ever'
  BY <1>1, Zenon DEF HostInv
<1>3. faults' \subseteq ever'
  BY <1>1, <1>2
<1>4. Supported(results', ever')
  BY <1>1, <1>2, SupportedMore, Zenon DEF HostInv
<1>5. \A data : PingSays(data, ever, Outage) => PingSays(data, ever', Outage)
  BY <1>2, Zenon DEF PingSays
<1>6. \A h \in Public : cache'[h] = NotCached \/ PingSays(cache'[h], ever', Outage)
  BY <1>1, <1>5, Zenon DEF HostInv
<1>7. report' = NoReport
  BY <1>1, Zenon DEF HostInv
<1>8. Steps(todo') /\ cache' \in [Public -> Range(cache')]
  BY <1>1, Zenon DEF HostInv
<1>9. HostInv'
  BY <1>3, <1>4, <1>6, <1>7, <1>8, Zenon DEF HostInv
<1>10. RouteInv => RouteInv'
  BY <1>1, Zenon DEF RouteInv
<1> QED
  BY <1>9, <1>10

\* A step that adds a probe's results and leaves the cache alone.
LEMMA ProbeInv ==
    ASSUME HostInv, todo # << >>, NEW rs, Supported(rs, ever), Add(rs),
           UNCHANGED <<faults, ever, report, cache>>,
           Head(todo)[1] = "routing" => Has(rs, "routing")
    PROVE  HostInv' /\ (RouteInv => RouteInv')
<1>1. UNCHANGED <<faults, ever, report>> /\ UNCHANGED <<cache, ever>>
  BY Zenon
<1>2. /\ faults' \subseteq ever' /\ Steps(todo') /\ Supported(results', ever')
      /\ report' # NoReport => todo' = << >> /\ report' = analyze(results')
      /\ RouteInv => RouteInv'
  BY <1>1, AddStep, Zenon
<1>3. /\ cache' \in [Public -> Range(cache')]
      /\ \A h \in Public : cache'[h] = NotCached \/ PingSays(cache'[h], ever', Outage)
  BY <1>1, CacheKept, Zenon
<1> QED
  BY <1>2, <1>3, Zenon DEF HostInv

LEMMA ObserveInv ==
    ASSUME HostInv, Observe
    PROVE  HostInv' /\ (RouteInv => RouteInv')
<1>1. PICK rs : rs = Observation(Head(todo))
  OBVIOUS
<1>2. /\ todo # << >> /\ Head(todo)[1] \in Stateless /\ Add(rs)
      /\ UNCHANGED <<faults, ever, report, cache>>
  BY <1>1, Zenon DEF Observe, Next1
<1>3. faults \subseteq ever
  BY Zenon DEF HostInv
<1>4. /\ Supported(rs, ever)
      /\ Head(todo)[1] = "routing" => rs = <<inspect_routing_table(faults)>>
  BY <1>1, <1>2, <1>3, Observed, Zenon
<1>5. Head(todo)[1] = "routing" => Has(rs, "routing")
  <2> SUFFICES ASSUME Head(todo)[1] = "routing" PROVE Has(rs, "routing")
    OBVIOUS
  <2>1. PICK r : r = inspect_routing_table(faults) /\ r.module = "routing"
    BY <1>3, RoutingEvidence, Zenon
  <2>2. DOMAIN rs = {1} /\ rs[1] = r
    BY <1>4, <2>1
  <2> QED
    BY <2>1, <2>2 DEF Has, Places
<1> QED
  BY <1>2, <1>4, <1>5, ProbeInv, Zenon

LEMMA PingInv ==
    ASSUME HostInv, NEW expired \in BOOLEAN, Ping(expired)
    PROVE  HostInv' /\ (RouteInv => RouteInv')
<1> DEFINE host == Head(todo)[2]
           cached == cache[host] # NotCached /\ ~expired
           data == IF cached THEN cache[host] ELSE run_ping(host, faults)
           r == IF Head(todo)[1] = "ping" THEN ping_host(host, data)
                ELSE measure_latency(host, data)
<1>1. /\ todo # << >> /\ Head(todo)[1] \in {"ping", "latency"}
      /\ cache' = IF cached \/ data.error THEN cache ELSE [cache EXCEPT ![host] = data]
      /\ Add(<<r>>)
      /\ UNCHANGED <<faults, ever, report>>
  BY Zenon DEF Ping, Next1
<1>2. /\ faults \subseteq ever /\ Steps(todo)
      /\ cache \in [Public -> Range(cache)]
      /\ \A h \in Public : cache[h] = NotCached \/ PingSays(cache[h], ever, Outage)
  BY Zenon DEF HostInv
<1>3. host \in Public
  BY <1>1, <1>2, StepsTail, Zenon
<1>4. PingSays(data, ever, Outage)
  BY <1>2, <1>3, PublicPing, Zenon
<1>5. Supported(<<r>>, ever)
  BY <1>4, PingEvidence, LatencyEvidence, Zenon
<1> HIDE DEF host, cached, data, r
<1>6. /\ cache' \in [Public -> Range(cache')]
      /\ \A h \in Public : cache'[h] = NotCached \/ PingSays(cache'[h], ever, Outage)
  <2>1. CASE cached \/ data.error
    BY <1>1, <1>2, <2>1, Zenon
  <2>2. CASE ~(cached \/ data.error)
    <3>1. cache' = [cache EXCEPT ![host] = data]
      BY <1>1, <2>2, Zenon
    <3>2. cache' \in [Public -> Range(cache) \cup {data}]
          /\ \A h \in Public : cache'[h] = IF h = host THEN data ELSE cache[h]
      BY <1>2, <1>3, <3>1
    <3>3. cache' \in [Public -> Range(cache')]
      BY <3>2 DEF Range
    <3> QED
      BY <1>2, <1>4, <3>2, <3>3, Zenon
  <2> QED
    BY <2>1, <2>2, Zenon
<1>7. Head(todo)[1] # "routing"
  BY <1>1
<1>8. /\ faults' \subseteq ever' /\ Steps(todo') /\ Supported(results', ever')
      /\ report' # NoReport => todo' = << >> /\ report' = analyze(results')
      /\ RouteInv => RouteInv'
  BY <1>1, <1>5, <1>7, AddStep, Zenon
<1> QED
  BY <1>1, <1>6, <1>8, Zenon DEF HostInv

\* The deltas that are added are no results that an outage is told by.
LEMMA Compared ==
    ASSUME compare_probe_metrics
    PROVE  /\ todo # << >> /\ Head(todo)[1] = "baselines"
           /\ \E rs : Add(rs) /\ Supported(rs, ever) /\ Mute(rs)
<1> DEFINE measured == SelectSeq(results, LAMBDA r : r.module \in Head(todo)[2] /\ Sample(r) # NoValue)
           rs == [i \in DOMAIN measured |-> Delta(measured[i])]
<1>1. todo # << >> /\ Head(todo)[1] \in {"baselines"} /\ Add(rs)
  BY Zenon DEF compare_probe_metrics, Next1
<1>2. Len(measured) \in Nat /\ DOMAIN measured = 1 .. Len(measured)
  OBVIOUS
<1>3. \A r : Delta(r).module \in Silent
  <2>1. \A r : Delta(r).module = "baseline_delta"
    BY Zenon DEF Delta, Result
  <2> QED
    BY <2>1 DEF Silent
<1> HIDE DEF measured
<1>4. PICK n \in Nat : DOMAIN measured = 1 .. n
  BY <1>2, Zenon
<1>5. rs \in Seq({Delta(measured[i]) : i \in 1 .. n})
  BY <1>4
<1>6. \A i \in DOMAIN rs : rs[i].module \in Silent
  BY <1>3
<1> HIDE DEF rs
<1>7. Supported(rs, ever) /\ Mute(rs)
  BY <1>5, <1>6, SeqRange, SupportedSilent, Zenon
<1>8. Head(todo)[1] = "baselines"
  BY <1>1
<1> QED
  BY <1>1, <1>7, <1>8, Zenon

LEMMA CompareInv ==
    ASSUME HostInv, compare_probe_metrics
    PROVE  HostInv' /\ (RouteInv => RouteInv')
<1>1. todo # << >> /\ UNCHANGED <<faults, ever, report, cache>>
  BY Zenon DEF compare_probe_metrics, Next1
<1>2. PICK rs : Add(rs) /\ Supported(rs, ever)
  BY Compared, Zenon
<1>3. Head(todo)[1] # "routing"
  BY Compared
<1> QED
  BY <1>1, <1>2, <1>3, ProbeInv, Zenon

LEMMA PathCompared ==
    ASSUME detect_path_change
    PROVE  /\ todo # << >> /\ Head(todo)[1] = "path_change"
           /\ \E rs : Add(rs) /\ Supported(rs, ever) /\ Mute(rs)
<1> DEFINE fingerprint == first_by_module(results, "traceroute").m.path_fingerprint
           rows == Append(paths, fingerprint)
           changed == has_previous(rows) /\ previous_snapshot(rows) # fingerprint
           r == Result("path_change", target, IF changed THEN "degraded" ELSE "healthy",
                       [changed |-> changed])
<1>1. todo # << >> /\ Head(todo)[1] \in {"path_change"} /\ Add(<<r>>)
  BY Zenon DEF detect_path_change, Next1
<1>2. r.module = "path_change"
  BY Zenon DEF Result
<1> HIDE DEF r
<1>3. Supported(<<r>>, ever) /\ Mute(<<r>>)
  <2>1. r.module \in Silent
    BY <1>2 DEF Silent
  <2> QED
    BY <2>1, SilentOne, Zenon
<1>4. Head(todo)[1] = "path_change"
  BY <1>1
<1> QED
  BY <1>1, <1>3, <1>4, Zenon

LEMMA PathInv ==
    ASSUME HostInv, detect_path_change
    PROVE  HostInv' /\ (RouteInv => RouteInv')
<1>1. todo # << >> /\ UNCHANGED <<faults, ever, report, cache>>
  BY Zenon DEF detect_path_change, Next1
<1>2. PICK rs : Add(rs) /\ Supported(rs, ever)
  BY PathCompared, Zenon
<1>3. Head(todo)[1] # "routing"
  BY PathCompared
<1> QED
  BY <1>1, <1>2, <1>3, ProbeInv, Zenon

LEMMA ConcludeInv ==
    ASSUME HostInv, NEW strict \in BOOLEAN, Conclude(strict)
    PROVE  HostInv' /\ (RouteInv => RouteInv')
<1>1. /\ todo = << >> /\ report' = analyze(results)
      /\ faults' = faults /\ ever' = ever /\ todo' = todo /\ results' = results /\ cache' = cache
  BY Zenon DEF Conclude
<1>2. HostInv'
  BY <1>1, Zenon DEF HostInv
<1>3. RouteInv => RouteInv'
  BY <1>1, Zenon DEF RouteInv
<1> QED
  BY <1>2, <1>3

LEMMA Unchanged ==
    ASSUME HostInv, UNCHANGED vars
    PROVE  HostInv' /\ (RouteInv => RouteInv')
<1>1. /\ faults' = faults /\ ever' = ever /\ todo' = todo /\ results' = results
      /\ cache' = cache /\ report' = report
  BY Zenon DEF vars
<1> QED
  BY <1>1, Zenon DEF HostInv, RouteInv

LEMMA StepInv ==
    ASSUME HostInv, [Next]_vars
    PROVE  HostInv' /\ (RouteInv => RouteInv')
  BY ChangeInv, ObserveInv, PingInv, CompareInv, PathInv, ConcludeInv, Unchanged, Zenon DEF Next

LEMMA CommandKept ==
    ASSUME [Next]_vars
    PROVE  command' = command
  BY Zenon DEF Next, Change, Observe, Ping, compare_probe_metrics, detect_path_change,
               Conclude, vars

\* The report's issues are the raw issues that no raw issue suppresses.
LEMMA Reported ==
    ASSUME HostInv, Done
    PROVE  LET raw == RawIssues(results)
           IN  /\ Range(report.issues) =
                    {raw[i] : i \in {i \in DOMAIN raw : raw[i].rule_id \notin suppressed_ids(raw)}}
               /\ Sound(results, raw)
               /\ todo = << >>
<1> DEFINE raw == RawIssues(results)
<1>1. report = analyze(results) /\ todo = << >>
  BY Zenon DEF HostInv, Done
<1>2. analyze(results).issues = ActiveIssues(raw)
  BY Zenon DEF analyze
<1>3. Sound(results, raw) /\ raw \in Seq(IssueType)
  BY RawSound, Zenon DEF Sound
<1>4. Range(ActiveIssues(raw)) =
        {raw[i] : i \in {i \in DOMAIN raw : raw[i].rule_id \notin suppressed_ids(raw)}}
  BY <1>3, ActiveRange, Zenon
<1> HIDE DEF raw
<1> QED
  BY <1>1, <1>2, <1>3, <1>4, Zenon DEF raw

LEMMA SuppressionSoundNow ==
    ASSUME HostInv
    PROVE  SuppressionSound
<1> SUFFICES ASSUME Done, NEW x \in Range(RawIssues(results)), x.rule_id \notin Found
             PROVE  \E issue \in Range(report.issues) : x.rule_id \in issue.suppressed
  BY Zenon DEF SuppressionSound
<1>1. PICK raw : raw = RawIssues(results)
  OBVIOUS
<1>2. /\ Range(report.issues) =
           {raw[i] : i \in {i \in DOMAIN raw : raw[i].rule_id \notin suppressed_ids(raw)}}
      /\ Sound(results, raw)
  BY <1>1, Reported, Zenon
<1>3. PICK i \in DOMAIN raw : x = raw[i]
  BY <1>1, Zenon DEF Range
<1>4. raw[i].rule_id \in suppressed_ids(raw)
  <2> SUFFICES ASSUME raw[i].rule_id \notin suppressed_ids(raw) PROVE FALSE
    OBVIOUS
  <2>1. raw[i] \in Range(report.issues)
    BY <1>2
  <2> QED
    BY <1>3, <2>1, Zenon DEF Found
<1>5. ~(Has(results, "dns") /\ first_by_module(results, "dns").m.says_timeout)
  BY NoDnsTimeout, Zenon DEF HostInv
<1>6. PICK j \in DOMAIN raw : raw[j].rule_id \notin suppressed_ids(raw)
                              /\ raw[i].rule_id \in raw[j].suppressed
  BY <1>2, <1>4, <1>5, Explained, Zenon
<1>7. raw[j] \in Range(report.issues)
  BY <1>2, <1>6
<1> QED
  BY <1>3, <1>6, <1>7, Zenon

LEMMA CriticalExplainedNow ==
    ASSUME HostInv, RouteInv
    PROVE  CriticalExplained
<1> SUFFICES ASSUME Done, NEW x \in Range(report.issues), x.severity = CRITICAL
             PROVE  (CausesOf(x.rule_id) \cup MistakenFor(x.rule_id)) \cap ever # {}
  BY Zenon DEF CriticalExplained, CriticalIssues
<1>1. PICK raw : raw = RawIssues(results)
  OBVIOUS
<1>2. /\ Range(report.issues) =
           {raw[i] : i \in {i \in DOMAIN raw : raw[i].rule_id \notin suppressed_ids(raw)}}
      /\ Sound(results, raw)
      /\ todo = << >>
  BY <1>1, Reported, Zenon
<1>3. PICK i \in DOMAIN raw : x = raw[i]
  BY <1>2
<1>4. Origin(results, x)
  BY <1>2, <1>3, Zenon DEF Sound
<1>5. Has(results, "routing")
  <2>1. DOMAIN todo = {}
    BY <1>2
  <2> QED
    BY <2>1, Zenon DEF RouteInv, Routed
<1>6. Supported(results, ever)
  BY Zenon DEF HostInv
<1> QED
  BY <1>4, <1>5, <1>6, Justified, Zenon

-----------------------------------------------------------------------------
(* Which results make a report failed.                                      *)

In(x, s) == \E i \in DOMAIN s : s[i] = x

\* An issue that is enough for the report to be failed.
Alarm(x) == x.severity \in {CRITICAL, HIGH} /\ x.confidence >= 75

LEMMA InOne ==
    ASSUME NEW x
    PROVE  In(x, <<x>>)
<1>1. DOMAIN <<x>> = {1} /\ <<x>>[1] = x
  OBVIOUS
<1> QED
  BY <1>1, Zenon DEF In

LEMMA InCat ==
    ASSUME NEW rs, NEW s, NEW t, Sound(rs, s), Sound(rs, t), NEW x, In(x, s) \/ In(x, t)
    PROVE  In(x, s \o t)
<1>1. PICK u : u = s \o t
  OBVIOUS
<1>2. s \in Seq(IssueType) /\ t \in Seq(IssueType)
  BY Zenon DEF Sound
<1>3. IsSeq(s) /\ IsSeq(t)
  BY <1>2, SeqRange
<1>4. Joined(s, t, u)
  BY <1>1, <1>3, SeqCat, Zenon
<1>5. CASE In(x, s)
  <2>1. PICK i \in DOMAIN s : s[i] = x
    BY <1>5, Zenon DEF In
  <2>2. i \in DOMAIN u /\ u[i] = x
    BY <1>4, <2>1, Zenon DEF Joined
  <2> QED
    BY <1>1, <2>2, Zenon DEF In
<1>6. CASE In(x, t)
  <2>1. PICK i \in DOMAIN t : t[i] = x
    BY <1>6, Zenon DEF In
  <2>2. PICK k \in DOMAIN u : u[k] = x
    BY <1>4, <2>1, Zenon DEF Joined
  <2> QED
    BY <1>1, <2>2, Zenon DEF In
<1> QED
  BY <1>5, <1>6

LEMMA InCat6 ==
    ASSUME NEW rs, NEW a, NEW b, NEW c, NEW d, NEW e, NEW f,
           Sound(rs, a), Sound(rs, b), Sound(rs, c), Sound(rs, d), Sound(rs, e), Sound(rs, f),
           NEW x,
           In(x, a) \/ In(x, b) \/ In(x, c) \/ In(x, d) \/ In(x, e) \/ In(x, f)
    PROVE  In(x, a \o b \o c \o d \o e \o f)
<1> DEFINE p2 == a \o b
           p3 == p2 \o c
           p4 == p3 \o d
           p5 == p4 \o e
<1>1. Sound(rs, p2) /\ (In(x, a) \/ In(x, b) => In(x, p2))
  BY SoundCat, InCat, Zenon
<1> HIDE DEF p2
<1>2. Sound(rs, p3) /\ (In(x, p2) \/ In(x, c) => In(x, p3))
  BY <1>1, SoundCat, InCat, Zenon
<1> HIDE DEF p3
<1>3. Sound(rs, p4) /\ (In(x, p3) \/ In(x, d) => In(x, p4))
  BY <1>2, SoundCat, InCat, Zenon
<1> HIDE DEF p4
<1>4. Sound(rs, p5) /\ (In(x, p4) \/ In(x, e) => In(x, p5))
  BY <1>3, SoundCat, InCat, Zenon
<1> HIDE DEF p5
<1>5. In(x, p5 \o f)
  <2>1. In(x, p5) \/ In(x, f)
    BY <1>1, <1>2, <1>3, <1>4, Zenon
  <2> QED
    BY <1>4, <2>1, InCat, Zenon
<1> QED
  BY <1>5, Zenon DEF p2, p3, p4, p5

\* What one of the rules that an outage is told by reports is a raw issue.
LEMMA RawHas ==
    ASSUME NEW rs, NEW x,
           \/ In(x, AllInterfacesDownRule(rs))
           \/ In(x, NoDefaultGatewayRule(rs))
           \/ In(x, GatewayUnreachableRule(rs))
           \/ In(x, GatewayHealthyWANOutageRule(rs))
           \/ In(x, TargetSpecificFailureRule(rs))
    PROVE  In(x, RawIssues(rs))
<1> DEFINE p1 == AllInterfacesDownRule(rs) \o ActivePacketDropsRule(rs) \o NoDefaultGatewayRule(rs)
                  \o GatewayUnreachableRule(rs) \o GatewayHealthyWANOutageRule(rs) \o TotalInternetOutageRule(rs)
           p2 == p1 \o DNSFailureWithHealthyIPRule(rs) \o DNSTimeoutRule(rs)
                  \o SlowDNSResolutionRule(rs) \o SeverePacketLossRule(rs) \o HighJitterLatencySpikeRule(rs)
           p3 == p2 \o PortBlockedByFirewallRule(rs) \o TargetSpecificFailureRule(rs)
                  \o HostSaturationBufferbloatRule(rs) \o PathChangeRule(rs) \o HighHopLossRule(rs)
           p4 == p3 \o LastMileVsCoreRule(rs) \o LinkSaturationRule(rs)
                  \o InterfaceErrorsRule(rs) \o ElephantFlowRule(rs) \o LinkCongestionWithPathLossRule(rs)
           q == p4 \o SuddenDegradationRule(rs)
           p5 == q \o MeshPartitionRule(rs)
<1>0. RawIssues(rs) = correlate(rs) \o p5
  BY Zenon DEF RawIssues, DEFAULT_RULES
<1> HIDE DEF p1, p2, p3, p4, q, p5
<1>1. Sound(rs, p1)
  BY SoundPlainRules, SoundSpecialRules, SoundCat6 DEF p1
<1>2. Sound(rs, p2)
  BY <1>1, SoundPlainRules, SoundSpecialRules, SoundCat6 DEF p2
<1>3. Sound(rs, p3)
  BY <1>2, SoundPlainRules, SoundSpecialRules, SoundCat6 DEF p3
<1>4. Sound(rs, p4)
  BY <1>3, SoundPlainRules, SoundSpecialRules, SoundCat6 DEF p4
<1>5. Sound(rs, q)
  BY <1>4, SoundPlainRules, SoundCat, Zenon DEF q
<1>6. Sound(rs, MeshPartitionRule(rs)) /\ Sound(rs, correlate(rs))
  BY SoundSpecialRules, SoundAnomalies, Zenon
<1>7. Sound(rs, p5)
  BY <1>5, <1>6, SoundCat, Zenon DEF p5
<1>8. In(x, p1) \/ In(x, TargetSpecificFailureRule(rs))
  <2>1. In(x, TargetSpecificFailureRule(rs))
        \/ In(x, AllInterfacesDownRule(rs)) \/ In(x, ActivePacketDropsRule(rs))
        \/ In(x, NoDefaultGatewayRule(rs)) \/ In(x, GatewayUnreachableRule(rs))
        \/ In(x, GatewayHealthyWANOutageRule(rs)) \/ In(x, TotalInternetOutageRule(rs))
    BY Zenon
  <2> QED
    BY <2>1, SoundPlainRules, SoundSpecialRules, InCat6 DEF p1
<1>9. In(x, p2) \/ In(x, TargetSpecificFailureRule(rs))
  BY <1>1, <1>8, SoundPlainRules, SoundSpecialRules, InCat6 DEF p2
<1>10. In(x, p3)
  BY <1>2, <1>9, SoundPlainRules, SoundSpecialRules, InCat6 DEF p3
<1>11. In(x, p4)
  BY <1>3, <1>10, SoundPlainRules, SoundSpecialRules, InCat6 DEF p4
<1>12. In(x, q)
  BY <1>4, <1>11, SoundPlainRules, InCat, Zenon DEF q
<1>13. In(x, p5)
  BY <1>5, <1>6, <1>12, InCat, Zenon DEF p5
<1> QED
  BY <1>0, <1>6, <1>7, <1>13, InCat, Zenon

\* An alarm that no issue suppresses makes the report failed.
LEMMA Alarming ==
    ASSUME NEW rs, NEW x, In(x, RawIssues(rs)), Alarm(x),
           x.rule_id \notin suppressed_ids(RawIssues(rs))
    PROVE  analyze(rs).status = "failed"
<1>1. PICK raw : raw = RawIssues(rs)
  OBVIOUS
<1>2. raw \in Seq(IssueType)
  BY <1>1, RawSound, Zenon DEF Sound
<1>3. PICK i \in DOMAIN raw : raw[i] = x
  BY <1>1, Zenon DEF In
<1>4. PICK active : active = ActiveIssues(raw)
  OBVIOUS
<1>5. Range(active) = {raw[k] : k \in {k \in DOMAIN raw : raw[k].rule_id \notin suppressed_ids(raw)}}
  BY <1>2, <1>4, ActiveRange, Zenon
<1>6. x \in Range(active)
  BY <1>1, <1>3, <1>5
<1>7. ReportStatus(rs, active) = "failed"
  BY <1>6, Zenon DEF ReportStatus, Alarm
<1>8. analyze(rs).status = ReportStatus(rs, active)
  BY <1>1, <1>4, Zenon DEF analyze
<1> QED
  BY <1>7, <1>8, Zenon

\* Who may be suppressed, and by whom.
LEMMA NotDropped ==
    ASSUME NEW rs, NEW id,
           \/ id \in {"ALL_INTERFACES_DOWN", "TARGET_SPECIFIC_FAILURE"}
           \/ /\ id \in {"NO_DEFAULT_GATEWAY", "GATEWAY_UNREACHABLE"}
              /\ ~all_interfaces_down(rs)
           \/ id = "GATEWAY_HEALTHY_WAN_OUTAGE" /\ is_gateway_reachable(rs) # "no"
    PROVE  id \notin suppressed_ids(RawIssues(rs))
<1>1. PICK raw : raw = RawIssues(rs)
  OBVIOUS
<1>2. \A i \in DOMAIN raw : Origin(rs, raw[i])
  BY <1>1, RawSound, Zenon DEF Sound
<1>3. ASSUME NEW i \in DOMAIN raw, id \in raw[i].suppressed PROVE FALSE
  BY <1>2, <1>3 DEF Origin
<1> QED
  BY <1>1, <1>3, Zenon DEF suppressed_ids, Range

LEMMA AlarmIssue ==
    ASSUME NEW rs, NEW id \in Names, NEW severity \in {CRITICAL, HIGH}, NEW confidence \in 75 .. 99,
           NEW ids \in SUBSET Names,
           NEW s, s = <<build_issue(id, severity, confidence, ids)>>,
           \A x : In(x, s) => In(x, RawIssues(rs)),
           id \notin suppressed_ids(RawIssues(rs))
    PROVE  analyze(rs).status = "failed"
<1> DEFINE x == build_issue(id, severity, confidence, ids)
<1>1. x.rule_id = id /\ x.severity = severity /\ x.confidence = confidence
  <2>1. severity \in 0 .. 3 /\ confidence \in Int /\ confidence \in 5 .. 99
    BY DEF CRITICAL, HIGH
  <2> QED
    BY <2>1, BuildIssue
<1>2. In(x, s)
  BY InOne, Zenon
<1> HIDE DEF x
<1>3. Alarm(x)
  BY <1>1 DEF Alarm
<1> QED
  BY <1>1, <1>2, <1>3, Alarming, Zenon

LEMMA AlarmInterfaces ==
    ASSUME NEW rs, all_interfaces_down(rs)
    PROVE  analyze(rs).status = "failed"
<1> DEFINE id == "ALL_INTERFACES_DOWN"
           ids == {"TOTAL_INTERNET_OUTAGE", "NO_DEFAULT_GATEWAY",
                   "DNS_FAIL_IP_HEALTHY", "GATEWAY_UNREACHABLE"}
           confidence == 98
           s == AllInterfacesDownRule(rs)
<1>1. id \in Names /\ ids \in SUBSET Names /\ confidence \in 75 .. 99 /\ CRITICAL \in {CRITICAL, HIGH}
  BY DEF Names, Plain
<1>2. s = <<build_issue(id, CRITICAL, confidence, ids)>>
  BY Zenon DEF AllInterfacesDownRule, When
<1>3. \A x : In(x, s) => In(x, RawIssues(rs))
  BY RawHas, Zenon
<1>4. id \notin suppressed_ids(RawIssues(rs))
  BY NotDropped
<1> HIDE DEF id, ids, confidence, s
<1> QED
  BY <1>1, <1>2, <1>3, <1>4, AlarmIssue

LEMMA AlarmRoute ==
    ASSUME NEW rs, ~all_interfaces_down(rs), ~has_default_gateway(rs)
    PROVE  analyze(rs).status = "failed"
<1> DEFINE id == "NO_DEFAULT_GATEWAY"
           ids == {"TOTAL_INTERNET_OUTAGE", "DNS_FAIL_IP_HEALTHY"}
           confidence == 96
           s == NoDefaultGatewayRule(rs)
<1>1. id \in Names /\ ids \in SUBSET Names /\ confidence \in 75 .. 99 /\ CRITICAL \in {CRITICAL, HIGH}
  BY DEF Names, Plain
<1>2. s = <<build_issue(id, CRITICAL, confidence, ids)>>
  BY Zenon DEF NoDefaultGatewayRule, When
<1>3. \A x : In(x, s) => In(x, RawIssues(rs))
  BY RawHas, Zenon
<1>4. id \notin suppressed_ids(RawIssues(rs))
  BY NotDropped
<1> HIDE DEF id, ids, confidence, s
<1> QED
  BY <1>1, <1>2, <1>3, <1>4, AlarmIssue

LEMMA AlarmGateway ==
    ASSUME NEW rs, ~all_interfaces_down(rs), has_default_gateway(rs),
           is_gateway_reachable(rs) = "no"
    PROVE  analyze(rs).status = "failed"
<1> DEFINE id == "GATEWAY_UNREACHABLE"
           ids == {"GATEWAY_HEALTHY_WAN_OUTAGE", "TOTAL_INTERNET_OUTAGE",
                   "DNS_FAIL_IP_HEALTHY", "DNS_TIMEOUT"}
           confidence == 95
           s == GatewayUnreachableRule(rs)
<1>1. id \in Names /\ ids \in SUBSET Names /\ confidence \in 75 .. 99 /\ CRITICAL \in {CRITICAL, HIGH}
  BY DEF Names, Plain
<1>2. s = <<build_issue(id, CRITICAL, confidence, ids)>>
  BY Zenon DEF GatewayUnreachableRule, When
<1>3. \A x : In(x, s) => In(x, RawIssues(rs))
  BY RawHas, Zenon
<1>4. id \notin suppressed_ids(RawIssues(rs))
  BY NotDropped
<1> HIDE DEF id, ids, confidence, s
<1> QED
  BY <1>1, <1>2, <1>3, <1>4, AlarmIssue

LEMMA AlarmWan ==
    ASSUME NEW rs, has_default_gateway(rs), is_gateway_reachable(rs) = "yes",
           ~is_ip_connectivity_working(rs), get_max_packet_loss(rs) >= 99
    PROVE  analyze(rs).status = "failed"
<1> DEFINE id == "GATEWAY_HEALTHY_WAN_OUTAGE"
           ids == {"DNS_FAIL_IP_HEALTHY", "DNS_TIMEOUT"}
           confidence == IF is_gateway_reachable(rs) = "yes" THEN 94 ELSE 88
           s == GatewayHealthyWANOutageRule(rs)
<1>1. id \in Names /\ ids \in SUBSET Names /\ confidence \in 75 .. 99 /\ CRITICAL \in {CRITICAL, HIGH}
  BY DEF Names, Plain
<1>0. is_gateway_reachable(rs) # "no" /\ is_gateway_reachable(rs) # "unknown"
  OBVIOUS
<1>2. s = <<build_issue(id, CRITICAL, confidence, ids)>>
  BY <1>0, Zenon DEF GatewayHealthyWANOutageRule, When
<1>3. \A x : In(x, s) => In(x, RawIssues(rs))
  BY RawHas, Zenon
<1>4. id \notin suppressed_ids(RawIssues(rs))
  BY <1>0, NotDropped
<1> HIDE DEF id, ids, confidence, s
<1> QED
  BY <1>1, <1>2, <1>3, <1>4, AlarmIssue

LEMMA AlarmTarget ==
    ASSUME NEW rs,
           \E r \in ResultsOf(rs, "connectivity") : r.status = "failed",
           \E r \in ResultsOf(rs, "connectivity") : r.status = "healthy" /\ r.target \in Public
    PROVE  analyze(rs).status = "failed"
<1> DEFINE id == "TARGET_SPECIFIC_FAILURE"
           ids == {}
           confidence == 91
           s == TargetSpecificFailureRule(rs)
<1>1. id \in Names /\ ids \in SUBSET Names /\ confidence \in 75 .. 99 /\ HIGH \in {CRITICAL, HIGH}
  BY DEF Names, Plain
<1>2. s = <<build_issue(id, HIGH, confidence, ids)>>
  BY Zenon DEF TargetSpecificFailureRule, When
<1>3. \A x : In(x, s) => In(x, RawIssues(rs))
  BY RawHas, Zenon
<1>4. id \notin suppressed_ids(RawIssues(rs))
  BY NotDropped
<1> HIDE DEF id, ids, confidence, s
<1> QED
  BY <1>1, <1>2, <1>3, <1>4, AlarmIssue

-----------------------------------------------------------------------------
(* What the results say while the network stays as it is.                   *)

\* The results that an outage is told by say what is wrong with the network f.
Exact(r, f, cmd) ==
    /\ r.module = "routing" =>
         cmd \in {"host", "all"} /\ (r.m.default_gateway => RouteRead(f))
    /\ r.module = "gateway" /\ "no_tools" \notin f /\ RouteRead(f) =>
         IF Speaks(f)
         THEN \/ r.status = "healthy"
              \/ r.status = "degraded" /\ r.m.packet_loss_percent \in 0 .. 98
         ELSE r.status = "failed"
    /\ r.module = "connectivity" =>
         r.status = IF Reachable(r.target, f) THEN "healthy" ELSE "failed"
    /\ r.module = "packet_loss" /\ "no_tools" \notin f /\ HasRoute(f) /\ ~WanWorks(f) =>
         r.m.packet_loss_percent = 100

Told(rs, f, cmd) == \A i \in DOMAIN rs : Exact(rs[i], f, cmd)

LEMMA ToldMute ==
    ASSUME NEW rs, NEW f, NEW cmd, Mute(rs)
    PROVE  Told(rs, f, cmd)
<1>1. \A r : r.module \notin Heard => Exact(r, f, cmd)
  BY DEF Exact, Heard
<1> QED
  BY <1>1, Zenon DEF Told, Mute

LEMMA ToldOne ==
    ASSUME NEW r, NEW f, NEW cmd, Exact(r, f, cmd)
    PROVE  Told(<<r>>, f, cmd)
<1>1. DOMAIN <<r>> = {1} /\ <<r>>[1] = r
  OBVIOUS
<1> QED
  BY <1>1, Zenon DEF Told

LEMMA ToldCat ==
    ASSUME NEW s, NEW t, NEW f, NEW cmd, IsSeq(s), IsSeq(t),
           Told(s, f, cmd), Told(t, f, cmd)
    PROVE  Told(s \o t, f, cmd)
<1>1. PICK u : u = s \o t
  OBVIOUS
<1>2. Joined(s, t, u)
  BY <1>1, SeqCat, Zenon
<1>3. Told(u, f, cmd)
  BY <1>2, Zenon DEF Told, Joined
<1> QED
  BY <1>1, <1>3, Zenon

\* A ping that can be run and has a route loses everything just when there is
\* no answer.
LEMMA PingExact ==
    ASSUME NEW host, NEW f, "no_tools" \notin f, HasRoute(f)
    PROVE  /\ Answered(host, f) => run_ping(host, f).loss \in {0, 25, 40}
           /\ ~Answered(host, f) => run_ping(host, f).loss = 100
<1> DEFINE loss == EchoLoss(host, f)
           data == run_ping(host, f)
           jitter == IF "jittery" \in f THEN 50 ELSE 2
<1>1. /\ Answered(host, f) => loss \in {0, 25, 40}
      /\ ~Answered(host, f) => loss = 100
  <2>1. CASE ~Answered(host, f)
    BY <2>1 DEF EchoLoss
  <2>2. CASE Answered(host, f)
    <3>1. loss = IF "lan_lossy" \in f THEN 25
                 ELSE IF "wan_lossy" \in f /\ host # "gateway" THEN 40 ELSE 0
      BY <2>2, Zenon DEF EchoLoss
    <3> HIDE DEF loss
    <3>2. CASE "lan_lossy" \in f
      BY <2>2, <3>1, <3>2, Zenon
    <3>3. CASE "lan_lossy" \notin f /\ "wan_lossy" \in f /\ host # "gateway"
      BY <2>2, <3>1, <3>3, Zenon
    <3>4. CASE "lan_lossy" \notin f /\ ~("wan_lossy" \in f /\ host # "gateway")
      BY <2>2, <3>1, <3>4, Zenon
    <3> QED
      BY <3>2, <3>3, <3>4, Zenon
  <2> QED
    BY <2>1, <2>2, Zenon
<1>2. data = CASE "no_tools" \in f -> PingData(TRUE, NoValue, FALSE, 0, 0)
               [] "no_tools" \notin f /\ ~HasRoute(f) -> PingData(FALSE, NoValue, FALSE, 0, 0)
               [] "no_tools" \notin f /\ HasRoute(f) /\ loss = 100 ->
                    PingData(FALSE, 100, FALSE, 0, 0)
               [] OTHER -> PingData(FALSE, loss, TRUE, EchoTime(host, f), jitter)
  BY Zenon DEF run_ping
<1> HIDE DEF loss, data, jitter
<1>3. data.loss = loss
  <2>1. CASE loss = 100
    <3>1. data = PingData(FALSE, 100, FALSE, 0, 0)
      BY <1>2, <2>1
    <3> QED
      BY <2>1, <3>1 DEF PingData
  <2>2. CASE loss # 100
    <3>1. data = PingData(FALSE, loss, TRUE, EchoTime(host, f), jitter)
      BY <1>2, <2>2
    <3> QED
      BY <3>1 DEF PingData
  <2> QED
    BY <2>1, <2>2, Zenon
<1> QED
  BY <1>1, <1>3, Zenon DEF data

\* An answer of ping, or a cached one, of a public address.
PingTells(data, f) ==
    "no_tools" \notin f /\ HasRoute(f) /\ ~WanWorks(f) => data.loss = 100

LEMMA PublicPingTells ==
    ASSUME NEW host \in Public, NEW f
    PROVE  PingTells(run_ping(host, f), f)
<1>1. Answered(host, f) <=> WanWorks(f)
  BY PublicNames, Zenon DEF Answered
<1> QED
  BY <1>1, PingExact DEF PingTells

LEMMA LossTold ==
    ASSUME NEW host, NEW data, NEW f, NEW cmd, PingTells(data, f)
    PROVE  Told(<<ping_host(host, data)>>, f, cmd)
<1> DEFINE r == ping_host(host, data)
<1>1. r.module = "packet_loss" /\ r.m = [packet_loss_percent |-> data.loss]
  BY Zenon DEF ping_host, Result
<1> HIDE DEF r
<1>2. r.m.packet_loss_percent = data.loss
  BY <1>1
<1>3. Exact(r, f, cmd)
  BY <1>1, <1>2 DEF Exact, PingTells
<1> QED
  BY <1>3, ToldOne, Zenon DEF r

LEMMA GatewayTold ==
    ASSUME NEW f, NEW cmd
    PROVE  /\ Told(<<check_gateway_reachability(f)>>, f, cmd)
           /\ check_gateway_reachability(f).module = "gateway"
<1> DEFINE data == run_ping("gateway", f)
           loss == data.loss
           unprobed == [packet_loss_percent |-> NoValue, avg_ms |-> NoValue, jitter_ms |-> NoValue]
           probed == [packet_loss_percent |-> loss, avg_ms |-> data.avg_ms,
                      jitter_ms |-> data.jitter_ms]
           status == CASE loss >= 99 -> "failed"
                       [] loss \in 1 .. 98 -> "degraded"
                       [] loss = 0 -> "healthy"
           r == check_gateway_reachability(f)
<1>1. r = CASE ~RouteRead(f) -> Result("gateway", "none", "failed", unprobed)
            [] RouteRead(f) /\ loss = NoValue -> Result("gateway", "gateway", "unknown", unprobed)
            [] OTHER -> Result("gateway", "gateway", status, probed)
  BY RouteFound, Zenon DEF check_gateway_reachability
<1>2. probed.packet_loss_percent = loss
  BY Zenon
<1>3. "no_tools" \notin f /\ RouteRead(f) =>
        /\ Speaks(f) => loss \in {0, 25, 40}
        /\ ~Speaks(f) => loss = 100
  <2>1. Answered("gateway", f) <=> Speaks(f)
    BY Zenon DEF Answered
  <2>2. RouteRead(f) => HasRoute(f)
    BY Zenon DEF RouteRead
  <2> QED
    BY <2>1, <2>2, PingExact
<1>4. /\ loss = 0 => status = "healthy"
      /\ loss \in {25, 40} => status = "degraded"
      /\ loss = 100 => status = "failed"
  <2> HIDE DEF loss
  <2> QED
    OBVIOUS
<1> HIDE DEF data, loss, unprobed, probed, status, r
<1>5. r.module = "gateway"
  <2>1. CASE ~RouteRead(f)
    BY <1>1, <2>1 DEF Result
  <2>2. CASE RouteRead(f) /\ loss = NoValue
    BY <1>1, <2>2 DEF Result
  <2>3. CASE RouteRead(f) /\ loss # NoValue
    BY <1>1, <2>3 DEF Result
  <2> QED
    BY <2>1, <2>2, <2>3, Zenon
<1>6. ASSUME "no_tools" \notin f, RouteRead(f)
      PROVE  IF Speaks(f)
             THEN \/ r.status = "healthy"
                  \/ r.status = "degraded" /\ r.m.packet_loss_percent \in 0 .. 98
             ELSE r.status = "failed"
  <2>1. loss \in {0, 25, 40, 100} /\ loss # NoValue
    BY <1>3, <1>6 DEF NoValue
  <2>2. r = Result("gateway", "gateway", status, probed)
    BY <1>1, <1>6, <2>1
  <2>3. r.status = status /\ r.m.packet_loss_percent = loss
    BY <1>2, <2>2 DEF Result
  <2>4. CASE Speaks(f)
    BY <1>3, <1>4, <1>6, <2>3, <2>4
  <2>5. CASE ~Speaks(f)
    BY <1>3, <1>4, <1>6, <2>3, <2>5
  <2> QED
    BY <2>4, <2>5
<1>7. Exact(r, f, cmd)
  <2>1. "gateway" \notin {"routing", "connectivity", "packet_loss"}
    OBVIOUS
  <2> QED
    BY <1>5, <1>6, <2>1 DEF Exact
<1> QED
  BY <1>5, <1>7, ToldOne, Zenon DEF r

LEMMA HostTold ==
    ASSUME NEW host, NEW f, NEW cmd
    PROVE  /\ Told(<<check_host(host, f)>>, f, cmd)
           /\ check_host(host, f).module = "connectivity"
           /\ check_host(host, f).target = host
<1> DEFINE r == check_host(host, f)
<1>1. /\ r.module = "connectivity" /\ r.target = host
      /\ r.status = IF Reachable(host, f) THEN "healthy" ELSE "failed"
  BY Zenon DEF check_host, Result
<1> HIDE DEF r
<1>2. Exact(r, f, cmd)
  BY <1>1 DEF Exact
<1> QED
  BY <1>1, <1>2, ToldOne, Zenon DEF r

LEMMA RouteTold ==
    ASSUME NEW f, NEW cmd \in {"host", "all"}
    PROVE  Told(<<inspect_routing_table(f)>>, f, cmd)
<1> DEFINE r == inspect_routing_table(f)
<1>1. r.module = "routing" /\ r.m.default_gateway = RouteRead(f)
  BY RouteFound, Zenon
<1> HIDE DEF r
<1>2. Exact(r, f, cmd)
  <2>1. "routing" \notin {"gateway", "connectivity", "packet_loss"}
    OBVIOUS
  <2> QED
    BY <1>1, <2>1, Zenon DEF Exact
<1> QED
  BY <1>2, ToldOne, Zenon DEF r

-----------------------------------------------------------------------------
(* While the network stays as it is, nothing that tells of an outage is      *)
(* left out and nothing of it is wrong.                                      *)

\* What host diagnosis asks in any case, and the results that answer it.
Asked(host) == {<<"gateway">>, <<"ping", "1.1.1.1">>,
                <<"check_host", "1.1.1.1">>, <<"check_host", host>>}

Reply(r, step) ==
    \/ step[1] = "gateway" /\ r.module = "gateway"
    \/ step[1] = "ping" /\ r.module = "packet_loss"
    \/ step[1] = "check_host" /\ r.module = "connectivity" /\ r.target = step[2]

Answer(rs, step) == \E i \in DOMAIN rs : Reply(rs[i], step)

Complete == \A step \in Asked(target) : In(step, todo) \/ Answer(results, step)

RouteSteps(t, cmd) == \A i \in DOMAIN t : t[i][1] = "routing" => cmd \in {"host", "all"}

Cached == \A h \in Public : cache[h] = NotCached \/ PingTells(cache[h], faults)

SteadyInv ==
    /\ changes \in Nat
    /\ command \in {"host", "all"} => Complete
    /\ RouteSteps(todo, command)
    /\ changes = 0 => Told(results, faults, command) /\ Cached
    /\ report # NoReport /\ report.status = "failed" => exit_code = 1

LEMMA AskedHost ==
    ASSUME NEW host, NEW step \in Asked(host)
    PROVE  In(step, collect_host_diagnostics(host))
<1>1. PICK t : t = collect_host_diagnostics(host)
  OBVIOUS
<1>2. DOMAIN t = 1 .. 17
  BY <1>1, Seventeen DEF collect_host_diagnostics
<1>3. t[1] = <<"check_host", "1.1.1.1">> /\ t[3] = <<"check_host", host>>
      /\ t[6] = <<"gateway">> /\ t[12] = <<"ping", "1.1.1.1">>
  BY <1>1 DEF collect_host_diagnostics
<1>4. 1 \in DOMAIN t /\ 3 \in DOMAIN t /\ 6 \in DOMAIN t /\ 12 \in DOMAIN t
  BY <1>2
<1>5. step \in {t[1], t[3], t[6], t[12]}
  BY <1>3, Zenon DEF Asked
<1> QED
  BY <1>1, <1>4, <1>5, Zenon DEF In

LEMMA AskedAll ==
    ASSUME NEW cmd \in {"host", "all"}, NEW host, NEW step \in Asked(host)
    PROVE  In(step, Collector(cmd, host))
<1>0. In(step, collect_host_diagnostics(host))
  BY AskedHost, Zenon
<1>1. CASE cmd = "host"
  <2>1. Collector(cmd, host) = collect_host_diagnostics(host)
    BY <1>1 DEF Collector
  <2> QED
    BY <1>0, <2>1, Zenon
<1>2. CASE cmd = "all"
  <2>1. ASSUME NEW s, NEW t, IsSeq(s), IsSeq(t), In(step, s)
        PROVE  In(step, s \o t)
    <3>1. PICK u : u = s \o t
      OBVIOUS
    <3>2. Joined(s, t, u)
      BY <2>1, <3>1, SeqCat, Zenon
    <3> QED
      BY <2>1, <3>1, <3>2, Zenon DEF Joined, In
  <2>2. Collector(cmd, host) =
          collect_host_diagnostics(host) \o collect_link \o collect_path_diagnostics
    BY <1>2 DEF Collector
  <2>3. /\ IsSeq(collect_host_diagnostics(host)) /\ IsSeq(collect_link)
        /\ IsSeq(collect_path_diagnostics)
        /\ IsSeq(collect_host_diagnostics(host) \o collect_link)
    BY StepsHost, StepsLink, StepsPath, SeqCat, Zenon DEF Steps, Joined
  <2> QED
    BY <1>0, <2>1, <2>2, <2>3, Zenon
<1> QED
  BY <1>1, <1>2

LEMMA RouteStepsOf ==
    ASSUME NEW cmd \in {"host", "link", "path", "all"}, NEW host
    PROVE  RouteSteps(Collector(cmd, host), cmd)
<1>1. CASE cmd \in {"host", "all"}
  BY <1>1, Zenon DEF RouteSteps
<1>2. CASE cmd = "link"
  <2>1. PICK t : t = Collector(cmd, host)
    OBVIOUS
  <2>2. DOMAIN t = 1 .. 4 /\ \A i \in 1 .. 4 : t[i][1] # "routing"
    BY <1>2, <2>1 DEF Collector, collect_link
  <2> QED
    BY <2>1, <2>2, Zenon DEF RouteSteps
<1>3. CASE cmd = "path"
  <2>1. PICK t : t = Collector(cmd, host)
    OBVIOUS
  <2>2. DOMAIN t = 1 .. 2 /\ \A i \in 1 .. 2 : t[i][1] # "routing"
    BY <1>3, <2>1 DEF Collector, collect_path_diagnostics
  <2> QED
    BY <2>1, <2>2, Zenon DEF RouteSteps
<1> QED
  BY <1>1, <1>2, <1>3

LEMMA InitSteady ==
    ASSUME Init
    PROVE  SteadyInv
<1>1. /\ changes = 0 /\ results = << >> /\ report = NoReport
      /\ command \in {"host", "link", "path", "all"} /\ todo = Collector(command, target)
      /\ cache = [h \in Public |-> NotCached]
  BY CommandsAssumption, Zenon DEF Init
<1>2. \A h \in Public : cache[h] = NotCached
  BY <1>1
<1>3. command \in {"host", "all"} => Complete
  BY <1>1, AskedAll, Zenon DEF Complete
<1>4. RouteSteps(todo, command)
  BY <1>1, RouteStepsOf, Zenon
<1>5. Told(results, faults, command)
  BY <1>1, MuteNone, ToldMute, Zenon
<1>6. changes \in Nat
  BY <1>1
<1> QED
  BY <1>1, <1>2, <1>3, <1>4, <1>5, <1>6, Zenon DEF SteadyInv, Cached

LEMMA StepDone ==
    ASSUME NEW t, IsSeq(t), t # << >>
    PROVE  /\ In(Head(t), t)
           /\ \A x : In(x, t) => x = Head(t) \/ In(x, Tail(t))
           /\ \A k \in DOMAIN Tail(t) : In(Tail(t)[k], t)
<1>1. t \in Seq(Range(t))
  BY Zenon DEF IsSeq
<1>2. PICK n \in Nat : n = Len(t) /\ DOMAIN t = 1 .. n
  BY <1>1
<1>3. n >= 1
  BY <1>1, <1>2
<1>4. PICK u : u = Tail(t)
  OBVIOUS
<1>5. DOMAIN u = 1 .. n - 1 /\ \A i \in 1 .. n - 1 : u[i] = t[i + 1]
  BY <1>1, <1>2, <1>3, <1>4
<1>6. Head(t) = t[1] /\ 1 \in DOMAIN t
  BY <1>1, <1>2, <1>3
<1>7. ASSUME NEW i \in DOMAIN t PROVE t[i] = t[1] \/ \E k \in DOMAIN u : u[k] = t[i]
  <2> SUFFICES ASSUME i # 1 PROVE \E k \in DOMAIN u : u[k] = t[i]
    BY Zenon
  <2>1. i - 1 \in DOMAIN u /\ u[i - 1] = t[i]
    BY <1>2, <1>5
  <2> QED
    BY <2>1, Zenon
<1>8. ASSUME NEW k \in DOMAIN u PROVE \E i \in DOMAIN t : t[i] = u[k]
  <2>1. k + 1 \in DOMAIN t /\ t[k + 1] = u[k]
    BY <1>2, <1>5
  <2> QED
    BY <2>1, Zenon
<1>9. In(t[1], t) /\ \A k \in DOMAIN u : In(u[k], t)
  BY <1>6, <1>8, Zenon DEF In
<1>10. \A x : In(x, t) => x = t[1] \/ In(x, u)
  BY <1>7, Zenon DEF In
<1> QED
  BY <1>4, <1>6, <1>9, <1>10, Zenon

\* A probe's results are added: they answer the step and are exact.
LEMMA SteadyAdd ==
    ASSUME HostInv, SteadyInv, todo # << >>, NEW rs, Supported(rs, ever), Add(rs),
           UNCHANGED <<faults, changes, command, target, report, exit_code>>,
           changes = 0 => Told(rs, faults, command) /\ Cached',
           Head(todo) \in Asked(target) => Answer(rs, Head(todo))
    PROVE  SteadyInv'
<1>1. results' = results \o rs /\ todo' = Tail(todo)
  BY Zenon DEF Add
<1>2. IsSeq(todo) /\ IsSeq(results) /\ IsSeq(rs)
  BY Zenon DEF HostInv, Steps, Supported
<1>3. /\ faults' = faults /\ changes' = changes /\ command' = command /\ target' = target
      /\ report' = report /\ exit_code' = exit_code
  OBVIOUS
<1>4. PICK u : u = results'
  OBVIOUS
<1>5. Joined(results, rs, u)
  BY <1>1, <1>2, <1>4, SeqCat, Zenon
<1>6. \A step : Answer(results, step) \/ Answer(rs, step) => Answer(u, step)
  BY <1>5, Zenon DEF Joined, Answer
<1>7. /\ \A x : In(x, todo) => x = Head(todo) \/ In(x, todo')
      /\ \A k \in DOMAIN todo' : \E i \in DOMAIN todo : todo[i] = todo'[k]
  BY <1>1, <1>2, StepDone, Zenon DEF In
<1>8. command \in {"host", "all"} => Complete'
  <2> SUFFICES ASSUME command \in {"host", "all"}, NEW step \in Asked(target)
               PROVE  In(step, todo') \/ Answer(u, step)
    BY <1>3, <1>4, Zenon DEF Complete
  <2>1. In(step, todo) \/ Answer(results, step)
    BY Zenon DEF SteadyInv, Complete
  <2> QED
    BY <1>6, <1>7, <2>1, Zenon
<1>9. RouteSteps(todo', command)
  BY <1>7, Zenon DEF SteadyInv, RouteSteps
<1>10. changes = 0 => Told(u, faults, command)
  BY <1>1, <1>2, <1>4, ToldCat, Zenon DEF SteadyInv
<1> QED
  BY <1>3, <1>4, <1>8, <1>9, <1>10, Zenon DEF SteadyInv

LEMMA CachedKept ==
    ASSUME SteadyInv, UNCHANGED <<cache, faults>>
    PROVE  changes = 0 => Cached'
  BY Zenon DEF SteadyInv, Cached

LEMMA SteadyChange ==
    ASSUME SteadyInv, NEW x \in Transient, Change(x)
    PROVE  SteadyInv'
<1>1. /\ changes' = changes + 1 /\ command' = command /\ target' = target /\ todo' = todo
      /\ results' = results /\ report' = report /\ exit_code' = exit_code
  BY Zenon DEF Change
<1>2. changes' \in Nat /\ changes' # 0
  BY <1>1 DEF SteadyInv
<1>3. command' \in {"host", "all"} => Complete'
  BY <1>1, Zenon DEF SteadyInv, Complete
<1> QED
  BY <1>1, <1>2, <1>3, Zenon DEF SteadyInv

LEMMA SteadyObserve ==
    ASSUME HostInv, SteadyInv, Observe
    PROVE  SteadyInv'
<1>1. PICK step : step = Head(todo)
  OBVIOUS
<1>2. PICK rs : rs = Observation(step)
  OBVIOUS
<1>3. /\ todo # << >> /\ step[1] \in Stateless /\ Add(rs)
      /\ UNCHANGED <<faults, changes, command, target, report, exit_code>>
      /\ UNCHANGED <<cache, faults>>
  BY <1>1, <1>2, Zenon DEF Observe, Next1
<1>4. faults \subseteq ever /\ IsSeq(todo)
  BY Zenon DEF HostInv, Steps
<1>5. /\ Supported(rs, ever)
      /\ step[1] = "routing" => rs = <<inspect_routing_table(faults)>>
      /\ step[1] = "gateway" => rs = <<check_gateway_reachability(faults)>>
      /\ step[1] = "check_host" => rs = <<check_host(step[2], faults)>>
      /\ step[1] \notin {"routing", "gateway", "check_host"} => Mute(rs)
  BY <1>2, <1>3, <1>4, Observed, Zenon
<1>6. step[1] = "routing" => command \in {"host", "all"}
  <2>1. In(step, todo)
    BY <1>1, <1>3, <1>4, StepDone, Zenon
  <2> QED
    BY <2>1, Zenon DEF In, SteadyInv, RouteSteps
<1>7. Told(rs, faults, command)
  <2>1. CASE step[1] = "routing"
    BY <1>5, <1>6, <2>1, RouteTold, Zenon
  <2>2. CASE step[1] = "gateway"
    BY <1>5, <2>2, GatewayTold, Zenon
  <2>3. CASE step[1] = "check_host"
    <3>1. Told(<<check_host(step[2], faults)>>, faults, command)
      BY HostTold, Zenon
    <3> QED
      BY <1>5, <2>3, <3>1, Zenon
  <2>4. CASE step[1] \notin {"routing", "gateway", "check_host"}
    BY <1>5, <2>4, ToldMute, Zenon
  <2> QED
    BY <2>1, <2>2, <2>3, <2>4
<1>8. ASSUME step \in Asked(target) PROVE Answer(rs, step)
  <2>1. step[1] \in {"gateway", "check_host", "ping"}
    BY <1>8 DEF Asked
  <2>2. step[1] # "ping"
    BY <1>3 DEF Stateless
  <2>3. CASE step[1] = "gateway"
    <3>1. PICK r : r = check_gateway_reachability(faults) /\ r.module = "gateway"
      BY GatewayTold, Zenon
    <3>2. DOMAIN rs = {1} /\ rs[1] = r
      BY <1>5, <2>3, <3>1
    <3> QED
      BY <2>3, <3>1, <3>2, Zenon DEF Answer, Reply
  <2>4. CASE step[1] = "check_host"
    <3>1. PICK r : /\ r = check_host(step[2], faults)
                   /\ r.module = "connectivity" /\ r.target = step[2]
      BY HostTold, Zenon
    <3>2. DOMAIN rs = {1} /\ rs[1] = r
      BY <1>5, <2>4, <3>1
    <3> QED
      BY <2>4, <3>1, <3>2, Zenon DEF Answer, Reply
  <2> QED
    BY <2>1, <2>2, <2>3, <2>4
<1>9. changes = 0 => Cached'
  BY <1>3, CachedKept, Zenon
<1> QED
  BY <1>1, <1>3, <1>5, <1>7, <1>8, <1>9, SteadyAdd, Zenon

LEMMA SteadyPing ==
    ASSUME HostInv, SteadyInv, NEW expired \in BOOLEAN, Ping(expired)
    PROVE  SteadyInv'
<1> DEFINE host == Head(todo)[2]
           cached == cache[host] # NotCached /\ ~expired
           data == IF cached THEN cache[host] ELSE run_ping(host, faults)
           r == IF Head(todo)[1] = "ping" THEN ping_host(host, data)
                ELSE measure_latency(host, data)
<1>1. /\ todo # << >> /\ Head(todo)[1] \in {"ping", "latency"}
      /\ cache' = IF cached \/ data.error THEN cache ELSE [cache EXCEPT ![host] = data]
      /\ Add(<<r>>)
      /\ UNCHANGED <<faults, changes, command, target, report, exit_code>>
  BY Zenon DEF Ping, Next1
<1>2. /\ faults \subseteq ever /\ Steps(todo)
      /\ cache \in [Public -> Range(cache)]
      /\ \A h \in Public : cache[h] = NotCached \/ PingSays(cache[h], ever, Outage)
  BY Zenon DEF HostInv
<1>3. host \in Public
  BY <1>1, <1>2, StepsTail, Zenon
<1>4. Supported(<<r>>, ever)
  <2>1. PingSays(data, ever, Outage)
    BY <1>2, <1>3, PublicPing, Zenon
  <2> QED
    BY <2>1, PingEvidence, LatencyEvidence, Zenon
<1>5. changes = 0 => PingTells(data, faults)
  BY <1>3, PublicPingTells, Zenon DEF SteadyInv, Cached
<1>6. changes = 0 => Told(<<r>>, faults, command)
  BY <1>5, LossTold, LatencyEvidence, ToldMute, Zenon
<1>7. ASSUME Head(todo) \in Asked(target) PROVE Answer(<<r>>, Head(todo))
  <2>1. Head(todo)[1] = "ping"
    BY <1>1, <1>7 DEF Asked
  <2>2. r.module = "packet_loss"
    BY <2>1, Zenon DEF ping_host, Result
  <2> HIDE DEF r
  <2>3. DOMAIN <<r>> = {1} /\ <<r>>[1] = r
    OBVIOUS
  <2> QED
    BY <2>1, <2>2, <2>3, Zenon DEF Answer, Reply
<1> HIDE DEF host, cached, data, r
<1>8. changes = 0 => Cached'
  <2> SUFFICES ASSUME changes = 0 PROVE Cached'
    OBVIOUS
  <2>0. faults' = faults /\ Cached
    BY <1>1, Zenon DEF SteadyInv
  <2>1. CASE cached \/ data.error
    <3>1. cache' = cache
      BY <1>1, <2>1, Zenon
    <3> QED
      BY <2>0, <3>1, Zenon DEF Cached
  <2>2. CASE ~(cached \/ data.error)
    <3>1. cache' = [cache EXCEPT ![host] = data]
      BY <1>1, <2>2, Zenon
    <3>2. \A h \in Public : cache'[h] = IF h = host THEN data ELSE cache[h]
      BY <1>2, <1>3, <3>1
    <3>3. PingTells(data, faults)
      BY <1>5, Zenon
    <3> QED
      BY <2>0, <3>2, <3>3, Zenon DEF Cached
  <2> QED
    BY <2>1, <2>2, Zenon
<1> QED
  BY <1>1, <1>4, <1>6, <1>7, <1>8, SteadyAdd, Zenon

LEMMA SteadyCompare ==
    ASSUME HostInv, SteadyInv, compare_probe_metrics \/ detect_path_change
    PROVE  SteadyInv'
<1>1. PICK rs : Add(rs) /\ Supported(rs, ever) /\ Mute(rs)
  BY Compared, PathCompared, Zenon
<1>2. todo # << >> /\ Head(todo)[1] \in {"baselines", "path_change"}
  BY Compared, PathCompared
<1>3. UNCHANGED <<faults, changes, command, target, report, exit_code>>
      /\ UNCHANGED <<cache, faults>>
  BY Zenon DEF compare_probe_metrics, detect_path_change
<1>4. Head(todo) \notin Asked(target)
  BY <1>2 DEF Asked
<1>5. changes = 0 => Told(rs, faults, command) /\ Cached'
  BY <1>1, <1>3, ToldMute, CachedKept, Zenon
<1> QED
  BY <1>1, <1>2, <1>3, <1>4, <1>5, SteadyAdd, Zenon

LEMMA SteadyConclude ==
    ASSUME SteadyInv, NEW strict \in BOOLEAN, Conclude(strict)
    PROVE  SteadyInv'
<1>1. /\ faults' = faults /\ changes' = changes /\ command' = command /\ target' = target
      /\ todo' = todo /\ results' = results /\ cache' = cache
      /\ exit_code' = exit_from_report(report', strict)
  BY Zenon DEF Conclude
<1>2. report'.status = "failed" => exit_code' = 1
  BY <1>1, Zenon DEF exit_from_report
<1> QED
  BY <1>1, <1>2, Zenon DEF SteadyInv, Complete, Cached

LEMMA SteadyUnchanged ==
    ASSUME SteadyInv, UNCHANGED vars
    PROVE  SteadyInv'
<1>1. /\ faults' = faults /\ changes' = changes /\ command' = command /\ target' = target
      /\ todo' = todo /\ results' = results /\ cache' = cache /\ report' = report
      /\ exit_code' = exit_code
  BY Zenon DEF vars
<1> QED
  BY <1>1, Zenon DEF SteadyInv, Complete, Cached

LEMMA SteadyStep ==
    ASSUME HostInv, SteadyInv, [Next]_vars
    PROVE  SteadyInv'
  BY SteadyChange, SteadyObserve, SteadyPing, SteadyCompare, SteadyConclude, SteadyUnchanged,
     Zenon DEF Next

-----------------------------------------------------------------------------
(* The cases of an outage.                                                  *)

\* The first routing result has a gateway: there is one, and hosts were asked for.
LEMMA RouteKnown ==
    ASSUME NEW rs, NEW f, NEW cmd, IsSeq(rs), Told(rs, f, cmd), has_default_gateway(rs)
    PROVE  RouteRead(f) /\ cmd \in {"host", "all"}
<1>1. PICK i \in DOMAIN rs : rs[i].module = "routing" /\ first_by_module(rs, "routing") = rs[i]
  BY First, Zenon DEF has_default_gateway
<1>2. rs[i].m.default_gateway
  BY <1>1, Zenon DEF has_default_gateway
<1> QED
  BY <1>1, <1>2, Zenon DEF Told, Exact

\* The gateway probe tells the two sides of the gateway apart.
LEMMA GatewayKnown ==
    ASSUME NEW rs, NEW f, NEW cmd, IsSeq(rs), Told(rs, f, cmd), Has(rs, "gateway"),
           "no_tools" \notin f, RouteRead(f)
    PROVE  is_gateway_reachable(rs) = IF Speaks(f) THEN "yes" ELSE "no"
<1>1. PICK i \in DOMAIN rs : rs[i].module = "gateway" /\ first_by_module(rs, "gateway") = rs[i]
  BY First, Zenon
<1>2. PICK gw : gw = rs[i]
  OBVIOUS
<1>3. is_gateway_reachable(rs) =
        CASE gw.status = "healthy" -> "yes"
          [] gw.status = "failed" -> "no"
          [] gw.status = "degraded" ->
               IF gw.m.packet_loss_percent >= 99 THEN "no" ELSE "yes"
          [] gw.status = "unknown" -> "unknown"
  BY <1>1, <1>2, Zenon DEF is_gateway_reachable
<1>4. Exact(gw, f, cmd) /\ gw.module = "gateway"
  BY <1>1, <1>2, Zenon DEF Told
<1>5. /\ Speaks(f) => \/ gw.status = "healthy"
                      \/ gw.status = "degraded" /\ gw.m.packet_loss_percent \in 0 .. 98
      /\ ~Speaks(f) => gw.status = "failed"
  BY <1>4, Zenon DEF Exact
<1>6. CASE ~Speaks(f)
  BY <1>3, <1>5, <1>6
<1>7. CASE Speaks(f) /\ gw.status = "healthy"
  BY <1>3, <1>7
<1>8. CASE Speaks(f) /\ gw.status = "degraded" /\ gw.m.packet_loss_percent \in 0 .. 98
  BY <1>3, <1>8
<1> QED
  BY <1>5, <1>6, <1>7, <1>8

\* Beyond the gateway nothing answers: no ping and no public address.
LEMMA WanKnown ==
    ASSUME NEW rs, NEW f, NEW cmd, Told(rs, f, cmd), Has(rs, "packet_loss"),
           "no_tools" \notin f, HasRoute(f), ~WanWorks(f)
    PROVE  ~is_ip_connectivity_working(rs) /\ get_max_packet_loss(rs) >= 99
<1>1. losses(rs) = {100}
  <2>1. \A i \in DOMAIN rs : rs[i].module = "packet_loss" => rs[i].m.packet_loss_percent = 100
    BY Zenon DEF Told, Exact
  <2>2. PICK i \in DOMAIN rs : rs[i].module = "packet_loss"
    BY Zenon DEF Has, Places
  <2>3. 100 # NoValue
    BY DEF NoValue
  <2>4. rs[i].m \in Metrics(rs, "packet_loss") /\ rs[i].m.packet_loss_percent = 100
    <3>1. rs[i].m \in Metrics(rs, "packet_loss")
      BY <2>2, Zenon DEF Metrics, ResultsOf, Places
    <3> QED
      BY <2>1, <2>2, <3>1, Zenon
  <2>5. ASSUME NEW m \in Metrics(rs, "packet_loss") PROVE m.packet_loss_percent = 100
    <3>1. PICK j \in DOMAIN rs : rs[j].module = "packet_loss" /\ m = rs[j].m
      BY Zenon DEF Metrics, ResultsOf, Places
    <3> QED
      BY <2>1, <3>1, Zenon
  <2> QED
    BY <2>3, <2>4, <2>5 DEF losses, Values
<1>2. ~is_ip_connectivity_working(rs)
  <2>1. ASSUME NEW r \in ResultsOf(rs, "connectivity"), r.target \in Public
        PROVE  r.status # "healthy"
    <3>1. PICK i \in DOMAIN rs : rs[i].module = "connectivity" /\ r = rs[i]
      BY Zenon DEF ResultsOf, Places
    <3>2. ~Reachable(r.target, f)
      BY Zenon DEF Reachable
    <3>3. r.status = "failed"
      BY <3>1, <3>2, Zenon DEF Told, Exact
    <3> QED
      BY <3>3
  <2>2. ~(100 < 100)
    OBVIOUS
  <2>3. \A loss \in losses(rs) : ~(loss < 100)
    BY <1>1, <2>2, Zenon
  <2> QED
    BY <2>1, <2>3, Zenon DEF is_ip_connectivity_working
<1>3. get_max_packet_loss(rs) = 100
  <2>1. get_max_packet_loss(rs) = Max({100} \cup {0})
    BY <1>1, Zenon DEF get_max_packet_loss
  <2>2. Max({100} \cup {0}) = 100
    BY DEF Max
  <2> QED
    BY <2>1, <2>2
<1> QED
  BY <1>2, <1>3

LEMMA OutageReported ==
    ASSUME NEW rs, NEW f, NEW cmd, NEW host, IsSeq(rs), Told(rs, f, cmd),
           cmd \in {"host", "all"} => \A step \in Asked(host) : Answer(rs, step),
           "no_tools" \notin f, ~Reachable(host, f)
    PROVE  analyze(rs).status = "failed"
<1>1. CASE all_interfaces_down(rs)
  BY <1>1, AlarmInterfaces, Zenon
<1>2. CASE ~all_interfaces_down(rs) /\ ~has_default_gateway(rs)
  BY <1>2, AlarmRoute, Zenon
<1>3. CASE ~all_interfaces_down(rs) /\ has_default_gateway(rs)
  <2>1. RouteRead(f) /\ cmd \in {"host", "all"}
    BY <1>3, RouteKnown, Zenon
  <2>2. /\ Has(rs, "gateway") /\ Has(rs, "packet_loss")
        /\ \A h \in {"1.1.1.1", host} :
              \E i \in DOMAIN rs : rs[i].module = "connectivity" /\ rs[i].target = h
    <3>1. \A step \in Asked(host) : \E i \in DOMAIN rs : Reply(rs[i], step)
      BY <2>1, Zenon DEF Answer
    <3>2. PICK i \in DOMAIN rs : Reply(rs[i], <<"gateway">>)
      BY <3>1, Zenon DEF Asked
    <3>3. PICK j \in DOMAIN rs : Reply(rs[j], <<"ping", "1.1.1.1">>)
      BY <3>1, Zenon DEF Asked
    <3>4. ASSUME NEW h \in {"1.1.1.1", host}
          PROVE  \E k \in DOMAIN rs : rs[k].module = "connectivity" /\ rs[k].target = h
      <4>1. PICK k \in DOMAIN rs : Reply(rs[k], <<"check_host", h>>)
        BY <3>1, Zenon DEF Asked
      <4>2. rs[k].module = "connectivity" /\ rs[k].target = h
        BY <4>1 DEF Reply
      <4> QED
        BY <4>2, Zenon
    <3>5. rs[i].module = "gateway" /\ rs[j].module = "packet_loss"
      BY <3>2, <3>3 DEF Reply
    <3> QED
      BY <3>4, <3>5 DEF Has, Places
  <2>3. is_gateway_reachable(rs) = IF Speaks(f) THEN "yes" ELSE "no"
    BY <2>1, <2>2, GatewayKnown, Zenon
  <2>4. HasRoute(f)
    BY <2>1, Zenon DEF RouteRead
  <2>5. CASE ~Speaks(f)
    BY <1>3, <2>3, <2>5, AlarmGateway, Zenon
  <2>6. CASE Speaks(f) /\ ~WanWorks(f)
    BY <1>3, <2>2, <2>3, <2>6, <2>4, WanKnown, AlarmWan, Zenon
  <2>7. CASE WanWorks(f)
    <3>1. \A h : h \in Public => Reachable(h, f)
      BY <2>7, Zenon DEF Reachable
    <3>2. "1.1.1.1" \in Public
      BY DEF Public
    <3>3. PICK i \in DOMAIN rs : rs[i].module = "connectivity" /\ rs[i].target = "1.1.1.1"
      BY <2>2, Zenon
    <3>4. PICK j \in DOMAIN rs : rs[j].module = "connectivity" /\ rs[j].target = host
      BY <2>2, Zenon
    <3>5. rs[i].status = "healthy"
      BY <3>1, <3>2, <3>3, Zenon DEF Told, Exact
    <3>6. rs[j].status = "failed"
      BY <3>4, Zenon DEF Told, Exact
    <3>7. rs[i] \in ResultsOf(rs, "connectivity") /\ rs[j] \in ResultsOf(rs, "connectivity")
      BY <3>3, <3>4, Zenon DEF ResultsOf, Places
    <3> QED
      BY <3>2, <3>3, <3>5, <3>6, <3>7, AlarmTarget, Zenon
  <2> QED
    BY <2>5, <2>6, <2>7, Zenon
<1> QED
  BY <1>1, <1>2, <1>3, Zenon

LEMMA OutageNotMissedNow ==
    ASSUME HostInv, SteadyInv
    PROVE  OutageNotMissed
<1> SUFFICES ASSUME Done, changes = 0, ~Reachable(target, faults), "no_tools" \notin faults
             PROVE  report.status = "failed" /\ exit_code = 1
  BY Zenon DEF OutageNotMissed, Steady
<1>1. report # NoReport /\ report = analyze(results) /\ todo = << >> /\ IsSeq(results)
  BY Zenon DEF HostInv, Done, Supported
<1>2. Told(results, faults, command)
  BY Zenon DEF SteadyInv
<1>3. command \in {"host", "all"} => \A step \in Asked(target) : Answer(results, step)
  <2>1. DOMAIN todo = {}
    BY <1>1
  <2>2. \A step : ~In(step, todo)
    BY <2>1, Zenon DEF In
  <2> QED
    BY <2>2, Zenon DEF SteadyInv, Complete
<1>4. analyze(results).status = "failed"
  BY <1>1, <1>2, <1>3, OutageReported, Zenon
<1> QED
  BY <1>1, <1>4, Zenon DEF SteadyInv

-----------------------------------------------------------------------------
(* The theorems.                                                            *)

\* An issue that the engine drops is explained by one that the report still
\* has: the suppressors of a suppressed suppressor cover what that one dropped.
\* This holds for every command, target and set of faults, however often the
\* network changes while the probes run (engine.py, suppressed_ids).
THEOREM SuppressionSoundAlways == Spec => []SuppressionSound
<1>1. Init => HostInv
  BY InitHostInv, Zenon
<1>2. HostInv /\ [Next]_vars => HostInv'
  BY StepInv, Zenon
<1>3. HostInv => SuppressionSound
  BY SuppressionSoundNow, Zenon
<1> QED
  BY <1>1, <1>2, <1>3, PTL DEF Spec

\* diagnose host and diagnose all report a critical issue only when its cause,
\* or the misreading of that cause, was there at some time of the run: that the
\* probes look at the network one after the other, read the routing table twice
\* and may take a ping from the cache adds no other way to one
\* (gateway_rules.py, link_rules.py, context.py, icmp_utils.py).
THEOREM CriticalExplainedAlways ==
    Spec => [](command \in {"host", "all"} => CriticalExplained)
<1> DEFINE Route == command \in {"host", "all"} => RouteInv
<1>1. Init => HostInv /\ Route
  BY InitHostInv, Zenon
<1>2. HostInv /\ Route /\ [Next]_vars => HostInv' /\ Route'
  BY StepInv, CommandKept, Zenon
<1>3. HostInv /\ Route => (command \in {"host", "all"} => CriticalExplained)
  BY CriticalExplainedNow, Zenon
<1> HIDE DEF Route
<1> QED
  BY <1>1, <1>2, <1>3, PTL DEF Spec

\* When the target cannot be reached from the start to the end of a command, its
\* report is failed and its exit code 1: of the rules that see the outage one
\* always reports an issue that is severe enough and that no other suppresses.
\* It holds for every command, target and set of faults under which ping runs
\* (engine.py, analyze; cli.py, exit_from_report).
THEOREM OutageNotMissedAlways == Spec => []OutageNotMissed
<1>1. Init => HostInv /\ SteadyInv
  BY InitHostInv, InitSteady, Zenon
<1>2. HostInv /\ SteadyInv /\ [Next]_vars => HostInv' /\ SteadyInv'
  BY StepInv, SteadyStep, Zenon
<1>3. HostInv /\ SteadyInv => OutageNotMissed
  BY OutageNotMissedNow, Zenon
<1> QED
  BY <1>1, <1>2, <1>3, PTL DEF Spec

=============================================================================
