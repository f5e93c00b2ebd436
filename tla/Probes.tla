------------------------------ MODULE Probes ------------------------------
(***************************************************************************)
(* What the probes of diagnostics/ report of a network with a set f of     *)
(* faults.  The first part is the world (external: routes, routers,        *)
(* resolver and peers as the probes see them); the second translates each  *)
(* probe function: its thresholds, its status and the metrics it fills in. *)
(***************************************************************************)
EXTENDS Integers, Sequences, RuleEngine

CONSTANTS
    NamedLoopback       \* the loopback's name contains "loopback" (Windows, not Linux)

ASSUME NamedLoopbackAssumption == NamedLoopback \in BOOLEAN

HasRoute(f) == f \cap {"link_down", "no_route"} = {}
LanWorks(f) == HasRoute(f) /\ "gateway_down" \notin f
WanWorks(f) == LanWorks(f) /\ "wan_down" \notin f
Resolves(f) == WanWorks(f) /\ "dns_down" \notin f

\* A literal address needs no resolver, and a public one does not go down alone.
Known(host, f) == host \in Public \/ Resolves(f)
Reachable(host, f) == WanWorks(f) /\ (host \notin Public => Resolves(f) /\ "target_down" \notin f)

\* A gateway may forward and yet send no ICMP of its own.
Speaks(f) == LanWorks(f) /\ "gateway_mute" \notin f

\* The routing command runs, and prints the default route with its "via".
RouteRead(f) == HasRoute(f) /\ f \cap {"route_unseen", "unknown_os"} = {}

\* An echo to the gateway or to a public address, before it is parsed.
Answered(host, f) == IF host = "gateway" THEN Speaks(f) ELSE WanWorks(f)

EchoLoss(host, f) ==
    IF ~Answered(host, f) THEN 100
    ELSE IF "lan_lossy" \in f THEN 25
    ELSE IF "wan_lossy" \in f /\ host # "gateway" THEN 40 ELSE 0

EchoTime(host, f) ==
    IF host = "gateway" THEN 2 ELSE IF "wan_slow" \in f THEN 300 ELSE 20

\* The hops of a trace: how many of the three probes each one answers.
HopReplies(host, f) ==
    IF ~HasRoute(f) \/ ~Known(host, f) THEN << >>
    ELSE <<IF Speaks(f) THEN 3 ELSE 0,
           IF ~WanWorks(f) THEN 0 ELSE IF "hop_mute" \in f THEN 1 ELSE 3,
           IF ~Reachable(host, f) THEN 0 ELSE IF "core_lossy" \in f THEN 1 ELSE 3>>

-----------------------------------------------------------------------------
Result(module, target, status, m) ==
    [module |-> module, target |-> target, status |-> status, m |-> m]

NoMetrics == [none |-> NoValue]

(* diagnostics/host/icmp_utils: without a route, ping prints no percentage *)

PingData(error, loss, sampled, avg, jitter) ==
    [error |-> error, loss |-> loss, sampled |-> sampled, avg_ms |-> avg, jitter_ms |-> jitter]

run_ping(host, f) ==
    LET loss == EchoLoss(host, f)
    IN  CASE "no_tools" \in f -> PingData(TRUE, NoValue, FALSE, 0, 0)
          [] "no_tools" \notin f /\ ~HasRoute(f) -> PingData(FALSE, NoValue, FALSE, 0, 0)
          [] "no_tools" \notin f /\ HasRoute(f) /\ loss = 100 -> PingData(FALSE, 100, FALSE, 0, 0)
          [] OTHER -> PingData(FALSE, loss, TRUE, EchoTime(host, f),
                               IF "jittery" \in f THEN 50 ELSE 2)

ping_host(host, data) ==
    Result("packet_loss", host,
           CASE data.error \/ data.loss = NoValue -> "unknown"
             [] data.loss = 0 -> "healthy"
             [] data.loss \in 1 .. 19 -> "degraded"
             [] OTHER -> "failed",
           [packet_loss_percent |-> data.loss])

measure_latency(host, data) ==
    Result("latency", host,
           CASE data.error -> "unknown"
             [] ~data.error /\ ~data.sampled -> IF data.loss = 100 THEN "failed" ELSE "unknown"
             [] OTHER -> IF data.avg_ms < 250 THEN "healthy" ELSE "degraded",
           IF data.sampled THEN [avg_ms |-> data.avg_ms, jitter_ms |-> data.jitter_ms]
           ELSE [avg_ms |-> NoValue, jitter_ms |-> NoValue])

\* Without a gateway, because there is none or the command failed, ran too
\* long or is not known for this system, the metric is missing or None.
inspect_routing_table(f) ==
    Result("routing", "none",
           CASE "unknown_os" \in f -> "unknown"
             [] RouteRead(f) -> "healthy"
             [] OTHER -> "failed",
           [default_gateway |-> RouteRead(f)])

\* It reads the routing table again, after inspect_routing_table did.
check_gateway_reachability(f) ==
    LET gateway == inspect_routing_table(f).m.default_gateway
        data == run_ping("gateway", f)
        unprobed == [packet_loss_percent |-> NoValue, avg_ms |-> NoValue, jitter_ms |-> NoValue]
    IN  CASE ~gateway -> Result("gateway", "none", "failed", unprobed)
          [] gateway /\ data.loss = NoValue -> Result("gateway", "gateway", "unknown", unprobed)
          [] OTHER ->
               Result("gateway", "gateway",
                      CASE data.loss >= 99 -> "failed"
                        [] data.loss \in 1 .. 98 -> "degraded"
                        [] data.loss = 0 -> "healthy",
                      [packet_loss_percent |-> data.loss, avg_ms |-> data.avg_ms,
                       jitter_ms |-> data.jitter_ms])

check_host(host, f) ==
    Result("connectivity", host,
           IF Reachable(host, f) THEN "healthy" ELSE "failed", NoMetrics)

inspect_interfaces(f) ==
    LET up == "link_down" \notin f
    IN  <<Result("interface", "loopback", "healthy",
                 [is_up |-> TRUE, named_loopback |-> NamedLoopback]),
          Result("interface", "eth", IF up THEN "healthy" ELSE "failed",
                 [is_up |-> up, named_loopback |-> FALSE])>>

\* getaddrinfo's messages never say "timeout"; the servers are read from a file.
resolve_hostname(host, f) ==
    Result("dns", host, IF Known(host, f) THEN "healthy" ELSE "failed",
           [resolution_time_ms |-> CASE ~Known(host, f) -> NoValue
                                     [] Known(host, f) /\ "dns_slow" \in f
                                        /\ host \notin Public -> 400
                                     [] OTHER -> 20,
            dns_servers |-> "no_resolver" \notin f,
            says_timeout |-> FALSE])

test_tcp(port, f) ==
    Result("tcp", "1.1.1.1",
           IF WanWorks(f) /\ ~("port_filtered" \in f /\ port = 80) THEN "healthy" ELSE "failed",
           [port |-> port])

test_udp(f) == Result("udp", "1.1.1.1", IF WanWorks(f) THEN "healthy" ELSE "failed", [port |-> 53])

NicDrops(f) == IF "nic_drops" \in f THEN 20 ELSE 0

inspect_resources_and_activity(f) ==
    LET cpu == IF "cpu_high" \in f THEN 96 ELSE 20
        drops == NicDrops(f)
        memory == 50
    IN  <<Result("resource_network", "none",
                 CASE drops > 0 -> "degraded"
                   [] drops = 0 /\ (cpu >= 95 \/ memory >= 95) -> "failed"
                   [] drops = 0 /\ cpu < 95 /\ memory < 95 /\ (cpu >= 85 \/ memory >= 90) -> "degraded"
                   [] OTHER -> "healthy",
                 [cpu_percent |-> cpu, memory_percent |-> memory,
                  active_errors_per_sec |-> 0, active_drops_per_sec |-> drops]),
          Result("network_activity", "none", "healthy", NoMetrics)>>

(* diagnostics/link                                                        *)

measure_link_utilization(f) ==
    LET util == IF "link_full" \in f THEN 95 ELSE 10
    IN  IF "link_down" \in f THEN << >>
        ELSE <<Result("link_utilization", "eth", IF util >= 75 THEN "degraded" ELSE "healthy",
                      [util_percent |-> util])>>

measure_link_errors(f) ==
    LET drops == NicDrops(f)
    IN  <<Result("link_errors", "eth",
                 CASE drops >= 50 -> "failed"
                   [] drops \in 5 .. 49 -> "degraded"
                   [] OTHER -> "healthy",
                 [drops_per_sec |-> drops, errors_per_sec |-> 0])>>

congestion_score(util, drops, errors) ==
    Min({100, (CASE util >= 90 -> 45 [] util \in 75 .. 89 -> 30
                 [] util \in 60 .. 74 -> 15 [] OTHER -> 0)
            + (CASE drops >= 50 -> 30 [] drops \in 5 .. 49 -> 15 [] OTHER -> 0)
            + (CASE errors >= 50 -> 15 [] errors \in 5 .. 49 -> 8 [] OTHER -> 0)})

congestion_state(score) ==
    CASE score < 20 -> "clear" [] score \in 20 .. 44 -> "mild"
      [] score \in 45 .. 69 -> "moderate" [] OTHER -> "severe"

\* An empty list of utilizations is measured again before it is used.
measure_link_congestion(util_results, error_results, f) ==
    LET utils == IF util_results = << >> THEN measure_link_utilization(f) ELSE util_results
        errors == error_results[1].m
        congestion(u) ==
            LET score == congestion_score(u.m.util_percent, errors.drops_per_sec,
                                          errors.errors_per_sec)
                state == congestion_state(score)
            IN  Result("link_congestion", u.target,
                       CASE state = "severe" -> "failed"
                         [] state \in {"moderate", "mild"} -> "degraded"
                         [] state = "clear" -> "healthy",
                       [congestion_score |-> score])
    IN  [i \in DOMAIN utils |-> congestion(utils[i])]

(* diagnostics/path                                                        *)

Hop(replies, i, f) ==
    [address |-> replies[i] > 0,
     loss_percent |-> ((3 - replies[i]) * 100) \div 3,
     avg_rtt_ms |-> IF replies[i] = 0 THEN 0
                    ELSE IF i = 3 /\ f \cap {"wan_slow", "core_lossy"} # {} THEN 300 ELSE 10 * i]

run_traceroute(host, f) ==
    LET replies == HopReplies(host, f)
    IN  [i \in DOMAIN replies |-> Hop(replies, i, f)]

\* The addresses in order, and which route they are of; "*" for a silent hop.
path_fingerprint(hops, f) ==
    <<IF "path_moved" \in f THEN 2 ELSE 1, [i \in DOMAIN hops |-> hops[i].address]>>

NoPath == << >>

traceroute_to_result(host, f) ==
    LET hops == run_traceroute(host, f)
        high_loss_hops == {i \in DOMAIN hops : hops[i].loss_percent >= 50}
        none == [hops |-> << >>, path_fingerprint |-> NoPath]
    IN  CASE "no_tools" \in f -> Result("traceroute", host, "unknown", none)
          [] "no_tools" \notin f /\ hops = << >> -> Result("traceroute", host, "failed", none)
          [] OTHER ->
               Result("traceroute", host,
                      IF high_loss_hops # {} THEN "degraded" ELSE "healthy",
                      [hops |-> hops, path_fingerprint |-> path_fingerprint(hops, f)])

=============================================================================
