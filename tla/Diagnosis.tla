------------------------------- MODULE Diagnosis -------------------------------
(***************************************************************************)
(* One multi-vantage diagnosis: diagnose_service of controller/service.py,  *)
(* with the thread pool of AgentDispatcher.fanout and the agents that       *)
(* answer it, against a network whose true faults are known to the model.   *)
(*                                                                         *)
(* The network is external: a target, and an access link for every agent.   *)
(* The destination's link carries everybody else's probes too.  It may      *)
(* change before the probes go out and while they are out.                  *)
(***************************************************************************)
EXTENDS MultiVantage

CONSTANTS
    Nodes,          \* agent nodes of the topology
    Agents,
    AgentOf,        \* the agent bound to each node
    Dests,          \* where the service may be: its node_id, or None
    Requests,       \* source_node_id of the request, or None
    Neighbours,     \* the nodes adjacent to each node
    Kinds,          \* the probe types asked for
    Qualities,      \* confidences of observations, in percent
    PoolSize,       \* max_workers of the dispatcher (8)
    MaxChanges,     \* bound: changes of the network
    MaxErrors       \* bound: probes that raise or prove nothing

Condition == {"up", "lossy", "down"}

\* The probes that try to reach the target itself.
Reaching == {"icmp", "tcp"}

ASSUME DiagnosisAssumption ==
    /\ Nodes \subseteq Nat
    /\ AgentOf \in [Nodes -> Agents]
    /\ Dests \subseteq Nodes \cup {None}
    /\ Requests \subseteq Nodes \cup {None}
    /\ Neighbours \in [Nodes -> SUBSET Nodes]
    /\ Kinds \subseteq Reaching \cup {"dns", "traceroute"}
    /\ Qualities \subseteq Percent /\ Qualities # {}
    /\ PoolSize \in Nat \ {0}
    /\ MaxChanges \in Nat /\ MaxErrors \in Nat

VARIABLES
    registered,     \* agents in the registry, all enabled
    target,         \* condition of the target
    link,           \* condition of each agent's access link
    changes,        \* changes of the network so far
    worlds,         \* the <<target, link>> that an answer may tell of
    phase,          \* "idle", "fanout", "done" or "raised"
    dest,           \* the service's node_id, or None
    plan,           \* select_vantages: role -> node
    probe,          \* probe_type, the same for every vantage
    queued, running,\* futures of the pool, by role
    answers,        \* fanout's observations: agent -> observation
    refused,        \* fanout's errors: agents
    trouble,        \* probes that raised or proved nothing so far
    unresolved,     \* agents whose TCP test failed before it connected
    observed,       \* the observations localize_fault was given
    report          \* its report, or None

network == <<target, link, changes, worlds>>
pool    == <<queued, running, answers, refused>>
errors  == <<trouble, unresolved>>
outcome == <<observed, report>>
vars == <<registered, network, phase, dest, plan, probe, pool, errors, outcome>>

Init ==
    /\ registered = {}
    /\ target = "up" /\ link = [a \in Agents |-> "up"] /\ changes = 0
    /\ worlds = {<<target, link>>}
    /\ phase = "idle" /\ dest = None /\ plan = NoRows /\ probe = None
    /\ queued = {} /\ running = {} /\ answers = NoRows /\ refused = {}
    /\ trouble = 0 /\ unresolved = {}
    /\ observed = NoRows /\ report = None

-----------------------------------------------------------------------------
(* The network.                                                             *)

ChangeTarget(c) ==
    /\ changes < MaxChanges
    /\ c # target
    /\ changes' = changes + 1
    /\ target' = c
    /\ worlds' = worlds \cup {<<c, link>>}
    /\ UNCHANGED <<registered, link, phase, dest, plan, probe, pool, errors,
                   outcome>>

ChangeLink(a, c) ==
    /\ changes < MaxChanges
    /\ c # link[a]
    /\ changes' = changes + 1
    /\ link' = [link EXCEPT ![a] = c]
    /\ worlds' = worlds \cup {<<target, link'>>}
    /\ UNCHANGED <<registered, target, phase, dest, plan, probe, pool, errors,
                   outcome>>

\* What a probe of agent a meets on its way in world w: the target alone for
\* the agent on the target's own node.
OnTheWay(w, a) ==
    IF dest # None /\ AgentOf[dest] = a THEN {w[1]}
    ELSE {w[1], w[2][a]} \cup (IF dest = None THEN {}
                                             ELSE {w[2][AgentOf[dest]]})

-----------------------------------------------------------------------------
(* The agent.                                                               *)

\* The default count is 3, so that one lost reply is a loss of 33%; with up
\* to 20 pings a lossy way may come out in any class.
PingHost(way) ==
    {s \in {"healthy", "degraded", "failed"} :
        /\ "down" \in way => s = "failed"
        /\ way = {"up"} => s = "healthy"}

\* The handshake is completed within the timeout or it is not.
TestTcp(way) ==
    {s \in {"healthy", "failed"} :
        /\ "down" \in way => s = "failed"
        /\ way = {"up"} => s = "healthy"}

\* The resolver is asked, and nothing is sent to the target.
ResolveHostname == {"healthy", "failed"}

\* The hops on the way may be silent, whatever becomes of the probes.
TracerouteToResult == {"healthy", "degraded", "failed"}

ProbeStatus(w, a) ==
    CASE probe = "icmp"       -> PingHost(OnTheWay(w, a))
      [] probe = "tcp"        -> TestTcp(OnTheWay(w, a))
      [] probe = "dns"        -> ResolveHostname
      [] probe = "traceroute" -> TracerouteToResult

\* run_ping answers from its cache when it asked the same lately.
Sensed == IF probe = "icmp" THEN worlds ELSE {<<target, link>>}

\* The agent could not measure: ping or traceroute cannot be run, or the
\* target's name is not resolved, which test_tcp reports as a failure.
Unmeasured ==
    CASE probe \in {"icmp", "traceroute"} -> {"unknown"}
      [] probe = "tcp"                    -> {"failed"}
      [] OTHER                            -> {}

-----------------------------------------------------------------------------
(* The controller.                                                          *)

\* register_agent: registration enables the agent; nothing removes one.  A
\* diagnosis under way keeps the agents it was planned with.
Register(a) ==
    /\ phase = "idle"
    /\ registered' = registered \cup {a}
    /\ UNCHANGED <<network, phase, dest, plan, probe, pool, errors,
                   outcome>>

\* correlate_agents and _eligible_nodes.
Eligible == {n \in Nodes : AgentOf[n] \in registered}

\* diagnose_service up to the fan-out; without a vantage it raises
\* NoVantageAgentsError.  A ping that an agent still has in its cache tells of
\* the network as it was before.
Plan(d, requested, kind) ==
    /\ phase = "idle"
    /\ dest' = d
    /\ probe' = kind
    /\ plan' = SelectVantages(Eligible, d, requested,
                              IF d = None THEN {} ELSE Neighbours[d])
    /\ phase' = IF DOMAIN plan' = {} THEN "raised" ELSE "fanout"
    /\ \/ worlds' = {<<target, link>>}
       \/ kind = "icmp" /\ UNCHANGED worlds
    /\ queued' = DOMAIN plan'
    /\ UNCHANGED <<registered, target, link, changes, running, answers,
                   refused, errors, outcome>>

\* A worker of the pool takes the next future, in submission order.
Start(role) ==
    /\ role \in queued
    /\ role = "source" => "destination" \notin queued
    /\ role = "third" => queued = {"third"}
    /\ Cardinality(running) < PoolSize
    /\ queued' = queued \ {role}
    /\ running' = running \cup {role}
    /\ UNCHANGED <<registered, network, phase, dest, plan, probe, answers,
                   refused, errors, outcome>>

\* The agent answers with one observation, which is stored under its id.
Answer(role, quality) ==
    LET a == AgentOf[plan[role]]
        Stored(s) == Put(answers, a, [status |-> s, confidence |-> quality])
    IN /\ role \in running
       /\ running' = running \ {role}
       /\ \/ /\ \E w \in Sensed : \E s \in ProbeStatus(w, a) :
                    answers' = Stored(s)
             /\ unresolved' = unresolved \ {a}
             /\ UNCHANGED trouble
          \/ /\ trouble < MaxErrors
             /\ trouble' = trouble + 1
             /\ \E s \in Unmeasured :
                    /\ answers' = Stored(s)
                    /\ unresolved' = IF s = "failed" THEN unresolved \cup {a}
                                     ELSE unresolved \ {a}
       /\ UNCHANGED <<registered, network, phase, dest, plan, probe, queued,
                      refused, outcome>>

\* The agent is unreachable, times out or refuses.
Refuse(role) ==
    /\ role \in running
    /\ trouble < MaxErrors
    /\ trouble' = trouble + 1
    /\ running' = running \ {role}
    /\ refused' = refused \cup {AgentOf[plan[role]]}
    /\ UNCHANGED <<registered, network, phase, dest, plan, probe, queued,
                   answers, unresolved, outcome>>

\* All futures are done: the answers are given their roles, localized, saved.
Conclude ==
    /\ phase = "fanout"
    /\ queued = {} /\ running = {}
    /\ phase' = "done"
    /\ observed' = [role \in {r \in DOMAIN plan :
                                AgentOf[plan[r]] \in DOMAIN answers} |->
                        answers[AgentOf[plan[role]]]]
    /\ \E r \in LocalizeFault(observed') : report' = r
    /\ UNCHANGED <<registered, network, dest, plan, probe, pool, errors>>

-----------------------------------------------------------------------------
Next ==
    \/ \E c \in Condition : ChangeTarget(c)
    \/ \E a \in Agents, c \in Condition : ChangeLink(a, c)
    \/ \E a \in Agents \ registered : Register(a)
    \/ \E d \in Dests, requested \in Requests, kind \in Kinds :
            Plan(d, requested, kind)
    \/ \E role \in Roles : Start(role)
    \/ \E role \in Roles, q \in Qualities : Answer(role, q)
    \/ \E role \in Roles : Refuse(role)
    \/ Conclude

Spec == Init /\ [][Next]_vars

-----------------------------------------------------------------------------
Done == phase = "done"

\* The diagnosis is over, and its probes went to the target.
Probed == Done /\ probe \in Reaching

Ever(P(_, _)) == \E w \in worlds : P(w[1], w[2])

\* With an observation from the target's own host, the target is blamed only
\* if something was wrong with it at some time the answers may tell of, or its
\* host could not even begin the TCP test.
TargetBlamed ==
    /\ Probed
    /\ report.localization = "target_side"
    /\ "destination" \in DOMAIN observed
    => \/ Ever(LAMBDA t, l : t # "up")
       \/ AgentOf[dest] \in unresolved

\* Everything was up all the time, and every TCP test was begun: nobody is
\* blamed, whoever failed to answer or to measure.
NoFalseAlarm ==
    /\ Probed /\ unresolved = {}
    /\ worlds = {<<"up", [a \in Agents |-> "up"]>>}
    => report.localization \in {"healthy", "inconclusive"}

Vantage(r) == AgentOf[plan[r]]

Broken(w) == {a \in Agents : w[2][a] # "up"}

Named == [destination |-> "path_shared", source |-> "source_side",
          third |-> "vantage_isolated"]

\* One thing was out of order throughout, and three different agents measured:
\* what is down is named.  What loses packets may go unnoticed, but the target
\* is not blamed for it, nor a vantage for another's link.
SingleFaultFound ==
    \A w \in worlds :
        /\ Probed
        /\ worlds = {w} /\ unresolved = {}
        /\ DOMAIN observed = Roles /\ With(observed, "unknown") = {}
        /\ \A r, q \in Roles : Vantage(r) = Vantage(q) => r = q
        => /\ w[1] = "down" => report.localization = "target_side"
           /\ w[1] = "up" => \A r \in Roles :
                Broken(w) = {Vantage(r)} =>
                    /\ report.localization # "target_side"
                    /\ w[2][Vantage(r)] = "down" =>
                            report.localization = Named[r]
                    /\ r # "destination" =>
                            report.localization \in {"healthy", Named[r]}
=============================================================================
