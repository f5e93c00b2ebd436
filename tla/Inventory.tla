----------------------------- MODULE Inventory -----------------------------
(***************************************************************************)
(* Topologies, services and host-to-port bindings of the controller.       *)
(* Request threads import a graph, correlate device telemetry with it,     *)
(* augment it with the stored bindings and register services against it.   *)
(* Every store call is a transaction of its own, so what a request read    *)
(* may be stale when it writes; a call may fail and the process restart.   *)
(*                                                                         *)
(* A node stands for all its identities (id, label, address, MAC tags); of *)
(* an edge's tags only the switch port is kept.                            *)
(***************************************************************************)
EXTENDS Integers, Sequences, SequencesExt

CONSTANTS
    Names,              \* topology names
    Nodes,              \* node ids
    Ports,              \* switch ports
    ServiceIds,
    Threads,            \* request threads of the HTTP server
    None,               \* an absent name, node, port or graph
    Documents,          \* graphs that are posted, valid or not
    Captures,           \* sequences of LLDP and MAC-table entries that are posted
    Inventories,        \* service inventories that are posted
    MaxImports,         \* bound: imports
    MaxFailures         \* bound: failing transactions and restarts

Edge == [src : Nodes, dst : Nodes, port : Ports \cup {None}]

\* hosts: the nodes of role host, agent or service, or with an agent_id.
Graph == [nodes : SUBSET Nodes, hosts : SUBSET Nodes, edges : SUBSET Edge]

Method == {"lldp", "mac_table", "lldp_and_mac"}

HostPortBinding == [host : Nodes, switch : Nodes, port : Ports, method : Method]

\* who: the nodes that the reported neighbour or address is an identity of.
Entry == [source : {"lldp", "mac"}, switch : Nodes, who : SUBSET Nodes, port : Ports]

Item == [service : ServiceIds, node : Nodes \cup {None}]

\* ServiceInventory.validate_unique_ids.
validate_unique_ids(I) == \A i, j \in I : i.service = j.service => i = j

ASSUME NoneAssumption == None \notin Names \cup Nodes \cup Ports \cup Graph
ASSUME DocumentsAssumption == Documents \subseteq Graph
ASSUME CapturesAssumption == Captures \subseteq Seq(Entry)
ASSUME InventoriesAssumption == \A I \in Inventories : I \subseteq Item /\ I # {} /\ validate_unique_ids(I)
ASSUME BoundsAssumption == MaxImports \in Nat /\ MaxFailures \in Nat

VARIABLES
    topology,           \* table topology: name -> graph, None without a row
    bindings,           \* table bindings: name -> set of HostPortBinding
    services,           \* table services: service_id -> its node, None without one
    pc,                 \* where each request thread is
    name,               \* the topology that the request works on
    graph,              \* the copy of it that the request has read
    todo,               \* bindings to be stored, or services to be upserted
    imports,            \* imports so far
    failures,           \* failing transactions and restarts so far
    stale,              \* ghost: threads whose copy another request has outdated
    pinned              \* ghost: services checked against a name, not outdated since

vars == <<topology, bindings, services, pc, name, graph, todo, imports, failures, stale, pinned>>

-----------------------------------------------------------------------------
(* Graphs                                                                  *)

\* Mutant: only the far end of an edge is checked.
validate_graphTarget(g) ==
    /\ g.hosts \subseteq g.nodes
    /\ \A e \in g.edges : e.src # e.dst /\ e.dst \in g.nodes

\* NetworkTopology.validate_graph and TopologyEdge.reject_self_loop.
validate_graph(g) ==
    /\ g.hosts \subseteq g.nodes
    /\ \A e \in g.edges : e.src # e.dst /\ e.src \in g.nodes /\ e.dst \in g.nodes

\* Where a source reports a host on a switch.
Reports(capture, source, h, s) ==
    {i \in DOMAIN capture :
        capture[i].source = source /\ capture[i].switch = s /\ h \in capture[i].who}

\* The last report of a source counts; LLDP names the port when both report.
Fuse(capture, h, s) ==
    LET lldp == Reports(capture, "lldp", h, s)
        mac == Reports(capture, "mac", h, s)
    IN  [host |-> h, switch |-> s,
         port |-> capture[Max(IF lldp # {} THEN lldp ELSE mac)].port,
         method |-> IF lldp # {} /\ mac # {} THEN "lldp_and_mac"
                    ELSE IF lldp # {} THEN "lldp" ELSE "mac_table"]

\* The hosts and switches that some entry brings together.
Pairs(H, capture) ==
    {p \in H \X Nodes : \E source \in {"lldp", "mac"} : Reports(capture, source, p[1], p[2]) # {}}

\* Mutant: hosts are taken from the telemetry, whether the graph has them or not.
correlate_host_portsAny(g, capture) ==
    {Fuse(capture, p[1], p[2]) : p \in Pairs(Nodes, capture)}

correlate_host_ports(g, capture) ==
    {Fuse(capture, p[1], p[2]) : p \in Pairs(g.hosts, capture)}

Bound(e, B) == \E b \in B : b.host = e.src /\ b.switch = e.dst

AccessEdge(b) == [src |-> b.host, dst |-> b.switch, port |-> b.port]

\* Mutant: an access edge is added beside the one that is there.
AugmentedEdgesBeside(E, B) == E \cup {AccessEdge(b) : b \in B}

\* An edge with a binding gets its port; the others stay; missing ones are added.
AugmentedEdges(E, B) == {e \in E : ~Bound(e, B)} \cup {AccessEdge(b) : b \in B}

augment_topology_with_bindings(g, B) ==
    [nodes |-> g.nodes \cup {b.switch : b \in B},
     hosts |-> g.hosts,
     edges |-> AugmentedEdges(g.edges, B)]

-----------------------------------------------------------------------------
(* The controller                                                          *)

Init ==
    /\ topology = [n \in Names |-> None]
    /\ bindings = [n \in Names |-> {}]
    /\ services = [s \in ServiceIds |-> None]
    /\ pc = [w \in Threads |-> "idle"]
    /\ name = [w \in Threads |-> None]
    /\ graph = [w \in Threads |-> None]
    /\ todo = [w \in Threads |-> {}]
    /\ imports = 0
    /\ failures = 0
    /\ stale = {}
    /\ pinned = [s \in ServiceIds |-> None]

\* A request ends, in a reply or in an error.
Return(w) ==
    /\ pc' = [pc EXCEPT ![w] = "idle"]
    /\ name' = [name EXCEPT ![w] = None]
    /\ graph' = [graph EXCEPT ![w] = None]
    /\ todo' = [todo EXCEPT ![w] = {}]
    /\ stale' = stale \ {w}

\* Another graph is stored under n: copies and checks made before are outdated.
Outdate(n) ==
    /\ stale' = stale \cup {w \in Threads : name[w] = n}
    /\ pinned' = [s \in ServiceIds |-> IF pinned[s] = n THEN None ELSE pinned[s]]

import_topology(n, g) ==
    /\ imports < MaxImports /\ validate_graph(g)
    /\ imports' = imports + 1
    /\ topology' = [topology EXCEPT ![n] = g]
    /\ Outdate(n)
    /\ UNCHANGED <<bindings, services, pc, name, graph, todo, failures>>

Stored == {n \in Names : topology[n] # None}

\* _resolve_topology: the name of the request, or the only one that is stored.
_resolve_topology(n) ==
    IF n # None THEN n
    ELSE IF \E m \in Names : Stored = {m} THEN CHOOSE m \in Names : Stored = {m} ELSE None

\* _require_topology: a missing topology ends the request before it changed
\* anything, so only the other case is a step.
Read(w, n, next) ==
    LET m == _resolve_topology(n) IN
    /\ pc[w] = "idle" /\ m # None
    /\ topology[m] # None
    /\ pc' = [pc EXCEPT ![w] = next]
    /\ name' = [name EXCEPT ![w] = m]

correlate_read(w, n, capture) ==
    /\ Read(w, n, "correlate")
    /\ todo' = [todo EXCEPT ![w] = correlate_host_ports(topology[name'[w]], capture)]
    /\ UNCHANGED <<topology, bindings, services, graph, imports, failures, stale, pinned>>

replace_bindings(w) ==
    /\ pc[w] = "correlate"
    /\ bindings' = [bindings EXCEPT ![name[w]] = todo[w]]
    /\ Return(w)
    /\ UNCHANGED <<topology, services, imports, failures, pinned>>

\* Mutant: the request goes on without a topology.
augment_readUnchecked(w, n) ==
    /\ pc[w] = "idle" /\ n # None
    /\ pc' = [pc EXCEPT ![w] = "augment"]
    /\ name' = [name EXCEPT ![w] = n]
    /\ graph' = [graph EXCEPT ![w] = topology[n]]
    /\ UNCHANGED <<topology, bindings, services, todo, imports, failures, stale, pinned>>

augment_read(w, n) ==
    /\ Read(w, n, "augment")
    /\ graph' = [graph EXCEPT ![w] = topology[name'[w]]]
    /\ UNCHANGED <<topology, bindings, services, todo, imports, failures, stale, pinned>>

\* NoBindingsError, or the augmented graph is not valid, or it is to be saved.
augment_bindings(w) ==
    LET B == bindings[name[w]]
        g == augment_topology_with_bindings(graph[w], B)
    IN
    /\ pc[w] = "augment"
    /\ \/ B # {} /\ validate_graph(g)
          /\ pc' = [pc EXCEPT ![w] = "save"]
          /\ graph' = [graph EXCEPT ![w] = g]
          /\ UNCHANGED <<name, todo, stale>>
       \/ (B = {} \/ ~validate_graph(g)) /\ Return(w)
    /\ UNCHANGED <<topology, bindings, services, imports, failures, pinned>>

\* save_topology.  What was stored since the read is lost, an import or another
\* augmented graph: the copy replaces it.
augment_save(w) ==
    /\ pc[w] = "save"
    /\ topology' = [topology EXCEPT ![name[w]] = graph[w]]
    /\ pinned' = [s \in ServiceIds |->
                     IF w \in stale /\ pinned[s] = name[w] THEN None ELSE pinned[s]]
    /\ stale' = (stale \cup {v \in Threads : /\ name[v] = name[w]
                                             /\ w \in stale \/ pc[v] \in {"augment", "save"}}) \ {w}
    /\ pc' = [pc EXCEPT ![w] = "idle"]
    /\ name' = [name EXCEPT ![w] = None]
    /\ graph' = [graph EXCEPT ![w] = None]
    /\ todo' = [todo EXCEPT ![w] = {}]
    /\ UNCHANGED <<bindings, services, imports, failures>>

\* Mutant: a service on an unknown node is accepted.
KnownNodesAny(g, inventory) == TRUE

KnownNodes(g, inventory) == \A i \in inventory : i.node = None \/ i.node \in g.nodes

\* register_services checks the nodes against the resolved topology; without
\* one they stay unchecked.
register_read(w, n, inventory) ==
    /\ \/ Read(w, n, "register") /\ KnownNodes(topology[name'[w]], inventory)
       \/ /\ pc[w] = "idle" /\ _resolve_topology(n) = None
          /\ pc' = [pc EXCEPT ![w] = "register"]
          /\ UNCHANGED name
    /\ todo' = [todo EXCEPT ![w] = inventory]
    /\ UNCHANGED <<topology, bindings, services, graph, imports, failures, stale, pinned>>

\* upsert_service, one transaction per service.
upsert_service(w, i) ==
    /\ pc[w] = "register" /\ i \in todo[w]
    /\ services' = [services EXCEPT ![i.service] = i.node]
    /\ pinned' = [pinned EXCEPT ![i.service] = IF w \in stale \/ i.node = None THEN None ELSE name[w]]
    /\ IF todo[w] = {i} THEN Return(w)
       ELSE /\ todo' = [todo EXCEPT ![w] = @ \ {i}]
            /\ UNCHANGED <<pc, name, graph, stale>>
    /\ UNCHANGED <<topology, bindings, imports, failures>>

\* A transaction raises: the request ends with what it has written so far.
StoreFails(w) ==
    /\ pc[w] # "idle" /\ failures < MaxFailures
    /\ failures' = failures + 1
    /\ Return(w)
    /\ UNCHANGED <<topology, bindings, services, imports, pinned>>

\* The process stops and starts again: the tables stay.
Restart ==
    /\ failures < MaxFailures
    /\ failures' = failures + 1
    /\ pc' = [w \in Threads |-> "idle"]
    /\ name' = [w \in Threads |-> None]
    /\ graph' = [w \in Threads |-> None]
    /\ todo' = [w \in Threads |-> {}]
    /\ stale' = {}
    /\ UNCHANGED <<topology, bindings, services, imports, pinned>>

Next ==
    \/ \E n \in Names, g \in Documents : import_topology(n, g)
    \/ \E w \in Threads :
          \/ \E n \in Names \cup {None} :
                \/ \E c \in Captures : correlate_read(w, n, c)
                \/ augment_read(w, n)
                \/ \E I \in Inventories : register_read(w, n, I)
          \/ replace_bindings(w)
          \/ augment_bindings(w)
          \/ augment_save(w)
          \/ \E i \in todo[w] : upsert_service(w, i)
          \/ StoreFails(w)
    \/ Restart

Spec == Init /\ [][Next]_vars

-----------------------------------------------------------------------------
(* Properties                                                              *)

\* Tables and locals stay well typed; a request works on a topology that is
\* stored, and one that saves a graph has read it.
TypeOK ==
    /\ topology \in [Names -> Graph \cup {None}]
    /\ bindings \in [Names -> SUBSET HostPortBinding]
    /\ services \in [ServiceIds -> Nodes \cup {None}]
    /\ pc \in [Threads -> {"idle", "correlate", "augment", "save", "register"}]
    /\ name \in [Threads -> Names \cup {None}]
    /\ graph \in [Threads -> Graph \cup {None}]
    /\ todo \in [Threads -> SUBSET (HostPortBinding \cup Item)]
    /\ \A w \in Threads :
          /\ todo[w] \subseteq (IF pc[w] = "correlate" THEN HostPortBinding ELSE Item)
          /\ pc[w] \in {"correlate", "augment", "save"} => name[w] # None
          /\ pc[w] = "idle" => name[w] = None
          /\ name[w] # None => topology[name[w]] # None
          /\ pc[w] \in {"augment", "save"} <=> graph[w] # None
    /\ imports \in 0 .. MaxImports
    /\ failures \in 0 .. MaxFailures
    /\ stale \subseteq Threads
    /\ pinned \in [ServiceIds -> Names \cup {None}]

\* No reader of the topology table meets an edge to a node that the graph does
\* not have, or a self-loop, although bindings outlive the graph that they
\* were computed from (NetworkTopology's docstring, augment_topology).
GraphIntact ==
    \A n \in Stored : \A e \in topology[n].edges :
        e.src # e.dst /\ {e.src, e.dst} \subseteq topology[n].nodes

\* After any history, fresh telemetry makes augmenting work again: no stored
\* graph is rejected with bindings computed from it, unless a switch reports
\* itself as a host (correlate_host_ports, augment_topology_with_bindings).
FreshBindingsFit ==
    \A n \in Stored, c \in Captures :
        LET B == correlate_host_ports(topology[n], c)
            g == augment_topology_with_bindings(topology[n], B)
        IN  (\A b \in B : b.host # b.switch) =>
               /\ validate_graph(g)
               /\ topology[n].nodes \subseteq g.nodes

\* A host has one port per switch in a stored graph, however often bindings
\* were replaced and applied: an access edge is refreshed rather than
\* duplicated (augment_topology_with_bindings).
OnePort ==
    \A n \in Stored : \A d, e \in topology[n].edges :
        d.src = e.src /\ d.dst = e.dst /\ None \notin {d.port, e.port} => d = e

\* A service that was checked against a graph stays on a node of it until an
\* import replaces the graph, also when other requests augment it meanwhile.
\* An augment that an import or another augment overtook counts as an import: it
\* brings the old graph back (register_services, augment_topology).
ServicesPinned ==
    \A s \in ServiceIds :
        pinned[s] # None => services[s] \in topology[pinned[s]].nodes

=============================================================================
