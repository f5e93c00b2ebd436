-------------------------- MODULE InventoryProofs --------------------------
(***************************************************************************)
(* The controller's graphs stay intact, telemetry always fits the graph    *)
(* it was correlated with, access edges stay unique and checked services   *)
(* stay on a node, for any graphs, telemetry, inventories and number of    *)
(* request threads, failures and restarts.                                 *)
(***************************************************************************)
EXTENDS Inventory, NaturalsInduction, WellFoundedInduction, TLAPS

Active == {"augment", "save"}

\* Bindings that name one port for a host on a switch.
Functional(B) == \A b, c \in B : b.host = c.host /\ b.switch = c.switch => b = c

\* What OnePort says of one graph.
PortsOnce(g) ==
    \A d, e \in g.edges : d.src = e.src /\ d.dst = e.dst /\ None \notin {d.port, e.port} => d = e

-----------------------------------------------------------------------------
(* The operators on graphs and telemetry                                   *)

\* A nonempty set of positions has a last one.
LEMMA LastPosition ==
    ASSUME NEW k \in Nat, NEW I \in SUBSET (1 .. k), I # {}
    PROVE  Max(I) \in I
  <1> DEFINE T == {j \in Nat : k - j \in I}
             R == OpToRel(<, Nat)
  <1>1. PICK i \in I : TRUE
    OBVIOUS
  <1>2. k - i \in T
    OBVIOUS
  <1>3. T \subseteq Nat /\ T # {}
    BY <1>2
  <1>4. PICK x \in T : \A y \in T : ~(<<y, x>> \in R)
    BY <1>3, NatLessThanWellFounded, WFMin, Zenon
  <1>5. \A y \in T : ~(y < x)
    BY <1>4 DEF OpToRel
  <1>6. \A j \in I : k - x >= j
    <2> SUFFICES ASSUME NEW j \in I PROVE k - x >= j
      OBVIOUS
    <2>1. k - j \in T
      OBVIOUS
    <2>2. ~(k - j < x) /\ x \in Nat /\ j \in 1 .. k
      BY <2>1, <1>5
    <2> HIDE DEF T, R
    <2> QED
      BY <2>2
  <1>7. k - x \in I
    BY <1>4
  <1> QED
    BY <1>6, <1>7 DEF Max

\* Fusing the reports of a host on a switch gives one well typed binding.
LEMMA FuseType ==
    ASSUME NEW c \in Seq(Entry), NEW h \in Nodes, NEW s \in Nodes,
           \E source \in {"lldp", "mac"} : Reports(c, source, h, s) # {}
    PROVE  /\ Fuse(c, h, s) \in HostPortBinding
           /\ Fuse(c, h, s).host = h
           /\ Fuse(c, h, s).switch = s
  <1> DEFINE lldp == Reports(c, "lldp", h, s)
             mac == Reports(c, "mac", h, s)
             I == IF lldp # {} THEN lldp ELSE mac
  <1>1. I # {} /\ I \subseteq 1 .. Len(c) /\ Len(c) \in Nat
    BY DEF Reports
  <1>2. Max(I) \in 1 .. Len(c)
    <2> HIDE DEF I
    <2> QED
      BY <1>1, LastPosition
  <1>3. c[Max(I)] \in Entry
    BY <1>2
  <1>4. c[Max(I)].port \in Ports
    BY <1>3 DEF Entry
  <1> QED
    BY <1>4 DEF Fuse, HostPortBinding, Method

\* Correlated bindings are of hosts of the graph and name one port each.
LEMMA Correlated ==
    ASSUME NEW g \in Graph, NEW c \in Captures
    PROVE  /\ correlate_host_ports(g, c) \subseteq HostPortBinding
           /\ Functional(correlate_host_ports(g, c))
           /\ \A b \in correlate_host_ports(g, c) : b.host \in g.hosts
  <1> DEFINE B == correlate_host_ports(g, c)
  <1>1. c \in Seq(Entry) /\ g.hosts \subseteq Nodes
    BY CapturesAssumption DEF Graph
  <1>2. \A b \in B : /\ b \in HostPortBinding
                     /\ b.host \in g.hosts
                     /\ b = Fuse(c, b.host, b.switch)
    <2> SUFFICES ASSUME NEW b \in B
                 PROVE  /\ b \in HostPortBinding
                        /\ b.host \in g.hosts
                        /\ b = Fuse(c, b.host, b.switch)
      OBVIOUS
    <2>1. PICK p \in Pairs(g.hosts, c) : b = Fuse(c, p[1], p[2])
      BY DEF correlate_host_ports
    <2>2. /\ p[1] \in g.hosts /\ p[2] \in Nodes
          /\ \E source \in {"lldp", "mac"} : Reports(c, source, p[1], p[2]) # {}
      BY DEF Pairs
    <2>3. p[1] \in Nodes
      BY <1>1, <2>2
    <2>4. /\ b \in HostPortBinding
          /\ b.host = p[1]
          /\ b.switch = p[2]
      BY <1>1, <2>1, <2>2, <2>3, FuseType
    <2> QED
      BY <2>1, <2>2, <2>4
  <1>3. Functional(B)
    <2> HIDE DEF B
    <2> QED
      BY <1>2 DEF Functional
  <1> QED
    BY <1>2, <1>3

\* Augmenting keeps every node and yields a graph of the model.
LEMMA AugmentType ==
    ASSUME NEW g \in Graph, NEW B \in SUBSET HostPortBinding
    PROVE  /\ augment_topology_with_bindings(g, B) \in Graph
           /\ g.nodes \subseteq augment_topology_with_bindings(g, B).nodes
  BY DEF augment_topology_with_bindings, AugmentedEdges, AccessEdge, Graph, Edge, HostPortBinding

\* Augmenting refreshes the edge of a host and a switch: no second port.
LEMMA AugmentPorts ==
    ASSUME NEW g \in Graph, NEW B \in SUBSET HostPortBinding, PortsOnce(g), Functional(B)
    PROVE  PortsOnce(augment_topology_with_bindings(g, B))
  <1> DEFINE E == AugmentedEdges(g.edges, B)
  <1> SUFFICES ASSUME NEW d \in E, NEW e \in E, d.src = e.src, d.dst = e.dst,
                      None \notin {d.port, e.port}
               PROVE  d = e
    BY DEF PortsOnce, augment_topology_with_bindings
  <1>1. CASE d \in g.edges /\ ~Bound(d, B) /\ e \in g.edges /\ ~Bound(e, B)
    BY <1>1 DEF PortsOnce
  <1>2. CASE \E b \in B : d = AccessEdge(b)
    <2>1. PICK b \in B : d = AccessEdge(b)
      BY <1>2
    <2>2. Bound(e, B)
      BY <2>1 DEF Bound, AccessEdge
    <2>3. PICK c \in B : e = AccessEdge(c)
      BY <2>2 DEF AugmentedEdges
    <2>4. b = c
      BY <2>1, <2>3 DEF AccessEdge, Functional
    <2> QED
      BY <2>1, <2>3, <2>4
  <1>3. CASE \E b \in B : e = AccessEdge(b)
    <2>1. PICK b \in B : e = AccessEdge(b)
      BY <1>3
    <2>2. Bound(d, B)
      BY <2>1 DEF Bound, AccessEdge
    <2>3. PICK c \in B : d = AccessEdge(c)
      BY <2>2 DEF AugmentedEdges
    <2>4. b = c
      BY <2>1, <2>3 DEF AccessEdge, Functional
    <2> QED
      BY <2>1, <2>3, <2>4
  <1> QED
    BY <1>1, <1>2, <1>3 DEF AugmentedEdges

\* Bindings of hosts of a valid graph fit it, unless a switch is its own host.
LEMMA AugmentFits ==
    ASSUME NEW g \in Graph, validate_graph(g), NEW B \in SUBSET HostPortBinding,
           \A b \in B : b.host \in g.hosts /\ b.host # b.switch
    PROVE  validate_graph(augment_topology_with_bindings(g, B))
  BY DEF validate_graph, augment_topology_with_bindings, AugmentedEdges, AccessEdge

-----------------------------------------------------------------------------
(* The invariant                                                           *)

\* Stored graphs are valid, and so are the copies that may replace them.
GraphsValid ==
    /\ \A n \in Stored : validate_graph(topology[n])
    /\ \A w \in Threads : pc[w] \in Active => validate_graph(graph[w])

\* Copies and bindings on their way to the tables name one port each too.
PortsFit ==
    /\ \A n \in Stored : PortsOnce(topology[n])
    /\ \A w \in Threads : pc[w] \in Active => PortsOnce(graph[w])
    /\ \A n \in Names : Functional(bindings[n])
    /\ \A w \in Threads : pc[w] = "correlate" => Functional(todo[w])

\* A copy that nobody outdated has every node of the stored graph, and a check
\* that nobody outdated would succeed again.
NodesKept ==
    \A w \in Threads \ stale :
        /\ pc[w] \in Active => topology[name[w]].nodes \subseteq graph[w].nodes
        /\ pc[w] = "register" /\ name[w] # None => KnownNodes(topology[name[w]], todo[w])

\* A request that names no topology and finds one resolves to it.
LEMMA Resolves ==
    ASSUME NEW n \in Names \cup {None}, _resolve_topology(n) # None
    PROVE  _resolve_topology(n) \in Names
  BY DEF _resolve_topology

\* No table has a row, and no thread a request.
LEMMA InitAll == Init => TypeOK /\ GraphsValid /\ PortsFit /\ NodesKept /\ ServicesPinned
  <1> SUFFICES ASSUME Init
               PROVE  TypeOK /\ GraphsValid /\ PortsFit /\ NodesKept /\ ServicesPinned
    OBVIOUS
  <1>1. TypeOK
    BY NoneAssumption, BoundsAssumption DEF Init, TypeOK
  <1>2. GraphsValid
    BY DEF Init, GraphsValid, Stored, Active
  <1>3. PortsFit
    BY DEF Init, PortsFit, Stored, Active, Functional
  <1>4. NodesKept
    BY DEF Init, NodesKept, Active
  <1>5. ServicesPinned
    BY DEF Init, ServicesPinned
  <1> QED
    BY <1>1, <1>2, <1>3, <1>4, <1>5

\* One disjunct per action, as the step proofs take them.
LEMMA NextCases ==
    ASSUME Next
    PROVE  \/ \E n \in Names, g \in Documents : import_topology(n, g)
           \/ \E w \in Threads : \E n \in Names \cup {None}, c \in Captures : correlate_read(w, n, c)
           \/ \E w \in Threads : \E n \in Names \cup {None} : augment_read(w, n)
           \/ \E w \in Threads : \E n \in Names \cup {None}, I \in Inventories : register_read(w, n, I)
           \/ \E w \in Threads : replace_bindings(w)
           \/ \E w \in Threads : augment_bindings(w)
           \/ \E w \in Threads : augment_save(w)
           \/ \E w \in Threads : \E i \in todo[w] : upsert_service(w, i)
           \/ \E w \in Threads : StoreFails(w)
           \/ Restart
  BY DEF Next

\* Every action writes rows and locals of their types.
LEMMA TypeStep == TypeOK /\ [Next]_vars => TypeOK'
  <1> SUFFICES ASSUME TypeOK, [Next]_vars PROVE TypeOK'
    OBVIOUS
  <1> USE NoneAssumption, BoundsAssumption
  <1>0. CASE UNCHANGED vars
    BY <1>0 DEF TypeOK, vars
  <1>1. ASSUME NEW n \in Names, NEW g \in Documents, import_topology(n, g) PROVE TypeOK'
    <2>1. g \in Graph /\ g # None
      BY DocumentsAssumption
    <2> QED
      BY <1>1, <2>1 DEF TypeOK, import_topology, Outdate
  <1>2. ASSUME NEW w \in Threads, NEW n \in Names \cup {None}, NEW c \in Captures,
               correlate_read(w, n, c)
        PROVE  TypeOK'
    <2> DEFINE m == _resolve_topology(n)
    <2>1. /\ m \in Names /\ topology[m] # None /\ pc[w] = "idle"
          /\ name' = [name EXCEPT ![w] = m] /\ pc' = [pc EXCEPT ![w] = "correlate"]
      BY <1>2, Resolves DEF correlate_read, Read
    <2> HIDE DEF m
    <2>2. name'[w] = m /\ topology[m] \in Graph
      BY <2>1 DEF TypeOK
    <2>3. correlate_host_ports(topology[m], c) \subseteq HostPortBinding
      BY <2>2, Correlated
    <2> QED
      BY <1>2, <2>1, <2>2, <2>3 DEF TypeOK, correlate_read
  <1>3. ASSUME NEW w \in Threads, NEW n \in Names \cup {None}, augment_read(w, n) PROVE TypeOK'
    <2> DEFINE m == _resolve_topology(n)
    <2>1. /\ m \in Names /\ topology[m] # None /\ pc[w] = "idle"
          /\ name' = [name EXCEPT ![w] = m] /\ pc' = [pc EXCEPT ![w] = "augment"]
      BY <1>3, Resolves DEF augment_read, Read
    <2> HIDE DEF m
    <2>2. name'[w] = m /\ topology[m] \in Graph
      BY <2>1 DEF TypeOK
    <2> QED
      BY <1>3, <2>1, <2>2 DEF TypeOK, augment_read
  <1>4. ASSUME NEW w \in Threads, NEW n \in Names \cup {None}, NEW I \in Inventories,
               register_read(w, n, I)
        PROVE  TypeOK'
    <2>1. I \subseteq Item
      BY InventoriesAssumption
    <2>2. /\ pc[w] = "idle" /\ pc' = [pc EXCEPT ![w] = "register"]
          /\ \/ UNCHANGED name
             \/ \E m \in Names : topology[m] # None /\ name' = [name EXCEPT ![w] = m]
      BY <1>4, Resolves DEF register_read, Read
    <2> QED
      BY <1>4, <2>1, <2>2 DEF TypeOK, register_read
  <1>5. ASSUME NEW w \in Threads, replace_bindings(w) PROVE TypeOK'
    BY <1>5 DEF TypeOK, replace_bindings, Return
  <1>6. ASSUME NEW w \in Threads, augment_bindings(w) PROVE TypeOK'
    <2> DEFINE g == augment_topology_with_bindings(graph[w], bindings[name[w]])
    <2>1. CASE pc'[w] = "save"
      <3>1. g \in Graph /\ g # None
        BY <1>6, AugmentType DEF TypeOK, augment_bindings
      <3> HIDE DEF g
      <3>2. /\ pc[w] = "augment" /\ pc' = [pc EXCEPT ![w] = "save"]
            /\ graph' = [graph EXCEPT ![w] = g] /\ UNCHANGED <<name, todo, stale>>
        BY <1>6, <2>1 DEF TypeOK, augment_bindings, Return, g
      <3> QED
        BY <1>6, <3>1, <3>2 DEF TypeOK, augment_bindings
    <2>2. CASE pc'[w] # "save"
      <3>1. pc[w] = "augment" /\ Return(w)
        BY <1>6, <2>2 DEF TypeOK, augment_bindings
      <3> QED
        BY <1>6, <3>1 DEF TypeOK, augment_bindings, Return
    <2> QED
      BY <2>1, <2>2
  <1>7. ASSUME NEW w \in Threads, augment_save(w) PROVE TypeOK'
    BY <1>7 DEF TypeOK, augment_save
  <1>8. ASSUME NEW w \in Threads, NEW i \in todo[w], upsert_service(w, i) PROVE TypeOK'
    <2>1. i \in Item /\ i.service \in ServiceIds /\ i.node \in Nodes \cup {None}
      BY <1>8 DEF TypeOK, upsert_service, Item
    <2>2. CASE todo[w] = {i}
      BY <1>8, <2>1, <2>2 DEF TypeOK, upsert_service, Return
    <2>3. CASE todo[w] # {i}
      BY <1>8, <2>1, <2>3 DEF TypeOK, upsert_service
    <2> QED
      BY <2>2, <2>3
  <1>9. ASSUME NEW w \in Threads, StoreFails(w) PROVE TypeOK'
    BY <1>9 DEF TypeOK, StoreFails, Return
  <1>10. CASE Restart
    BY <1>10 DEF TypeOK, Restart
  <1> QED
    BY NextCases, <1>0, <1>1, <1>2, <1>3, <1>4, <1>5, <1>6, <1>7, <1>8, <1>9, <1>10

\* What the stored graphs and the copies in the threads are after a step: an
\* import, a copy of a stored graph, an augmented copy, or what was there.
LEMMA GraphStep ==
    ASSUME TypeOK, [Next]_vars
    PROVE  /\ \A n \in Stored' :
                 \/ topology'[n] \in Documents /\ validate_graph(topology'[n])
                 \/ n \in Stored /\ topology'[n] = topology[n]
                 \/ \E w \in Threads : pc[w] = "save" /\ topology'[n] = graph[w]
           /\ \A w \in Threads : pc'[w] \in Active =>
                 \/ pc[w] \in Active /\ graph'[w] = graph[w]
                 \/ \E n \in Stored : graph'[w] = topology[n]
                 \/ LET g == augment_topology_with_bindings(graph[w], bindings[name[w]])
                    IN  pc[w] = "augment" /\ graph'[w] = g /\ validate_graph(g)
  <1> USE DEF TypeOK, Stored, Active
  <1>0. CASE UNCHANGED vars
    BY <1>0 DEF vars
  <1>1. CASE \E n \in Names, g \in Documents : import_topology(n, g)
    BY <1>1 DEF import_topology
  <1>2. CASE \E w \in Threads : \E n \in Names \cup {None}, c \in Captures : correlate_read(w, n, c)
    BY <1>2 DEF correlate_read, Read
  <1>3. ASSUME NEW w \in Threads, NEW n \in Names \cup {None}, augment_read(w, n)
        PROVE  \E m \in Stored : /\ graph' = [graph EXCEPT ![w] = topology[m]]
                                 /\ pc' = [pc EXCEPT ![w] = "augment"]
                                 /\ UNCHANGED topology
    <2> DEFINE m == _resolve_topology(n)
    <2>1. m \in Names /\ topology[m] # None /\ name' = [name EXCEPT ![w] = m]
      BY <1>3, Resolves DEF augment_read, Read
    <2>2. name'[w] = m
      BY <2>1
    <2> QED
      BY <1>3, <2>1, <2>2 DEF augment_read, Read
  <1>4. CASE \E w \in Threads : \E n \in Names \cup {None}, I \in Inventories : register_read(w, n, I)
    BY <1>4 DEF register_read, Read
  <1>5. CASE \E w \in Threads : replace_bindings(w)
    BY <1>5 DEF replace_bindings, Return
  <1>6. CASE \E w \in Threads : augment_bindings(w)
    BY <1>6 DEF augment_bindings, Return
  <1>7. CASE \E w \in Threads : augment_save(w)
    BY <1>7 DEF augment_save
  <1>8. CASE \E w \in Threads : \E i \in todo[w] : upsert_service(w, i)
    BY <1>8 DEF upsert_service, Return
  <1>9. CASE \E w \in Threads : StoreFails(w)
    BY <1>9 DEF StoreFails, Return
  <1>10. CASE Restart
    BY <1>10 DEF Restart
  <1>11. CASE \E w \in Threads : \E n \in Names \cup {None} : augment_read(w, n)
    BY <1>3, <1>11
  <1> QED
    BY NextCases, <1>0, <1>1, <1>2, <1>4, <1>5, <1>6, <1>7, <1>8, <1>9, <1>10, <1>11

\* Only valid graphs are read, augmented to and stored.
LEMMA ValidStep == TypeOK /\ GraphsValid /\ [Next]_vars => GraphsValid'
  <1> SUFFICES ASSUME TypeOK, GraphsValid, [Next]_vars PROVE GraphsValid'
    OBVIOUS
  <1>1. \A n \in Stored' : validate_graph(topology'[n])
    BY GraphStep DEF GraphsValid, Active
  <1>2. \A w \in Threads : pc'[w] \in Active => validate_graph(graph'[w])
    BY GraphStep DEF GraphsValid
  <1> QED
    BY <1>1, <1>2 DEF GraphsValid, validate_graph

\* Bindings are stored as they were correlated.
LEMMA BindingStep ==
    ASSUME TypeOK, PortsFit, [Next]_vars
    PROVE  /\ \A n \in Names : Functional(bindings'[n])
           /\ \A w \in Threads : pc'[w] = "correlate" => Functional(todo'[w])
  <1> USE DEF TypeOK, PortsFit
  <1>0. CASE UNCHANGED vars
    BY <1>0 DEF vars
  <1>1. CASE \E n \in Names, g \in Documents : import_topology(n, g)
    BY <1>1 DEF import_topology
  <1>2. ASSUME NEW w \in Threads, NEW n \in Names \cup {None}, NEW c \in Captures,
               correlate_read(w, n, c)
        PROVE  \E B : /\ Functional(B) /\ UNCHANGED bindings
                      /\ todo' = [todo EXCEPT ![w] = B]
                      /\ pc' = [pc EXCEPT ![w] = "correlate"]
    <2> DEFINE m == _resolve_topology(n)
    <2>1. m \in Names /\ topology[m] # None /\ name' = [name EXCEPT ![w] = m]
      BY <1>2, Resolves DEF correlate_read, Read
    <2>2. name'[w] = m /\ topology[m] \in Graph
      BY <2>1
    <2>3. Functional(correlate_host_ports(topology[m], c))
      BY <2>2, Correlated
    <2> QED
      BY <1>2, <2>2, <2>3 DEF correlate_read, Read
  <1>3. CASE \E w \in Threads : \E n \in Names \cup {None} : augment_read(w, n)
    BY <1>3 DEF augment_read, Read
  <1>4. CASE \E w \in Threads : \E n \in Names \cup {None}, I \in Inventories : register_read(w, n, I)
    BY <1>4 DEF register_read, Read
  <1>5. CASE \E w \in Threads : replace_bindings(w)
    BY <1>5 DEF replace_bindings, Return
  <1>6. CASE \E w \in Threads : augment_bindings(w)
    BY <1>6 DEF augment_bindings, Return
  <1>7. CASE \E w \in Threads : augment_save(w)
    BY <1>7 DEF augment_save
  <1>8. CASE \E w \in Threads : \E i \in todo[w] : upsert_service(w, i)
    BY <1>8 DEF upsert_service, Return
  <1>9. CASE \E w \in Threads : StoreFails(w)
    BY <1>9 DEF StoreFails, Return
  <1>10. CASE Restart
    BY <1>10 DEF Restart
  <1>11. CASE \E w \in Threads : \E n \in Names \cup {None}, c \in Captures : correlate_read(w, n, c)
    BY <1>2, <1>11
  <1> QED
    BY NextCases, <1>0, <1>1, <1>3, <1>4, <1>5, <1>6, <1>7, <1>8, <1>9, <1>10, <1>11

\* Every graph that is read, augmented to or stored has one port per access edge.
LEMMA PortsStep ==
    ASSUME \A g \in Documents : PortsOnce(g)
    PROVE  TypeOK /\ PortsFit /\ [Next]_vars => PortsFit'
  <1> SUFFICES ASSUME TypeOK, PortsFit, [Next]_vars PROVE PortsFit'
    OBVIOUS
  <1>1. \A n \in Stored' : PortsOnce(topology'[n])
    BY GraphStep DEF PortsFit, Active
  <1>2. \A w \in Threads : pc'[w] \in Active => PortsOnce(graph'[w])
    <2> SUFFICES ASSUME NEW w \in Threads, pc'[w] \in Active PROVE PortsOnce(graph'[w])
      OBVIOUS
    <2>1. CASE pc[w] \in Active /\ graph'[w] = graph[w]
      BY <2>1 DEF PortsFit
    <2>2. CASE \E n \in Stored : graph'[w] = topology[n]
      BY <2>2 DEF PortsFit
    <2>3. CASE pc[w] = "augment"
               /\ graph'[w] = augment_topology_with_bindings(graph[w], bindings[name[w]])
      <3>1. graph[w] \in Graph /\ name[w] \in Names /\ bindings[name[w]] \in SUBSET HostPortBinding
        BY <2>3 DEF TypeOK
      <3>2. PortsOnce(graph[w]) /\ Functional(bindings[name[w]])
        BY <2>3, <3>1 DEF PortsFit, Active
      <3> QED
        BY <2>3, <3>1, <3>2, AugmentPorts
    <2> QED
      BY GraphStep, <2>1, <2>2, <2>3
  <1> QED
    BY <1>1, <1>2, BindingStep DEF PortsFit, PortsOnce, Functional

\* Every action keeps the nodes that fresh copies, fresh checks and pinned
\* services rely on, or outdates them.
LEMMA PinStep == TypeOK /\ NodesKept /\ ServicesPinned /\ [Next]_vars
                    => NodesKept' /\ ServicesPinned'
  <1> SUFFICES ASSUME TypeOK, NodesKept, ServicesPinned, [Next]_vars
               PROVE  NodesKept' /\ ServicesPinned'
    OBVIOUS
  <1> USE NoneAssumption DEF NodesKept, ServicesPinned, Active
  <1>0. CASE UNCHANGED vars
    BY <1>0 DEF vars, KnownNodes
  <1>1. ASSUME NEW n \in Names, NEW g \in Documents, import_topology(n, g)
        PROVE  NodesKept' /\ ServicesPinned'
    BY <1>1 DEF TypeOK, import_topology, Outdate, KnownNodes
  <1>2. ASSUME NEW w \in Threads, NEW n \in Names \cup {None}, NEW c \in Captures,
               correlate_read(w, n, c)
        PROVE  NodesKept' /\ ServicesPinned'
    BY <1>2 DEF TypeOK, correlate_read, Read, KnownNodes
  <1>3. ASSUME NEW w \in Threads, NEW n \in Names \cup {None}, augment_read(w, n)
        PROVE  NodesKept' /\ ServicesPinned'
    BY <1>3 DEF TypeOK, augment_read, Read, KnownNodes
  <1>4. ASSUME NEW w \in Threads, NEW n \in Names \cup {None}, NEW I \in Inventories,
               register_read(w, n, I)
        PROVE  NodesKept' /\ ServicesPinned'
    <2>1. CASE Read(w, n, "register") /\ KnownNodes(topology[name'[w]], I)
      BY <1>4, <2>1 DEF TypeOK, register_read, Read, KnownNodes
    <2>2. CASE UNCHANGED name /\ pc[w] = "idle" /\ pc' = [pc EXCEPT ![w] = "register"]
      <3>1. name[w] = None
        BY <2>2 DEF TypeOK
      <3> QED
        BY <1>4, <2>2, <3>1 DEF TypeOK, register_read, KnownNodes
    <2> QED
      BY <1>4, <2>1, <2>2 DEF register_read
  <1>5. ASSUME NEW w \in Threads, replace_bindings(w) PROVE NodesKept' /\ ServicesPinned'
    BY <1>5 DEF TypeOK, replace_bindings, Return, KnownNodes
  <1>6. ASSUME NEW w \in Threads, augment_bindings(w) PROVE NodesKept' /\ ServicesPinned'
    <2> DEFINE g == augment_topology_with_bindings(graph[w], bindings[name[w]])
    <2>1. graph[w].nodes \subseteq g.nodes
      BY <1>6 DEF augment_bindings, augment_topology_with_bindings
    <2> HIDE DEF g
    <2> QED
      BY <1>6, <2>1 DEF TypeOK, augment_bindings, Return, KnownNodes, g
  <1>7. ASSUME NEW w \in Threads, augment_save(w) PROVE NodesKept' /\ ServicesPinned'
    BY <1>7 DEF TypeOK, augment_save, KnownNodes
  <1>8. ASSUME NEW w \in Threads, NEW i \in todo[w], upsert_service(w, i)
        PROVE  NodesKept' /\ ServicesPinned'
    BY <1>8 DEF TypeOK, upsert_service, Return, KnownNodes, Item
  <1>9. ASSUME NEW w \in Threads, StoreFails(w) PROVE NodesKept' /\ ServicesPinned'
    BY <1>9 DEF TypeOK, StoreFails, Return, KnownNodes
  <1>10. CASE Restart
    BY <1>10 DEF TypeOK, Restart, KnownNodes
  <1> QED
    BY NextCases, <1>0, <1>1, <1>2, <1>3, <1>4, <1>5, <1>6, <1>7, <1>8, <1>9, <1>10

-----------------------------------------------------------------------------
(* Theorems                                                                *)

\* A request works on a topology that is stored, and one that saves a graph has
\* read it, whatever runs beside it (ControllerService's topology operations).
THEOREM TypeCorrect == Spec => []TypeOK
  BY InitAll, TypeStep, PTL DEF Spec

\* Stored graphs and the copies that will replace them are valid at all times.
LEMMA ValidAlways == Spec => [](TypeOK /\ GraphsValid)
  <1>1. Init => TypeOK /\ GraphsValid
    BY InitAll
  <1>2. TypeOK /\ GraphsValid /\ [Next]_vars => (TypeOK /\ GraphsValid)'
    BY TypeStep, ValidStep
  <1> QED
    BY <1>1, <1>2, PTL DEF Spec

\* No reader meets an edge to nowhere or a self-loop, although bindings outlive
\* the graph they came from: augment_topology validates before it saves.
THEOREM GraphIntactAlways == Spec => []GraphIntact
  <1>1. TypeOK /\ GraphsValid => GraphIntact
    BY DEF GraphsValid, GraphIntact, validate_graph
  <1> QED
    BY <1>1, ValidAlways, PTL

\* Telemetry correlated with a stored graph can always be applied to it, and
\* loses no node (correlate_host_ports, augment_topology_with_bindings).
THEOREM FreshBindingsFitAlways == Spec => []FreshBindingsFit
  <1>1. TypeOK /\ GraphsValid => FreshBindingsFit
    <2> SUFFICES ASSUME TypeOK, GraphsValid, NEW n \in Stored, NEW c \in Captures
                 PROVE  LET B == correlate_host_ports(topology[n], c)
                            g == augment_topology_with_bindings(topology[n], B)
                        IN  (\A b \in B : b.host # b.switch) =>
                               /\ validate_graph(g)
                               /\ topology[n].nodes \subseteq g.nodes
      BY DEF FreshBindingsFit
    <2> DEFINE B == correlate_host_ports(topology[n], c)
    <2>1. topology[n] \in Graph /\ validate_graph(topology[n])
      BY DEF TypeOK, Stored, GraphsValid
    <2>2. B \in SUBSET HostPortBinding /\ \A b \in B : b.host \in topology[n].hosts
      BY <2>1, Correlated
    <2> HIDE DEF B
    <2>3. (\A b \in B : b.host # b.switch)
             => validate_graph(augment_topology_with_bindings(topology[n], B))
      BY <2>1, <2>2, AugmentFits
    <2>4. topology[n].nodes \subseteq augment_topology_with_bindings(topology[n], B).nodes
      BY <2>1, <2>2, AugmentType
    <2> QED
      BY <2>3, <2>4 DEF B
  <1> QED
    BY <1>1, ValidAlways, PTL

\* When the imported documents name one port for a host on a switch, so does
\* every stored graph for ever: augmenting refreshes and never duplicates.
THEOREM OnePortAlways ==
    ASSUME \A g \in Documents : PortsOnce(g)
    PROVE  Spec => []OnePort
  <1>1. Init => TypeOK /\ PortsFit
    BY InitAll
  <1>2. TypeOK /\ PortsFit /\ [Next]_vars => (TypeOK /\ PortsFit)'
    BY TypeStep, PortsStep
  <1>3. TypeOK /\ PortsFit => OnePort
    BY DEF PortsFit, PortsOnce, OnePort
  <1> QED
    BY <1>1, <1>2, <1>3, PTL DEF Spec

\* A service that was checked against a graph stays on a node of it, however
\* many requests augment the graph, until a write that lost another's change or
\* an import replaces it (register_services, augment_topology).
THEOREM ServicesPinnedAlways == Spec => []ServicesPinned
  <1>1. Init => TypeOK /\ NodesKept /\ ServicesPinned
    BY InitAll
  <1>2. TypeOK /\ NodesKept /\ ServicesPinned /\ [Next]_vars
           => (TypeOK /\ NodesKept /\ ServicesPinned)'
    BY TypeStep, PinStep
  <1> QED
    BY <1>1, <1>2, PTL DEF Spec

=============================================================================
