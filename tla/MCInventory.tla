---------------------------- MODULE MCInventory ----------------------------
(* Two hosts and two switches: s1 is in one graph, with an agent_id, and in *)
(* the other only after augmenting; s2 is known from telemetry alone.  One  *)
(* document has an edge to nowhere.                                         *)
EXTENDS Inventory, TLC

CONSTANTS v1, v2, h1, h2, s1, s2, p1, p2

Link(a, b) == [src |-> a, dst |-> b, port |-> None]

MCDocuments ==
    {[nodes |-> {h1, h2}, hosts |-> {h1, h2}, edges |-> {}],
     [nodes |-> {h2, s1}, hosts |-> {h2, s1}, edges |-> {Link(h2, s1), Link(s1, h2)}],
     [nodes |-> {h1, s1}, hosts |-> {h1}, edges |-> {Link(h1, h2)}]}

Lldp(s, S, p) == [source |-> "lldp", switch |-> s, who |-> S, port |-> p]
Mac(s, S, p) == [source |-> "mac", switch |-> s, who |-> S, port |-> p]

MCCaptures ==
    {<<Lldp(s2, {h1}, p1)>>,
     <<Mac(s1, {h1}, p1), Mac(s1, {h1, h2}, p2)>>,
     <<Lldp(s1, {h1, s1}, p1), Mac(s1, {h1}, p2)>>}

MCInventories == {{[service |-> v1, node |-> s1], [service |-> v2, node |-> None]}}

Symmetry == Permutations(Names) \cup Permutations(Threads)

=============================================================================
