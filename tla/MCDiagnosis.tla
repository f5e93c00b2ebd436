----------------------------- MODULE MCDiagnosis -----------------------------
(* Small instances of Diagnosis.                                            *)
EXTENDS Diagnosis

CONSTANTS g1, g2, g3

\* Nodes 3 and 4 are bound to one agent.
MCFour   == [n \in Nodes |-> CASE n = 1 -> g1 [] n = 2 -> g2 [] OTHER -> g3]
\* Node 1 is linked to 2 and 4; 3 is behind 2.
MCLinks  == [n \in Nodes |-> CASE n = 1 -> {2, 4} [] n = 2 -> {1, 3}
                               [] n = 3 -> {2} [] n = 4 -> {1}]
=============================================================================
