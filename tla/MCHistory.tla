----------------------------- MODULE MCHistory -----------------------------
(***************************************************************************)
(* The processes of History are interchangeable.                           *)
(***************************************************************************)
EXTENDS History

Symmetry == Permutations(Processes)

\* A path is one of two.
TwoPaths == subject = "path" => \A i \in DOMAIN rows : rows[i].value \in {10, 15}

=============================================================================
