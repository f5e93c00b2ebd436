----------------------------- MODULE MCIncidents -----------------------------
(* Small instances of Incidents: two rules of different severity and reach, *)
(* and diagnoses that match both, one or none of them.                      *)
EXTENDS Incidents, TLC

CONSTANTS s1, s2, sch1, sch2, r1, r2

MCOneService  == [s \in Schedules |-> s1]
MCTwoServices == [s \in Schedules |-> IF s = sch1 THEN s1 ELSE s2]

MCRule(id, service, sev) ==
    [rule_id |-> id, service_id |-> service, fire_on |-> {},
     min_confidence |-> 0, severity |-> sev, enabled |-> TRUE]

\* The built-in default rule and a milder one for every localization.
MCRules == {DefaultAlertRule(r1, None), MCRule(r2, s1, "low")}

MCFindings == {[localization |-> "healthy",     confidence |-> 90],
               [localization |-> "target_side", confidence |-> 95],
               [localization |-> "target_side", confidence |-> 47]}
MCThreads == Permutations(Workers)

MCUpDown   == {[localization |-> "healthy",     confidence |-> 90],
               [localization |-> "path_shared", confidence |-> 85]}
=============================================================================
