----------------------------- MODULE Monitoring -----------------------------
(***************************************************************************)
(* The pure decision logic of controller/monitoring.py: severities,        *)
(* localizations, when an alert rule fires for a diagnosis, when a          *)
(* schedule is due and how it advances.  No state: the modules of the       *)
(* controller's stateful parts are built on it.                             *)
(*                                                                         *)
(* Confidences are whole percents; names, messages and summaries are left   *)
(* out.  None is Python's None.                                             *)
(***************************************************************************)
EXTENDS Integers

CONSTANT None

ASSUME NoneAssumption == None \notin Int

Severity == {"info", "low", "medium", "high", "critical"}

\* The order in which max_severity compares severities.
SeverityRank ==
    [s \in Severity |-> CASE s = "info"     -> 0
                          [] s = "low"      -> 1
                          [] s = "medium"   -> 2
                          [] s = "high"     -> 3
                          [] s = "critical" -> 4]

Unhealthy == {"source_side", "vantage_isolated", "target_side",
              "path_shared", "inconclusive"}

Localization == Unhealthy \cup {"healthy"}

AlertState == {"firing", "resolved"}

IncidentState == {"open", "acknowledged", "resolved"}

Active == {"open", "acknowledged"}

Percent == 0 .. 100

\* max() over a two-element list keeps the first of two equal severities;
\* the ranks are distinct, so equal ranks are equal severities.
MaxSeverity(s, t) == IF SeverityRank[t] > SeverityRank[s] THEN t ELSE s

IsHealthy(report) == report.localization = "healthy"

RuleMatches(rule, report) ==
    /\ rule.enabled
    /\ ~IsHealthy(report)
    /\ rule.service_id \in {None, report.service_id}
    /\ report.confidence >= rule.min_confidence
    /\ rule.fire_on = {} \/ report.localization \in rule.fire_on

MatchingRules(rules, report) == {rule \in rules : RuleMatches(rule, report)}

\* default_alert_rule: any unhealthy localization, at least half certain.
DefaultAlertRule(id, service) ==
    [rule_id |-> id, service_id |-> service, fire_on |-> Unhealthy,
     min_confidence |-> 50, severity |-> "high", enabled |-> TRUE]

\* Mutation: due one time unit early.
IsDueEarly(schedule, now) ==
    /\ schedule.enabled
    /\ schedule.next_run_at = None \/ schedule.next_run_at <= now + 1

IsDue(schedule, now) ==
    /\ schedule.enabled
    /\ schedule.next_run_at = None \/ schedule.next_run_at <= now

AdvanceSchedule(schedule, now, error) ==
    [schedule EXCEPT
        !.last_run_at = now,
        !.next_run_at = now + schedule.interval,
        !.consecutive_failures = IF error THEN @ + 1 ELSE 0]

BuildAlert(id, rule, report, now) ==
    [alert_id |-> id, rule_id |-> rule.rule_id,
     service_id |-> report.service_id, severity |-> rule.severity,
     state |-> "firing", created_at |-> now]

-----------------------------------------------------------------------------
(* A table of the store: rows by primary key.                               *)

NoRows == [k \in {} |-> None]

\* INSERT ... ON CONFLICT(key) DO UPDATE.
Put(table, key, row) ==
    [k \in DOMAIN table \cup {key} |-> IF k = key THEN row ELSE table[k]]

\* DELETE ... WHERE key = ?
Remove(table, key) == [k \in DOMAIN table \ {key} |-> table[k]]

Rows(table) == {table[k] : k \in DOMAIN table}
=============================================================================
