--------------------------- MODULE IncidentsProofs ---------------------------
(* Proofs about Incidents, for any number of services, rules, threads,      *)
(* failures and restarts.                                                   *)
EXTENDS Incidents, FiniteSetTheorems, TLAPS

-----------------------------------------------------------------------------
(* Facts about the operators.                                               *)

LEMMA ReportNotNone ==
    ASSUME NEW s \in Schedules, NEW f \in Findings
    PROVE  LET r == [service_id |-> ServiceOf[s],
                     localization |-> f.localization,
                     confidence |-> f.confidence]
           IN r \in Report /\ r # None
  BY ConstantsAssumption DEF Report

\* The rows a query returns are rows of the table.
LEMMA RowsTyped ==
    ASSUME TypeOK
    PROVE  /\ Rows(rules) \subseteq RuleRow
           /\ Rows(alerts) \subseteq AlertRow
           /\ Rows(incidents) \subseteq IncidentRow
           /\ \A a \in Rows(alerts) : /\ a.alert_id \in DOMAIN alerts
                                      /\ alerts[a.alert_id] = a
           /\ \A i \in Rows(incidents) : /\ i.incident_id \in DOMAIN incidents
                                         /\ incidents[i.incident_id] = i
  BY DEF TypeOK, Rows

LEMMA NoneIsNoRow == None \notin AlertRow /\ None \notin IncidentRow
  BY ConstantsAssumption

\* What find_firing_alert and find_active_incident return.
LEMMA FoundAlert ==
    ASSUME TypeOK, NEW rule_id, NEW service,
           NEW a \in Newest(FiringFor(rule_id, service), CreatedAt)
    PROVE  /\ a \in AlertRow
           /\ a.alert_id \in DOMAIN alerts /\ alerts[a.alert_id] = a
           /\ a.rule_id = rule_id /\ a.service_id = service
           /\ a.state = "firing"
<1>1. a \in FiringFor(rule_id, service)
  BY DEF Newest
<1> QED
  BY <1>1, RowsTyped DEF FiringFor

LEMMA FoundIncident ==
    ASSUME TypeOK, NEW service, NEW i \in Newest(ActiveOf(service), OpenedAt)
    PROVE  /\ i \in IncidentRow
           /\ i.incident_id \in DOMAIN incidents
           /\ incidents[i.incident_id] = i
           /\ i.service_id = service /\ i.state \in Active
<1>1. i \in ActiveOf(service)
  BY DEF Newest
<1> QED
  BY <1>1, RowsTyped DEF ActiveOf

\* The severity of an incident that takes in an alert is one of the two, and
\* not below either.
LEMMA MaxSeverityTop ==
    ASSUME NEW s \in Severity, NEW t \in Severity
    PROVE  /\ MaxSeverity(s, t) \in {s, t}
           /\ SeverityRank[s] \in Nat /\ SeverityRank[t] \in Nat
           /\ SeverityRank[s] <= SeverityRank[MaxSeverity(s, t)]
           /\ SeverityRank[t] <= SeverityRank[MaxSeverity(s, t)]
<1>1. \A u \in Severity : SeverityRank[u] \in Nat
  BY DEF Severity, SeverityRank
<1> QED
  BY <1>1 DEF MaxSeverity

LEMMA BuildAlertTyped ==
    ASSUME NEW id \in AlertIds, NEW rule \in RuleRow, NEW r \in Report,
           NEW t \in Nat
    PROVE  LET a == BuildAlert(id, rule, r, t)
           IN /\ a \in AlertRow /\ a # None
              /\ a.alert_id = id /\ a.state = "firing"
              /\ a.rule_id = rule.rule_id /\ a.service_id = r.service_id
  BY ConstantsAssumption DEF BuildAlert, AlertRow, RuleRow, Report, AlertState

LEMMA OpenIncidentTyped ==
    ASSUME NEW id \in IncidentIds, NEW a \in AlertRow, NEW t \in Nat
    PROVE  OpenIncident(id, a, t) \in IncidentRow
  BY DEF OpenIncident, AlertRow, IncidentRow, IncidentState

LEMMA AttachAlertTyped ==
    ASSUME NEW i \in IncidentRow, NEW a \in AlertRow
    PROVE  /\ AttachAlert(i, a) \in IncidentRow
           /\ AttachAlert(i, a).incident_id = i.incident_id
           /\ AttachAlert(i, a).service_id = i.service_id
           /\ AttachAlert(i, a).state = i.state
           /\ AttachAlert(i, a).alert_ids = i.alert_ids \cup {a.alert_id}
           /\ AttachAlert(i, a).severity = MaxSeverity(i.severity, a.severity)
<1>1. MaxSeverity(i.severity, a.severity) \in Severity
  BY MaxSeverityTop DEF IncidentRow, AlertRow
<1> QED
  BY <1>1 DEF AttachAlert, AlertRow, IncidentRow

LEMMA MarkResolvedTyped ==
    ASSUME NEW i \in IncidentRow, NEW t \in Nat
    PROVE  /\ MarkResolved(i, t) \in IncidentRow
           /\ MarkResolved(i, t).state = "resolved"
           /\ MarkResolved(i, t).incident_id = i.incident_id
           /\ MarkResolved(i, t).service_id = i.service_id
           /\ MarkResolved(i, t).alert_ids = i.alert_ids
           /\ MarkResolved(i, t).severity = i.severity
  BY DEF MarkResolved, IncidentRow, IncidentState

LEMMA AcknowledgedTyped ==
    ASSUME NEW i \in IncidentRow
    PROVE  LET j == [i EXCEPT !.state = "acknowledged"]
           IN /\ j \in IncidentRow
              /\ j.incident_id = i.incident_id
              /\ j.service_id = i.service_id
              /\ j.alert_ids = i.alert_ids
              /\ j.severity = i.severity
  BY DEF IncidentRow, IncidentState

LEMMA ResolvedAlertTyped ==
    ASSUME NEW a \in AlertRow
    PROVE  LET b == [a EXCEPT !.state = "resolved"]
           IN /\ b \in AlertRow
              /\ b.alert_id = a.alert_id /\ b.rule_id = a.rule_id
              /\ b.service_id = a.service_id /\ b.severity = a.severity
              /\ b.state = "resolved"
  BY DEF AlertRow, AlertState

-----------------------------------------------------------------------------
(* The type invariant.                                                      *)

LEMMA InitType == Init => TypeOK
  BY DEF Init, TypeOK, NoRows, PC

\* The pass over the due schedules keeps the type invariant.
LEMMA PassType ==
    ASSUME TypeOK, NEW w \in Workers,
           \/ \E D \in SUBSET Schedules : BeginPass(w, D)
           \/ \E s \in Schedules, f \in Findings : Diagnose(w, s, f)
           \/ \E s \in Schedules : DiagnosisFails(w, s)
           \/ EndPass(w)
           \/ PassFails(w)
    PROVE  TypeOK'
<1> USE DEF TypeOK, PC
<1>1. ASSUME NEW D \in SUBSET Schedules, BeginPass(w, D) PROVE TypeOK'
  BY <1>1 DEF BeginPass, tables, bounds
<1>2. ASSUME NEW s \in Schedules, NEW f \in Findings, Diagnose(w, s, f)
      PROVE  TypeOK'
  <2> DEFINE r == [service_id |-> ServiceOf[s], localization |-> f.localization,
                   confidence |-> f.confidence]
  <2>1. r \in Report /\ r # None
    BY ReportNotNone
  <2>2. /\ report' = [report EXCEPT ![w] = r]
        /\ pc' = [pc EXCEPT ![w] = IF IsHealthy(r) THEN "list_alerts"
                                                  ELSE "list_rules"]
        /\ faults' \in Nat
    BY <1>2 DEF Diagnose
  <2> HIDE DEF r
  <2> QED BY <1>2, <2>1, <2>2 DEF Diagnose, tables
<1>3. ASSUME NEW s \in Schedules, DiagnosisFails(w, s) PROVE TypeOK'
  BY <1>3 DEF DiagnosisFails, tables
<1>4. CASE EndPass(w)
  BY <1>4 DEF EndPass, tables, bounds
<1>5. CASE PassFails(w)
  BY <1>5 DEF PassFails, tables
<1> QED BY <1>1, <1>2, <1>3, <1>4, <1>5

\* A worker leaves find_alert with an alert in hand: a firing one of the rule
\* and the service, or a new one when there is none.
LEMMA FindAlertTakes ==
    ASSUME TypeOK, NEW w \in Workers, NEW rule \in rules_todo[w],
           FindAlert(w, rule)
    PROVE  \E a \in AlertRow :
              /\ alert' = [alert EXCEPT ![w] = a]
              /\ a.rule_id = rule.rule_id
              /\ a.service_id = report[w].service_id
              /\ a.state = "firing"
              /\ \/ a.alert_id \in DOMAIN alerts /\ alerts[a.alert_id] = a
                 \/ /\ FiringFor(rule.rule_id, report[w].service_id) = {}
                    /\ a.alert_id \in UnusedAlertIds
<1>1. ASSUME NEW a \in Newest(FiringFor(rule.rule_id, report[w].service_id),
                              CreatedAt),
             alert' = [alert EXCEPT ![w] = a]
      PROVE  /\ a \in AlertRow
             /\ a.alert_id \in DOMAIN alerts /\ alerts[a.alert_id] = a
             /\ a.rule_id = rule.rule_id
             /\ a.service_id = report[w].service_id
             /\ a.state = "firing"
  BY FoundAlert
<1>2. ASSUME FiringFor(rule.rule_id, report[w].service_id) = {},
             UnusedAlertIds # {},
             alert' = [alert EXCEPT ![w] =
                          BuildAlert(CHOOSE id \in UnusedAlertIds : TRUE, rule,
                                     report[w], now[w])]
      PROVE  \E a \in AlertRow :
              /\ alert' = [alert EXCEPT ![w] = a]
              /\ a.rule_id = rule.rule_id
              /\ a.service_id = report[w].service_id
              /\ a.state = "firing"
              /\ a.alert_id \in UnusedAlertIds
  <2> PICK id \in UnusedAlertIds : id = CHOOSE x \in UnusedAlertIds : TRUE
    BY <1>2
  <2>1. id \in AlertIds
    BY DEF UnusedAlertIds
  <2>2. rule \in RuleRow /\ report[w] \in Report /\ now[w] \in Nat
    BY DEF FindAlert, TypeOK
  <2> DEFINE a == BuildAlert(id, rule, report[w], now[w])
  <2>3. /\ a \in AlertRow /\ a.alert_id = id /\ a.state = "firing"
        /\ a.rule_id = rule.rule_id /\ a.service_id = report[w].service_id
    BY <2>1, <2>2, BuildAlertTyped
  <2>4. alert' = [alert EXCEPT ![w] = a]
    BY <1>2
  <2> HIDE DEF a
  <2> QED BY <2>3, <2>4
<1> QED
  BY <1>1, <1>2 DEF FindAlert

\* It leaves find_incident with an active incident of the service that has
\* taken the alert in, or with a new one.
LEMMA FindIncidentTakes ==
    ASSUME TypeOK, NEW w \in Workers, FindIncident(w)
    PROVE  /\ alert[w] \in AlertRow
           /\ \E j \in IncidentRow :
              /\ incident' = [incident EXCEPT ![w] = j]
              /\ \/ \E i \in IncidentRow :
                       /\ i.incident_id \in DOMAIN incidents
                       /\ incidents[i.incident_id] = i
                       /\ i.service_id = alert[w].service_id
                       /\ i.state \in Active
                       /\ j = AttachAlert(i, alert[w])
                 \/ \E id \in IncidentIds :
                       /\ j = OpenIncident(id, alert[w], now[w])
                       /\ ActiveOf(alert[w].service_id) = {}
                       /\ id \notin DOMAIN incidents
<1>0. alert[w] \in AlertRow /\ now[w] \in Nat
  BY DEF FindIncident, TypeOK
<1>1. ASSUME NEW i \in Newest(ActiveOf(alert[w].service_id), OpenedAt)
      PROVE  /\ i \in IncidentRow
             /\ i.incident_id \in DOMAIN incidents
             /\ incidents[i.incident_id] = i
             /\ i.service_id = alert[w].service_id /\ i.state \in Active
             /\ AttachAlert(i, alert[w]) \in IncidentRow
  BY <1>0, FoundIncident, AttachAlertTyped
<1>2. ASSUME UnusedIncidentIds # {}
      PROVE  LET id == CHOOSE x \in UnusedIncidentIds : TRUE
             IN /\ id \in IncidentIds /\ id \notin DOMAIN incidents
                /\ OpenIncident(id, alert[w], now[w]) \in IncidentRow
  <2> PICK id \in UnusedIncidentIds : id = CHOOSE x \in UnusedIncidentIds : TRUE
    BY <1>2
  <2> QED BY <1>0, OpenIncidentTyped DEF UnusedIncidentIds
<1> QED
  BY <1>0, <1>1, <1>2 DEF FindIncident

\* So does the handling of an unhealthy report,
LEMMA AlertType ==
    ASSUME TypeOK, NEW w \in Workers,
           \/ ListRules(w)
           \/ \E rule \in rules_todo[w] : FindAlert(w, rule)
           \/ SaveAlert(w)
           \/ FindIncident(w)
           \/ SaveIncident(w)
    PROVE  TypeOK'
<1>1. CASE ListRules(w)
  <2>1. MatchingRules(Rows(rules), report[w]) \subseteq RuleRow
    BY RowsTyped DEF MatchingRules
  <2> QED BY <1>1, <2>1 DEF ListRules, tables, bounds, TypeOK, PC
<1>2. ASSUME NEW rule \in rules_todo[w], FindAlert(w, rule) PROVE TypeOK'
  <2> PICK a \in AlertRow : alert' = [alert EXCEPT ![w] = a]
    BY <1>2, FindAlertTakes
  <2> QED
    BY <1>2, NoneIsNoRow DEF FindAlert, tables, bounds, TypeOK, PC
<1>3. CASE SaveAlert(w)
  <2>1. alert[w] \in AlertRow /\ alert[w].alert_id \in AlertIds
    BY <1>3 DEF SaveAlert, TypeOK, AlertRow
  <2>2. /\ DOMAIN alerts' \subseteq AlertIds
        /\ \A a \in DOMAIN alerts' : /\ alerts'[a] \in AlertRow
                                     /\ alerts'[a].alert_id = a
    BY <1>3, <2>1 DEF SaveAlert, TypeOK, Put
  <2> QED BY <1>3, <2>2 DEF SaveAlert, TypeOK, PC, bounds, locals
<1>4. CASE FindIncident(w)
  <2> PICK i \in IncidentRow : incident' = [incident EXCEPT ![w] = i]
    BY <1>4, FindIncidentTakes
  <2> QED
    BY <1>4, NoneIsNoRow DEF FindIncident, tables, bounds, TypeOK, PC
<1>5. CASE SaveIncident(w)
  <2>1. incident[w] \in IncidentRow /\ incident[w].incident_id \in IncidentIds
    BY <1>5 DEF SaveIncident, TypeOK, IncidentRow
  <2>2. /\ DOMAIN incidents' \subseteq IncidentIds
        /\ \A i \in DOMAIN incidents' : /\ incidents'[i] \in IncidentRow
                                        /\ incidents'[i].incident_id = i
    BY <1>5, <2>1 DEF SaveIncident, TypeOK, Put
  <2> QED BY <1>5, <2>2 DEF SaveIncident, TypeOK, PC, bounds
<1> QED BY <1>1, <1>2, <1>3, <1>4, <1>5

\* of a healthy one,
LEMMA ResolveType ==
    ASSUME TypeOK, NEW w \in Workers,
           \/ ListAlerts(w) \/ ResolveAlert(w)
           \/ ListIncidents(w) \/ ResolveIncident(w)
    PROVE  TypeOK'
<1>1. CASE ListAlerts(w)
  <2> PICK T \in Page(Firing(report[w].service_id), CreatedAt, AlertLimit) :
            alert_todo' = [alert_todo EXCEPT ![w] = T]
    BY <1>1 DEF ListAlerts
  <2>1. T \subseteq AlertRow
    BY RowsTyped DEF Page, Firing
  <2> QED BY <1>1, <2>1 DEF ListAlerts, tables, bounds, TypeOK, PC
<1>2. CASE ResolveAlert(w)
  <2> PICK a \in alert_todo[w] :
            /\ alerts' = Put(alerts, a.alert_id,
                              [a EXCEPT !.state = "resolved"])
            /\ alert_todo' = [alert_todo EXCEPT ![w] = @ \ {a}]
    BY <1>2 DEF ResolveAlert, Newest
  <2>1. a \in AlertRow /\ a.alert_id \in AlertIds
    BY DEF TypeOK, AlertRow
  <2>2. /\ DOMAIN alerts' \subseteq AlertIds
        /\ \A k \in DOMAIN alerts' : /\ alerts'[k] \in AlertRow
                                     /\ alerts'[k].alert_id = k
    BY <2>1, ResolvedAlertTyped DEF TypeOK, Put
  <2> QED BY <1>2, <2>2 DEF ResolveAlert, bounds, TypeOK, PC
<1>3. CASE ListIncidents(w)
  <2> PICK T \in Page({i \in Rows(incidents) :
                          i.service_id = report[w].service_id},
                      OpenedAt, IncidentLimit) :
         LET todo == {i \in T : i.state \in Active}
         IN /\ incident_todo' = [incident_todo EXCEPT ![w] = todo]
            /\ pc' = [pc EXCEPT ![w] = IF todo = {} THEN "pass"
                                                   ELSE "resolve_incidents"]
    BY <1>3 DEF ListIncidents
  <2>1. {i \in T : i.state \in Active} \subseteq IncidentRow
    BY RowsTyped DEF Page
  <2> QED BY <1>3, <2>1 DEF ListIncidents, tables, bounds, TypeOK, PC
<1>4. CASE ResolveIncident(w)
  <2> PICK i \in incident_todo[w] :
         /\ incidents' = Put(incidents, i.incident_id, MarkResolved(i, now[w]))
         /\ incident_todo' = [incident_todo EXCEPT ![w] = @ \ {i}]
         /\ pc' = [pc EXCEPT ![w] = IF incident_todo[w] = {i}
                                    THEN "pass" ELSE "resolve_incidents"]
    BY <1>4 DEF ResolveIncident, Newest
  <2>1. i \in IncidentRow /\ i.incident_id \in IncidentIds /\ now[w] \in Nat
    BY DEF TypeOK, IncidentRow
  <2>2. /\ DOMAIN incidents' \subseteq IncidentIds
        /\ \A k \in DOMAIN incidents' : /\ incidents'[k] \in IncidentRow
                                        /\ incidents'[k].incident_id = k
    BY <2>1, MarkResolvedTyped DEF TypeOK, Put
  <2> QED BY <1>4, <2>2 DEF ResolveIncident, bounds, TypeOK, PC
<1> QED BY <1>1, <1>2, <1>3, <1>4

\* and the requests of clients.
LEMMA ApiType ==
    ASSUME TypeOK, Api
    PROVE  TypeOK'
<1>1. ASSUME NEW o \in Operators, NEW id \in DOMAIN incidents,
             Acknowledge(o, id) \/ Resolve(o, id)
      PROVE  TypeOK'
  <2>1. incidents[id] \in IncidentRow /\ clock \in Nat
    BY DEF TypeOK
  <2>2. \E i \in IncidentRow : request' = [request EXCEPT ![o] = i]
    BY <1>1, <2>1, AcknowledgedTyped, MarkResolvedTyped DEF Acknowledge, Resolve
  <2> QED
    BY <1>1, <2>2 DEF Acknowledge, Resolve, TypeOK, tables, bounds, locals
<1>2. ASSUME NEW o \in Operators, SaveRequest(o) PROVE TypeOK'
  <2>1. request[o] \in IncidentRow /\ request[o].incident_id \in IncidentIds
    BY <1>2 DEF SaveRequest, TypeOK, IncidentRow
  <2>2. /\ DOMAIN incidents' \subseteq IncidentIds
        /\ \A k \in DOMAIN incidents' : /\ incidents'[k] \in IncidentRow
                                        /\ incidents'[k].incident_id = k
    BY <1>2, <2>1 DEF SaveRequest, TypeOK, Put
  <2> QED BY <1>2, <2>2 DEF SaveRequest, TypeOK, bounds, locals
<1>3. ASSUME NEW o \in Operators, RequestFails(o) PROVE TypeOK'
  BY <1>3 DEF RequestFails, TypeOK, tables, locals
<1>4. ASSUME NEW rule \in RuleChoices, RegisterRule(rule) PROVE TypeOK'
  <2>1. rule \in RuleRow /\ rule.rule_id \in RuleIds
    BY ConstantsAssumption DEF RuleRow
  <2>2. /\ DOMAIN rules' \subseteq RuleIds
        /\ \A k \in DOMAIN rules' : /\ rules'[k] \in RuleRow
                                    /\ rules'[k].rule_id = k
    BY <1>4, <2>1 DEF RegisterRule, TypeOK, Put
  <2> QED BY <1>4, <2>2 DEF RegisterRule, TypeOK, locals
<1>5. ASSUME NEW id \in DOMAIN rules, DeleteRule(id) PROVE TypeOK'
  BY <1>5 DEF DeleteRule, TypeOK, Remove, locals
<1> QED BY <1>1, <1>2, <1>3, <1>4, <1>5 DEF Api

LEMMA TypeStep ==
    ASSUME TypeOK, [Next]_vars
    PROVE  TypeOK'
<1>1. CASE Tick
  BY <1>1 DEF Tick, TypeOK, tables, bounds, locals
<1>2. ASSUME NEW w \in Workers, NEW D \in SUBSET Schedules, BeginPass(w, D)
      PROVE  TypeOK'
  BY <1>2, PassType
<1>3. ASSUME NEW w \in Workers, Step(w) PROVE TypeOK'
  BY <1>3, PassType, AlertType, ResolveType DEF Step
<1>4. ASSUME NEW w \in Workers, ProcessFails(w) PROVE TypeOK'
  BY <1>4 DEF ProcessFails, TypeOK, PC, tables
<1>5. ASSUME NEW w \in Workers, Fail(w) PROVE TypeOK'
  BY <1>4, <1>5, PassType DEF Fail
<1>6. CASE Restart
  BY <1>6 DEF Restart, TypeOK, PC, tables
<1>7. CASE Api
  BY <1>7, ApiType
<1>8. CASE UNCHANGED vars
  BY <1>8 DEF vars, TypeOK, tables, bounds, locals
<1> QED
  BY <1>1, <1>2, <1>3, <1>5, <1>6, <1>7, <1>8 DEF Next

\* The tables and the threads' copies are well formed, and each thread holds
\* the locals the point it has reached in the pipeline defines.
THEOREM TypeCorrect == Spec => []TypeOK
  BY InitType, TypeStep, PTL DEF Spec

-----------------------------------------------------------------------------
(* The alerts of an incident.                                               *)

\* What no save of an alert changes.
SameAlert(a, b) ==
    /\ a.rule_id = b.rule_id
    /\ a.service_id = b.service_id
    /\ a.severity = b.severity

\* Every copy of an alert agrees with the saved row on it; an alert under
\* construction is in the hands of one thread; a thread looks for an incident
\* only for an alert it has saved.
AlertCopies ==
    /\ \A w \in Workers :
         /\ alert[w] # None /\ alert[w].alert_id \in DOMAIN alerts =>
                SameAlert(alert[w], alerts[alert[w].alert_id])
         /\ pc[w] \in {"find_incident", "save_incident"} =>
                alert[w].alert_id \in DOMAIN alerts
         /\ \A a \in alert_todo[w] : /\ a.alert_id \in DOMAIN alerts
                                     /\ SameAlert(a, alerts[a.alert_id])
    /\ \A v, w \in Workers :
         /\ v # w
         /\ alert[v] # None /\ alert[w] # None
         /\ alert[v].alert_id = alert[w].alert_id
         => alert[w].alert_id \in DOMAIN alerts

\* RefersToSaved and HasTopSeverity, against a given table of alerts.
Sound(i, table) ==
    /\ i.alert_ids # {}
    /\ \A a \in i.alert_ids :
         /\ a \in DOMAIN table
         /\ table[a].service_id = i.service_id
         /\ SeverityRank[table[a].severity] <= SeverityRank[i.severity]
    /\ \E a \in i.alert_ids : table[a].severity = i.severity

\* Every incident is sound, the copies that threads hold included: a stale
\* copy that is written back was sound when it was read and still is.
IncidentCopies ==
    /\ \A id \in DOMAIN incidents : Sound(incidents[id], alerts)
    /\ \A w \in Workers : /\ incident[w] # None => Sound(incident[w], alerts)
                          /\ \A i \in incident_todo[w] : Sound(i, alerts)
    /\ \A o \in Operators : request[o] # None => Sound(request[o], alerts)

IInv == TypeOK /\ AlertCopies /\ IncidentCopies

\* No saved alert disappears or changes its rule, service or severity.
AlertsKept ==
    \A a \in DOMAIN alerts : /\ a \in DOMAIN alerts'
                             /\ SameAlert(alerts'[a], alerts[a])

\* Only save_alert and _resolve_service write the table of alerts.
LEMMA AlertWriters ==
    ASSUME [Next]_vars
    PROVE  \/ \E w \in Workers : SaveAlert(w) \/ ResolveAlert(w)
           \/ alerts' = alerts
<1>1. ASSUME NEW w \in Workers, Step(w)
      PROVE  SaveAlert(w) \/ ResolveAlert(w) \/ alerts' = alerts
  BY <1>1 DEF Step, tables, Diagnose, EndPass, ListRules, FindAlert,
     FindIncident, SaveIncident, ListAlerts, ListIncidents, ResolveIncident
<1>2. ASSUME NEW w \in Workers, Fail(w) PROVE alerts' = alerts
  BY <1>2 DEF Fail, tables, DiagnosisFails, ProcessFails, PassFails
<1>3. CASE Api
  BY <1>3 DEF Api, tables, Acknowledge, Resolve, SaveRequest, RequestFails,
     RegisterRule, DeleteRule
<1>4. CASE Tick \/ Restart \/ UNCHANGED vars
  BY <1>4 DEF Tick, Restart, tables, vars
<1>5. ASSUME NEW w \in Workers, NEW D \in SUBSET Schedules, BeginPass(w, D)
      PROVE  alerts' = alerts
  BY <1>5 DEF BeginPass, tables
<1> QED
  BY <1>1, <1>2, <1>3, <1>4, <1>5 DEF Next

LEMMA StepKeepsAlerts ==
    ASSUME TypeOK, AlertCopies, [Next]_vars
    PROVE  AlertsKept
<1>1. ASSUME NEW w \in Workers, SaveAlert(w) PROVE AlertsKept
  BY <1>1 DEF SaveAlert, Put, TypeOK, AlertCopies, AlertsKept, SameAlert
<1>2. ASSUME NEW w \in Workers, ResolveAlert(w) PROVE AlertsKept
  <2> PICK a \in alert_todo[w] :
            alerts' = Put(alerts, a.alert_id, [a EXCEPT !.state = "resolved"])
    BY <1>2 DEF ResolveAlert, Newest
  <2>1. a \in AlertRow /\ SameAlert(a, alerts[a.alert_id])
    BY DEF TypeOK, AlertCopies
  <2>2. SameAlert([a EXCEPT !.state = "resolved"], alerts[a.alert_id])
    BY <2>1, ResolvedAlertTyped DEF SameAlert
  <2> QED BY <2>2 DEF Put, AlertsKept, SameAlert
<1>3. CASE alerts' = alerts
  BY <1>3 DEF AlertsKept, SameAlert
<1> QED
  BY <1>1, <1>2, <1>3, AlertWriters

\* What is sound stays sound, whoever holds it.
LEMMA SoundKept ==
    ASSUME AlertsKept
    PROVE  \A i : Sound(i, alerts) => Sound(i, alerts')
  BY DEF AlertsKept, SameAlert, Sound

\* Soundness does not depend on the state of an incident.
LEMMA SoundSame ==
    ASSUME NEW i, NEW j, NEW t, Sound(i, t), j.alert_ids = i.alert_ids,
           j.service_id = i.service_id, j.severity = i.severity
    PROVE  Sound(j, t)
  BY DEF Sound

LEMMA SoundOpened ==
    ASSUME NEW t, NEW a \in AlertRow, a.alert_id \in DOMAIN t,
           SameAlert(a, t[a.alert_id]), NEW id, NEW at
    PROVE  Sound(OpenIncident(id, a, at), t)
<1>1. SeverityRank[a.severity] <= SeverityRank[a.severity]
  BY MaxSeverityTop DEF AlertRow
<1> QED
  BY <1>1 DEF Sound, OpenIncident, SameAlert

\* Taking in an alert raises the severity exactly as far as needed.
LEMMA SoundAttached ==
    ASSUME NEW t, NEW a \in AlertRow, a.alert_id \in DOMAIN t,
           SameAlert(a, t[a.alert_id]),
           NEW i \in IncidentRow, Sound(i, t), i.service_id = a.service_id,
           \A k \in DOMAIN t : t[k].severity \in Severity
    PROVE  Sound(AttachAlert(i, a), t)
<1> DEFINE j == AttachAlert(i, a)
<1>1. /\ j.service_id = i.service_id
      /\ j.alert_ids = i.alert_ids \cup {a.alert_id}
      /\ j.severity = MaxSeverity(i.severity, a.severity)
  BY AttachAlertTyped
<1>2. i.severity \in Severity /\ a.severity \in Severity
  BY DEF IncidentRow, AlertRow
<1>3. /\ j.severity \in {i.severity, a.severity}
      /\ SeverityRank[i.severity] <= SeverityRank[j.severity]
      /\ SeverityRank[a.severity] <= SeverityRank[j.severity]
  BY <1>1, <1>2, MaxSeverityTop
<1>4. \A u \in Severity : SeverityRank[u] \in Nat
  BY MaxSeverityTop
<1> HIDE DEF j
<1>5. ASSUME NEW k \in j.alert_ids
      PROVE  /\ k \in DOMAIN t /\ t[k].service_id = j.service_id
             /\ SeverityRank[t[k].severity] <= SeverityRank[j.severity]
  <2>1. CASE k = a.alert_id
    BY <1>1, <1>3, <2>1 DEF SameAlert
  <2>2. CASE k \in i.alert_ids
    BY <1>1, <1>2, <1>3, <1>4, <2>2 DEF Sound
  <2> QED BY <1>1, <1>5, <2>1, <2>2
<1>6. \E k \in j.alert_ids : t[k].severity = j.severity
  BY <1>1, <1>3 DEF Sound, SameAlert
<1> QED
  BY <1>1, <1>5, <1>6 DEF Sound, j

LEMMA AlertCopiesStep ==
    ASSUME TypeOK, AlertCopies, [Next]_vars
    PROVE  AlertCopies'
<1>1. ASSUME NEW w \in Workers, NEW rule \in rules_todo[w], FindAlert(w, rule)
      PROVE  AlertCopies'
  <2> PICK a \in AlertRow :
         /\ alert' = [alert EXCEPT ![w] = a]
         /\ \/ a.alert_id \in DOMAIN alerts /\ alerts[a.alert_id] = a
            \/ a.alert_id \in UnusedAlertIds
    BY <1>1, FindAlertTakes
  <2>1. a # None
    BY NoneIsNoRow
  <2>2. a.alert_id \notin DOMAIN alerts =>
            \A v \in Workers : alert[v] # None => alert[v].alert_id # a.alert_id
    BY DEF UnusedAlertIds
  <2>3. a.alert_id \in DOMAIN alerts => alerts[a.alert_id] = a
    BY DEF UnusedAlertIds
  <2> QED
    BY <1>1, <2>1, <2>2, <2>3
    DEF FindAlert, tables, bounds, TypeOK, AlertCopies, SameAlert
<1>2. ASSUME NEW w \in Workers, SaveAlert(w) PROVE AlertCopies'
  <2>1. /\ DOMAIN alerts' = DOMAIN alerts \cup {alert[w].alert_id}
        /\ alerts'[alert[w].alert_id] = alert[w]
        /\ \A k \in DOMAIN alerts : k # alert[w].alert_id =>
                alerts'[k] = alerts[k]
    BY <1>2 DEF SaveAlert, Put
  <2>2. alert[w] # None
    BY <1>2 DEF SaveAlert, TypeOK
  <2>3. alert' = alert /\ alert_todo' = alert_todo
    BY <1>2 DEF SaveAlert, locals
  <2>4. \A v \in Workers : pc'[v] \in {"find_incident", "save_incident"} =>
          v = w \/ pc[v] \in {"find_incident", "save_incident"}
    BY <1>2 DEF SaveAlert, TypeOK
  <2>5. ASSUME NEW b, b.alert_id \in DOMAIN alerts,
               SameAlert(b, alerts[b.alert_id])
        PROVE  b.alert_id \in DOMAIN alerts' /\ SameAlert(b, alerts'[b.alert_id])
    <3>1. CASE b.alert_id = alert[w].alert_id
      <4>1. SameAlert(alert[w], alerts[b.alert_id])
        BY <2>2, <2>5, <3>1, Zenon DEF AlertCopies
      <4> QED
        BY <2>1, <2>5, <3>1, <4>1 DEF SameAlert
    <3>2. CASE b.alert_id # alert[w].alert_id
      BY <2>1, <2>5, <3>2
    <3> QED
      BY <3>1, <3>2
  <2>6. ASSUME NEW v \in Workers, alert[v] # None, alert[v].alert_id \in DOMAIN alerts'
        PROVE  SameAlert(alert[v], alerts'[alert[v].alert_id])
    <3>1. CASE alert[v].alert_id \in DOMAIN alerts
      BY <2>5, <2>6, <3>1, Zenon DEF AlertCopies
    <3>2. CASE alert[v].alert_id \notin DOMAIN alerts
      <4>1. alert[v].alert_id = alert[w].alert_id
        BY <2>1, <2>6, <3>2
      <4>2. v = w
        BY <2>2, <2>6, <3>2, <4>1, Zenon DEF AlertCopies
      <4> QED
        BY <2>1, <4>2 DEF SameAlert
    <3> QED
      BY <3>1, <3>2
  <2>7. ASSUME NEW v \in Workers, pc'[v] \in {"find_incident", "save_incident"}
        PROVE  alert[v].alert_id \in DOMAIN alerts'
    <3>1. CASE v = w
      BY <2>1, <3>1
    <3>2. CASE v # w
      BY <2>1, <2>4, <2>7, <3>2 DEF AlertCopies
    <3> QED
      BY <3>1, <3>2
  <2>8. \A v \in Workers : \A b \in alert_todo[v] :
          b.alert_id \in DOMAIN alerts' /\ SameAlert(b, alerts'[b.alert_id])
    BY <2>5, Zenon DEF AlertCopies
  <2>9. \A u, v \in Workers :
          /\ u # v /\ alert[u] # None /\ alert[v] # None
          /\ alert[u].alert_id = alert[v].alert_id
          => alert[v].alert_id \in DOMAIN alerts'
    BY <2>1 DEF AlertCopies
  <2> QED
    BY <2>3, <2>6, <2>7, <2>8, <2>9, Zenon DEF AlertCopies
<1>3. ASSUME NEW w \in Workers, FindIncident(w) PROVE AlertCopies'
  BY <1>3 DEF FindIncident, tables, TypeOK, AlertCopies
<1>4. ASSUME NEW w \in Workers, SaveIncident(w) PROVE AlertCopies'
  BY <1>4 DEF SaveIncident, TypeOK, AlertCopies
<1>5. ASSUME NEW w \in Workers, ListAlerts(w) PROVE AlertCopies'
  <2> PICK T \in Page(Firing(report[w].service_id), CreatedAt, AlertLimit) :
            alert_todo' = [alert_todo EXCEPT ![w] = T]
    BY <1>5 DEF ListAlerts
  <2>1. \A a \in T : a.alert_id \in DOMAIN alerts /\ alerts[a.alert_id] = a
    BY RowsTyped DEF Page, Firing
  <2> QED
    BY <1>5, <2>1 DEF ListAlerts, tables, TypeOK, AlertCopies, SameAlert
<1>6. ASSUME NEW w \in Workers, ResolveAlert(w) PROVE AlertCopies'
  <2> PICK a \in alert_todo[w] :
            /\ alerts' = Put(alerts, a.alert_id,
                              [a EXCEPT !.state = "resolved"])
            /\ alert_todo' = [alert_todo EXCEPT ![w] = @ \ {a}]
    BY <1>6 DEF ResolveAlert, Newest
  <2>1. DOMAIN alerts' = DOMAIN alerts
    BY DEF Put, AlertCopies
  <2>2. \A k \in DOMAIN alerts : SameAlert(alerts'[k], alerts[k])
    BY <1>6, StepKeepsAlerts DEF AlertsKept
  <2>3. pc' = pc /\ alert' = alert
    BY <1>6 DEF ResolveAlert
  <2>4. \A v \in Workers : alert_todo'[v] \subseteq alert_todo[v]
    BY DEF TypeOK
  <2>5. ASSUME NEW v \in Workers, alert[v] # None,
               alert[v].alert_id \in DOMAIN alerts
        PROVE  SameAlert(alert[v], alerts'[alert[v].alert_id])
    BY <2>2, <2>5 DEF AlertCopies, SameAlert
  <2>6. ASSUME NEW v \in Workers, NEW b \in alert_todo'[v]
        PROVE  /\ b.alert_id \in DOMAIN alerts
               /\ SameAlert(b, alerts'[b.alert_id])
    BY <2>2, <2>4 DEF AlertCopies, SameAlert
  <2> HIDE DEF SameAlert
  <2> QED
    BY <2>1, <2>3, <2>5, <2>6 DEF AlertCopies
<1>7. ASSUME NEW w \in Workers, ProcessFails(w) PROVE AlertCopies'
  BY <1>7 DEF ProcessFails, tables, TypeOK, AlertCopies
<1>8. CASE Restart
  BY <1>8 DEF Restart, tables, TypeOK, AlertCopies
<1>9. ASSUME alerts' = alerts, alert' = alert, alert_todo' = alert_todo,
             \A w \in Workers : pc'[w] \in {"find_incident", "save_incident"} =>
                                    pc'[w] = pc[w]
      PROVE  AlertCopies'
  BY <1>9 DEF AlertCopies
<1>10. ASSUME NEW w \in Workers,
              \/ \E D \in SUBSET Schedules : BeginPass(w, D)
              \/ \E s \in Schedules, f \in Findings : Diagnose(w, s, f)
              \/ \E s \in Schedules : DiagnosisFails(w, s)
              \/ EndPass(w) \/ PassFails(w) \/ ListRules(w)
              \/ ListIncidents(w) \/ ResolveIncident(w)
       PROVE  AlertCopies'
  <2>1. alerts' = alerts /\ alert' = alert /\ alert_todo' = alert_todo
    BY <1>10
    DEF BeginPass, Diagnose, DiagnosisFails, EndPass, PassFails, ListRules,
        ListIncidents, ResolveIncident, tables
  <2>2. \/ pc' = pc
        \/ \E x : /\ x \notin {"find_incident", "save_incident"}
                 /\ pc' = [pc EXCEPT ![w] = x]
    <3>1. CASE \/ \E D \in SUBSET Schedules : BeginPass(w, D)
               \/ \E s \in Schedules : DiagnosisFails(w, s)
               \/ EndPass(w) \/ PassFails(w)
      BY <3>1 DEF BeginPass, DiagnosisFails, EndPass, PassFails
    <3>2. CASE \E s \in Schedules, f \in Findings : Diagnose(w, s, f)
      BY <3>2 DEF Diagnose
    <3>3. CASE ListRules(w)
      BY <3>3 DEF ListRules
    <3>4. CASE ListIncidents(w)
      BY <3>4 DEF ListIncidents
    <3>5. CASE ResolveIncident(w)
      BY <3>5 DEF ResolveIncident
    <3> QED BY <1>10, <3>1, <3>2, <3>3, <3>4, <3>5
  <2> QED
    BY <1>9, <2>1, <2>2 DEF TypeOK
<1>11. CASE Tick \/ Api \/ UNCHANGED vars
  BY <1>9, <1>11
  DEF Tick, Api, Acknowledge, Resolve, SaveRequest, RequestFails, RegisterRule,
      DeleteRule, vars, tables, locals
<1> QED
  BY <1>1, <1>2, <1>3, <1>4, <1>5, <1>6, <1>7, <1>8, <1>10, <1>11
  DEF Next, Step, Fail

LEMMA IncidentCopiesStep ==
    ASSUME TypeOK, AlertCopies, IncidentCopies, [Next]_vars
    PROVE  IncidentCopies'
<1>0. \A i : Sound(i, alerts) => Sound(i, alerts')
  BY StepKeepsAlerts, SoundKept
<1>1. ASSUME NEW w \in Workers, FindIncident(w) PROVE IncidentCopies'
  <2>1. PICK j \in IncidentRow :
         /\ incident' = [incident EXCEPT ![w] = j]
         /\ \/ \E i \in IncidentRow :
                  /\ i.incident_id \in DOMAIN incidents
                  /\ incidents[i.incident_id] = i
                  /\ i.service_id = alert[w].service_id
                  /\ j = AttachAlert(i, alert[w])
            \/ \E id \in IncidentIds : j = OpenIncident(id, alert[w], now[w])
    BY <1>1, FindIncidentTakes
  <2>2. /\ alert[w] \in AlertRow /\ alert[w].alert_id \in DOMAIN alerts
        /\ SameAlert(alert[w], alerts[alert[w].alert_id])
    BY <1>1, NoneIsNoRow DEF FindIncident, TypeOK, AlertCopies
  <2>3. \A k \in DOMAIN alerts : alerts[k].severity \in Severity
    BY DEF TypeOK, AlertRow
  <2>4. Sound(j, alerts)
    BY <2>1, <2>2, <2>3, SoundAttached, SoundOpened DEF IncidentCopies
  <2> QED
    BY <1>0, <1>1, <2>1, <2>4 DEF FindIncident, tables, TypeOK, IncidentCopies
<1>2. ASSUME NEW w \in Workers, SaveIncident(w) PROVE IncidentCopies'
  BY <1>0, <1>2 DEF SaveIncident, Put, TypeOK, IncidentCopies
<1>3. ASSUME NEW w \in Workers, ListIncidents(w) PROVE IncidentCopies'
  <2> PICK T \in Page({i \in Rows(incidents) :
                          i.service_id = report[w].service_id},
                      OpenedAt, IncidentLimit) :
         incident_todo' = [incident_todo EXCEPT ![w] =
                              {i \in T : i.state \in Active}]
    BY <1>3 DEF ListIncidents
  <2>1. \A i \in T : Sound(i, alerts)
    BY RowsTyped DEF Page, IncidentCopies
  <2> QED
    BY <1>0, <1>3, <2>1 DEF ListIncidents, tables, TypeOK, IncidentCopies
<1>4. ASSUME NEW w \in Workers, ResolveIncident(w) PROVE IncidentCopies'
  <2> PICK i \in incident_todo[w] :
         /\ incidents' = Put(incidents, i.incident_id, MarkResolved(i, now[w]))
         /\ incident_todo' = [incident_todo EXCEPT ![w] = @ \ {i}]
    BY <1>4 DEF ResolveIncident, Newest
  <2>1. i \in IncidentRow /\ now[w] \in Nat /\ Sound(i, alerts)
    BY DEF TypeOK, IncidentCopies
  <2>2. Sound(MarkResolved(i, now[w]), alerts)
    BY <2>1, MarkResolvedTyped, SoundSame
  <2> QED
    BY <1>0, <1>4, <2>2 DEF ResolveIncident, Put, TypeOK, IncidentCopies
<1>5. ASSUME NEW o \in Operators, NEW id \in DOMAIN incidents,
             Acknowledge(o, id) \/ Resolve(o, id)
      PROVE  IncidentCopies'
  <2>1. /\ incidents[id] \in IncidentRow /\ clock \in Nat
        /\ Sound(incidents[id], alerts)
    BY DEF TypeOK, IncidentCopies
  <2>2. Sound([incidents[id] EXCEPT !.state = "acknowledged"], alerts)
    BY <2>1, AcknowledgedTyped, SoundSame
  <2>3. Sound(MarkResolved(incidents[id], clock), alerts)
    BY <2>1, MarkResolvedTyped, SoundSame
  <2>4. \E i : Sound(i, alerts) /\ request' = [request EXCEPT ![o] = i]
    BY <1>5, <2>2, <2>3 DEF Acknowledge, Resolve
  <2> QED
    BY <1>0, <1>5, <2>4
    DEF Acknowledge, Resolve, tables, locals, TypeOK, IncidentCopies
<1>6. ASSUME NEW o \in Operators, SaveRequest(o) PROVE IncidentCopies'
  BY <1>0, <1>6 DEF SaveRequest, Put, locals, TypeOK, IncidentCopies
<1>7. ASSUME NEW o \in Operators, RequestFails(o) PROVE IncidentCopies'
  BY <1>0, <1>7 DEF RequestFails, tables, locals, TypeOK, IncidentCopies
<1>8. ASSUME NEW w \in Workers, ProcessFails(w) PROVE IncidentCopies'
  BY <1>0, <1>8 DEF ProcessFails, tables, TypeOK, IncidentCopies
<1>9. CASE Restart
  BY <1>0, <1>9 DEF Restart, tables, TypeOK, IncidentCopies
<1>10. ASSUME UNCHANGED <<incidents, incident, incident_todo, request>>
       PROVE  IncidentCopies'
  BY <1>0, <1>10 DEF IncidentCopies
<1>11. ASSUME NEW w \in Workers, Step(w) PROVE IncidentCopies'
  BY <1>1, <1>2, <1>3, <1>4, <1>10, <1>11
  DEF Step, tables, locals, Diagnose, EndPass, ListRules, FindAlert, SaveAlert,
      ListAlerts, ResolveAlert
<1>12. ASSUME NEW w \in Workers, Fail(w) PROVE IncidentCopies'
  BY <1>8, <1>10, <1>12 DEF Fail, tables, DiagnosisFails, PassFails
<1>13. CASE Api
  BY <1>5, <1>6, <1>7, <1>10, <1>13
  DEF Api, tables, locals, RegisterRule, DeleteRule
<1>14. CASE Tick \/ UNCHANGED vars
  BY <1>10, <1>14 DEF Tick, tables, locals, vars
<1>15. ASSUME NEW w \in Workers, NEW D \in SUBSET Schedules, BeginPass(w, D)
       PROVE  IncidentCopies'
  BY <1>10, <1>15 DEF BeginPass, tables
<1> QED
  BY <1>9, <1>11, <1>12, <1>13, <1>14, <1>15 DEF Next

LEMMA IInvAlways == Spec => []IInv
<1>1. Init => IInv
  BY InitType DEF Init, IInv, AlertCopies, IncidentCopies, NoRows
<1>2. IInv /\ [Next]_vars => IInv'
  BY TypeStep, AlertCopiesStep, IncidentCopiesStep DEF IInv
<1> QED
  BY <1>1, <1>2, PTL DEF Spec

\* An incident only ever names saved alerts of its own service, with any
\* number of threads in run_due_schedules and at the API, and with stops of
\* the process between any two transactions.
THEOREM IncidentRefsAlways == Spec => []IncidentRefs
<1>1. IInv => IncidentRefs
  BY DEF IInv, IncidentCopies, Sound, IncidentRefs, RefersToSaved
<1> QED
  BY <1>1, IInvAlways, PTL

\* The severity of an incident is exactly the highest among its alerts, under
\* the same circumstances.
THEOREM SeverityExactAlways == Spec => []SeverityExact
<1>1. IInv => SeverityExact
  BY DEF IInv, IncidentCopies, Sound, SeverityExact, HasTopSeverity
<1> QED
  BY <1>1, IInvAlways, PTL

-----------------------------------------------------------------------------
(* One worker: the monitoring loop without POST /v1/monitor/run.            *)

OneWorker == \A v, w \in Workers : v = w

\* What find_firing_alert told the worker still holds when it saves: the
\* alert it found is firing, or there is none for the rule and the service.
FiringChecked ==
    \A w \in Workers : pc[w] = "save_alert" =>
        IF alert[w].alert_id \in DOMAIN alerts
        THEN alerts[alert[w].alert_id].state = "firing"
        ELSE \A a \in DOMAIN alerts :
                /\ alerts[a].state = "firing"
                /\ alerts[a].rule_id = alert[w].rule_id
                => alerts[a].service_id # alert[w].service_id

LEMMA FiringCheckedStep ==
    ASSUME OneWorker, IInv, FiringChecked, [Next]_vars
    PROVE  FiringChecked'
<1>1. ASSUME NEW w \in Workers, NEW rule \in rules_todo[w], FindAlert(w, rule)
      PROVE  FiringChecked'
  <2>1. TypeOK
    BY DEF IInv
  <2>2. PICK a \in AlertRow :
         /\ alert' = [alert EXCEPT ![w] = a]
         /\ a.rule_id = rule.rule_id
         /\ a.service_id = report[w].service_id
         /\ a.state = "firing"
         /\ \/ a.alert_id \in DOMAIN alerts /\ alerts[a.alert_id] = a
            \/ FiringFor(rule.rule_id, report[w].service_id) = {}
               /\ a.alert_id \in UnusedAlertIds
    BY <1>1, <2>1, FindAlertTakes
  <2>3. alert'[w] = a /\ alerts' = alerts
    BY <1>1, <2>1, <2>2 DEF FindAlert, tables, TypeOK
  <2>4. CASE a.alert_id \in DOMAIN alerts /\ alerts[a.alert_id] = a
    BY <2>2, <2>3, <2>4 DEF FiringChecked, OneWorker
  <2>5. CASE FiringFor(rule.rule_id, report[w].service_id) = {}
             /\ a.alert_id \in UnusedAlertIds
    <3>1. a.alert_id \notin DOMAIN alerts
      BY <2>5 DEF UnusedAlertIds
    <3>2. \A k \in DOMAIN alerts : /\ alerts[k].state = "firing"
                                  /\ alerts[k].rule_id = a.rule_id
                                  => alerts[k].service_id # a.service_id
      <4> SUFFICES ASSUME NEW k \in DOMAIN alerts,
                          alerts[k].state = "firing",
                          alerts[k].rule_id = a.rule_id,
                          alerts[k].service_id = a.service_id
                   PROVE  FALSE
        OBVIOUS
      <4>1. alerts[k] \in Rows(alerts)
        BY DEF Rows
      <4>2. alerts[k] \in FiringFor(rule.rule_id, report[w].service_id)
        BY <2>2, <4>1 DEF FiringFor
      <4> QED BY <2>5, <4>2
    <3> QED BY <2>3, <3>1, <3>2 DEF FiringChecked, OneWorker
  <2> QED BY <2>2, <2>4, <2>5
<1>2. ASSUME NEW w \in Workers, SaveAlert(w) PROVE FiringChecked'
  BY <1>2 DEF SaveAlert, FiringChecked, OneWorker, IInv, TypeOK
<1>3. ASSUME NEW w \in Workers, ResolveAlert(w) PROVE FiringChecked'
  BY <1>3 DEF ResolveAlert, FiringChecked, OneWorker, IInv, TypeOK
<1>4. ASSUME NEW w \in Workers,
             SaveIncident(w) \/ ProcessFails(w)
      PROVE  FiringChecked'
  BY <1>4 DEF SaveIncident, ProcessFails, FiringChecked, OneWorker,
              IInv, TypeOK
<1>5. CASE Restart
  BY <1>5 DEF Restart, FiringChecked
<1>6. ASSUME alerts' = alerts, alert' = alert,
             \A w \in Workers : pc'[w] = "save_alert" => pc'[w] = pc[w]
      PROVE  FiringChecked'
  BY <1>6 DEF FiringChecked
<1>7. ASSUME NEW w \in Workers,
             \/ \E D \in SUBSET Schedules : BeginPass(w, D)
             \/ \E s \in Schedules, f \in Findings : Diagnose(w, s, f)
             \/ \E s \in Schedules : DiagnosisFails(w, s)
             \/ EndPass(w) \/ PassFails(w) \/ ListRules(w) \/ FindIncident(w)
             \/ ListAlerts(w) \/ ListIncidents(w) \/ ResolveIncident(w)
      PROVE  FiringChecked'
  <2>1. alerts' = alerts /\ alert' = alert
    BY <1>7
    DEF BeginPass, Diagnose, DiagnosisFails, EndPass, PassFails, ListRules,
        FindIncident, ListAlerts, ListIncidents, ResolveIncident, tables
  <2>2. \/ pc' = pc
        \/ \E x : x # "save_alert" /\ pc' = [pc EXCEPT ![w] = x]
    <3>1. CASE \/ \E D \in SUBSET Schedules : BeginPass(w, D)
               \/ \E s \in Schedules : DiagnosisFails(w, s)
               \/ EndPass(w) \/ PassFails(w) \/ FindIncident(w) \/ ListAlerts(w)
      BY <3>1 DEF BeginPass, DiagnosisFails, EndPass, PassFails, FindIncident,
                  ListAlerts
    <3>2. CASE \E s \in Schedules, f \in Findings : Diagnose(w, s, f)
      BY <3>2 DEF Diagnose
    <3>3. CASE ListRules(w)
      BY <3>3 DEF ListRules
    <3>4. CASE ListIncidents(w)
      BY <3>4 DEF ListIncidents
    <3>5. CASE ResolveIncident(w)
      BY <3>5 DEF ResolveIncident
    <3> QED BY <1>7, <3>1, <3>2, <3>3, <3>4, <3>5
  <2> QED
    BY <1>6, <2>1, <2>2 DEF IInv, TypeOK
<1>8. CASE Tick \/ Api \/ UNCHANGED vars
  BY <1>6, <1>8
  DEF Tick, Api, Acknowledge, Resolve, SaveRequest, RequestFails, RegisterRule,
      DeleteRule, vars, tables, locals
<1> QED
  BY <1>1, <1>2, <1>3, <1>4, <1>5, <1>7, <1>8 DEF Next, Step, Fail

\* What a step does to the alerts table: one firing alert is saved where the
\* check allowed it, or one alert is resolved.
LEMMA AlertsStep ==
    ASSUME IInv, FiringChecked, [Next]_vars
    PROVE  /\ UniqueFiring => UniqueFiring'
           /\ \A a \in DOMAIN alerts :
                  alerts[a].state = "resolved" => alerts'[a].state = "resolved"
<1>1. ASSUME NEW w \in Workers, SaveAlert(w)
      PROVE  /\ UniqueFiring => UniqueFiring'
             /\ \A a \in DOMAIN alerts :
                  alerts[a].state = "resolved" => alerts'[a].state = "resolved"
  <2> DEFINE id == alert[w].alert_id
  <2>1. /\ DOMAIN alerts' = DOMAIN alerts \cup {id}
        /\ alerts'[id] = alert[w]
        /\ \A k \in DOMAIN alerts : k # id => alerts'[k] = alerts[k]
    BY <1>1 DEF SaveAlert, Put
  <2>2. CASE id \in DOMAIN alerts
    <3>1. /\ alerts[id].state = "firing"
          /\ SameAlert(alert[w], alerts[id])
      BY <1>1, <2>2 DEF SaveAlert, FiringChecked, IInv, TypeOK, AlertCopies
    <3> QED
      BY <2>1, <2>2, <3>1 DEF UniqueFiring, SameAlert
  <2>3. CASE id \notin DOMAIN alerts
    <3>1. \A a \in DOMAIN alerts : /\ alerts[a].state = "firing"
                                  /\ alerts[a].rule_id = alert[w].rule_id
                                  => alerts[a].service_id # alert[w].service_id
      <4>1. pc[w] = "save_alert"
        BY <1>1 DEF SaveAlert
      <4> QED BY <2>3, <4>1 DEF FiringChecked
    <3> HIDE DEF id
    <3> QED
      BY <2>1, <2>3, <3>1 DEF UniqueFiring
  <2> QED BY <2>2, <2>3
<1>2. ASSUME NEW w \in Workers, ResolveAlert(w)
      PROVE  /\ UniqueFiring => UniqueFiring'
             /\ \A a \in DOMAIN alerts :
                  alerts[a].state = "resolved" => alerts'[a].state = "resolved"
  <2> PICK a \in alert_todo[w] :
            alerts' = Put(alerts, a.alert_id, [a EXCEPT !.state = "resolved"])
    BY <1>2 DEF ResolveAlert, Newest
  <2>1. [a EXCEPT !.state = "resolved"].state = "resolved"
    BY ResolvedAlertTyped DEF IInv, TypeOK
  <2>2. /\ DOMAIN alerts' = DOMAIN alerts
        /\ alerts'[a.alert_id].state = "resolved"
        /\ \A k \in DOMAIN alerts : k # a.alert_id => alerts'[k] = alerts[k]
    BY <2>1 DEF Put, IInv, AlertCopies
  <2> QED
    BY <2>2 DEF UniqueFiring
<1>3. CASE alerts' = alerts
  BY <1>3 DEF UniqueFiring
<1> QED
  BY <1>1, <1>2, <1>3, AlertWriters

LEMMA FiringCheckedAlways ==
    ASSUME OneWorker
    PROVE  Spec => []FiringChecked
<1>1. Init => FiringChecked
  BY DEF Init, FiringChecked
<1>2. IInv /\ FiringChecked /\ [Next]_vars => FiringChecked'
  BY FiringCheckedStep
<1> QED
  BY <1>1, <1>2, IInvAlways, PTL DEF Spec

\* With a single thread in process_diagnosis a rule never has two firing
\* alerts for a service, whatever operators do and whatever fails.
THEOREM UniqueFiringAlways ==
    ASSUME OneWorker
    PROVE  Spec => []UniqueFiring
<1>1. Init => UniqueFiring
  BY DEF Init, UniqueFiring, NoRows
<1>2. IInv /\ FiringChecked /\ UniqueFiring /\ [Next]_vars => UniqueFiring'
  BY AlertsStep
<1> QED
  BY <1>1, <1>2, IInvAlways, FiringCheckedAlways, PTL DEF Spec

\* Nor does it ever bring a resolved alert back to firing.
THEOREM AlertResolvedFinalAlways ==
    ASSUME OneWorker
    PROVE  Spec => AlertResolvedFinal
<1>1. IInv /\ FiringChecked /\ [Next]_vars =>
        [\A a \in DOMAIN alerts :
            alerts[a].state = "resolved" => alerts'[a].state = "resolved"]_vars
  BY AlertsStep
<1> QED
  BY <1>1, IInvAlways, FiringCheckedAlways, PTL DEF Spec, AlertResolvedFinal

-----------------------------------------------------------------------------
(* One worker, and nobody acknowledges or resolves incidents.               *)

NoOperators == Operators = {}

\* What find_active_incident told the worker still holds when it saves: the
\* incident it found is active, or the service has none.
ActiveChecked ==
    \A w \in Workers : pc[w] = "save_incident" =>
        /\ incident[w].state \in Active
        /\ IF incident[w].incident_id \in DOMAIN incidents
           THEN LET i == incidents[incident[w].incident_id]
                IN i.state \in Active /\ i.service_id = incident[w].service_id
           ELSE \A i \in DOMAIN incidents :
                   incidents[i].state \in Active =>
                       incidents[i].service_id # incident[w].service_id

\* Only these write the table of incidents.
LEMMA IncidentWriters ==
    ASSUME NoOperators, [Next]_vars
    PROVE  \/ \E w \in Workers : SaveIncident(w) \/ ResolveIncident(w)
           \/ incidents' = incidents
<1>1. ASSUME NEW w \in Workers, Step(w)
      PROVE  SaveIncident(w) \/ ResolveIncident(w) \/ incidents' = incidents
  BY <1>1 DEF Step, tables, Diagnose, EndPass, ListRules, FindAlert, SaveAlert,
              FindIncident, ListAlerts, ResolveAlert, ListIncidents
<1>2. ASSUME NEW w \in Workers, Fail(w) PROVE incidents' = incidents
  BY <1>2 DEF Fail, tables, DiagnosisFails, ProcessFails, PassFails
<1>3. CASE Api
  BY <1>3 DEF Api, NoOperators, RegisterRule, DeleteRule
<1>4. ASSUME NEW w \in Workers, NEW D \in SUBSET Schedules, BeginPass(w, D)
      PROVE  incidents' = incidents
  BY <1>4 DEF BeginPass, tables
<1>5. CASE Tick \/ Restart \/ UNCHANGED vars
  BY <1>5 DEF Tick, Restart, vars, tables
<1> QED
  BY <1>1, <1>2, <1>3, <1>4, <1>5 DEF Next

\* A worker comes to save_incident only from find_incident, and holds what it
\* took there until it leaves.
LEMMA IncidentHeld ==
    ASSUME OneWorker, TypeOK, [Next]_vars, NEW w \in Workers,
           pc'[w] = "save_incident"
    PROVE  \/ FindIncident(w)
           \/ pc[w] = "save_incident" /\ incident'[w] = incident[w]
<1> USE DEF OneWorker, TypeOK, PC
<1>1. CASE \/ \E D \in SUBSET Schedules : BeginPass(w, D)
           \/ \E s \in Schedules : DiagnosisFails(w, s)
           \/ EndPass(w) \/ PassFails(w) \/ ListAlerts(w)
           \/ ResolveAlert(w) \/ SaveAlert(w) \/ ProcessFails(w)
  BY <1>1 DEF BeginPass, DiagnosisFails, EndPass, PassFails, ListAlerts,
              ResolveAlert, SaveAlert, ProcessFails, locals
<1>2. CASE \E s \in Schedules, f \in Findings : Diagnose(w, s, f)
  BY <1>2 DEF Diagnose
<1>3. CASE ListRules(w)
  BY <1>3 DEF ListRules
<1>4. CASE \E rule \in rules_todo[w] : FindAlert(w, rule)
  BY <1>4 DEF FindAlert
<1>5. CASE SaveIncident(w)
  BY <1>5 DEF SaveIncident
<1>6. CASE ListIncidents(w)
  BY <1>6 DEF ListIncidents
<1>7. CASE ResolveIncident(w)
  BY <1>7 DEF ResolveIncident
<1>8. CASE Restart
  BY <1>8 DEF Restart
<1>9. CASE Tick \/ Api \/ UNCHANGED vars
  <2>1. pc' = pc /\ incident' = incident
    BY <1>9 DEF Tick, Api, Acknowledge, Resolve, SaveRequest, RequestFails,
                RegisterRule, DeleteRule, vars, locals
  <2> QED BY <2>1
<1>10. ASSUME NEW v \in Workers PROVE v = w
  OBVIOUS
<1> QED
  BY <1>1, <1>2, <1>3, <1>4, <1>5, <1>6, <1>7, <1>8, <1>9, <1>10
  DEF Next, Step, Fail

LEMMA ActiveCheckedStep ==
    ASSUME OneWorker, NoOperators, IInv, ActiveChecked, [Next]_vars
    PROVE  ActiveChecked'
<1> SUFFICES ASSUME NEW w \in Workers, pc'[w] = "save_incident"
             PROVE  (/\ incident[w].state \in Active
                     /\ IF incident[w].incident_id \in DOMAIN incidents
                        THEN LET i == incidents[incident[w].incident_id]
                             IN /\ i.state \in Active
                                /\ i.service_id = incident[w].service_id
                        ELSE \A i \in DOMAIN incidents :
                               incidents[i].state \in Active =>
                                 incidents[i].service_id
                                    # incident[w].service_id)'
  BY DEF ActiveChecked
<1>0. TypeOK
  BY DEF IInv
<1>1. CASE FindIncident(w)
  <2>1. incidents' = incidents
    BY <1>1 DEF FindIncident, tables
  <2>2. PICK j \in IncidentRow :
              /\ incident' = [incident EXCEPT ![w] = j]
              /\ \/ \E i \in IncidentRow :
                       /\ i.incident_id \in DOMAIN incidents
                       /\ incidents[i.incident_id] = i
                       /\ i.service_id = alert[w].service_id
                       /\ i.state \in Active
                       /\ j = AttachAlert(i, alert[w])
                 \/ \E id \in IncidentIds :
                       /\ j = OpenIncident(id, alert[w], now[w])
                       /\ ActiveOf(alert[w].service_id) = {}
                       /\ id \notin DOMAIN incidents
    BY <1>0, <1>1, FindIncidentTakes
  <2>3. alert[w] \in AlertRow /\ incident'[w] = j
    BY <1>0, <1>1, <2>2, FindIncidentTakes DEF TypeOK
  <2>4. CASE \E i \in IncidentRow :
                       /\ i.incident_id \in DOMAIN incidents
                       /\ incidents[i.incident_id] = i
                       /\ i.state \in Active
                       /\ j = AttachAlert(i, alert[w])
    BY <2>1, <2>3, <2>4, AttachAlertTyped
  <2>5. CASE \E id \in IncidentIds :
                       /\ j = OpenIncident(id, alert[w], now[w])
                       /\ ActiveOf(alert[w].service_id) = {}
                       /\ id \notin DOMAIN incidents
    <3>1. /\ j.incident_id \notin DOMAIN incidents
          /\ j.service_id = alert[w].service_id /\ j.state \in Active
          /\ ActiveOf(alert[w].service_id) = {}
      BY <2>5 DEF OpenIncident, Active
    <3>2. \A i \in DOMAIN incidents : incidents[i].state \in Active =>
                incidents[i].service_id # j.service_id
      BY <3>1 DEF ActiveOf, Rows
    <3> QED
      BY <2>1, <2>3, <3>1, <3>2
  <2> QED
    BY <2>2, <2>4, <2>5
<1>2. CASE pc[w] = "save_incident" /\ incident'[w] = incident[w]
  <2>1. CASE incidents' = incidents
    BY <1>2, <2>1 DEF ActiveChecked
  <2>2. ASSUME NEW v \in Workers, SaveIncident(v) \/ ResolveIncident(v)
        PROVE  FALSE
    <3>1. v = w
      BY DEF OneWorker
    <3>2. SaveIncident(w) => pc'[w] # "save_incident"
      BY <1>0 DEF SaveIncident, TypeOK
    <3> QED
      BY <1>2, <2>2, <3>1, <3>2 DEF ResolveIncident
  <2> QED
    BY <2>1, <2>2, IncidentWriters
<1> QED
  BY <1>0, <1>1, <1>2, IncidentHeld

\* What a step does to the incidents table: the active incident of a service,
\* or its first, is saved, or one incident is resolved.
LEMMA IncidentsStep ==
    ASSUME NoOperators, IInv, ActiveChecked, [Next]_vars
    PROVE  UniqueActive => UniqueActive'
<1>1. ASSUME NEW w \in Workers, SaveIncident(w)
      PROVE  UniqueActive => UniqueActive'
  <2> DEFINE id == incident[w].incident_id
  <2>1. /\ DOMAIN incidents' = DOMAIN incidents \cup {id}
        /\ incidents'[id] = incident[w]
        /\ \A k \in DOMAIN incidents : k # id => incidents'[k] = incidents[k]
    BY <1>1 DEF SaveIncident, Put
  <2>2. pc[w] = "save_incident"
    BY <1>1 DEF SaveIncident
  <2>3. CASE id \in DOMAIN incidents
    <3>1. /\ incidents[id].state \in Active
          /\ incidents[id].service_id = incident[w].service_id
      BY <2>2, <2>3 DEF ActiveChecked
    <3> QED
      BY <2>1, <2>3, <3>1 DEF UniqueActive, Active
  <2>4. CASE id \notin DOMAIN incidents
    <3>1. \A i \in DOMAIN incidents : incidents[i].state \in Active =>
                incidents[i].service_id # incident[w].service_id
      BY <2>2, <2>4 DEF ActiveChecked
    <3> HIDE DEF id
    <3> QED
      BY <2>1, <2>4, <3>1 DEF UniqueActive
  <2> QED BY <2>3, <2>4
<1>2. ASSUME NEW w \in Workers, ResolveIncident(w)
      PROVE  UniqueActive => UniqueActive'
  <2> PICK i \in incident_todo[w] :
         incidents' = Put(incidents, i.incident_id, MarkResolved(i, now[w]))
    BY <1>2 DEF ResolveIncident, Newest
  <2>1. MarkResolved(i, now[w]).state = "resolved"
    BY MarkResolvedTyped DEF IInv, TypeOK
  <2>2. /\ DOMAIN incidents' = DOMAIN incidents \cup {i.incident_id}
        /\ incidents'[i.incident_id].state = "resolved"
        /\ \A k \in DOMAIN incidents : k # i.incident_id =>
                incidents'[k] = incidents[k]
    BY <2>1 DEF Put
  <2> QED
    BY <2>2 DEF UniqueActive, Active
<1>3. CASE incidents' = incidents
  BY <1>3 DEF UniqueActive
<1> QED
  BY <1>1, <1>2, <1>3, IncidentWriters

LEMMA ActiveCheckedAlways ==
    ASSUME OneWorker, NoOperators
    PROVE  Spec => []ActiveChecked
<1>1. Init => ActiveChecked
  BY DEF Init, ActiveChecked
<1>2. IInv /\ ActiveChecked /\ [Next]_vars => ActiveChecked'
  BY ActiveCheckedStep
<1> QED
  BY <1>1, <1>2, IInvAlways, PTL DEF Spec

\* With a single thread in process_diagnosis and nobody at the incidents, a
\* service has at most one active incident, whatever fails.
THEOREM UniqueActiveAlways ==
    ASSUME OneWorker, NoOperators
    PROVE  Spec => []UniqueActive
<1>1. Init => UniqueActive
  BY DEF Init, UniqueActive, NoRows
<1>2. IInv /\ ActiveChecked /\ UniqueActive /\ [Next]_vars => UniqueActive'
  BY IncidentsStep
<1> QED
  BY <1>1, <1>2, IInvAlways, ActiveCheckedAlways, PTL DEF Spec

-----------------------------------------------------------------------------
(* What an unhealthy report leaves behind.                                  *)

\* The alert a worker holds is a firing one of the report's service, saved once
\* the worker looks for an incident; the incident it is about to save names
\* that alert and every alert of the row it replaces.  A worker that clears its
\* service has listed no rules.
InHandOf(w) ==
    /\ pc[w] \in {"list_alerts", "resolve_alerts", "resolve_incidents"} =>
            listed[w] = {}
    /\ pc[w] \in {"save_alert", "find_incident", "save_incident"} =>
            /\ alert[w].state = "firing"
            /\ alert[w].service_id = report[w].service_id
    /\ pc[w] \in {"find_incident", "save_incident"} =>
            alerts[alert[w].alert_id].state = "firing"
    /\ pc[w] = "save_incident" =>
            /\ alert[w].alert_id \in incident[w].alert_ids
            /\ incident[w].service_id = alert[w].service_id
            /\ incident[w].incident_id \in DOMAIN incidents =>
                    incidents[incident[w].incident_id].alert_ids
                        \subseteq incident[w].alert_ids

InHand == \A w \in Workers : InHandOf(w)

LEMMA FindIncidentInHand ==
    ASSUME TypeOK, NEW w \in Workers, InHandOf(w), FindIncident(w)
    PROVE  InHandOf(w)'
<1>1. /\ UNCHANGED <<alerts, incidents, alert, report>>
      /\ pc[w] = "find_incident" /\ pc'[w] = "save_incident"
  BY DEF FindIncident, TypeOK, tables
<1>2. /\ alert[w] \in AlertRow
      /\ \E j \in IncidentRow :
              /\ incident' = [incident EXCEPT ![w] = j]
              /\ \/ \E i \in IncidentRow :
                       /\ i.incident_id \in DOMAIN incidents
                       /\ incidents[i.incident_id] = i
                       /\ i.service_id = alert[w].service_id
                       /\ i.state \in Active
                       /\ j = AttachAlert(i, alert[w])
                 \/ \E id \in IncidentIds :
                       /\ j = OpenIncident(id, alert[w], now[w])
                       /\ ActiveOf(alert[w].service_id) = {}
                       /\ id \notin DOMAIN incidents
  BY FindIncidentTakes
<1>3. PICK j \in IncidentRow :
              /\ incident' = [incident EXCEPT ![w] = j]
              /\ \/ \E i \in IncidentRow :
                       /\ incidents[i.incident_id] = i
                       /\ i.service_id = alert[w].service_id
                       /\ j = AttachAlert(i, alert[w])
                 \/ \E id \in IncidentIds :
                       /\ j = OpenIncident(id, alert[w], now[w])
                       /\ id \notin DOMAIN incidents
  BY <1>2
<1>4. incident'[w] = j
  BY <1>3 DEF TypeOK
<1>5. /\ alert[w].alert_id \in j.alert_ids
      /\ j.service_id = alert[w].service_id
      /\ j.incident_id \in DOMAIN incidents =>
              incidents[j.incident_id].alert_ids \subseteq j.alert_ids
  <2>1. CASE \E i \in IncidentRow :
                       /\ incidents[i.incident_id] = i
                       /\ i.service_id = alert[w].service_id
                       /\ j = AttachAlert(i, alert[w])
    BY <1>2, <2>1, AttachAlertTyped
  <2>2. CASE \E id \in IncidentIds :
                       /\ j = OpenIncident(id, alert[w], now[w])
                       /\ id \notin DOMAIN incidents
    BY <2>2 DEF OpenIncident
  <2> QED BY <1>3, <2>1, <2>2
<1> QED
  BY <1>1, <1>4, <1>5 DEF InHandOf

LEMMA InHandStep ==
    ASSUME OneWorker, NoOperators, IInv, InHand, [Next]_vars
    PROVE  InHand'
<1> SUFFICES ASSUME NEW w \in Workers PROVE InHandOf(w)'
  BY DEF InHand
<1>0. TypeOK /\ InHandOf(w)
  BY DEF IInv, InHand
<1>1. ASSUME NEW rule \in rules_todo[w], FindAlert(w, rule)
      PROVE  InHandOf(w)'
  <2>1. PICK a \in AlertRow : /\ alert' = [alert EXCEPT ![w] = a]
                              /\ a.service_id = report[w].service_id
                              /\ a.state = "firing"
    BY <1>0, <1>1, FindAlertTakes
  <2>2. alert'[w] = a /\ report' = report /\ pc'[w] = "save_alert"
    BY <1>0, <1>1, <2>1 DEF FindAlert, TypeOK
  <2> QED
    BY <2>1, <2>2 DEF InHandOf
<1>2. CASE SaveAlert(w)
  <2>1. /\ UNCHANGED <<alert, report>>
        /\ pc[w] = "save_alert" /\ pc'[w] = "find_incident"
        /\ alerts'[alert[w].alert_id] = alert[w]
    BY <1>0, <1>2 DEF SaveAlert, TypeOK, Put, locals
  <2> QED
    BY <1>0, <2>1 DEF InHandOf
<1>3. CASE FindIncident(w)
  BY <1>0, <1>3, FindIncidentInHand
<1>4. CASE \/ \E D \in SUBSET Schedules : BeginPass(w, D)
           \/ \E s \in Schedules : DiagnosisFails(w, s)
           \/ EndPass(w) \/ PassFails(w) \/ ProcessFails(w) \/ Restart
  <2>1. pc'[w] \in {"idle", "pass"}
    BY <1>0, <1>4 DEF BeginPass, DiagnosisFails, EndPass, PassFails,
                      ProcessFails, Restart, TypeOK
  <2> QED
    BY <2>1 DEF InHandOf
<1>5. ASSUME NEW s \in Schedules, NEW f \in Findings, Diagnose(w, s, f)
      PROVE  InHandOf(w)'
  <2>1. pc'[w] \in {"list_alerts", "list_rules"}
    BY <1>0, <1>5 DEF Diagnose, TypeOK
  <2>2. listed'[w] = {}
    BY <1>0, <1>5 DEF Diagnose, TypeOK
  <2> QED
    BY <2>1, <2>2 DEF InHandOf
<1>6. CASE ListRules(w) \/ SaveIncident(w)
  <2>1. pc'[w] \in {"pass", "find_alert"}
    BY <1>0, <1>6 DEF ListRules, SaveIncident, TypeOK
  <2> QED
    BY <2>1 DEF InHandOf
<1>7. CASE ListAlerts(w) \/ ResolveAlert(w) \/ ListIncidents(w)
           \/ ResolveIncident(w)
  <2>1. /\ pc[w] \in {"list_alerts", "resolve_alerts", "resolve_incidents"}
        /\ pc'[w] \in {"resolve_alerts", "resolve_incidents", "pass"}
        /\ listed' = listed
    <3>1. CASE ListAlerts(w) \/ ResolveAlert(w)
      BY <1>0, <3>1 DEF ListAlerts, ResolveAlert, TypeOK
    <3>2. CASE ListIncidents(w)
      BY <1>0, <3>2 DEF ListIncidents, TypeOK
    <3>3. CASE ResolveIncident(w)
      BY <1>0, <3>3 DEF ResolveIncident, TypeOK
    <3> QED BY <1>7, <3>1, <3>2, <3>3
  <2> QED
    BY <1>0, <2>1 DEF InHandOf
<1>8. CASE Tick \/ Api \/ UNCHANGED vars
  <2>1. UNCHANGED <<alerts, incidents, pc, report, listed, alert, incident>>
    BY <1>8 DEF NoOperators, Tick, Api, RegisterRule, DeleteRule, vars, tables,
                locals
  <2> QED
    BY <1>0, <2>1 DEF InHandOf
<1>9. ASSUME NEW v \in Workers PROVE v = w
  BY DEF OneWorker
<1> QED
  BY <1>1, <1>2, <1>3, <1>4, <1>5, <1>6, <1>7, <1>8, <1>9 DEF Next, Step, Fail

\* Covered, in terms of the tables' keys, before and after a step.
CoveredIn(rule_id, service, A, I) ==
    \E a \in DOMAIN A, i \in DOMAIN I :
        /\ A[a].rule_id = rule_id /\ A[a].service_id = service
        /\ A[a].state = "firing"
        /\ I[i].service_id = service /\ I[i].state \in Active
        /\ a \in I[i].alert_ids

LEMMA CoveredByKeys ==
    ASSUME TypeOK, NEW rule_id, NEW service
    PROVE  Covered(rule_id, service)
              <=> CoveredIn(rule_id, service, alerts, incidents)
<1>1. ASSUME NEW a \in FiringFor(rule_id, service), NEW i \in ActiveOf(service),
             a.alert_id \in i.alert_ids
      PROVE  CoveredIn(rule_id, service, alerts, incidents)
  <2>1. PICK k \in DOMAIN alerts : alerts[k] = a
    BY DEF FiringFor, Rows
  <2>2. PICK m \in DOMAIN incidents : incidents[m] = i
    BY DEF ActiveOf, Rows
  <2>3. k = a.alert_id
    BY <2>1 DEF TypeOK
  <2>4. a.rule_id = rule_id /\ a.service_id = service /\ a.state = "firing"
    BY DEF FiringFor
  <2>5. i.service_id = service /\ i.state \in Active
    BY DEF ActiveOf
  <2> QED
    BY <1>1, <2>1, <2>2, <2>3, <2>4, <2>5 DEF CoveredIn
<1>2. ASSUME CoveredIn(rule_id, service, alerts, incidents)
      PROVE  Covered(rule_id, service)
  <2> PICK k \in DOMAIN alerts, m \in DOMAIN incidents :
        /\ alerts[k].rule_id = rule_id /\ alerts[k].service_id = service
        /\ alerts[k].state = "firing"
        /\ incidents[m].service_id = service /\ incidents[m].state \in Active
        /\ k \in incidents[m].alert_ids
    BY <1>2 DEF CoveredIn
  <2>1. alerts[k] \in FiringFor(rule_id, service)
    BY DEF FiringFor, Rows
  <2>2. incidents[m] \in ActiveOf(service)
    BY DEF ActiveOf, Rows
  <2>3. alerts[k].alert_id = k
    BY DEF TypeOK
  <2> QED
    BY <2>1, <2>2, <2>3 DEF Covered
<1> QED
  BY <1>1, <1>2 DEF Covered

LEMMA CoveredByKeysNext ==
    ASSUME TypeOK', NEW rule_id, NEW service,
           CoveredIn(rule_id, service, alerts', incidents')
    PROVE  (Covered(rule_id, service))'
<1> PICK k \in DOMAIN alerts', m \in DOMAIN incidents' :
        /\ alerts'[k].rule_id = rule_id /\ alerts'[k].service_id = service
        /\ alerts'[k].state = "firing"
        /\ incidents'[m].service_id = service /\ incidents'[m].state \in Active
        /\ k \in incidents'[m].alert_ids
  BY DEF CoveredIn
<1>1. alerts'[k] \in FiringFor(rule_id, service)'
  BY DEF FiringFor, Rows
<1>2. incidents'[m] \in ActiveOf(service)'
  BY DEF ActiveOf, Rows
<1>3. alerts'[k].alert_id = k
  BY DEF TypeOK
<1> QED
  BY <1>1, <1>2, <1>3 DEF Covered

\* Saving an alert takes no cover away: the alert it overwrites stays firing.
LEMMA SaveAlertCovers ==
    ASSUME IInv, NEW w \in Workers, InHandOf(w), SaveAlert(w),
           NEW rule_id, NEW service,
           CoveredIn(rule_id, service, alerts, incidents)
    PROVE  CoveredIn(rule_id, service, alerts', incidents')
<1> PICK k \in DOMAIN alerts, m \in DOMAIN incidents :
        /\ alerts[k].rule_id = rule_id /\ alerts[k].service_id = service
        /\ alerts[k].state = "firing"
        /\ incidents[m].service_id = service /\ incidents[m].state \in Active
        /\ k \in incidents[m].alert_ids
  BY DEF CoveredIn
<1>1. /\ incidents' = incidents /\ pc[w] = "save_alert"
      /\ k \in DOMAIN alerts'
      /\ alerts'[k] = IF k = alert[w].alert_id THEN alert[w] ELSE alerts[k]
  BY DEF SaveAlert, Put
<1>2. alert[w].state = "firing"
  BY <1>1 DEF InHandOf
<1>3. k = alert[w].alert_id => /\ alert[w].rule_id = alerts[k].rule_id
                               /\ alert[w].service_id = alerts[k].service_id
  BY <1>1 DEF IInv, TypeOK, AlertCopies, SameAlert
<1>4. /\ alerts'[k].rule_id = rule_id /\ alerts'[k].service_id = service
      /\ alerts'[k].state = "firing"
  BY <1>1, <1>2, <1>3
<1> QED
  BY <1>1, <1>4 DEF CoveredIn

\* Saving an incident covers the alert in hand and takes no cover away.
LEMMA SaveIncidentCovers ==
    ASSUME IInv, ActiveChecked, NEW w \in Workers, InHandOf(w), SaveIncident(w),
           NEW rule_id, NEW service, service = report[w].service_id,
           \/ alert[w].rule_id = rule_id
           \/ CoveredIn(rule_id, service, alerts, incidents)
    PROVE  CoveredIn(rule_id, service, alerts', incidents')
<1> DEFINE id == incident[w].incident_id
<1>1. /\ alerts' = alerts /\ pc[w] = "save_incident"
      /\ DOMAIN incidents' = DOMAIN incidents \cup {id}
      /\ incidents'[id] = incident[w]
      /\ \A k \in DOMAIN incidents : k # id => incidents'[k] = incidents[k]
  BY DEF SaveIncident, Put
<1>2. /\ incident[w].state \in Active
      /\ id \in DOMAIN incidents =>
            incidents[id].service_id = incident[w].service_id
  BY <1>1 DEF ActiveChecked
<1>3. /\ alert[w].service_id = report[w].service_id
      /\ alerts[alert[w].alert_id].state = "firing"
      /\ alert[w].alert_id \in incident[w].alert_ids
      /\ incident[w].service_id = alert[w].service_id
      /\ id \in DOMAIN incidents =>
            incidents[id].alert_ids \subseteq incident[w].alert_ids
  BY <1>1 DEF InHandOf
<1>4. /\ alert[w].alert_id \in DOMAIN alerts
      /\ alerts[alert[w].alert_id].rule_id = alert[w].rule_id
      /\ alerts[alert[w].alert_id].service_id = alert[w].service_id
  BY <1>1 DEF IInv, TypeOK, AlertCopies, SameAlert
<1> HIDE DEF id
<1>5. CASE alert[w].rule_id = rule_id
  BY <1>1, <1>2, <1>3, <1>4, <1>5 DEF CoveredIn
<1>6. CASE CoveredIn(rule_id, service, alerts, incidents)
  <2> PICK k \in DOMAIN alerts, m \in DOMAIN incidents :
        /\ alerts[k].rule_id = rule_id /\ alerts[k].service_id = service
        /\ alerts[k].state = "firing"
        /\ incidents[m].service_id = service /\ incidents[m].state \in Active
        /\ k \in incidents[m].alert_ids
    BY <1>6 DEF CoveredIn
  <2>1. /\ m \in DOMAIN incidents' /\ k \in incidents'[m].alert_ids
        /\ incidents'[m].service_id = service /\ incidents'[m].state \in Active
    <3>1. CASE m = id
      BY <1>1, <1>2, <1>3, <3>1
    <3>2. CASE m # id
      BY <1>1, <3>2
    <3> QED BY <3>1, <3>2
  <2> QED
    BY <1>1, <2>1 DEF CoveredIn
<1> QED
  BY <1>5, <1>6

LEMMA UnhealthyCoveredStep ==
    ASSUME OneWorker, NoOperators, IInv, IInv', ActiveChecked, InHand,
           UnhealthyCovered, [Next]_vars
    PROVE  UnhealthyCovered'
<1> SUFFICES ASSUME NEW w \in Workers,
                    NEW rule \in listed'[w] \ rules_todo'[w]
             PROVE  (\/ alert[w] # None /\ alert[w].rule_id = rule.rule_id
                     \/ Covered(rule.rule_id, report[w].service_id))'
  BY DEF UnhealthyCovered
<1> DEFINE InHandNow  == alert[w] # None /\ alert[w].rule_id = rule.rule_id
           CoveredNow == CoveredIn(rule.rule_id, report[w].service_id,
                                   alerts, incidents)
<1>0. TypeOK /\ TypeOK' /\ InHandOf(w)
  BY DEF IInv, InHand
<1>1. CoveredNow' => Covered(rule.rule_id, report[w].service_id)'
  BY <1>0, CoveredByKeysNext
<1>2. rule \in listed[w] \ rules_todo[w] => InHandNow \/ CoveredNow
  BY <1>0, CoveredByKeys DEF UnhealthyCovered
<1> HIDE DEF CoveredNow
<1> SUFFICES InHandNow' \/ CoveredNow'
  BY <1>1
<1>3. ASSUME NEW r \in rules_todo[w], FindAlert(w, r)
      PROVE  InHandNow' \/ CoveredNow'
  <2>1. PICK a \in AlertRow : /\ alert' = [alert EXCEPT ![w] = a]
                              /\ a.rule_id = r.rule_id
    BY <1>0, <1>3, FindAlertTakes
  <2>2. alert'[w] = a /\ a # None
    BY <1>0, <2>1, NoneIsNoRow DEF TypeOK
  <2>3. /\ rules_todo'[w] = rules_todo[w] \ {r} /\ alert[w] = None
        /\ UNCHANGED <<listed, report, alerts, incidents>>
    BY <1>0, <1>3 DEF FindAlert, tables, TypeOK
  <2>4. CASE rule = r
    BY <2>1, <2>2, <2>4
  <2>5. CASE rule # r
    BY <1>2, <2>3, <2>5 DEF CoveredNow
  <2> QED BY <2>4, <2>5
<1>4. CASE SaveAlert(w)
  <2>1. UNCHANGED <<listed, rules_todo, alert, report>>
    BY <1>4 DEF SaveAlert, locals
  <2>2. CoveredNow => CoveredNow'
    BY <1>0, <1>4, <2>1, SaveAlertCovers DEF CoveredNow
  <2> QED BY <1>2, <2>1, <2>2
<1>5. CASE SaveIncident(w)
  <2>1. UNCHANGED <<listed, rules_todo, report>>
    BY <1>5 DEF SaveIncident
  <2>2. InHandNow \/ CoveredNow => CoveredNow'
    BY <1>0, <1>5, <2>1, SaveIncidentCovers DEF CoveredNow
  <2> QED BY <1>2, <2>1, <2>2
<1>6. CASE \/ \E s \in Schedules, f \in Findings : Diagnose(w, s, f)
           \/ EndPass(w) \/ PassFails(w) \/ ProcessFails(w) \/ Restart
           \/ ListRules(w)
  <2>1. listed'[w] \subseteq rules_todo'[w]
    <3>1. CASE \E s \in Schedules, f \in Findings : Diagnose(w, s, f)
      BY <1>0, <3>1 DEF Diagnose, TypeOK
    <3>2. CASE EndPass(w) \/ PassFails(w) \/ ProcessFails(w) \/ Restart
      BY <1>0, <3>2 DEF EndPass, PassFails, ProcessFails, Restart, TypeOK
    <3>3. CASE ListRules(w)
      BY <1>0, <3>3 DEF ListRules, TypeOK
    <3> QED BY <1>6, <3>1, <3>2, <3>3
  <2> QED BY <2>1
<1>7. CASE ListAlerts(w) \/ ResolveAlert(w) \/ ListIncidents(w)
           \/ ResolveIncident(w)
  <2>1. /\ pc[w] \in {"list_alerts", "resolve_alerts", "resolve_incidents"}
        /\ listed' = listed
    BY <1>7 DEF ListAlerts, ResolveAlert, ListIncidents, ResolveIncident
  <2> QED
    BY <1>0, <2>1 DEF InHandOf
<1>8. CASE \/ \E D \in SUBSET Schedules : BeginPass(w, D)
           \/ \E s \in Schedules : DiagnosisFails(w, s)
           \/ FindIncident(w) \/ Tick \/ Api \/ UNCHANGED vars
  <2>1. UNCHANGED <<alerts, incidents, listed, rules_todo, report, alert>>
    BY <1>8 DEF NoOperators, BeginPass, DiagnosisFails, FindIncident, Tick, Api,
                RegisterRule, DeleteRule, vars, tables, locals
  <2> QED
    BY <1>2, <2>1 DEF CoveredNow
<1>9. ASSUME NEW v \in Workers PROVE v = w
  BY DEF OneWorker
<1> QED
  BY <1>3, <1>4, <1>5, <1>6, <1>7, <1>8, <1>9 DEF Next, Step, Fail

\* With a single thread and nobody at the incidents, every rule that matched an
\* unhealthy report has, once process_diagnosis has handled it, a firing alert
\* named by an active incident of the service, whatever failed before.
THEOREM UnhealthyCoveredAlways ==
    ASSUME OneWorker, NoOperators
    PROVE  Spec => []UnhealthyCovered
<1>1. Init => InHand /\ UnhealthyCovered
  BY DEF Init, InHand, InHandOf, UnhealthyCovered
<1>2. IInv /\ InHand /\ [Next]_vars => InHand'
  BY InHandStep
<1>3. /\ IInv /\ IInv' /\ ActiveChecked /\ InHand /\ UnhealthyCovered
      /\ [Next]_vars
      => UnhealthyCovered'
  BY UnhealthyCoveredStep
<1> QED
  BY <1>1, <1>2, <1>3, IInvAlways, ActiveCheckedAlways, PTL DEF Spec

-----------------------------------------------------------------------------
(* A healthy report clears its service.                                     *)

\* No more rules than list_alerts returns alerts; no service with more
\* incidents than list_incidents returns.
FewRules == IsFiniteSet(RuleIds) /\ Cardinality(RuleIds) <= AlertLimit

IncidentsOf(service) == {i \in Rows(incidents) : i.service_id = service}

FewIncidents ==
    \A service \in Services :
        /\ IsFiniteSet(IncidentsOf(service))
        /\ Cardinality(IncidentsOf(service)) <= IncidentLimit

\* A query whose result fits into its limit returns all of it.
LEMMA WholePage ==
    ASSUME NEW S, NEW At(_), NEW n \in Nat, IsFiniteSet(S), Cardinality(S) <= n,
           NEW T \in Page(S, At, n)
    PROVE  T = S
<1>1. T \in SUBSET S
  BY DEF Page
<1>2. Cardinality(S) \in Nat
  BY FS_CardinalityType
<1>3. Cardinality(T) = Cardinality(S)
  BY <1>2 DEF Page
<1> QED
  BY <1>1, <1>3, FS_Subset

\* A service has at most as many firing alerts as there are rules.
LEMMA FiringFits ==
    ASSUME TypeOK, UniqueFiring, FewRules, NEW service
    PROVE  /\ IsFiniteSet(Firing(service))
           /\ Cardinality(Firing(service)) <= AlertLimit
<1> DEFINE f == [a \in Firing(service) |-> a.rule_id]
<1>1. \A a \in Firing(service) :
        /\ a \in AlertRow /\ a.service_id = service /\ a.state = "firing"
        /\ a.alert_id \in DOMAIN alerts /\ alerts[a.alert_id] = a
  BY RowsTyped DEF Firing
<1>2. f \in [Firing(service) -> RuleIds]
  BY <1>1 DEF AlertRow
<1>3. ASSUME NEW a \in Firing(service), NEW b \in Firing(service), f[a] = f[b]
      PROVE  a = b
  <2>1. a.rule_id = b.rule_id
    BY <1>3
  <2>2. a.alert_id = b.alert_id
    BY <1>1, <2>1 DEF UniqueFiring
  <2> QED
    BY <1>1, <2>2
<1>4. f \in Injection(Firing(service), RuleIds)
  BY <1>2, <1>3 DEF Injection, IsInjective
<1> HIDE DEF f
<1>5. /\ IsFiniteSet(Firing(service))
      /\ Cardinality(Firing(service)) <= Cardinality(RuleIds)
  BY <1>4, FS_Injection DEF FewRules
<1> QED
  BY <1>5, FS_CardinalityType, ConstantsAssumption DEF FewRules

\* What _resolve_service has still to do is what it has listed.
Listed ==
    \A w \in Workers :
        /\ pc[w] = "resolve_alerts" =>
                Firing(report[w].service_id) \subseteq alert_todo[w]
        /\ pc[w] = "resolve_incidents" =>
                /\ Firing(report[w].service_id) = {}
                /\ ActiveOf(report[w].service_id) \subseteq incident_todo[w]

\* A worker is inside _resolve_service only by these steps.
LEMMA Resolving ==
    ASSUME OneWorker, TypeOK, [Next]_vars, NEW w \in Workers,
           \/ pc'[w] \in {"resolve_alerts", "resolve_incidents"}
           \/ /\ pc[w] \in {"resolve_alerts", "resolve_incidents"}
              /\ pc'[w] = "pass" /\ failures' = failures
    PROVE  \/ ListAlerts(w) \/ ResolveAlert(w)
           \/ ListIncidents(w) \/ ResolveIncident(w)
           \/ UNCHANGED <<pc, report, alerts, alert_todo, incident_todo>>
<1> USE DEF OneWorker, TypeOK, PC
<1>1. CASE \/ \E D \in SUBSET Schedules : BeginPass(w, D)
           \/ \E s \in Schedules : DiagnosisFails(w, s)
           \/ EndPass(w) \/ PassFails(w) \/ SaveAlert(w) \/ ProcessFails(w)
  BY <1>1 DEF BeginPass, DiagnosisFails, EndPass, PassFails, SaveAlert,
              ProcessFails
<1>2. CASE \E s \in Schedules, f \in Findings : Diagnose(w, s, f)
  BY <1>2 DEF Diagnose
<1>3. CASE ListRules(w)
  BY <1>3 DEF ListRules
<1>4. CASE (\E rule \in rules_todo[w] : FindAlert(w, rule)) \/ FindIncident(w)
  BY <1>4 DEF FindAlert, FindIncident
<1>5. CASE SaveIncident(w)
  BY <1>5 DEF SaveIncident
<1>6. CASE Restart
  BY <1>6 DEF Restart
<1>7. CASE Tick \/ Api \/ UNCHANGED vars
  BY <1>7 DEF Tick, Api, Acknowledge, Resolve, SaveRequest, RequestFails,
              RegisterRule, DeleteRule, vars, locals, tables
<1>8. ASSUME NEW v \in Workers PROVE v = w
  OBVIOUS
<1> QED
  BY <1>1, <1>2, <1>3, <1>4, <1>5, <1>6, <1>7, <1>8 DEF Next, Step, Fail

\* What each step inside _resolve_service leaves to do.
LEMMA ResolveAlertLeaves ==
    ASSUME TypeOK, NEW w \in Workers, ResolveAlert(w), NEW service,
           Firing(service) \subseteq alert_todo[w]
    PROVE  Firing(service)' \subseteq alert_todo'[w]
<1> PICK a \in alert_todo[w] :
          /\ alerts' = Put(alerts, a.alert_id, [a EXCEPT !.state = "resolved"])
          /\ alert_todo' = [alert_todo EXCEPT ![w] = @ \ {a}]
  BY DEF ResolveAlert, Newest
<1>1. [a EXCEPT !.state = "resolved"].state = "resolved"
  BY ResolvedAlertTyped DEF TypeOK
<1>2. alert_todo'[w] = alert_todo[w] \ {a}
  BY DEF TypeOK
<1> SUFFICES ASSUME NEW k \in DOMAIN alerts', alerts'[k].service_id = service,
                    alerts'[k].state = "firing"
             PROVE  alerts'[k] \in alert_todo'[w]
  BY DEF Firing, Rows
<1>3. k # a.alert_id /\ k \in DOMAIN alerts /\ alerts'[k] = alerts[k]
  BY <1>1 DEF Put
<1>4. alerts[k] \in Firing(service)
  BY <1>3 DEF Firing, Rows
<1>5. alerts[k] # a
  BY <1>3 DEF TypeOK
<1> QED
  BY <1>2, <1>3, <1>4, <1>5

LEMMA ResolveIncidentLeaves ==
    ASSUME TypeOK, NEW w \in Workers, ResolveIncident(w), NEW service,
           ActiveOf(service) \subseteq incident_todo[w]
    PROVE  /\ ActiveOf(service)' \subseteq incident_todo'[w]
           /\ pc'[w] = "pass" => incident_todo'[w] = {}
<1> PICK i \in incident_todo[w] :
          /\ incidents' = Put(incidents, i.incident_id, MarkResolved(i, now[w]))
          /\ incident_todo' = [incident_todo EXCEPT ![w] = @ \ {i}]
          /\ pc' = [pc EXCEPT ![w] = IF incident_todo[w] = {i}
                                     THEN "pass" ELSE "resolve_incidents"]
  BY DEF ResolveIncident, Newest
<1>1. MarkResolved(i, now[w]).state = "resolved"
  BY MarkResolvedTyped DEF TypeOK
<1>2. /\ incident_todo'[w] = incident_todo[w] \ {i}
      /\ pc'[w] = IF incident_todo[w] = {i} THEN "pass" ELSE "resolve_incidents"
  BY DEF TypeOK
<1>3. ASSUME NEW k \in DOMAIN incidents', incidents'[k].service_id = service,
             incidents'[k].state \in Active
      PROVE  incidents'[k] \in incident_todo'[w]
  <2>1. k # i.incident_id /\ k \in DOMAIN incidents
        /\ incidents'[k] = incidents[k]
    BY <1>1, <1>3 DEF Put, Active
  <2>2. incidents[k] \in ActiveOf(service)
    BY <1>3, <2>1 DEF ActiveOf, Rows
  <2>3. incidents[k] # i
    BY <2>1 DEF TypeOK
  <2> QED
    BY <1>2, <2>1, <2>2, <2>3
<1> QED
  BY <1>2, <1>3 DEF ActiveOf, Rows

LEMMA ListIncidentsTakes ==
    ASSUME TypeOK, Listed, FewIncidents, NEW w \in Workers, ListIncidents(w)
    PROVE  LET service == report[w].service_id
           IN /\ UNCHANGED <<alerts, incidents, report>>
              /\ Firing(service) = {}
              /\ incident_todo'[w] = ActiveOf(service)
              /\ pc'[w] = IF ActiveOf(service) = {} THEN "pass"
                                                   ELSE "resolve_incidents"
<1> DEFINE service == report[w].service_id
<1>1. PICK T \in Page(IncidentsOf(service), OpenedAt, IncidentLimit) :
         LET todo == {i \in T : i.state \in Active}
         IN /\ incident_todo' = [incident_todo EXCEPT ![w] = todo]
            /\ pc' = [pc EXCEPT ![w] = IF todo = {} THEN "pass"
                                                   ELSE "resolve_incidents"]
  BY DEF ListIncidents, IncidentsOf
<1>2. service \in Services
  BY DEF ListIncidents, TypeOK, Report
<1>3. T = IncidentsOf(service)
  <2>1. /\ IsFiniteSet(IncidentsOf(service))
        /\ Cardinality(IncidentsOf(service)) <= IncidentLimit
    BY <1>2 DEF FewIncidents
  <2>2. IncidentLimit \in Nat
    BY ConstantsAssumption
  <2> QED
    BY <2>1, <2>2, WholePage
<1>4. {i \in T : i.state \in Active} = ActiveOf(service)
  BY <1>3 DEF IncidentsOf, ActiveOf
<1>5. Firing(service) = {}
  BY DEF ListIncidents, Listed
<1> HIDE DEF service
<1> QED
  BY <1>1, <1>4, <1>5 DEF service, ListIncidents, tables, TypeOK

LEMMA ListedStep ==
    ASSUME OneWorker, NoOperators, FewRules, TypeOK, UniqueFiring, FewIncidents,
           Listed, [Next]_vars
    PROVE  Listed'
<1> SUFFICES ASSUME NEW w \in Workers,
                    pc'[w] \in {"resolve_alerts", "resolve_incidents"}
             PROVE  /\ pc'[w] = "resolve_alerts" =>
                         Firing(report[w].service_id)' \subseteq alert_todo'[w]
                    /\ pc'[w] = "resolve_incidents" =>
                         /\ Firing(report[w].service_id)' = {}
                         /\ ActiveOf(report[w].service_id)'
                              \subseteq incident_todo'[w]
  BY DEF Listed
<1> DEFINE service == report[w].service_id
<1>1. CASE ListAlerts(w)
  <2>1. PICK T \in Page(Firing(service), CreatedAt, AlertLimit) :
            alert_todo' = [alert_todo EXCEPT ![w] = T]
    BY <1>1 DEF ListAlerts
  <2>2. T = Firing(service)
    <3>1. IsFiniteSet(Firing(service)) /\ Cardinality(Firing(service)) <= AlertLimit
      BY FiringFits
    <3>2. AlertLimit \in Nat
      BY ConstantsAssumption
    <3> QED
      BY <3>1, <3>2, WholePage
  <2>3. /\ alerts' = alerts /\ report' = report /\ pc'[w] = "resolve_alerts"
        /\ alert_todo'[w] = Firing(service)
    BY <1>1, <2>1, <2>2 DEF ListAlerts, tables, TypeOK
  <2> QED
    BY <2>3 DEF Firing
<1>2. CASE ResolveAlert(w)
  <2>1. report' = report /\ pc' = pc /\ pc[w] = "resolve_alerts"
    BY <1>2 DEF ResolveAlert
  <2> QED
    BY <1>2, <2>1, ResolveAlertLeaves DEF Listed
<1>3. CASE ListIncidents(w)
  <2>1. /\ UNCHANGED <<alerts, incidents, report>> /\ Firing(service) = {}
        /\ incident_todo'[w] = ActiveOf(service) /\ pc'[w] # "resolve_alerts"
    BY <1>3, ListIncidentsTakes
  <2> QED
    BY <2>1 DEF Firing, ActiveOf
<1>4. CASE ResolveIncident(w)
  <2>1. alerts' = alerts /\ report' = report /\ pc[w] = "resolve_incidents"
        /\ pc'[w] # "resolve_alerts"
    BY <1>4 DEF ResolveIncident, TypeOK
  <2> QED
    BY <1>4, <2>1, ResolveIncidentLeaves DEF Listed, Firing
<1>5. CASE UNCHANGED <<pc, report, alerts, alert_todo, incident_todo>>
  <2>1. incidents' = incidents
    <3>1. ASSUME NEW v \in Workers PROVE v = w
      BY DEF OneWorker
    <3>2. ~SaveIncident(w)
      BY <1>5 DEF SaveIncident
    <3>3. ResolveIncident(w) => FALSE
      <4> SUFFICES ASSUME ResolveIncident(w) PROVE FALSE
        OBVIOUS
      <4>1. PICK i \in incident_todo[w] :
                incident_todo' = [incident_todo EXCEPT ![w] = @ \ {i}]
        BY DEF ResolveIncident, Newest
      <4> QED
        BY <1>5, <4>1 DEF TypeOK
    <3> QED
      BY <3>1, <3>2, <3>3, IncidentWriters
  <2> QED
    BY <1>5, <2>1 DEF Listed, Firing, ActiveOf
<1> QED
  BY <1>1, <1>2, <1>3, <1>4, <1>5, Resolving

\* With a single thread and nobody at the incidents, a service has no firing
\* alert and no active incident left when _resolve_service returns, as long as
\* there are no more rules than list_alerts returns alerts and no service has
\* more incidents than list_incidents returns.
THEOREM HealthyClearsAlways ==
    ASSUME OneWorker, NoOperators, FewRules
    PROVE  Spec /\ []FewIncidents => HealthyClears
<1> DEFINE Cleared ==
        \A w \in Workers :
          /\ pc[w] \in {"resolve_alerts", "resolve_incidents"}
          /\ pc'[w] = "pass"
          /\ failures' = failures
          => Settled(report[w].service_id)'
<1>1. Init => Listed
  BY DEF Init, Listed
<1>2. IInv /\ UniqueFiring /\ FewIncidents /\ Listed /\ [Next]_vars => Listed'
  BY ListedStep DEF IInv
<1>3. IInv /\ FewIncidents /\ Listed /\ [Next]_vars => Cleared
  <2> SUFFICES ASSUME IInv, FewIncidents, Listed, [Next]_vars,
                      NEW w \in Workers,
                      pc[w] \in {"resolve_alerts", "resolve_incidents"},
                      pc'[w] = "pass", failures' = failures
               PROVE  Settled(report[w].service_id)'
    OBVIOUS
  <2>0. TypeOK
    BY DEF IInv
  <2>1. CASE ListIncidents(w)
    <3>1. LET service == report[w].service_id
          IN /\ UNCHANGED <<alerts, incidents, report>>
             /\ Firing(service) = {} /\ ActiveOf(service) = {}
      BY <2>0, <2>1, ListIncidentsTakes
    <3> QED
      BY <3>1 DEF Settled, Firing, ActiveOf
  <2>2. CASE ResolveIncident(w)
    <3>1. alerts' = alerts /\ report' = report /\ pc[w] = "resolve_incidents"
      BY <2>2 DEF ResolveIncident
    <3>2. ActiveOf(report[w].service_id)' \subseteq incident_todo'[w]
          /\ incident_todo'[w] = {}
      BY <2>0, <2>2, <3>1, ResolveIncidentLeaves DEF Listed
    <3> QED
      BY <3>1, <3>2 DEF Settled, Listed, Firing
  <2>3. CASE ListAlerts(w) \/ ResolveAlert(w)
    BY <2>0, <2>3 DEF ListAlerts, ResolveAlert, TypeOK
  <2> QED
    BY <2>0, <2>1, <2>2, <2>3, Resolving
<1> HIDE DEF Cleared
<1>4. Spec /\ []FewIncidents => [][Cleared]_vars
  BY <1>1, <1>2, <1>3, IInvAlways, UniqueFiringAlways, PTL DEF Spec
<1> QED
  BY <1>4, PTL DEF HealthyClears, Cleared
=============================================================================
