------------------------------ MODULE Incidents ------------------------------
(***************************************************************************)
(* The alert and incident pipeline of controller/service.py over the        *)
(* alerts, incidents and alert_rules tables of controller/store.py.         *)
(*                                                                         *)
(* Workers are the threads that may be inside run_due_schedules: the        *)
(* monitoring loop and any request thread serving POST /v1/monitor/run.     *)
(* Operators are request threads acknowledging or resolving an incident.    *)
(* Every store method is one SQLite transaction, so every action below      *)
(* makes one transaction; what a thread read before it is a copy in that    *)
(* thread's local state, and may be stale when it is written back.          *)
(*                                                                         *)
(* Any store call can raise (the busy timeout) and the process can stop     *)
(* between any two transactions.  The tables survive both.                  *)
(***************************************************************************)
EXTENDS Monitoring, FiniteSets

CONSTANTS
    Services,       \* registered services
    Schedules,      \* schedule ids
    ServiceOf,      \* the service each schedule diagnoses
    RuleIds,        \* alert rule ids
    RuleChoices,    \* the rules a client may register
    Findings,       \* what a diagnosis may conclude: localization, confidence
    AlertIds,       \* the uuids build_alert may draw
    IncidentIds,    \* the uuids _attach_to_incident may draw
    Workers,        \* threads inside run_due_schedules
    Operators,      \* threads acknowledging or resolving incidents
    AlertLimit,     \* the default limit of list_alerts (100)
    IncidentLimit,  \* the default limit of list_incidents (100)
    MaxClock,       \* bound: how far time.time() advances
    MaxFaults,      \* bound: unhealthy diagnoses
    MaxFailures,    \* bound: failed calls and stops of the process
    MaxRuleEdits    \* bound: rules registered or deleted

RuleRow == [rule_id : RuleIds, service_id : Services \cup {None},
            fire_on : SUBSET Localization, min_confidence : Percent,
            severity : Severity, enabled : BOOLEAN]

AlertRow == [alert_id : AlertIds, rule_id : RuleIds, service_id : Services,
             severity : Severity, state : AlertState, created_at : Nat]

IncidentRow == [incident_id : IncidentIds, service_id : Services,
                state : IncidentState, severity : Severity,
                alert_ids : SUBSET AlertIds,
                opened_at : Nat, resolved_at : Nat \cup {None}]

Report == [service_id : Services, localization : Localization,
           confidence : Percent]

ASSUME ConstantsAssumption ==
    /\ ServiceOf \in [Schedules -> Services]
    /\ RuleChoices \subseteq RuleRow
    /\ Findings \subseteq [localization : Localization, confidence : Percent]
    /\ AlertLimit \in Nat /\ IncidentLimit \in Nat
    /\ MaxClock \in Nat /\ MaxFaults \in Nat
    /\ MaxFailures \in Nat /\ MaxRuleEdits \in Nat
    /\ None \notin AlertRow \cup IncidentRow \cup Report \cup Services

VARIABLES
    rules,        \* table alert_rules, by rule_id
    alerts,       \* table alerts, by alert_id
    incidents,    \* table incidents, by incident_id
    clock,        \* time.time()
    faults,       \* unhealthy diagnoses so far
    failures,     \* failed calls and stops so far
    rule_edits,   \* rules registered or deleted so far
    pc,           \* where each worker is
    now,          \* run_due_schedules: the time its pass started
    due,          \* run_due_schedules: due schedules it has still to visit
    report,       \* process_diagnosis: the report in hand
    listed,       \* process_diagnosis: the rules that match it
    rules_todo,   \* process_diagnosis: matching rules still to handle
    alert,        \* process_diagnosis: the alert in hand
    incident,     \* _attach_to_incident: the incident it is about to save
    alert_todo,   \* _resolve_service: the alerts it read and has to resolve
    incident_todo,\* _resolve_service: the incidents it read, likewise
    request       \* per operator, the incident it is about to save

tables == <<rules, alerts, incidents>>
bounds == <<faults, failures, rule_edits>>
locals == <<now, due, report, listed, rules_todo, alert, incident, alert_todo,
            incident_todo>>
vars == <<tables, clock, bounds, pc, locals, request>>

Init ==
    /\ rules = NoRows /\ alerts = NoRows /\ incidents = NoRows
    /\ clock = 0 /\ faults = 0 /\ failures = 0 /\ rule_edits = 0
    /\ pc = [w \in Workers |-> "idle"]
    /\ now = [w \in Workers |-> 0]
    /\ due = [w \in Workers |-> {}]
    /\ report = [w \in Workers |-> None]
    /\ listed = [w \in Workers |-> {}]
    /\ rules_todo = [w \in Workers |-> {}]
    /\ alert = [w \in Workers |-> None]
    /\ incident = [w \in Workers |-> None]
    /\ alert_todo = [w \in Workers |-> {}]
    /\ incident_todo = [w \in Workers |-> {}]
    /\ request = [o \in Operators |-> None]

-----------------------------------------------------------------------------
(* What the queries of the store return.                                    *)

\* Mutation: only an alert of this very moment counts as the same alert.
FiringForRecent(rule_id, service) ==
    {a \in Rows(alerts) : /\ a.rule_id = rule_id
                          /\ a.service_id = service
                          /\ a.state = "firing"
                          /\ a.created_at = clock}

\* find_firing_alert's WHERE clause.
FiringFor(rule_id, service) ==
    {a \in Rows(alerts) : /\ a.rule_id = rule_id
                          /\ a.service_id = service
                          /\ a.state = "firing"}

\* list_alerts(service_id, state=FIRING) before its LIMIT.
Firing(service) ==
    {a \in Rows(alerts) : a.service_id = service /\ a.state = "firing"}

\* Mutation: the query leaves open incidents out.
ActiveOfAcknowledged(service) ==
    {i \in Rows(incidents) : i.service_id = service /\ i.state = "acknowledged"}

\* find_active_incident's WHERE clause.
ActiveOf(service) ==
    {i \in Rows(incidents) : i.service_id = service /\ i.state \in Active}

\* ORDER BY At DESC: nothing newer is left behind.
Newest(S, At(_)) == {x \in S : \A y \in S : At(x) >= At(y)}

\* ORDER BY At DESC LIMIT n: rows of one time come in any order.
Page(S, At(_), n) ==
    {T \in SUBSET S :
        /\ Cardinality(T) = IF Cardinality(S) < n THEN Cardinality(S) ELSE n
        /\ \A x \in T, y \in S \ T : At(x) >= At(y)}

CreatedAt(a) == a.created_at
OpenedAt(i)  == i.opened_at

\* Mutation: ids derived from rule and service, so that they come back.
UnusedAlertIdsReused ==
    {id \in AlertIds : id \in DOMAIN alerts => alerts[id].state = "resolved"}

\* uuid4: an id no row and no object under construction has.
UnusedAlertIds ==
    {id \in AlertIds : /\ id \notin DOMAIN alerts
                       /\ \A w \in Workers : alert[w] # None =>
                                                alert[w].alert_id # id}
UnusedIncidentIds ==
    {id \in IncidentIds : /\ id \notin DOMAIN incidents
                          /\ \A w \in Workers : incident[w] # None =>
                                        incident[w].incident_id # id}

-----------------------------------------------------------------------------
(* run_due_schedules: the pass over the due schedules.                      *)

Tick ==
    /\ clock < MaxClock
    /\ clock' = clock + 1
    /\ UNCHANGED <<tables, bounds, pc, locals, request>>

\* list_schedules and is_due; `now` is read once for the whole pass.  Which
\* schedules are due is the business of module Schedules.
BeginPass(w, D) ==
    /\ pc[w] = "idle"
    /\ D # {}
    /\ pc' = [pc EXCEPT ![w] = "pass"]
    /\ now' = [now EXCEPT ![w] = clock]
    /\ due' = [due EXCEPT ![w] = D]
    /\ UNCHANGED <<tables, clock, bounds, report, listed, rules_todo, alert,
                   incident, alert_todo, incident_todo, request>>

\* diagnose_service returned and _record_service_baseline stored its sample.
Diagnose(w, s, f) ==
    /\ pc[w] = "pass"
    /\ s \in due[w]
    /\ f.localization # "healthy" => faults < MaxFaults
    /\ due' = [due EXCEPT ![w] = @ \ {s}]
    /\ LET r == [service_id |-> ServiceOf[s], localization |-> f.localization,
                 confidence |-> f.confidence]
       IN /\ report' = [report EXCEPT ![w] = r]
          /\ pc' = [pc EXCEPT ![w] = IF IsHealthy(r) THEN "list_alerts"
                                                     ELSE "list_rules"]
          /\ faults' = IF IsHealthy(r) THEN faults ELSE faults + 1
    /\ listed' = [listed EXCEPT ![w] = {}]
    /\ UNCHANGED <<tables, clock, failures, rule_edits, now, rules_todo, alert,
                   incident, alert_todo, incident_todo, request>>

\* diagnose_service raised (no vantage agents, unknown service, a store
\* error): the handler records the error and the pass goes on.
DiagnosisFails(w, s) ==
    /\ pc[w] = "pass"
    /\ s \in due[w]
    /\ failures < MaxFailures
    /\ failures' = failures + 1
    /\ due' = [due EXCEPT ![w] = @ \ {s}]
    /\ UNCHANGED <<tables, clock, faults, rule_edits, pc, now, report, listed,
                   rules_todo, alert, incident, alert_todo, incident_todo,
                   request>>

EndPass(w) ==
    /\ pc[w] = "pass"
    /\ due[w] = {}
    /\ pc' = [pc EXCEPT ![w] = "idle"]
    /\ report' = [report EXCEPT ![w] = None]
    /\ listed' = [listed EXCEPT ![w] = {}]
    /\ UNCHANGED <<tables, clock, bounds, now, due, rules_todo, alert,
                   incident, alert_todo, incident_todo, request>>

-----------------------------------------------------------------------------
(* process_diagnosis on an unhealthy report, and _attach_to_incident.       *)

ListRules(w) ==
    /\ pc[w] = "list_rules"
    /\ LET matching == MatchingRules(Rows(rules), report[w])
       IN /\ listed' = [listed EXCEPT ![w] = matching]
          /\ rules_todo' = [rules_todo EXCEPT ![w] = matching]
          /\ pc' = [pc EXCEPT ![w] = IF matching = {} THEN "pass"
                                                      ELSE "find_alert"]
    /\ UNCHANGED <<tables, clock, bounds, now, due, report, alert, incident,
                   alert_todo, incident_todo, request>>

\* find_firing_alert, and build_alert when there is none.
FindAlert(w, rule) ==
    /\ pc[w] = "find_alert"
    /\ rule \in rules_todo[w]
    /\ rules_todo' = [rules_todo EXCEPT ![w] = @ \ {rule}]
    /\ LET found == FiringFor(rule.rule_id, report[w].service_id)
       IN \/ \E a \in Newest(found, CreatedAt) :
                alert' = [alert EXCEPT ![w] = a]
          \/ /\ found = {}
             /\ UnusedAlertIds # {}
             /\ alert' = [alert EXCEPT ![w] =
                    BuildAlert(CHOOSE id \in UnusedAlertIds : TRUE, rule,
                               report[w], now[w])]
    /\ pc' = [pc EXCEPT ![w] = "save_alert"]
    /\ UNCHANGED <<tables, clock, bounds, now, due, report, listed, incident,
                   alert_todo, incident_todo, request>>

\* Mutation: an alert that was there before is taken to be in an incident.
SaveAlertKnown(w) ==
    LET known == alert[w].alert_id \in DOMAIN alerts
    IN /\ pc[w] = "save_alert"
       /\ alerts' = Put(alerts, alert[w].alert_id, alert[w])
       /\ alert' = IF known THEN [alert EXCEPT ![w] = None] ELSE alert
       /\ pc' = [pc EXCEPT ![w] =
                     IF ~known THEN "find_incident"
                     ELSE IF rules_todo[w] = {} THEN "pass" ELSE "find_alert"]
       /\ UNCHANGED <<rules, incidents, clock, bounds, now, due, report,
                      listed, rules_todo, incident, alert_todo, incident_todo,
                      request>>

\* Mutation: a new alert is attached to an incident without being saved.
SaveAlertSkipped(w) ==
    /\ pc[w] = "save_alert"
    /\ pc' = [pc EXCEPT ![w] = "find_incident"]
    /\ UNCHANGED <<tables, clock, bounds, locals, request>>

SaveAlert(w) ==
    /\ pc[w] = "save_alert"
    /\ alerts' = Put(alerts, alert[w].alert_id, alert[w])
    /\ pc' = [pc EXCEPT ![w] = "find_incident"]
    /\ UNCHANGED <<rules, incidents, clock, bounds, locals, request>>

OpenIncident(id, a, t) ==
    [incident_id |-> id, service_id |-> a.service_id, state |-> "open",
     severity |-> a.severity, alert_ids |-> {a.alert_id},
     opened_at |-> t, resolved_at |-> None]

\* Mutation: the latest alert sets the severity.
AttachAlertLatest(i, a) ==
    [i EXCEPT !.alert_ids = @ \cup {a.alert_id}, !.severity = a.severity]

AttachAlert(i, a) ==
    [i EXCEPT !.alert_ids = @ \cup {a.alert_id},
              !.severity = MaxSeverity(@, a.severity)]

FindIncident(w) ==
    /\ pc[w] = "find_incident"
    /\ LET found == ActiveOf(alert[w].service_id)
       IN \/ \E i \in Newest(found, OpenedAt) :
                incident' = [incident EXCEPT ![w] = AttachAlert(i, alert[w])]
          \/ /\ found = {}
             /\ UnusedIncidentIds # {}
             /\ incident' = [incident EXCEPT ![w] =
                    OpenIncident(CHOOSE id \in UnusedIncidentIds : TRUE,
                                 alert[w], now[w])]
    /\ pc' = [pc EXCEPT ![w] = "save_incident"]
    /\ UNCHANGED <<tables, clock, bounds, now, due, report, listed, rules_todo,
                   alert, alert_todo, incident_todo, request>>

\* Mutation: the alert in hand is carried over to the next rule.
SaveIncidentKeeps(w) ==
    /\ pc[w] = "save_incident"
    /\ incidents' = Put(incidents, incident[w].incident_id, incident[w])
    /\ pc' = [pc EXCEPT ![w] = IF rules_todo[w] = {} THEN "pass"
                                                     ELSE "find_alert"]
    /\ UNCHANGED <<rules, alerts, clock, bounds, locals, request>>

SaveIncident(w) ==
    /\ pc[w] = "save_incident"
    /\ incidents' = Put(incidents, incident[w].incident_id, incident[w])
    /\ alert' = [alert EXCEPT ![w] = None]
    /\ incident' = [incident EXCEPT ![w] = None]
    /\ pc' = [pc EXCEPT ![w] = IF rules_todo[w] = {} THEN "pass"
                                                     ELSE "find_alert"]
    /\ UNCHANGED <<rules, alerts, clock, bounds, now, due, report, listed,
                   rules_todo, alert_todo, incident_todo, request>>

-----------------------------------------------------------------------------
(* _resolve_service: the report is healthy.                                 *)

ListAlerts(w) ==
    /\ pc[w] = "list_alerts"
    /\ \E T \in Page(Firing(report[w].service_id), CreatedAt, AlertLimit) :
            alert_todo' = [alert_todo EXCEPT ![w] = T]
    /\ pc' = [pc EXCEPT ![w] = "resolve_alerts"]
    /\ UNCHANGED <<tables, clock, bounds, now, due, report, listed, rules_todo,
                   alert, incident, incident_todo, request>>

ResolveAlert(w) ==
    /\ pc[w] = "resolve_alerts"
    /\ \E a \in Newest(alert_todo[w], CreatedAt) :
            /\ alerts' = Put(alerts, a.alert_id,
                             [a EXCEPT !.state = "resolved"])
            /\ alert_todo' = [alert_todo EXCEPT ![w] = @ \ {a}]
    /\ UNCHANGED <<rules, incidents, clock, bounds, pc, now, due, report,
                   listed, rules_todo, alert, incident, incident_todo,
                   request>>

\* Mutation: the loop over the alerts returns early.
ListIncidentsEarly(w) ==
    /\ pc[w] = "resolve_alerts"
    /\ \E T \in Page({i \in Rows(incidents) :
                        i.service_id = report[w].service_id},
                     OpenedAt, IncidentLimit) :
         LET todo == {i \in T : i.state \in Active}
         IN /\ incident_todo' = [incident_todo EXCEPT ![w] = todo]
            /\ pc' = [pc EXCEPT ![w] = IF todo = {} THEN "pass"
                                                   ELSE "resolve_incidents"]
    /\ UNCHANGED <<tables, clock, bounds, now, due, report, listed, rules_todo,
                   alert, incident, alert_todo, request>>

\* Mutation: only open incidents are resolved.
ListIncidentsOpen(w) ==
    /\ pc[w] = "resolve_alerts"
    /\ alert_todo[w] = {}
    /\ \E T \in Page({i \in Rows(incidents) :
                        i.service_id = report[w].service_id},
                     OpenedAt, IncidentLimit) :
         LET todo == {i \in T : i.state = "open"}
         IN /\ incident_todo' = [incident_todo EXCEPT ![w] = todo]
            /\ pc' = [pc EXCEPT ![w] = IF todo = {} THEN "pass"
                                                   ELSE "resolve_incidents"]
    /\ UNCHANGED <<tables, clock, bounds, now, due, report, listed, rules_todo,
                   alert, incident, alert_todo, request>>

\* The query returns resolved incidents too; they are filtered after the
\* LIMIT.
ListIncidents(w) ==
    /\ pc[w] = "resolve_alerts"
    /\ alert_todo[w] = {}
    /\ \E T \in Page({i \in Rows(incidents) :
                        i.service_id = report[w].service_id},
                     OpenedAt, IncidentLimit) :
         LET todo == {i \in T : i.state \in Active}
         IN /\ incident_todo' = [incident_todo EXCEPT ![w] = todo]
            /\ pc' = [pc EXCEPT ![w] = IF todo = {} THEN "pass"
                                                   ELSE "resolve_incidents"]
    /\ UNCHANGED <<tables, clock, bounds, now, due, report, listed, rules_todo,
                   alert, incident, alert_todo, request>>

MarkResolved(i, t) == [i EXCEPT !.state = "resolved", !.resolved_at = t]

ResolveIncident(w) ==
    /\ pc[w] = "resolve_incidents"
    /\ \E i \in Newest(incident_todo[w], OpenedAt) :
         /\ incidents' = Put(incidents, i.incident_id, MarkResolved(i, now[w]))
         /\ incident_todo' = [incident_todo EXCEPT ![w] = @ \ {i}]
         /\ pc' = [pc EXCEPT ![w] = IF incident_todo[w] = {i}
                                    THEN "pass" ELSE "resolve_incidents"]
    /\ UNCHANGED <<rules, alerts, clock, bounds, now, due, report, listed,
                   rules_todo, alert, incident, alert_todo, request>>

-----------------------------------------------------------------------------
(* Failures.                                                                *)

\* A store call of process_diagnosis raised: what was saved stays saved, the
\* rest of the report is abandoned, and the pass goes on.
ProcessFails(w) ==
    /\ pc[w] \notin {"idle", "pass"}
    /\ failures < MaxFailures
    /\ failures' = failures + 1
    /\ pc' = [pc EXCEPT ![w] = "pass"]
    /\ listed' = [listed EXCEPT ![w] = {}]
    /\ rules_todo' = [rules_todo EXCEPT ![w] = {}]
    /\ alert' = [alert EXCEPT ![w] = None]
    /\ incident' = [incident EXCEPT ![w] = None]
    /\ alert_todo' = [alert_todo EXCEPT ![w] = {}]
    /\ incident_todo' = [incident_todo EXCEPT ![w] = {}]
    /\ UNCHANGED <<tables, clock, faults, rule_edits, now, due, report,
                   request>>

\* upsert_schedule raised in the finally clause: the pass is abandoned.
PassFails(w) ==
    /\ pc[w] = "pass"
    /\ failures < MaxFailures
    /\ failures' = failures + 1
    /\ pc' = [pc EXCEPT ![w] = "idle"]
    /\ due' = [due EXCEPT ![w] = {}]
    /\ report' = [report EXCEPT ![w] = None]
    /\ listed' = [listed EXCEPT ![w] = {}]
    /\ UNCHANGED <<tables, clock, faults, rule_edits, now, rules_todo, alert,
                   incident, alert_todo, incident_todo, request>>

\* The controller process stops and is started again on the same database.
Restart ==
    /\ failures < MaxFailures
    /\ failures' = failures + 1
    /\ pc' = [w \in Workers |-> "idle"]
    /\ due' = [w \in Workers |-> {}]
    /\ report' = [w \in Workers |-> None]
    /\ listed' = [w \in Workers |-> {}]
    /\ rules_todo' = [w \in Workers |-> {}]
    /\ alert' = [w \in Workers |-> None]
    /\ incident' = [w \in Workers |-> None]
    /\ alert_todo' = [w \in Workers |-> {}]
    /\ incident_todo' = [w \in Workers |-> {}]
    /\ request' = [o \in Operators |-> None]
    /\ UNCHANGED <<tables, clock, faults, rule_edits, now>>

-----------------------------------------------------------------------------
(* Requests to the API.                                                     *)

\* acknowledge_incident up to its save; it does nothing to a resolved one.
Acknowledge(o, id) ==
    /\ request[o] = None
    /\ incidents[id].state # "resolved"
    /\ request' = [request EXCEPT ![o] =
                      [incidents[id] EXCEPT !.state = "acknowledged"]]
    /\ UNCHANGED <<tables, clock, bounds, pc, locals>>

\* resolve_incident up to its save.
Resolve(o, id) ==
    /\ request[o] = None
    /\ incidents[id].state # "resolved"
    /\ request' = [request EXCEPT ![o] = MarkResolved(incidents[id], clock)]
    /\ UNCHANGED <<tables, clock, bounds, pc, locals>>

SaveRequest(o) ==
    /\ request[o] # None
    /\ incidents' = Put(incidents, request[o].incident_id, request[o])
    /\ request' = [request EXCEPT ![o] = None]
    /\ UNCHANGED <<rules, alerts, clock, bounds, pc, locals>>

\* The save raised: the request fails and nothing is written.
RequestFails(o) ==
    /\ request[o] # None
    /\ failures < MaxFailures
    /\ failures' = failures + 1
    /\ request' = [request EXCEPT ![o] = None]
    /\ UNCHANGED <<tables, clock, faults, rule_edits, pc, locals>>

RegisterRule(rule) ==
    /\ rule_edits < MaxRuleEdits
    /\ rule_edits' = rule_edits + 1
    /\ rules' = Put(rules, rule.rule_id, rule)
    /\ UNCHANGED <<alerts, incidents, clock, faults, failures, pc, locals,
                   request>>

DeleteRule(id) ==
    /\ rule_edits < MaxRuleEdits
    /\ rule_edits' = rule_edits + 1
    /\ rules' = Remove(rules, id)
    /\ UNCHANGED <<alerts, incidents, clock, faults, failures, pc, locals,
                   request>>

-----------------------------------------------------------------------------
\* What a worker does by itself once it is inside a pass.
Step(w) ==
    \/ \E s \in Schedules, f \in Findings : Diagnose(w, s, f)
    \/ EndPass(w)
    \/ ListRules(w)
    \/ \E rule \in rules_todo[w] : FindAlert(w, rule)
    \/ SaveAlert(w)
    \/ FindIncident(w)
    \/ SaveIncident(w)
    \/ ListAlerts(w)
    \/ ResolveAlert(w)
    \/ ListIncidents(w)
    \/ ResolveIncident(w)

Fail(w) ==
    \/ \E s \in Schedules : DiagnosisFails(w, s)
    \/ ProcessFails(w)
    \/ PassFails(w)

Api ==
    \/ \E o \in Operators, id \in DOMAIN incidents :
            Acknowledge(o, id) \/ Resolve(o, id)
    \/ \E o \in Operators : SaveRequest(o) \/ RequestFails(o)
    \/ \E rule \in RuleChoices : RegisterRule(rule)
    \/ \E id \in DOMAIN rules : DeleteRule(id)

Next ==
    \/ Tick
    \/ \E w \in Workers, D \in SUBSET Schedules : BeginPass(w, D)
    \/ \E w \in Workers : Step(w)
    \/ \E w \in Workers : Fail(w)
    \/ Restart
    \/ Api

Spec == Init /\ [][Next]_vars

\* A thread that has work goes on with it; the loop of the scheduler comes
\* back for every enabled schedule, whatever else it visits in between.
Fairness ==
    /\ \A w \in Workers : WF_vars(Step(w))
    /\ \A w \in Workers, s \in Schedules :
            SF_vars(\E D \in SUBSET Schedules : s \in D /\ BeginPass(w, D))
    /\ \A o \in Operators : WF_vars(SaveRequest(o))

FairSpec == Spec /\ Fairness

-----------------------------------------------------------------------------
PC == {"idle", "pass", "list_rules", "find_alert", "save_alert",
       "find_incident", "save_incident", "list_alerts", "resolve_alerts",
       "resolve_incidents"}

\* The tables hold rows under their own keys, and a thread holds exactly the
\* locals that the point it has reached in the pipeline defines.
TypeOK ==
    /\ DOMAIN rules \subseteq RuleIds
    /\ \A r \in DOMAIN rules : rules[r] \in RuleRow /\ rules[r].rule_id = r
    /\ DOMAIN alerts \subseteq AlertIds
    /\ \A a \in DOMAIN alerts : alerts[a] \in AlertRow /\ alerts[a].alert_id = a
    /\ DOMAIN incidents \subseteq IncidentIds
    /\ \A i \in DOMAIN incidents : /\ incidents[i] \in IncidentRow
                                  /\ incidents[i].incident_id = i
    /\ clock \in Nat /\ faults \in Nat /\ failures \in Nat /\ rule_edits \in Nat
    /\ pc \in [Workers -> PC]
    /\ now \in [Workers -> Nat]
    /\ due \in [Workers -> SUBSET Schedules]
    /\ report \in [Workers -> Report \cup {None}]
    /\ listed \in [Workers -> SUBSET RuleRow]
    /\ rules_todo \in [Workers -> SUBSET RuleRow]
    /\ alert \in [Workers -> AlertRow \cup {None}]
    /\ incident \in [Workers -> IncidentRow \cup {None}]
    /\ alert_todo \in [Workers -> SUBSET AlertRow]
    /\ incident_todo \in [Workers -> SUBSET IncidentRow]
    /\ request \in [Operators -> IncidentRow \cup {None}]
    /\ \A w \in Workers :
         /\ pc[w] \notin {"idle", "pass"} => report[w] # None
         /\ pc[w] \in {"save_alert", "find_incident", "save_incident"} <=>
                alert[w] # None
         /\ pc[w] = "save_incident" <=> incident[w] # None

(* The alerts of an incident.                                               *)

\* An incident, wherever it is, names saved alerts of its own service only.
RefersToSaved(i) ==
    /\ i.alert_ids # {}
    /\ i.alert_ids \subseteq DOMAIN alerts
    /\ \A a \in i.alert_ids : alerts[a].service_id = i.service_id

\* Its severity is the highest among the alerts it names.
HasTopSeverity(i) ==
    /\ \E a \in i.alert_ids : alerts[a].severity = i.severity
    /\ \A a \in i.alert_ids :
            SeverityRank[alerts[a].severity] <= SeverityRank[i.severity]

\* No incident names an alert that was never saved or that belongs to another
\* service, whatever process_diagnosis, an operator and a stop of the process
\* do between save_alert and save_incident.
IncidentRefs == \A id \in DOMAIN incidents : RefersToSaved(incidents[id])

\* An incident's severity is exactly the maximum of its alerts' severities:
\* writing back a stale copy loses an alert and its severity together.
SeverityExact == \A id \in DOMAIN incidents : HasTopSeverity(incidents[id])

(* One worker.                                                              *)

\* find_firing_alert before build_alert: a rule has at most one firing alert
\* for a service, so a lasting fault does not raise an alert per pass.
UniqueFiring ==
    \A a, b \in DOMAIN alerts :
        /\ alerts[a].state = "firing" /\ alerts[b].state = "firing"
        /\ alerts[a].rule_id = alerts[b].rule_id
        /\ alerts[a].service_id = alerts[b].service_id
        => a = b

\* No save brings a resolved alert back to firing.
AlertResolvedFinal ==
    [][\A a \in DOMAIN alerts :
          alerts[a].state = "resolved" => alerts'[a].state = "resolved"]_vars

\* find_active_incident finds "the" active incident of a service.
UniqueActive ==
    \A i, j \in DOMAIN incidents :
        /\ incidents[i].state \in Active /\ incidents[j].state \in Active
        /\ incidents[i].service_id = incidents[j].service_id
        => i = j

Covered(rule_id, service) ==
    \E a \in FiringFor(rule_id, service), i \in ActiveOf(service) :
        a.alert_id \in i.alert_ids

\* Each rule that matched an unhealthy report has, once process_diagnosis has
\* handled it, a firing alert that an active incident of the service names:
\* also when an earlier attempt failed between save_alert and save_incident,
\* or between the alerts and the incidents that _resolve_service clears.
UnhealthyCovered ==
    \A w \in Workers : \A rule \in listed[w] \ rules_todo[w] :
        \/ alert[w] # None /\ alert[w].rule_id = rule.rule_id
        \/ Covered(rule.rule_id, report[w].service_id)

Settled(service) == Firing(service) = {} /\ ActiveOf(service) = {}

\* When _resolve_service returns, nothing of the service is left firing or
\* active.
HealthyClears ==
    [][\A w \in Workers :
          /\ pc[w] \in {"resolve_alerts", "resolve_incidents"}
          /\ pc'[w] = "pass"
          /\ failures' = failures
          => Settled(report[w].service_id)']_vars

\* Once its faults are over and operators leave its incidents alone, a service
\* comes to rest with no firing alert and no active incident, whatever failed,
\* stopped or was written back stale on the way.
Settles ==
    <>[](\A o \in Operators : request[o] = None) =>
        \A service \in Services : <>[]Settled(service)
=============================================================================
