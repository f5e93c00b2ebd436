# NetForge: a TLA+ verification project

This directory holds TLA+ specifications of NetForge, the network diagnostics
and root-cause framework of this repository: modules translated from the Python
source, TLC configurations that model-check them on small instances, and TLAPS
proofs of theorems about them. `PROJECT.json` maps definitions to source lines
and lists runs, mutants, findings, hazards and theorems.

## 1. The system

A *controller* (HTTP API, SQLite store, optional monitoring thread) keeps a
registry of *agents*, a topology and a service inventory. It fans probes out to
agents, localizes faults from what several vantage points see, and runs such
diagnoses periodically, feeding them into baselines, alerts and incidents.
Beside it, a CLI runs local diagnostics, a rule engine explains their results,
and an ingest layer polls switches over SNMP.

| Component | State | Operations | Interacts through |
|---|---|---|---|
| Alert and incident pipeline (`controller/service.py`, `controller/monitoring.py`) | tables `alert_rules`, `alerts`, `incidents`; copies of rows in each thread | `process_diagnosis`, `_attach_to_incident`, `_resolve_service`, acknowledge, resolve, register and delete rules | the store, from the loop and from request threads |
| Schedules and passes (`run_due_schedules`, `controller/scheduler.py`) | table `schedules`; a pass's copies; the thread | create, delete, pass, tick, start, stop | calls the diagnosis and the pipeline |
| Multi-vantage diagnosis (`controller/vantage.py`, `controller/dispatch.py`, `analysis/multivantage.py`) | plan, futures of the pool, answers | select vantages, fan out, localize | HTTP to agents |
| Store (`controller/store.py`) | ten SQLite tables | one transaction per method, 5 s busy timeout | shared by all threads |
| Fan-out jobs (`dispatch_job`) | table `jobs` | save running, fan out, save result | store, agents |
| Topology, services, host-to-port correlation (`controller/topology.py`, `controller/correlation.py`) | tables `topologies`, `services`, `host_port_bindings` | import, correlate, augment | store |
| Agent (`agent/`) | none but its configuration | authorize, probe | HTTP |
| Rule engine (`analysis/engine.py`, `analysis/rules/`) | none | evaluate 23 rules, suppress, rank, judge | called by the CLI on the results of the probes |
| Baselines and history (`storage/`) | table `snapshots` in a file that all processes of a host share | record and compare, previous path | called by the pipeline and the CLI |
| SNMP engine and counters (`ingest/`) | engine id, boots, time, message ids | discover, exchange, walk, delta | UDP |
| Host, link and path diagnostics (`diagnostics/`) | the ping cache | run a tool, parse, apply thresholds | operating system, history |
| Mesh, flow and traffic commands | none | measure, print | operating system |
| CLI, rendering | none | collect, analyse, exit code | |

**What is hard here.** `http_server.py` is a threading server and
`POST /v1/monitor/run` enters the same `run_due_schedules` as the monitoring
thread; nothing takes a lock. Every store method is a transaction of its own,
and every operation of the service is *read a row, change the copy, upsert the
copy*: between the two, another thread may have changed, resolved or deleted
the row. A diagnosis takes seconds, so these windows are wide. Any store call
may raise after the busy timeout and the process may stop between any two
calls; nothing is rolled back beyond the one transaction. A diagnosis, from one
host or from several, combines observations made at different times, with some
of them missing, and its rules were written one by one while their severities,
confidences and suppressions act together. The history is written by processes
that know nothing of each other. `PROJECT.json` lists these hazards at their
lines.

## 2. Modules

| Module | Models |
|---|---|
| `Monitoring` | the pure part of `controller/monitoring.py` (`rule_matches`, `is_due`, `advance_schedule`, `max_severity`, `build_alert`) and tables as functions from keys to rows |
| `Incidents` | the alert and incident pipeline with its threads, failures and restarts |
| `IncidentsProofs` | theorems about `Incidents` |
| `Schedules` | the schedules table, edits by clients, concurrent passes |
| `SchedulesProofs` | theorems about `Schedules` |
| `MultiVantage` | `select_vantages` and `localize_fault` as operators |
| `Diagnosis` | `diagnose_service` with the pool of `fanout`, agents that fail, and a network whose faults are known to the model |
| `DiagnosisProofs` | theorems about `Diagnosis` |
| `SnmpEngine` | discovery, exchange with retries, `get` and `walk` of `ingest/snmp_engine.py`, over UDP and against a device that restarts |
| `SnmpProofs` | theorems about `SnmpEngine` |
| `JobLifecycle` | what the controller promises of a fan-out job: the abstract specification |
| `Jobs` | `register_agent`, `dispatch_job` and the `jobs` table over request threads, failures and restarts |
| `JobsProofs` | invariants of `Jobs`, and that it implements `JobLifecycle` |
| `Inventory` | topologies, host-to-port bindings and services over request threads |
| `InventoryProofs` | theorems about `Inventory` |
| `RuleEngine` | `analysis/`: the queries, the evidence correlator, the 23 default rules, suppression, order, status and verdict, as operators on a list of results |
| `Probes` | the host, link and path probes as operators on a set of faults: thresholds, status, metrics |
| `Baselines` | the statistics and the comparison of `storage/baselines.py` |
| `HostDiagnosis` | `netforge diagnose host`, `link`, `path` and `all`, probe by probe: composes the three modules above |
| `HostDiagnosisProofs` | theorems about `HostDiagnosis` and `RuleEngine` |
| `History` | the shared history database under several processes |
| `HistoryProofs` | theorems about `History` and `Baselines` |
| `MCIncidents`, `MCSchedules`, `MCDiagnosis`, `MCHistory`, `MCInventory` | constants of the instances |

Definitions whose comment starts with *Mutant* or *Mutation* are not part of the model:
they are wrong versions of the definition that follows, and a run in which they
replace it must fail.

### Incidents

`rules`, `alerts`, `incidents` are the tables. `Workers` are threads inside
`run_due_schedules`; `pc[w]` says which store call the worker makes next, and
`report`, `rules_todo`, `alert`, `incident`, `alert_todo`, `incident_todo` are
the locals it holds between calls. `Operators` are request threads between the
read and the save of `acknowledge_incident` or `resolve_incident`.

Each action is one transaction together with the pure code around it:
`FindAlert` is `find_firing_alert` and, if it found nothing, `build_alert`;
`SaveAlert` is `save_alert`; `FindIncident` and `SaveIncident` are the two halves
of `_attach_to_incident`; `ListAlerts`, `ResolveAlert`, `ListIncidents`,
`ResolveIncident` are `_resolve_service`, with the `ORDER BY ... LIMIT` of the
queries in `Page` and `Newest` (rows of equal time in any order). `ProcessFails`
is an exception caught by `run_due_schedules`, `PassFails` one raised by the
`finally` clause, `Restart` a stop of the process. Fields that no decision
depends on (texts, `updated_at`, `diagnosis_id`, `regression`) are left out;
`alert_ids` is a set, because the code appends only what is not in the list.
The ghost `listed` has the rules that matched the report in hand.
Which schedules are due is any nonempty set here and is settled in `Schedules`.

### Schedules

`schedules` is the table, `batch[w]` the copies a pass took of the due schedules.
`Create` stores what a client posts: a whole row, with any `last_run_at` and
`next_run_at`, whose values need not fit each other or the clock. The ghost `ran`
has the schedules whose row a pass wrote last. `Diagnose` is the `try` block with
its two outcomes, `Advance` the `finally` clause, `AdvanceFails` that clause
raising.

### MultiVantage and Diagnosis

A plan assigns at most one node to each of the roles destination, source and
third, and a targeted probe (ICMP, TCP, DNS, traceroute) returns exactly one
result per agent, so observations are a function from roles. `Decide` follows
`_decide` branch by branch; the branches for *peer* vantages cannot be reached
from `select_vantages`. Confidence is computed in whole percents; where the
exact value lies between two percents both are allowed, since the code rounds a
binary fraction. `Diagnosis` runs a diagnosis against an external network: a
target, an access link per agent, the destination's link shared by all others.

What an agent answers depends on the probe. `TestTcp`, the default, knows
connected and not connected, so that a lossy way gives either; `PingHost` has
three classes, and any of them on a lossy way; `ResolveHostname` asks the agent's
own resolver and `TracerouteToResult` says that hops were seen, so neither tells
of the target. A ping may come from the agent's cache, that is, from any state of
the network on record (`Sensed`). A probe may also prove nothing (`Unmeasured`): a
missing tool gives UNKNOWN, a name that is not resolved makes the TCP test
*failed*, and the ghost `unresolved` has the agents to which that happened.
`worlds` records every state of the network that an answer may tell of, so that
verdicts can be compared with the truth. Diagnoses with an untargeted probe
(`interfaces`, `route`, `gateway`), which say nothing of the target, are left out.

### SnmpEngine

One `SnmpV3Engine` serving one call at a time, as its callers use it: `Send` is
the head of `discover` or `_exchange` up to the first `sendto`, `Discovered`,
`Rejected`, `Got` and `Walked` what follows from a datagram with the id waited
for, `Timeout` the end of an attempt. Message and request ids advance together
in the code from different random starts, so one counter stands for both. The
network keeps every datagram for ever, so any may be lost, late or taken again;
a datagram whose id does not match is dropped by the code without effect and is
simply not taken. The device is external: it answers inside its time window and
sends a Report otherwise, with the request's id or with none. Authentication,
encryption and the encoding are left out, and with them replies that do not
decode, the check of the engine id and the cap of the clock at 2^31 - 1.

### Jobs

`pc[w]` is where a request thread stands in `dispatch_job`: looking agents up
(`get_agent`), waiting for the fan-out (`Answer`, `Refuse`, `Gather`), marking the
agents that answered (`mark_seen`) and saving the job (`save_finished`). A
failing transaction ends the request, a restart ends all of them, and the ghost
`lost` remembers the jobs that ended with their thread. The refinement mapping
is the `jobs` table itself (`L == INSTANCE JobLifecycle WITH record <- jobs`).
`register_agent` writes the whole row, so an agent that registers again loses its
`last_seen_at`.

### Inventory

`topology`, `bindings`, `services` are the tables; a request thread holds the
graph it has read and what it has still to store. A node stands for all of its
identities (id, label, address, MAC tags), a telemetry entry names the set of
nodes it matches; of an edge's tags only the port is kept. The ghost `stale` has
the threads whose copy another request has outdated, the ghost `pinned` the
topology each service was checked against, until that graph is replaced.

### RuleEngine, Probes, Baselines and HostDiagnosis

A result is `[module, target, status, m]`, where `m` has the metrics that rules
read; texts are left out. `Probes` starts with the world (external): which of
route, gateway, WAN, resolver and target work under a set of faults and what a
ping or trace then answers. A gateway may forward and answer no ICMP
(`gateway_mute`). The rest translates each probe with its thresholds and its error
paths: the routing table may be unreadable (`route_unseen`: the command is
missing, fails, times out, or its default route names no next hop) or of an
unknown system (`unknown_os`), and then the result has no gateway although there is
a route. `HostDiagnosis` runs the probes of a command in the code's order, one step
each; the network changes between them, so the gateway probe, which reads the
table again, may see another one or fail on its own; `Ping` has the cache of
`icmp_utils`, which may have expired or not; `compare_probe_metrics` and
`detect_path_change` read and extend the history; `Conclude` is
`RuleEngine.analyze` and the exit code, with and without `--strict`. `ever`
remembers every fault of the run, so that verdicts can be compared with the truth.
`NamedLoopback` says whether the loopback interface has the name that the code
looks for.

### History

One key of the database and the processes that use it. A row carries the time at
which its writer prepared it (`Prepare`) and is committed later
(`save_snapshot`), so rows may arrive out of the order of their times; rows are
kept in the order in which the queries return them. The time is a *place* in that
order: the clock of `time.time()` may repeat a time or step back, so a row may get
any place that no other has, and of two rows with the same time either may come
first, as SQLite is free to return them. `Locked` is the busy timeout. A row has as
ghosts what its writer reported, which row was then before it, and whether it was
then not the newest (`overtaken`).

## 3. Runs

| Run | Checks | Bounds |
|---|---|---|
| `incidents_shared` | `TypeOK`, `IncidentRefs`, `SeverityExact`: two workers and an operator, stale write-backs of every kind | 1 service, 2 rules of different severity, 2 alert and incident ids, 2 unhealthy diagnoses |
| `incidents_quiet` | `UniqueFiring`, `UniqueActive`, `AlertResolvedFinal`, `UnhealthyCovered`, `HealthyClears`: one worker, nobody acknowledges | 2 services, 2 rules, 3 alert ids, clock 0..1, 2 unhealthy diagnoses (one matches one rule only), 1 failure or restart |
| `incidents_live` | `Settles` under fairness: one worker, one operator | `AlertLimit` 1 with two firing alerts, 4 ids each so that no id runs out, 2 unhealthy diagnoses, 1 failure |
| `schedules_loop` | `TypeOK`, `Spaced`, `DueRuns` under fairness: one worker | 2 schedules (short, long and postponed, disabled, posted with a last run in the future and a next run in the past), clock 0..3, 3 edits, an error, a failing write, a restart |
| `diagnosis_network` | `TargetBlamed`, `NoFalseAlarm`, `SingleFaultFound` | 4 nodes, two of them on one of 3 agents, the four probe types, pool of 2, service on node 1 or nowhere, source requested or not, 2 changes of the network, 1 probe that fails or proves nothing |
| `snmp_walk` | `TypeOK`, `ClockBehind`, `WalkPrefix`, `WalkComplete`, `CallEnds` under fairness | column of 2 rows, the first without a value, `max_oids` 1 or 3, 1 retry, window 1, clock 0..2, 1 restart, 1 error, one answer per request, 2 calls |
| `jobs` | `TypeOK`, `OneThread`, `Accounted`, the refinement `Lifecycle`, `JobEnds` under fairness | 2 agents, 2 threads, 2 jobs, 2 failures or restarts |
| `inventory` | `TypeOK`, `GraphIntact`, `FreshBindingsFit`, `OnePort`, `ServicesPinned` | 2 topologies, 2 hosts, 2 switches, 2 ports, 2 threads, 2 imports of 2 valid graphs (a third is rejected), 3 captures (one in which a switch reports itself), 1 failure or restart |
| `host_diagnosis` | `HealthyQuiet`, `SingleFaultNamed`, `OutageNotMissed`, `CriticalExplained`, `SuppressionSound` | every set of up to 2 of 23 faults, outages that come or go up to twice during the run, `diagnose host` and `all`, a name and an address as target, no history and one of five runs |
| `history` | `TypeOK`, `DeviationIsMinority`, `ShiftReported`, `ChangeSeen` | 2 processes, every history of up to 5 rows over 4 sample values (2 paths), 2 more rows, one of them dated before the newest, window 6 |
| `schedules_deleted` (violation) | `OnlyCreated` | |
| `host_partial` (violation) | `CriticalJustified` for `diagnose link` and `path` | a network without faults is enough |

The bounds let every case of the properties happen: two rules on one service so
that incidents group alerts of different severity; two faults so that a fault
returns after it was resolved; one failure placed at every possible call; as
many schedules as an abandoned pass needs to leave one behind; four nodes so
that source and third are chosen and one is left over; two threads, so that one
can be overtaken between its read and its write, and two imports, so that the
overtaken one is lost; two simultaneous faults of a host, because suppression and
ranking are between pairs of issues; five rows, from which a deviation is judged,
and a window that drops the first of seven. Deadlock checking is off because the
pools of ids, the clock and the edits run out, and a diagnosis ends.

**What the runs show.**

*Incidents.* With one pass at a time and nobody acknowledging, the pipeline keeps
its promises across failures and restarts: whatever call an earlier attempt failed
at, a rule that matched has a firing alert which an active incident names
(`UnhealthyCovered`), and a healthy diagnosis clears both. With two passes, or an
operator's write racing the loop, references and severities stay right and the
system still settles, but two promises are lost, as `UniqueFiring` and
`UniqueActive` show in an instance with two workers or with an operator: two passes
that both find no firing alert save one each (`controller/service.py:394`, where
`tests/test_monitoring.py:216-222` expects one), and `acknowledge_incident` writes
back the copy it read before the loop resolved the incident
(`controller/service.py:429`), which is then active again, although it names no
firing alert.

*Schedules.* Two runs that the loop records are an interval apart, whatever clients
post. What `create_schedule` stores itself is not a run: a row that was read,
edited and posted again keeps the `last_run_at` that the client sends, and so
`next_run_at` and `last_run_at` of such a row need not agree. The write-back of
`run_due_schedules` undoes a delete (`schedules_deleted`). If the upsert in its
`finally` clause (`controller/service.py:373`) raises, the rest of the pass is
dropped, although the docstring says that one failing schedule does not stop the
others; `DueRuns` shows that the next pass makes up for it.

*Multi-vantage diagnosis.* The properties are about the probes that go to the
target, ICMP and TCP. A verdict never blames the target's host against its own
agent's word, and a vantage that does not answer is never taken for a failure. What
is down throughout is named when three agents measured. What only loses packets may
go unnoticed, since the TCP test has no degraded state, but is not blamed on the
target or on another vantage. Three things weaken a verdict, and the properties
leave them out or name them: a vantage that could not measure (UNKNOWN) is neither
failed nor degraded and so supports "reachable from all vantage points"
(`analysis/multivantage.py:249`); a TCP test whose target name the agent does not
resolve counts as a failed connection; two nodes bound to one agent are two roles
with one observation.

*SNMP.* A walk is protected by its message ids against late and repeated replies
and ends in every case. `WalkComplete` holds only for walks during which the
device sent no Report: the code does not look at the PDU's type, a Report's OID
lies outside the column, and so a Report with the request's id, which a device
sends to a request dated before its restart, ends the walk as if the column
were complete, although the docstring (`ingest/snmp_engine.py:479`) says that a
caller never mistakes a truncated table for a complete one.

*Jobs.* The table implements the lifecycle, and nothing but the loss of its thread
leaves a job running for ever; no code cleans such a job up.

*Inventory.* Stored graphs stay intact whatever is written back, and bindings
fresh from the graph fit it, unless a switch reports itself. What the code does
not give, and the properties therefore do not claim: an import, or another
augmentation, between the two transactions of `augment_topology` is lost
(`controller/service.py:516`), and services checked against it may then have no
node; a switch that reports itself as a neighbour under an `agent_id` makes every
augmentation fail, because a self-loop is rejected; an edge stored from switch to
host is duplicated rather than refreshed, though the docstring
(`controller/correlation.py:227`) speaks of host<->switch edges; a host that moved
to another switch keeps its old access edge; LLDP and MAC table "corroborate" each
other also when they name different ports (`controller/correlation.py:179`).

*Host diagnosis.* Each of 14 lasting faults is named first by the rule made for
it, suppression never drops the last explanation, and an outage is never missed
while `ping` can be run. A critical issue comes from what it names or from one
misreading (`CriticalExplained`, `MistakenFor`): a routing table that could not be
read counts as one without a default route, and a gateway that sends no ICMP, or
is not found in such a table, counts as one that does not forward. The run shows
that nothing else makes a critical issue, neither two readings of a network that
changes nor a cached ping. The misreadings themselves are wrong reports on a
network without a fault: `CriticalJustified`, which says that the named cause was
there, fails for `diagnose host` with `route_unseen`, `unknown_os` or
`gateway_mute` as the only fault, and for `diagnose link` and `path` without any
fault, because they take the routing result that they do not collect for a missing
default route (`host_partial`).
The conditions in the properties mark what else the code does not do: without
`ping` and `traceroute` most results are UNKNOWN and the verdict may say that all
probes passed; `diagnose all` without a target uses 1.1.1.1, which needs no
resolver. With `NamedLoopback = FALSE` (Linux, where it is called `lo`) the loopback
counts as an active interface and `AllInterfacesDownRule` cannot fire.
`DNSTimeoutRule` cannot fire at all: no message of the resolver contains the word
it looks for.

*History.* A deviation is always against at least half of five or more samples and
a lasting shift is always reported. A process whose row is the newest when it reads
reports a path change exactly when the row before its own differs, also if others
committed rows of earlier times meanwhile. One that was overtaken may compare
with the wrong row: `detect_path_change` takes the second newest
(`diagnostics/path/traceroute.py:292`), which may be its own, and then reports a
changed path as unchanged. The same happens to a process alone when the clock steps
back behind the last row. A median of 0 never leads to a deviation
(`storage/baselines.py:35`), which the properties exclude. A traceroute that fails is
stored like a path, so an interruption gives two changes.

**Fairness.** `Incidents!FairSpec`: a worker that is inside a pass goes on
(Python threads are scheduled; store calls and probes have timeouts); the
loop comes back to every schedule again and again (`_loop` waits
`poll_interval` and calls `tick`, which lets no exception out), stated as strong
fairness of passes that include it because an idle worker may also start passes
without it; an operator's request is saved. `Schedules!FairSpec`: the same,
with weak fairness of the loop's `BeginPass` only: nobody has to call
`POST /v1/monitor/run`. `SnmpEngine!FairSpec`: the calling thread goes on, and
a wait ends because every socket has a timeout that shrinks to the attempt's
deadline; nothing is assumed of device and network. `Jobs!FairSpec`: a request
thread goes on; a probe answers or raises, because the request to the agent has a
timeout. Failures, restarts, ticks, edits, requests and the network have no
fairness.

## 4. Proofs

`tlapm` checks every step with Z3, Zenon and LS4. The theorems hold for any
constants that satisfy the named assumptions of the modules (types of the
constants, `None` being no row): any number of threads, services, rules, ids
and any bounds.

* `SchedulesProofs!TypeCorrect`, for any number of workers. A pass writes back a
  *copy*, so the invariant `IInv` extends to the copies in every batch: a copy is a
  row, and it was due at the pass's `now` (`CopiesDue`). `InStep` says of a row that
  a pass wrote last that its next run is an interval after its last; of a row as a
  client posted it nothing is assumed.
* `SchedulesProofs!SpacedAlways`, with one worker. The invariant adds that a stored
  schedule in `ran` of which the pass holds a copy *is* that copy
  (`CopiesCurrent`): only another pass could write it, and a client's post or
  delete takes it out of `ran`. The copy was due at `now` and, by `InStep`, `now` is
  an interval later.
* `IncidentsProofs!TypeCorrect`, `IncidentRefsAlways`, `SeverityExactAlways`, for
  any number of workers and operators. The invariant extends both properties
  from the table to every copy a thread holds (`IncidentCopies`,
  `AlertCopies`: an alert in a thread agrees with the saved one on service and
  severity, which never change), because any copy may be written back later.
* `IncidentsProofs!UniqueFiringAlways`, `AlertResolvedFinalAlways`, with one
  worker. The invariant adds that at `save_alert` the alert in hand is the only
  firing one of its rule and service, or that there is none (`FiringChecked`):
  the fact that `find_firing_alert` established and that only another worker
  could destroy. This is where the proof needs the assumption.
* `IncidentsProofs!UniqueActiveAlways`, with one worker and no operator (an
  operator breaks it, see section 3). The invariant `ActiveChecked` says the same
  of the incident that `_attach_to_incident` holds between its two calls.
* `IncidentsProofs!UnhealthyCoveredAlways`, under the same hypotheses. The alert in
  hand is a firing one of the report's service, saved before its incident is looked
  for, and the incident about to be saved names it and every alert of the row it
  replaces (`InHand`); so no save uncovers a rule that was covered before.
* `IncidentsProofs!HealthyClearsAlways`, under the same hypotheses. What is still
  firing or active is on the worker's lists (`Listed`), provided that the queries
  return all of it: not more rules than `list_alerts` returns alerts (`FewRules`;
  with `UniqueFiring`, a rule has one firing alert) and, in every state, not more
  incidents of a service than `list_incidents` returns (`FewIncidents`). `Settles`
  shows that the next healthy diagnosis clears what a limit cut off.
* `DiagnosisProofs!TargetBlamedAlways`, `NoFalseAlarmAlways`,
  `SingleFaultFoundAlways`, for any graph, inventory and pool. The invariant says
  that a plan's roles are distinct nodes with agents (`PlanInv`), that the recorded
  worlds include the present one (`WorldInv`), that every answer is what its agent
  saw in one of them (`AnswerInv`) and that the report was computed from those
  answers (`ReportInv`). An answer that tells of no world is UNKNOWN or a TCP test
  that was not begun. `DecideShared` and `DecideOne` evaluate the decision tree. The
  three theorems assume nothing of the registration: nodes may share agents.
* `SnmpProofs!TypeCorrect`, `ClockBehindAlways`, for any retries, window and number
  of calls. A late reply may still be taken, so `ClockInv` extends the property from
  the engine to every reply in the network.
* `SnmpProofs!WalkPrefixAlways`, `WalkCompleteAlways`. The invariant counts the ids
  a call can use (`IdsCounted`), so that a request's id is never given out
  again (`IdsUnique`), and says that the walk stands at the last row that it has
  (`WalkInv`). Both assume that ids do not come round during the life of the
  engine (`EnoughIds`: calls times the requests of one are below `IdSpace`, 2^31 - 1
  in the code, which nothing enforces).
* `HistoryProofs!TypeCorrect`, `ChangeSeenAlways`, for any number of processes and any
  clock. Rows stay sorted by their time although they are committed out of order
  (`InsertShape`, `InsertSorted`), and a committed row keeps its value
  (`PlaceKept`). If the writer's row is the newest, the second newest is the row
  before it (`OwnNewest`); that row stays in the table (`BeforeInv`), so no later
  commit, not even one between the two, falsifies what was reported.
* `HistoryProofs!DeviationIsMinorityAlways`, `ShiftReportedAlways`, for any samples,
  window and number of processes. `Baselines` states an order statistic by its rank,
  not by sorting, so no induction is needed: `Counting`, `Rank`, `Medians` and
  `Percentile` say how many samples lie on either side of it, `Minority` and
  `Majority` what follows for the verdict, and `VerdictInv` that a verdict was
  computed from the window the process read.
* `HostDiagnosisProofs!SuppressionSoundAlways`, for every command, target and set
  of faults, however often the network changes. `RawSound` says of any list of
  results where an issue comes from (`Origin`: its rule, what that rule has seen
  and what it suppresses); `ActiveRange`, that the stable sort keeps exactly the
  issues that none suppresses; `Explained`, that chains of suppression have length
  two and their head covers what the middle dropped. For that it must be known that
  no DNS result says *timeout*, so the invariant `HostInv` is needed here as well.
* `HostDiagnosisProofs!CriticalExplainedAlways`, for `diagnose host` and `all`
  (the other two report a missing route that nothing explains, see section 3).
  `HostInv` says that every result, and every *cached* ping, is supported by the
  faults there have been so far (`Evidence`, `Supported`), which only grow;
  `RouteInv`, that the routing table is read before the report is made. One lemma
  per probe and one per query of the critical rules connect the two.
* `HostDiagnosisProofs!OutageNotMissedAlways`, for every command, target and set of
  faults under which ping runs. This is the converse of the evidence above, while
  the network stays as it is: `SteadyInv` says that the results an outage is told by
  are *exact* (`Exact`: routes, the gateway, connections and losses, a cached ping
  included) and that none of them is left out (`Complete`: each of these probes is
  still to come or has answered). `OutageReported` splits on what the rules see: no
  interface, no gateway, a gateway that does not answer, nothing beyond it, or the
  target alone. In each case one rule reports an issue that is severe enough
  (`RawHas`, `AlarmIssue`) and, by `Origin`, nobody suppresses it (`NotDropped`).
  `diagnose link` and `path` have no routing result, so for them the argument ends
  at *no gateway*: they report **every** outage as a missing default gateway, which is
  the other side of the violation in section 3.

`HostInv`, `RouteInv` and `SteadyInv` were checked with TLC on the instance of
`HostDiagnosis.cfg` before they were proved.

* `JobsProofs!TypeCorrect`, `OneThreadAlways`, `AccountedAlways`,
  `LifecycleImplemented`, for any number of agents, threads and jobs. The three
  invariants are inductive together: a job has one thread, so nobody else writes
  its row, and that row is *running* with the agents that were asked until the
  thread has accounted for each of them. `LifecycleStep` maps `save_running` to
  `Create`, `save_finished` to `Finish` and every other action to a stutter.
* `InventoryProofs!TypeCorrect`, `GraphIntactAlways`, `FreshBindingsFitAlways`,
  `OnePortAlways`, `ServicesPinnedAlways`, for any graphs, telemetry, inventories
  and threads. Copies are written back here too, so `GraphsValid` and `PortsFit`
  speak of the copies in the threads as well as of the tables; `GraphStep` says
  once where a stored graph or a copy may come from. `NodesKept` says that a copy
  nobody outdated has every node of the stored graph: saving it takes no service's
  node away. The lemmas before it are about the pure operators: correlating gives
  one port per host and switch, for hosts of the graph only; augmenting keeps
  nodes, validity and unique ports. `OnePortAlways` assumes that imported
  documents name one port for a host on a switch, which the code does not check.

That `SelectSeq` returns a sequence is taken from the SMT backend's encoding of
`Len` and `DOMAIN` (`ByModule`, `Compared`): its definition is recursive.

**Only model-checked.** `Settles`, `DueRuns`, `CallEnds`, `JobEnds` (liveness is out of
the prover's reach); the two violations, which are counterexamples;
`HealthyQuiet` and `SingleFaultNamed`, which say what the whole table of rules
computes for given faults: averages over all results are folds over `SelectSeq`, which
need induction, and a ranking of all issues is a computation for each fault rather
than an argument.

## 5. Not modelled

* `MonitorScheduler.start` and `stop`: called once per process; no code restarts a
  scheduler.
* Counter deltas and LLDP parsing of `ingest/`: pure functions that only tests
  call in this version. Authentication, encryption, BER, AES, sFlow and IPFIX
  decoding: published test vectors serve better than a model.
* The agent's token and target checks, HTTP routing, bearer tokens and JSON: two
  comparisons and I/O, without state.
* The mesh, flow and traffic commands: one loop each whose results are printed and
  reach no rule.
* How tools are run and their output is parsed: `Probes` has what the parsers make
  of it. Rendering, recommendations and evidence texts.

## 6. What would come next

1. `Diagnosis` feeding `Incidents`: a real outage, seen with evidence of a given
   quality, raises an alert under the default rule.
2. What a Report does to `get` and `walk` as a run of its own, and counter deltas
   with their widths once a command polls counters.
