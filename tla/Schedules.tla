------------------------------ MODULE Schedules ------------------------------
(***************************************************************************)
(* The schedules table and the passes over it: create_schedule,             *)
(* delete_schedule and run_due_schedules of controller/service.py.          *)
(*                                                                         *)
(* A pass reads all schedules in one query, keeps copies of the due ones,   *)
(* and diagnoses them one after another.  A diagnosis takes seconds, so the *)
(* API and other passes run between the query and the moment the pass       *)
(* writes the advanced copy back.  Loop is the thread of MonitorScheduler;  *)
(* the other workers are request threads serving POST /v1/monitor/run.      *)
(***************************************************************************)
EXTENDS Monitoring, FiniteSets

CONSTANTS
    ScheduleIds,
    Choices,        \* the schedules a client may post, with any last run
    Workers,        \* threads that may be inside run_due_schedules
    Loop,           \* the worker of the monitoring loop
    MaxClock,       \* bound: how far time.time() advances
    MaxErrors,      \* bound: diagnoses that raise
    MaxFailures,    \* bound: writes that raise
    MaxRestarts,    \* bound: stops of the process
    MaxEdits        \* bound: schedules posted or deleted

ScheduleRow == [enabled : BOOLEAN, interval : Nat \ {0},
                next_run_at : Nat \cup {None}, last_run_at : Nat \cup {None},
                consecutive_failures : Nat]

ASSUME SchedulesAssumption ==
    /\ Loop \in Workers
    /\ Choices \subseteq ScheduleRow
    /\ MaxClock \in Nat /\ MaxErrors \in Nat
    /\ MaxFailures \in Nat /\ MaxRestarts \in Nat /\ MaxEdits \in Nat

VARIABLES
    schedules,      \* table schedules, by schedule_id
    clock,          \* time.time()
    errors,         \* diagnoses that raised so far
    failures,       \* writes that raised so far
    restarts,       \* stops of the process so far
    edits,          \* schedules posted or deleted so far
    ran,            \* ghost: schedules whose row a pass wrote last
    pc,             \* where each worker is
    now,            \* the time its pass started
    batch,          \* copies of the due schedules it has still to advance
    current,        \* the schedule it is diagnosing
    error           \* whether that diagnosis raised

bounds == <<errors, failures, restarts, edits>>
locals == <<pc, now, batch, current, error>>
vars == <<schedules, clock, bounds, ran, locals>>

Init ==
    /\ schedules = NoRows
    /\ clock = 0 /\ errors = 0 /\ failures = 0
    /\ restarts = 0 /\ edits = 0
    /\ ran = {}
    /\ pc = [w \in Workers |-> "idle"]
    /\ now = [w \in Workers |-> 0]
    /\ batch = [w \in Workers |-> NoRows]
    /\ current = [w \in Workers |-> None]
    /\ error = [w \in Workers |-> FALSE]

Tick ==
    /\ clock < MaxClock
    /\ clock' = clock + 1
    /\ UNCHANGED <<schedules, bounds, ran, locals>>

-----------------------------------------------------------------------------
(* The API.                                                                 *)

\* create_schedule: posting a known schedule_id replaces the schedule, and a
\* posted next_run_at and last_run_at are stored as they come.
Create(id, choice) ==
    /\ edits < MaxEdits
    /\ edits' = edits + 1
    /\ schedules' = Put(schedules, id,
            [choice EXCEPT !.next_run_at = IF @ = None THEN clock ELSE @])
    /\ ran' = ran \ {id}
    /\ UNCHANGED <<clock, errors, failures, restarts, locals>>

Delete(id) ==
    /\ edits < MaxEdits
    /\ edits' = edits + 1
    /\ schedules' = Remove(schedules, id)
    /\ ran' = ran \ {id}
    /\ UNCHANGED <<clock, errors, failures, restarts, locals>>

-----------------------------------------------------------------------------
(* run_due_schedules.                                                       *)

DueIds(t) == {id \in DOMAIN schedules : IsDue(schedules[id], t)}

\* `now`, list_schedules and is_due of every copy.
BeginPass(w) ==
    /\ pc[w] = "idle"
    /\ pc' = [pc EXCEPT ![w] = "pass"]
    /\ now' = [now EXCEPT ![w] = clock]
    /\ batch' = [batch EXCEPT ![w] = [id \in DueIds(clock) |-> schedules[id]]]
    /\ UNCHANGED <<schedules, clock, bounds, ran, current, error>>

\* Mutation: any schedule is diagnosed, due or not.
DiagnoseAny(w, id) ==
    /\ pc[w] = "pass"
    /\ pc' = [pc EXCEPT ![w] = "advance"]
    /\ current' = [current EXCEPT ![w] = id]
    /\ \/ UNCHANGED <<error, errors>>
       \/ /\ errors < MaxErrors
          /\ errors' = errors + 1
          /\ error' = [error EXCEPT ![w] = TRUE]
    /\ UNCHANGED <<schedules, clock, failures, restarts, edits, ran, now, batch>>

\* diagnose_service and process_diagnosis, which may raise.
Diagnose(w, id) ==
    /\ pc[w] = "pass"
    /\ id \in DOMAIN batch[w]
    /\ pc' = [pc EXCEPT ![w] = "advance"]
    /\ current' = [current EXCEPT ![w] = id]
    /\ \/ UNCHANGED <<error, errors>>
       \/ /\ errors < MaxErrors
          /\ errors' = errors + 1
          /\ error' = [error EXCEPT ![w] = TRUE]
    /\ UNCHANGED <<schedules, clock, failures, restarts, edits, ran, now, batch>>

\* The finally clause: the copy, advanced, replaces the row.
Advance(w) ==
    /\ pc[w] = "advance"
    /\ schedules' = Put(schedules, current[w],
            AdvanceSchedule(batch[w][current[w]], now[w], error[w]))
    /\ batch' = [batch EXCEPT ![w] = Remove(@, current[w])]
    /\ pc' = [pc EXCEPT ![w] = "pass"]
    /\ current' = [current EXCEPT ![w] = None]
    /\ error' = [error EXCEPT ![w] = FALSE]
    /\ ran' = ran \cup {current[w]}
    /\ UNCHANGED <<clock, bounds, now>>

EndPass(w) ==
    /\ pc[w] = "pass"
    /\ DOMAIN batch[w] = {}
    /\ pc' = [pc EXCEPT ![w] = "idle"]
    /\ UNCHANGED <<schedules, clock, bounds, ran, now, batch, current, error>>

\* Mutation: tick lets the exception through and the thread dies.
AdvanceFailsKills(w) ==
    /\ pc[w] = "advance"
    /\ failures < MaxFailures
    /\ failures' = failures + 1
    /\ batch' = [batch EXCEPT ![w] = NoRows]
    /\ pc' = [pc EXCEPT ![w] = "dead"]
    /\ current' = [current EXCEPT ![w] = None]
    /\ error' = [error EXCEPT ![w] = FALSE]
    /\ UNCHANGED <<schedules, clock, errors, restarts, edits, ran, now>>

\* upsert_schedule raises inside the finally clause: the exception leaves
\* run_due_schedules, to tick or to the request handler.
AdvanceFails(w) ==
    /\ pc[w] = "advance"
    /\ failures < MaxFailures
    /\ failures' = failures + 1
    /\ batch' = [batch EXCEPT ![w] = NoRows]
    /\ pc' = [pc EXCEPT ![w] = "idle"]
    /\ current' = [current EXCEPT ![w] = None]
    /\ error' = [error EXCEPT ![w] = FALSE]
    /\ UNCHANGED <<schedules, clock, errors, restarts, edits, ran, now>>

\* The controller process stops and is started again on the same database.
Restart ==
    /\ restarts < MaxRestarts
    /\ restarts' = restarts + 1
    /\ pc' = [w \in Workers |-> "idle"]
    /\ batch' = [w \in Workers |-> NoRows]
    /\ current' = [w \in Workers |-> None]
    /\ error' = [w \in Workers |-> FALSE]
    /\ UNCHANGED <<schedules, clock, errors, failures, edits, ran, now>>

-----------------------------------------------------------------------------
Step(w) ==
    \/ \E id \in ScheduleIds : Diagnose(w, id)
    \/ Advance(w)
    \/ EndPass(w)

Next ==
    \/ Tick
    \/ \E id \in ScheduleIds, c \in Choices : Create(id, c)
    \/ \E id \in DOMAIN schedules : Delete(id)
    \/ \E w \in Workers : BeginPass(w) \/ Step(w) \/ AdvanceFails(w)
    \/ Restart

Spec == Init /\ [][Next]_vars

\* A thread goes on with the pass it is in, and the loop starts another one
\* after every wait; nobody has to call POST /v1/monitor/run.
Fairness ==
    /\ \A w \in Workers : WF_vars(Step(w))
    /\ WF_vars(BeginPass(Loop))

FairSpec == Spec /\ Fairness

-----------------------------------------------------------------------------
\* Rows and locals stay well typed, and a pass that advances a schedule holds a
\* copy of it (run_due_schedules).
TypeOK ==
    /\ DOMAIN schedules \subseteq ScheduleIds
    /\ \A id \in DOMAIN schedules : schedules[id] \in ScheduleRow
    /\ clock \in Nat /\ errors \in Nat /\ failures \in Nat
    /\ restarts \in Nat /\ edits \in Nat
    /\ ran \subseteq DOMAIN schedules
    /\ pc \in [Workers -> {"idle", "pass", "advance"}]
    /\ now \in [Workers -> Nat]
    /\ DOMAIN batch = Workers
    /\ \A w \in Workers : /\ DOMAIN batch[w] \subseteq ScheduleIds
                          /\ \A id \in DOMAIN batch[w] :
                                batch[w][id] \in ScheduleRow
                          /\ pc[w] = "advance" => current[w] \in DOMAIN batch[w]
    /\ current \in [Workers -> ScheduleIds \cup {None}]
    /\ error \in [Workers -> BOOLEAN]

\* Two runs that run_due_schedules records are at least the schedule's interval
\* apart, across failing diagnoses and writes, restarts, and edits made while
\* the pass holds its copy: the row a pass wrote is only overwritten by a pass
\* that found it due.  Holds for one worker; a client's post starts afresh.
Spaced ==
    [][\A id \in ran \cap ran' :
          schedules'[id].last_run_at # schedules[id].last_run_at
          => schedules'[id].last_run_at >=
                schedules[id].last_run_at + schedules[id].interval]_vars

\* A schedule enters the table through create_schedule and in no other way.
OnlyCreated ==
    [][\A id \in DOMAIN schedules' \ DOMAIN schedules : edits' # edits]_vars

\* What is due at time t is, in the end, not due at t any more: it ran, or a
\* client deleted, disabled or postponed it.  Failing diagnoses, failing
\* writes and restarts only delay it.
DueRuns ==
    \A id \in ScheduleIds, t \in 0 .. MaxClock :
        (clock = t /\ id \in DueIds(t)) ~> (id \notin DueIds(t))
=============================================================================
