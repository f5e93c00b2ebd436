------------------------------- MODULE Jobs -------------------------------
(***************************************************************************)
(* Fan-out jobs (ControllerService.dispatch_job): request threads look the *)
(* agents up, save the job as running, probe the agents in parallel, mark  *)
(* the ones that answered and save the job again.  Every store call is a   *)
(* transaction of its own and may fail; the controller may be restarted    *)
(* between any two.                                                        *)
(***************************************************************************)
EXTENDS Integers, FiniteSets

CONSTANTS
    AgentIds,           \* agents that may register
    Threads,            \* request threads of the HTTP server
    JobIds,             \* bound: uuid4 values that are drawn
    NoJob,              \* a thread without a job
    MaxFailures         \* bound: failing transactions and restarts

ASSUME NoJobAssumption == NoJob \notin JobIds
ASSUME MaxFailuresAssumption == MaxFailures \in Nat

VARIABLES
    agents,             \* table agents: the registered agents
    seen,               \* those whose last_seen_at is set
    jobs,               \* table jobs, Absent for an id without a row
    pc,                 \* where each request thread is
    asked,              \* the request's agent_ids, without repetitions
    unchecked,          \* agent_ids that are still to be looked up
    job,                \* the thread's job_id
    answered,           \* observations of the fan-out
    errors,             \* errors of the fan-out
    unmarked,           \* observed agents that are still to be marked
    failures,           \* failing transactions and restarts so far
    lost                \* ghost: jobs whose thread was stopped

vars == <<agents, seen, jobs, pc, asked, unchecked, job, answered, errors, unmarked,
          failures, lost>>

L == INSTANCE JobLifecycle WITH record <- jobs

Init ==
    /\ agents = {}
    /\ seen = {}
    /\ jobs = [j \in JobIds |-> L!Absent]
    /\ pc = [w \in Threads |-> "idle"]
    /\ asked = [w \in Threads |-> {}]
    /\ unchecked = [w \in Threads |-> {}]
    /\ job = [w \in Threads |-> NoJob]
    /\ answered = [w \in Threads |-> {}]
    /\ errors = [w \in Threads |-> {}]
    /\ unmarked = [w \in Threads |-> {}]
    /\ failures = 0
    /\ lost = {}

\* register_agent writes the whole row: a known agent loses its last_seen_at.
register_agent(a) ==
    /\ agents' = agents \cup {a}
    /\ seen' = seen \ {a}
    /\ UNCHANGED <<jobs, pc, asked, unchecked, job, answered, errors, unmarked, failures, lost>>

\* The locals of a call are gone when it returns or raises.
Forget(w) ==
    /\ asked' = [asked EXCEPT ![w] = {}]
    /\ unchecked' = [unchecked EXCEPT ![w] = {}]
    /\ job' = [job EXCEPT ![w] = NoJob]
    /\ answered' = [answered EXCEPT ![w] = {}]
    /\ errors' = [errors EXCEPT ![w] = {}]
    /\ unmarked' = [unmarked EXCEPT ![w] = {}]
    /\ pc' = [pc EXCEPT ![w] = "idle"]

Receive(w, S) ==
    /\ pc[w] = "idle"
    /\ pc' = [pc EXCEPT ![w] = "check"]
    /\ asked' = [asked EXCEPT ![w] = S]
    /\ unchecked' = [unchecked EXCEPT ![w] = S]
    /\ UNCHANGED <<agents, seen, jobs, job, answered, errors, unmarked, failures, lost>>

\* get_agent for each id in turn; an unknown one ends the request.
get_agent(w, a) ==
    /\ pc[w] = "check" /\ a \in unchecked[w]
    /\ \/ /\ a \in agents
          /\ unchecked' = [unchecked EXCEPT ![w] = @ \ {a}]
          /\ UNCHANGED <<pc, asked, job, answered, errors, unmarked>>
       \/ a \notin agents /\ Forget(w)
    /\ UNCHANGED <<agents, seen, jobs, failures, lost>>

\* Mutant: an id that another thread has drawn but not finished with.
FreshAny(j) == jobs[j].status \in {"absent", "running"}

Fresh(j) == jobs[j] = L!Absent /\ \A w \in Threads : job[w] # j

save_running(w, j) ==
    /\ pc[w] = "check" /\ unchecked[w] = {} /\ Fresh(j)
    /\ jobs' = [jobs EXCEPT ![j] = [status |-> "running", agents |-> asked[w],
                                    answered |-> {}, failed |-> {}]]
    /\ job' = [job EXCEPT ![w] = j]
    /\ pc' = [pc EXCEPT ![w] = "fanout"]
    /\ UNCHANGED <<agents, seen, asked, unchecked, answered, errors, unmarked, failures, lost>>

\* fanout: every agent answers, or its probe raises within the timeout.
Pending(w) == IF pc[w] = "fanout" THEN asked[w] \ (answered[w] \cup errors[w]) ELSE {}

Answer(w, a) ==
    /\ a \in Pending(w)
    /\ answered' = [answered EXCEPT ![w] = @ \cup {a}]
    /\ UNCHANGED <<agents, seen, jobs, pc, asked, unchecked, job, errors, unmarked, failures, lost>>

Refuse(w, a) ==
    /\ a \in Pending(w)
    /\ errors' = [errors EXCEPT ![w] = @ \cup {a}]
    /\ UNCHANGED <<agents, seen, jobs, pc, asked, unchecked, job, answered, unmarked, failures, lost>>

\* Mutant: the first answer is enough.
GatherEarly(w) ==
    /\ pc[w] = "fanout" /\ answered[w] # {}
    /\ unmarked' = [unmarked EXCEPT ![w] = answered[w]]
    /\ pc' = [pc EXCEPT ![w] = "mark"]
    /\ UNCHANGED <<agents, seen, jobs, asked, unchecked, job, answered, errors, failures, lost>>

Gather(w) ==
    /\ pc[w] = "fanout" /\ Pending(w) = {}
    /\ unmarked' = [unmarked EXCEPT ![w] = answered[w]]
    /\ pc' = [pc EXCEPT ![w] = "mark"]
    /\ UNCHANGED <<agents, seen, jobs, asked, unchecked, job, answered, errors, failures, lost>>

mark_seen(w, a) ==
    /\ pc[w] = "mark" /\ a \in unmarked[w]
    /\ seen' = seen \cup ({a} \cap agents)
    /\ unmarked' = [unmarked EXCEPT ![w] = @ \ {a}]
    /\ UNCHANGED <<agents, jobs, pc, asked, unchecked, job, answered, errors, failures, lost>>

\* Mutants: a status that no reader knows; an answer outweighs the errors.
FinalStatusError(w) ==
    IF errors[w] = {} THEN "completed" ELSE IF answered[w] # {} THEN "partial" ELSE "error"
FinalStatusAnswered(w) ==
    IF answered[w] # {} THEN "completed" ELSE "failed"

FinalStatus(w) ==
    IF errors[w] = {} THEN "completed" ELSE IF answered[w] # {} THEN "partial" ELSE "failed"

\* Mutant: a fan-out without an answer returns early.
save_finishedAnswered(w) ==
    /\ pc[w] = "mark" /\ unmarked[w] = {} /\ answered[w] # {}
    /\ jobs' = [jobs EXCEPT ![job[w]] = [status |-> FinalStatus(w), agents |-> asked[w],
                                         answered |-> answered[w], failed |-> errors[w]]]
    /\ Forget(w)
    /\ UNCHANGED <<agents, seen, failures, lost>>

save_finished(w) ==
    /\ pc[w] = "mark" /\ unmarked[w] = {}
    /\ jobs' = [jobs EXCEPT ![job[w]] = [status |-> FinalStatus(w), agents |-> asked[w],
                                         answered |-> answered[w], failed |-> errors[w]]]
    /\ Forget(w)
    /\ UNCHANGED <<agents, seen, failures, lost>>

\* A transaction raises (the lock stays busy): the request ends in an error.
StoreFails(w) ==
    /\ pc[w] \in {"check", "mark"} /\ failures < MaxFailures
    /\ failures' = failures + 1
    /\ lost' = lost \cup ({job[w]} \ {NoJob})
    /\ Forget(w)
    /\ UNCHANGED <<agents, seen, jobs>>

\* The process stops and starts again: threads are gone, the tables stay.
Restart ==
    /\ failures < MaxFailures
    /\ failures' = failures + 1
    /\ lost' = lost \cup ({job[w] : w \in Threads} \ {NoJob})
    /\ pc' = [w \in Threads |-> "idle"]
    /\ asked' = [w \in Threads |-> {}]
    /\ unchecked' = [w \in Threads |-> {}]
    /\ job' = [w \in Threads |-> NoJob]
    /\ answered' = [w \in Threads |-> {}]
    /\ errors' = [w \in Threads |-> {}]
    /\ unmarked' = [w \in Threads |-> {}]
    /\ UNCHANGED <<agents, seen, jobs>>

\* What a thread does once it has the request.
Step(w) ==
    \/ \E a \in AgentIds : get_agent(w, a) \/ Answer(w, a) \/ Refuse(w, a) \/ mark_seen(w, a)
    \/ \E j \in JobIds : save_running(w, j)
    \/ Gather(w)
    \/ save_finished(w)

Next ==
    \/ \E a \in AgentIds : register_agent(a)
    \/ \E w \in Threads :
          \/ \E S \in SUBSET AgentIds : S # {} /\ Receive(w, S)
          \/ Step(w)
          \/ StoreFails(w)
    \/ Restart

Spec == Init /\ [][Next]_vars

\* A thread runs on; an agent's probe answers or raises (the request timeout).
Fairness == \A w \in Threads : WF_vars(Step(w))

FairSpec == Spec /\ Fairness

-----------------------------------------------------------------------------
(* Properties                                                              *)

\* The tables and the locals stay well typed: a job has one of the statuses that
\* readers know, and only a registered agent has been seen (dispatch_job).
TypeOK ==
    /\ agents \subseteq AgentIds
    /\ seen \subseteq agents
    /\ jobs \in [JobIds -> [status : {"absent", "running", "completed", "partial", "failed"},
                            agents : SUBSET AgentIds, answered : SUBSET AgentIds,
                            failed : SUBSET AgentIds]]
    /\ pc \in [Threads -> {"idle", "check", "fanout", "mark"}]
    /\ asked \in [Threads -> SUBSET AgentIds]
    /\ unchecked \in [Threads -> SUBSET AgentIds]
    /\ job \in [Threads -> JobIds \cup {NoJob}]
    /\ answered \in [Threads -> SUBSET AgentIds]
    /\ errors \in [Threads -> SUBSET AgentIds]
    /\ unmarked \in [Threads -> SUBSET AgentIds]
    /\ failures \in 0 .. MaxFailures
    /\ lost \subseteq JobIds

\* The jobs table, with restarts and failing writes between any two steps and
\* several requests at once, behaves as JobLifecycle says.
Lifecycle == L!LSpec

\* Every job that a thread still works on is running in the table and has one
\* thread; a row that says running and has no thread was lost with it.
OneThread ==
    \A j \in JobIds :
        /\ jobs[j].status = "running" <=> j \in lost \/ \E w \in Threads : job[w] = j
        /\ \A v, w \in Threads : job[v] = j /\ job[w] = j => v = w
        /\ j \in lost => \A w \in Threads : job[w] # j

\* During a request every agent is pending, has answered or has failed, and
\* never two of these; the job is judged when none is pending, and its row
\* names just the agents that were asked (dispatch_job, fanout).
Accounted ==
    \A w \in Threads :
        /\ pc[w] \in {"fanout", "mark"} <=> job[w] # NoJob
        /\ pc[w] = "idle" \/ asked[w] # {}
        /\ answered[w] \cap errors[w] = {}
        /\ answered[w] \cup errors[w] \subseteq asked[w]
        /\ pc[w] \in {"idle", "check"} => answered[w] = {} /\ errors[w] = {}
        /\ pc[w] = "mark" => asked[w] = answered[w] \cup errors[w]
        /\ job[w] # NoJob => jobs[job[w]] = L!Running(asked[w])

\* A job ends, unless its thread was stopped by a failing write or a restart:
\* no agent that does not answer keeps it running (AgentDispatcher.fanout).
JobEnds ==
    \A j \in JobIds : jobs[j].status = "running" ~> jobs[j].status # "running" \/ j \in lost

=============================================================================
