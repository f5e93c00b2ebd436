--------------------------- MODULE JobLifecycle ---------------------------
(***************************************************************************)
(* What the controller promises of fan-out jobs: a job is created once, as *)
(* running; it ends at most once, and then accounts for every agent it was *)
(* sent to, each with an answer or with an error, and its status is the    *)
(* one those two give; a job that ended never changes again.               *)
(***************************************************************************)
CONSTANTS
    JobIds,
    AgentIds

VARIABLE
    record              \* what GET /v1/jobs/<id> answers, for every id

Absent == [status |-> "absent", agents |-> {}, answered |-> {}, failed |-> {}]

Running(S) == [status |-> "running", agents |-> S, answered |-> {}, failed |-> {}]

Outcome(S, answered) ==
    [status |-> IF answered = S THEN "completed" ELSE IF answered = {} THEN "failed" ELSE "partial",
     agents |-> S, answered |-> answered, failed |-> S \ answered]

LInit == record = [j \in JobIds |-> Absent]

Create(j, S) ==
    /\ record[j] = Absent
    /\ record' = [record EXCEPT ![j] = Running(S)]

Finish(j, answered) ==
    /\ record[j].status = "running"
    /\ record' = [record EXCEPT ![j] = Outcome(record[j].agents, answered)]

LNext ==
    \E j \in JobIds :
        \/ \E S \in SUBSET AgentIds : S # {} /\ Create(j, S)
        \/ \E answered \in SUBSET record[j].agents : Finish(j, answered)

LSpec == LInit /\ [][LNext]_record

=============================================================================
