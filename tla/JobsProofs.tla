---------------------------- MODULE JobsProofs ----------------------------
(***************************************************************************)
(* Jobs keeps its invariants and implements JobLifecycle, for any number   *)
(* of agents, request threads, jobs, failing writes and restarts.          *)
(***************************************************************************)
EXTENDS Jobs, TLAPS

\* The three invariants are inductive together: OneThread keeps a thread's row
\* out of the reach of the others, and Accounted says what is in it.
IInv == TypeOK /\ OneThread /\ Accounted

\* One disjunct per action, as the step proofs take them.
LEMMA NextCases ==
    ASSUME Next
    PROVE  \/ \E a \in AgentIds : register_agent(a)
           \/ \E w \in Threads : \E S \in SUBSET AgentIds : S # {} /\ Receive(w, S)
           \/ \E w \in Threads : \E a \in AgentIds : get_agent(w, a)
           \/ \E w \in Threads : \E j \in JobIds : save_running(w, j)
           \/ \E w \in Threads : \E a \in AgentIds : Answer(w, a)
           \/ \E w \in Threads : \E a \in AgentIds : Refuse(w, a)
           \/ \E w \in Threads : Gather(w)
           \/ \E w \in Threads : \E a \in AgentIds : mark_seen(w, a)
           \/ \E w \in Threads : save_finished(w)
           \/ \E w \in Threads : StoreFails(w)
           \/ Restart
  BY DEF Next, Step

\* In the first state no thread has a job and no job has a row.
LEMMA InitIInv == Init => IInv
  <1> SUFFICES ASSUME Init PROVE IInv
    OBVIOUS
  <1>1. TypeOK
    BY MaxFailuresAssumption DEF Init, TypeOK, L!Absent
  <1>2. OneThread
    BY NoJobAssumption DEF Init, OneThread, L!Absent
  <1>3. Accounted
    BY DEF Init, Accounted
  <1> QED
    BY <1>1, <1>2, <1>3 DEF IInv

\* Every step of a thread, every failure and every restart keeps the types.
LEMMA TypeStep == IInv /\ [Next]_vars => TypeOK'
  <1> SUFFICES ASSUME IInv, [Next]_vars PROVE TypeOK'
    OBVIOUS
  <1> USE DEF IInv, TypeOK
  <1>1. ASSUME NEW a \in AgentIds, register_agent(a) PROVE TypeOK'
    BY <1>1 DEF register_agent
  <1>2. ASSUME NEW w \in Threads, NEW S \in SUBSET AgentIds, Receive(w, S) PROVE TypeOK'
    BY <1>2 DEF Receive
  <1>3. ASSUME NEW w \in Threads, NEW a \in AgentIds, get_agent(w, a) PROVE TypeOK'
    BY <1>3 DEF get_agent, Forget
  <1>4. ASSUME NEW w \in Threads, NEW j \in JobIds, save_running(w, j) PROVE TypeOK'
    <2>1. asked[w] \in SUBSET AgentIds
      OBVIOUS
    <2>2. [status |-> "running", agents |-> asked[w], answered |-> {}, failed |-> {}]
            \in [status : {"absent", "running", "completed", "partial", "failed"},
                 agents : SUBSET AgentIds, answered : SUBSET AgentIds,
                 failed : SUBSET AgentIds]
      BY <2>1
    <2> QED
      BY <1>4, <2>2 DEF save_running
  <1>5. ASSUME NEW w \in Threads, NEW a \in AgentIds, Answer(w, a) PROVE TypeOK'
    BY <1>5 DEF Answer
  <1>6. ASSUME NEW w \in Threads, NEW a \in AgentIds, Refuse(w, a) PROVE TypeOK'
    BY <1>6 DEF Refuse
  <1>7. ASSUME NEW w \in Threads, Gather(w) PROVE TypeOK'
    BY <1>7 DEF Gather
  <1>8. ASSUME NEW w \in Threads, NEW a \in AgentIds, mark_seen(w, a) PROVE TypeOK'
    BY <1>8 DEF mark_seen
  <1>9. ASSUME NEW w \in Threads, save_finished(w) PROVE TypeOK'
    <2>1. FinalStatus(w) \in {"completed", "partial", "failed"}
      BY DEF FinalStatus
    <2>2. job[w] \in JobIds
      BY <1>9 DEF save_finished, Accounted
    <2> QED
      BY <1>9, <2>1, <2>2 DEF save_finished, Forget
  <1>10. ASSUME NEW w \in Threads, StoreFails(w) PROVE TypeOK'
    BY <1>10, MaxFailuresAssumption DEF StoreFails, Forget
  <1>11. CASE Restart
    BY <1>11, MaxFailuresAssumption DEF Restart
  <1>12. CASE UNCHANGED vars
    BY <1>12 DEF vars
  <1> QED
    BY <1>1, <1>2, <1>3, <1>4, <1>5, <1>6, <1>7, <1>8, <1>9, <1>10, <1>11, <1>12, NextCases

\* A row changes only under the one thread that has its id.
LEMMA OneThreadStep == IInv /\ [Next]_vars => OneThread'
  <1> SUFFICES ASSUME IInv, [Next]_vars PROVE OneThread'
    OBVIOUS
  <1> USE DEF IInv, OneThread
  <1>1. CASE UNCHANGED <<jobs, job, lost>>
    BY <1>1
  <1>2. ASSUME NEW w \in Threads, NEW a \in AgentIds, get_agent(w, a) PROVE OneThread'
    <2>1. job[w] = NoJob
      BY <1>2 DEF get_agent, Accounted
    <2>2. UNCHANGED <<jobs, job, lost>>
      BY <1>2, <2>1 DEF get_agent, Forget, TypeOK
    <2> QED
      BY <1>1, <2>2
  <1>3. ASSUME NEW w \in Threads, NEW j \in JobIds, save_running(w, j) PROVE OneThread'
    <2>1. /\ jobs[j].status = "absent"
          /\ \A v \in Threads : job[v] # j
      BY <1>3 DEF save_running, Fresh, L!Absent
    <2>2. j \notin lost
      BY <2>1
    <2>3. job[w] = NoJob
      BY <1>3 DEF save_running, Accounted
    <2> QED
      BY <1>3, <2>1, <2>2, <2>3, NoJobAssumption DEF save_running, TypeOK
  <1>4. ASSUME NEW w \in Threads, save_finished(w) PROVE OneThread'
    <2>1. job[w] \in JobIds
      BY <1>4 DEF save_finished, Accounted, TypeOK
    <2>2. FinalStatus(w) # "running"
      BY DEF FinalStatus
    <2>3. job[w] \notin lost
      BY <2>1
    <2> QED
      BY <1>4, <2>1, <2>2, <2>3, NoJobAssumption DEF save_finished, Forget, TypeOK
  <1>5. ASSUME NEW w \in Threads, StoreFails(w) PROVE OneThread'
    BY <1>5, NoJobAssumption DEF StoreFails, Forget, TypeOK
  <1>6. CASE Restart
    BY <1>6, NoJobAssumption DEF Restart, TypeOK
  <1> QED
    BY <1>1, <1>2, <1>3, <1>4, <1>5, <1>6, NextCases
    DEF register_agent, Receive, Answer, Refuse, Gather, mark_seen, vars

\* What a thread knows of its agents changes only with its own steps.
LEMMA AccountedStep == IInv /\ [Next]_vars => Accounted'
  <1> SUFFICES ASSUME IInv, [Next]_vars PROVE Accounted'
    OBVIOUS
  <1> USE DEF IInv, Accounted
  <1>1. CASE UNCHANGED <<jobs, pc, asked, job, answered, errors>>
    BY <1>1
  <1>2. ASSUME NEW w \in Threads, NEW S \in SUBSET AgentIds, S # {}, Receive(w, S)
        PROVE  Accounted'
    BY <1>2 DEF Receive, TypeOK
  <1>3. ASSUME NEW w \in Threads, NEW a \in AgentIds, get_agent(w, a) PROVE Accounted'
    BY <1>3 DEF get_agent, Forget, TypeOK
  <1>4. ASSUME NEW w \in Threads, NEW j \in JobIds, save_running(w, j) PROVE Accounted'
    <2>1. \A v \in Threads : job[v] # j
      BY <1>4 DEF save_running, Fresh
    <2>2. jobs' = [jobs EXCEPT ![j] = L!Running(asked[w])]
      BY <1>4 DEF save_running, L!Running
    <2> QED
      BY <1>4, <2>1, <2>2, NoJobAssumption DEF save_running, TypeOK
  <1>5. ASSUME NEW w \in Threads, NEW a \in AgentIds, Answer(w, a) PROVE Accounted'
    BY <1>5 DEF Answer, Pending, TypeOK
  <1>6. ASSUME NEW w \in Threads, NEW a \in AgentIds, Refuse(w, a) PROVE Accounted'
    BY <1>6 DEF Refuse, Pending, TypeOK
  <1>7. ASSUME NEW w \in Threads, Gather(w) PROVE Accounted'
    BY <1>7 DEF Gather, Pending, TypeOK
  <1>8. ASSUME NEW w \in Threads, save_finished(w) PROVE Accounted'
    <2>1. \A v \in Threads \ {w} : job[v] # job[w] \/ job[v] = NoJob
      BY DEF OneThread, TypeOK
    <2>2. job[w] \in JobIds
      BY <1>8 DEF save_finished, TypeOK
    <2> QED
      BY <1>8, <2>1, <2>2 DEF save_finished, Forget, TypeOK
  <1>9. ASSUME NEW w \in Threads, StoreFails(w) PROVE Accounted'
    BY <1>9 DEF StoreFails, Forget, TypeOK
  <1>10. CASE Restart
    BY <1>10 DEF Restart
  <1> QED
    BY <1>1, <1>2, <1>3, <1>4, <1>5, <1>6, <1>7, <1>8, <1>9, <1>10, NextCases
    DEF register_agent, mark_seen, vars

\* The invariants hold together in every reachable state.
LEMMA IInvAlways == Spec => []IInv
  <1>1. IInv /\ [Next]_vars => IInv'
    BY TypeStep, OneThreadStep, AccountedStep DEF IInv
  <1> QED
    BY <1>1, InitIInv, PTL DEF Spec

\* The tables and the locals of every request thread stay well typed.
THEOREM TypeCorrect == Spec => []TypeOK
  BY IInvAlways, PTL DEF IInv

\* A job has at most one thread, and a running row without a thread was lost
\* with it (dispatch_job's two save_job calls).
THEOREM OneThreadAlways == Spec => []OneThread
  BY IInvAlways, PTL DEF IInv

\* No agent of a job is counted twice or forgotten (AgentDispatcher.fanout).
THEOREM AccountedAlways == Spec => []Accounted
  BY IInvAlways, PTL DEF IInv

\* A step of Jobs is a step of the life cycle or leaves every row as it is.
LEMMA LifecycleStep == IInv /\ [Next]_vars => [L!LNext]_jobs
  <1> SUFFICES ASSUME IInv, [Next]_vars PROVE L!LNext \/ UNCHANGED jobs
    OBVIOUS
  <1>1. ASSUME NEW w \in Threads, NEW j \in JobIds, save_running(w, j) PROVE L!LNext
    <2>1. asked[w] \in SUBSET AgentIds /\ asked[w] # {}
      BY <1>1 DEF IInv, TypeOK, Accounted, save_running
    <2>2. L!Create(j, asked[w])
      BY <1>1 DEF save_running, Fresh, L!Create, L!Running
    <2> QED
      BY <2>1, <2>2 DEF L!LNext
  <1>2. ASSUME NEW w \in Threads, save_finished(w) PROVE L!LNext
    <2>1. job[w] \in JobIds
      BY <1>2 DEF save_finished, IInv, TypeOK, Accounted
    <2>2. jobs[job[w]] = L!Running(asked[w])
      BY <1>2 DEF save_finished, IInv, TypeOK, Accounted
    <2>3. /\ answered[w] \subseteq asked[w]
          /\ errors[w] = asked[w] \ answered[w]
          /\ asked[w] # {}
      BY <1>2 DEF save_finished, IInv, Accounted
    <2>4. FinalStatus(w) = L!Outcome(asked[w], answered[w]).status
      BY <2>3 DEF FinalStatus, L!Outcome
    <2>5. jobs' = [jobs EXCEPT ![job[w]] = L!Outcome(asked[w], answered[w])]
      BY <1>2, <2>3, <2>4 DEF save_finished, L!Outcome
    <2>6. L!Finish(job[w], answered[w])
      BY <2>2, <2>5 DEF L!Finish, L!Running
    <2> QED
      BY <2>1, <2>2, <2>3, <2>6 DEF L!LNext, L!Running
  <1> QED
    BY <1>1, <1>2, NextCases
    DEF register_agent, Receive, get_agent, Answer, Refuse, Gather, mark_seen, StoreFails, Restart,
        vars

\* The jobs table implements the abstract life cycle: created once, ended at
\* most once with every agent accounted for, and final then, whatever requests
\* run together and wherever a write fails or the controller restarts.
THEOREM LifecycleImplemented == Spec => Lifecycle
  <1>1. Init => L!LInit
    BY DEF Init, L!LInit
  <1> QED
    BY <1>1, IInvAlways, LifecycleStep, PTL DEF Spec, Lifecycle, L!LSpec

=============================================================================
