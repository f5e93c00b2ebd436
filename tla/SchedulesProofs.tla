--------------------------- MODULE SchedulesProofs ---------------------------
(* Proofs about Schedules, for any number of schedules, workers, edits and  *)
(* failures.                                                                *)
EXTENDS Schedules, TLAPS

\* A row that a pass wrote is due one interval after the run it records.
InStepRow(row) ==
    row.last_run_at # None /\ row.next_run_at = row.last_run_at + row.interval

InStep == \A id \in ran : InStepRow(schedules[id])

\* Every copy a pass holds was due when the pass began.
CopiesDue ==
    \A w \in Workers : \A id \in DOMAIN batch[w] :
        batch[w][id].next_run_at = None \/ batch[w][id].next_run_at <= now[w]

IInv == TypeOK /\ InStep /\ CopiesDue

\* What advancing a row yields: a row, in step.
LEMMA AdvanceInStep ==
    ASSUME NEW row \in ScheduleRow, NEW t \in Nat, NEW e \in BOOLEAN
    PROVE  /\ AdvanceSchedule(row, t, e) \in ScheduleRow
           /\ InStepRow(AdvanceSchedule(row, t, e))
           /\ AdvanceSchedule(row, t, e).last_run_at = t
<1> PICK n \in Nat : n = IF e THEN row.consecutive_failures + 1 ELSE 0
  BY DEF ScheduleRow
<1> PICK m \in Nat : m = t + row.interval
  BY DEF ScheduleRow
<1> DEFINE new == [row EXCEPT !.last_run_at = t, !.next_run_at = m,
                              !.consecutive_failures = n]
<1>1. AdvanceSchedule(row, t, e) = new
  BY DEF AdvanceSchedule
<1>2. new \in ScheduleRow
  BY DEF ScheduleRow
<1>3. /\ new.last_run_at = t /\ new.interval = row.interval
      /\ new.next_run_at = m
  BY DEF ScheduleRow
<1> QED
  BY <1>1, <1>2, <1>3, NoneAssumption DEF InStepRow

LEMMA InitIInv == Init => IInv
  BY DEF Init, IInv, TypeOK, InStep, CopiesDue, NoRows

\* Each action keeps the type invariant.
LEMMA TypeStep == TypeOK /\ [Next]_vars => TypeOK'
<1> SUFFICES ASSUME TypeOK, [Next]_vars PROVE TypeOK'
  OBVIOUS
<1> USE DEF TypeOK
<1>1. CASE Tick
  BY <1>1 DEF Tick, bounds, locals
<1>2. ASSUME NEW id \in ScheduleIds, NEW c \in Choices, Create(id, c)
      PROVE  TypeOK'
  <2>1. [c EXCEPT !.next_run_at = IF @ = None THEN clock ELSE @] \in ScheduleRow
    BY SchedulesAssumption DEF ScheduleRow
  <2> QED BY <1>2, <2>1 DEF Create, Put, locals
<1>3. ASSUME NEW id \in DOMAIN schedules, Delete(id) PROVE TypeOK'
  BY <1>3 DEF Delete, Remove, locals
<1>4. ASSUME NEW w \in Workers, BeginPass(w) PROVE TypeOK'
  BY <1>4 DEF BeginPass, DueIds, bounds
<1>5. ASSUME NEW w \in Workers, NEW id \in ScheduleIds, Diagnose(w, id)
      PROVE  TypeOK'
  <2>1. pc' \in [Workers -> {"idle", "pass", "advance"}]
    BY <1>5 DEF Diagnose
  <2>2. current' \in [Workers -> ScheduleIds \cup {None}]
    BY <1>5 DEF Diagnose
  <2>3. errors' \in Nat
    BY <1>5 DEF Diagnose
  <2>4. error' \in [Workers -> BOOLEAN]
    BY <1>5, Zenon DEF Diagnose
  <2>5. ASSUME NEW v \in Workers, pc'[v] = "advance"
        PROVE  current'[v] \in DOMAIN batch'[v]
    BY <1>5, <2>5 DEF Diagnose
  <2> QED
    BY <1>5, <2>1, <2>2, <2>3, <2>4, <2>5 DEF Diagnose
<1>6. ASSUME NEW w \in Workers, Advance(w) PROVE TypeOK'
  <2>1. /\ current[w] \in DOMAIN batch[w]
        /\ AdvanceSchedule(batch[w][current[w]], now[w], error[w])
                \in ScheduleRow
    BY <1>6, AdvanceInStep DEF Advance
  <2> QED BY <1>6, <2>1 DEF Advance, Put, Remove, bounds
<1>7. ASSUME NEW w \in Workers, EndPass(w) PROVE TypeOK'
  BY <1>7 DEF EndPass, bounds
<1>8. ASSUME NEW w \in Workers, AdvanceFails(w) PROVE TypeOK'
  BY <1>8 DEF AdvanceFails, NoRows
<1>9. CASE Restart
  BY <1>9 DEF Restart, NoRows
<1>10. CASE UNCHANGED vars
  BY <1>10 DEF vars, bounds, locals
<1> QED
  BY <1>1, <1>2, <1>3, <1>4, <1>5, <1>6, <1>7, <1>8, <1>9, <1>10 DEF Next, Step

\* A pass writes rows in step with the run it records, a post takes the row
\* out of `ran`, and a pass copies nothing but due rows.
LEMMA IInvStep == IInv /\ [Next]_vars => IInv'
<1> SUFFICES ASSUME IInv, [Next]_vars PROVE (InStep /\ CopiesDue)'
  BY TypeStep DEF IInv
<1> USE DEF IInv, InStep, CopiesDue
<1> TypeOK /\ TypeOK'
  BY TypeStep
<1>1. CASE Tick
  BY <1>1 DEF Tick, bounds, locals
<1>2. ASSUME NEW id \in ScheduleIds, NEW c \in Choices, Create(id, c)
      PROVE  (InStep /\ CopiesDue)'
  <2>1. \A k \in ran' : k \in ran /\ schedules'[k] = schedules[k]
    BY <1>2 DEF Create, Put, TypeOK
  <2> QED BY <1>2, <2>1 DEF Create, InStepRow, locals
<1>3. ASSUME NEW id \in DOMAIN schedules, Delete(id)
      PROVE  (InStep /\ CopiesDue)'
  <2>1. \A k \in ran' : k \in ran /\ schedules'[k] = schedules[k]
    BY <1>3 DEF Delete, Remove, TypeOK
  <2> QED BY <1>3, <2>1 DEF Delete, InStepRow, locals
<1>4. ASSUME NEW w \in Workers, BeginPass(w)
      PROVE  (InStep /\ CopiesDue)'
  <2>1. InStep'
    BY <1>4 DEF BeginPass
  <2>2. ASSUME NEW v \in Workers, NEW id \in DOMAIN batch'[v]
        PROVE  \/ batch'[v][id].next_run_at = None
               \/ batch'[v][id].next_run_at <= now'[v]
    <3>1. CASE v = w
      BY <1>4, <2>2, <3>1 DEF BeginPass, DueIds, IsDue, TypeOK
    <3>2. CASE v # w
      BY <1>4, <2>2, <3>2 DEF BeginPass, TypeOK
    <3> QED BY <3>1, <3>2
  <2> QED BY <2>1, <2>2
<1>5. ASSUME NEW w \in Workers, NEW id \in ScheduleIds, Diagnose(w, id)
      PROVE  (InStep /\ CopiesDue)'
  BY <1>5 DEF Diagnose
<1>6. ASSUME NEW w \in Workers, Advance(w)
      PROVE  (InStep /\ CopiesDue)'
  <2>1. InStepRow(AdvanceSchedule(batch[w][current[w]], now[w], error[w]))
    BY <1>6, AdvanceInStep DEF Advance, TypeOK
  <2>2. schedules'[current[w]]
            = AdvanceSchedule(batch[w][current[w]], now[w], error[w])
    BY <1>6 DEF Advance, Put
  <2>3. \A k \in ran' : k = current[w]
                         \/ (k \in ran /\ schedules'[k] = schedules[k])
    BY <1>6 DEF Advance, Put, TypeOK
  <2>4. InStep'
    BY <2>1, <2>2, <2>3 DEF InStepRow
  <2>5. CopiesDue'
    BY <1>6 DEF Advance, Remove, TypeOK
  <2> QED BY <2>4, <2>5
<1>7. ASSUME NEW w \in Workers, EndPass(w)
      PROVE  (InStep /\ CopiesDue)'
  BY <1>7 DEF EndPass
<1>8. ASSUME NEW w \in Workers, AdvanceFails(w)
      PROVE  (InStep /\ CopiesDue)'
  BY <1>8 DEF AdvanceFails, NoRows, TypeOK
<1>9. CASE Restart
  BY <1>9 DEF Restart, NoRows
<1>10. CASE UNCHANGED vars
  BY <1>10 DEF vars, locals
<1> QED
  BY <1>1, <1>2, <1>3, <1>4, <1>5, <1>6, <1>7, <1>8, <1>9, <1>10 DEF Next, Step

LEMMA IInvAlways == Spec => []IInv
  BY InitIInv, IInvStep, PTL DEF Spec

\* The type invariant of the schedules table and the passes over it.
THEOREM TypeCorrect == Spec => []TypeOK
  BY IInvAlways, PTL DEF IInv

-----------------------------------------------------------------------------
(* One worker: the loop without POST /v1/monitor/run.                       *)

OneWorker == \A v, w \in Workers : v = w

\* The row of a schedule whose turn is still to come is the copy the pass
\* took, unless a client posted the schedule anew and it has not run since.
CopiesCurrent ==
    \A w \in Workers : \A id \in DOMAIN batch[w] \cap ran :
        schedules[id] = batch[w][id]

\* Only a pass puts a schedule into `ran`, and it reads and writes the same row.
LEMMA CurrentStep ==
    ASSUME OneWorker, IInv, CopiesCurrent, [Next]_vars
    PROVE  CopiesCurrent'
<1> USE DEF CopiesCurrent, IInv
<1>1. CASE Tick
  BY <1>1 DEF Tick, locals
<1>2. ASSUME NEW id \in ScheduleIds, NEW c \in Choices, Create(id, c)
      PROVE  CopiesCurrent'
  <2>1. \A k \in ran' : k \in ran /\ schedules'[k] = schedules[k]
    BY <1>2 DEF Create, Put, TypeOK
  <2> QED BY <1>2, <2>1 DEF Create, locals
<1>3. ASSUME NEW id \in DOMAIN schedules, Delete(id) PROVE CopiesCurrent'
  <2>1. \A k \in ran' : k \in ran /\ schedules'[k] = schedules[k]
    BY <1>3 DEF Delete, Remove, TypeOK
  <2> QED BY <1>3, <2>1 DEF Delete, locals
<1>4. ASSUME NEW w \in Workers, BeginPass(w) PROVE CopiesCurrent'
  BY <1>4 DEF BeginPass, DueIds, OneWorker, TypeOK
<1>5. ASSUME NEW w \in Workers, NEW id \in ScheduleIds, Diagnose(w, id)
      PROVE  CopiesCurrent'
  BY <1>5 DEF Diagnose
<1>6. ASSUME NEW w \in Workers, Advance(w) PROVE CopiesCurrent'
  <2>1. \A k \in ran' \ {current[w]} :
            k \in ran /\ schedules'[k] = schedules[k]
    BY <1>6 DEF Advance, Put, TypeOK
  <2>2. \A v \in Workers : \A k \in DOMAIN batch'[v] :
            /\ k # current[w] /\ k \in DOMAIN batch[v]
            /\ batch'[v][k] = batch[v][k]
    BY <1>6 DEF Advance, Remove, OneWorker, TypeOK
  <2> QED BY <2>1, <2>2
<1>7. ASSUME NEW w \in Workers, EndPass(w) PROVE CopiesCurrent'
  BY <1>7 DEF EndPass
<1>8. ASSUME NEW w \in Workers, AdvanceFails(w) PROVE CopiesCurrent'
  BY <1>8 DEF AdvanceFails, NoRows, TypeOK
<1>9. CASE Restart
  BY <1>9 DEF Restart, NoRows
<1>10. CASE UNCHANGED vars
  BY <1>10 DEF vars, locals
<1> QED
  BY <1>1, <1>2, <1>3, <1>4, <1>5, <1>6, <1>7, <1>8, <1>9, <1>10 DEF Next, Step

SpacedStep ==
    \A id \in ran \cap ran' :
        schedules'[id].last_run_at # schedules[id].last_run_at
        => schedules'[id].last_run_at >=
              schedules[id].last_run_at + schedules[id].interval

\* The pass that stamps a run holds the row itself, which was due at the time
\* the pass began, one interval after the run before.
LEMMA StepSpaced ==
    ASSUME IInv, CopiesCurrent, [Next]_vars
    PROVE  SpacedStep
<1> USE DEF SpacedStep
<1>1. ASSUME NEW id \in ScheduleIds, NEW c \in Choices, Create(id, c)
      PROVE  SpacedStep
  BY <1>1 DEF Create, Put, IInv, TypeOK
<1>2. ASSUME NEW id \in DOMAIN schedules, Delete(id) PROVE SpacedStep
  BY <1>2 DEF Delete, Remove, IInv, TypeOK
<1>3. ASSUME NEW w \in Workers, Advance(w) PROVE SpacedStep
  <2> DEFINE id == current[w]
             copy == batch[w][id]
  <2>1. /\ id \in DOMAIN batch[w] /\ copy \in ScheduleRow /\ now[w] \in Nat
        /\ copy.next_run_at = None \/ copy.next_run_at <= now[w]
    BY <1>3 DEF Advance, IInv, TypeOK, CopiesDue
  <2>2. schedules' = Put(schedules, id, AdvanceSchedule(copy, now[w], error[w]))
    BY <1>3 DEF Advance
  <2>3. AdvanceSchedule(copy, now[w], error[w]).last_run_at = now[w]
    BY <1>3, <2>1, AdvanceInStep DEF IInv, TypeOK
  <2>4. \A k \in ran : k # id => schedules'[k] = schedules[k]
    BY <2>2 DEF Put, IInv, TypeOK
  <2>5. schedules'[id].last_run_at = now[w]
    BY <2>2, <2>3 DEF Put
  <2>6. ASSUME id \in ran
        PROVE  now[w] >= schedules[id].last_run_at + schedules[id].interval
    <3>1. schedules[id] = copy
      BY <2>1, <2>6 DEF CopiesCurrent
    <3>2. InStepRow(copy)
      BY <2>6, <3>1 DEF IInv, InStep
    <3>3. copy.last_run_at \in Nat /\ copy.interval \in Nat
      BY <2>1, <3>2 DEF ScheduleRow, InStepRow
    <3>4. copy.next_run_at = copy.last_run_at + copy.interval
      BY <3>2 DEF InStepRow
    <3> QED
      BY <2>1, <3>1, <3>3, <3>4, NoneAssumption
  <2> HIDE DEF id, copy
  <2> QED BY <2>4, <2>5, <2>6
<1>4. CASE schedules' = schedules
  BY <1>4
<1> QED
  BY <1>1, <1>2, <1>3, <1>4 DEF Next, Step, Tick, BeginPass, Diagnose, EndPass,
     AdvanceFails, Restart, vars

\* With a single thread in run_due_schedules, two runs it records of a schedule
\* are at least its interval apart, whatever fails and whatever clients post
\* or delete while the pass is under way, last_run_at and next_run_at included.
THEOREM SpacedAlways ==
    ASSUME OneWorker
    PROVE  Spec => Spaced
<1>1. Init => CopiesCurrent
  BY DEF Init, CopiesCurrent, NoRows
<1>2. IInv /\ CopiesCurrent /\ [Next]_vars => CopiesCurrent'
  BY CurrentStep
<1>3. IInv /\ CopiesCurrent /\ [Next]_vars => [SpacedStep]_vars
  BY StepSpaced
<1>4. Spaced <=> [][SpacedStep]_vars
  BY DEF Spaced, SpacedStep
<1> QED
  BY <1>1, <1>2, <1>3, <1>4, IInvAlways, PTL DEF Spec
=============================================================================
