-------------------------- MODULE DiagnosisProofs --------------------------
(***************************************************************************)
(* What a multi-vantage diagnosis concludes is true of the network as it   *)
(* was while the probes were out, for any topology, number of agents, pool *)
(* size, changes of the network and probes that fail.                      *)
(***************************************************************************)
EXTENDS Diagnosis, FiniteSetTheorems, NaturalsInduction, WellFoundedInduction,
        TLAPS

-----------------------------------------------------------------------------
(* select_vantages                                                          *)

\* sorted(...)[0] of a nonempty set of node ids.
LEMMA LeastIn ==
    ASSUME NEW S \in SUBSET Nat, S # {}
    PROVE  Least(S) \in S
<1> DEFINE R == OpToRel(<, Nat)
<1>1. PICK x \in S : \A y \in S : ~(<<y, x>> \in R)
  BY NatLessThanWellFounded, WFMin, Zenon
<1>2. \A y \in S : ~(y < x)
  BY <1>1 DEF OpToRel
<1>3. \A y \in S : x <= y
  BY <1>2
<1> QED
  BY <1>3 DEF Least

\* The roles of a plan go to different agent nodes, and the destination's role
\* only to the node of the service.
LEMMA PlanSound ==
    ASSUME NEW eligible \in SUBSET Nodes, NEW d \in Nodes \cup {None},
           NEW requested, NEW neighbours
    PROVE  LET p == SelectVantages(eligible, d, requested, neighbours)
           IN /\ DOMAIN p \subseteq Roles
              /\ \A r \in DOMAIN p : p[r] \in Nodes
              /\ \A r, q \in DOMAIN p : p[r] = p[q] => r = q
              /\ "destination" \in DOMAIN p => p["destination"] = d
<1> DEFINE candidates == eligible \ {d}
           source == SourceNode(candidates, requested)
           third  == ThirdNode(candidates \ {source}, neighbours)
           choice == [destination |-> IF d \in eligible THEN d ELSE None,
                      source |-> source, third |-> third]
           p == [role \in {r \in Roles : choice[r] # None} |-> choice[role]]
<1>1. None \notin Nodes /\ Nodes \subseteq Nat
  <2>1. Nodes \subseteq Nat /\ Nat \subseteq Int
    BY DiagnosisAssumption
  <2> QED
    BY <2>1, NoneAssumption, Zenon
<1>2. source \in candidates \cup {None}
  BY <1>1, LeastIn DEF SourceNode
<1>3. third \in (candidates \ {source}) \cup {None}
  <2> DEFINE remaining == candidates \ {source}
  <2>1. remaining \in SUBSET Nat /\ remaining \ neighbours \in SUBSET Nat
    BY <1>1
  <2>2. remaining # {} => Least(remaining) \in remaining
    BY <2>1, LeastIn
  <2>3. remaining \ neighbours # {} =>
            Least(remaining \ neighbours) \in remaining \ neighbours
    BY <2>1, LeastIn
  <2> HIDE DEF remaining
  <2>4. ThirdNode(remaining, neighbours) \in remaining \cup {None}
    BY <2>2, <2>3 DEF ThirdNode
  <2> QED
    BY <2>4 DEF remaining
<1> HIDE DEF source, third
<1>4. /\ choice["destination"] = IF d \in eligible THEN d ELSE None
      /\ choice["source"] = source /\ choice["third"] = third
  OBVIOUS
<1> HIDE DEF choice
<1>5. /\ DOMAIN p \subseteq Roles
      /\ \A r \in DOMAIN p : r \in Roles /\ p[r] = choice[r] /\ p[r] # None
  OBVIOUS
<1>6. p = SelectVantages(eligible, d, requested, neighbours)
  BY DEF SelectVantages, choice, source, third
<1> HIDE DEF p
<1>7. \A r \in DOMAIN p : r \in {"destination", "source", "third"}
  BY <1>5 DEF Roles
<1>8. \A r \in DOMAIN p : p[r] \in Nodes
  BY <1>1, <1>2, <1>3, <1>4, <1>5, <1>7
<1>9. \A r, q \in DOMAIN p : p[r] = p[q] => r = q
  BY <1>1, <1>2, <1>3, <1>4, <1>5, <1>7
<1>10. "destination" \in DOMAIN p => p["destination"] = d
  BY <1>4, <1>5
<1> QED
  BY <1>5, <1>6, <1>8, <1>9, <1>10

-----------------------------------------------------------------------------
(* The inductive invariant.                                                 *)

World == Condition \X [Agents -> Condition]

\* The plan is one that select_vantages makes; the pool works only on it.
PlanInv ==
    /\ dest \in Nodes \cup {None}
    /\ DOMAIN plan \subseteq Roles
    /\ \A r \in DOMAIN plan : plan[r] \in Nodes
    /\ \A r, q \in DOMAIN plan : plan[r] = plan[q] => r = q
    /\ "destination" \in DOMAIN plan => plan["destination"] = dest
    /\ queued \subseteq DOMAIN plan /\ running \subseteq DOMAIN plan
    /\ queued \cup running # {} => phase = "fanout"
    /\ phase = "idle" => DOMAIN answers = {}

\* The present state of the network is in the record.
WorldInv ==
    /\ target \in Condition /\ link \in [Agents -> Condition]
    /\ worlds \subseteq World
    /\ <<target, link>> \in worlds

\* An answer proves nothing, or is a TCP test that was not begun, or tells of
\* the network in a world on record.
AnswerInv ==
    \A a \in DOMAIN answers :
        /\ a \in Agents
        /\ \/ answers[a].status = "unknown"
           \/ a \in unresolved
           \/ \E w \in worlds : answers[a].status \in ProbeStatus(w, a)

\* The report is localize_fault's on the answers, each under its role.
ReportInv ==
    Done => /\ observed = [role \in {r \in DOMAIN plan :
                                       AgentOf[plan[r]] \in DOMAIN answers} |->
                              answers[AgentOf[plan[role]]]]
            /\ report \in LocalizeFault(observed)

IInv == PlanInv /\ WorldInv /\ AnswerInv /\ ReportInv

LEMMA InitIInv == Init => IInv
  BY DEF Init, IInv, PlanInv, WorldInv, AnswerInv, ReportInv, NoRows, Done,
         Condition, World

\* What a probe may find in a world depends on the probe and on where the
\* service is.
LEMMA ProbeStatusKept ==
    ASSUME UNCHANGED <<dest, probe>>, NEW w, NEW a
    PROVE  ProbeStatus(w, a)' = ProbeStatus(w, a)
<1>1. OnTheWay(w, a)' = OnTheWay(w, a)
  BY DEF OnTheWay
<1> QED
  BY <1>1 DEF ProbeStatus

\* The network changes: what was answered stays true of an earlier world.
LEMMA ChangeStep ==
    ASSUME IInv, \/ \E c \in Condition : ChangeTarget(c)
                 \/ \E a \in Agents, c \in Condition : ChangeLink(a, c)
    PROVE  IInv'
<1>1. /\ target' \in Condition /\ link' \in [Agents -> Condition]
      /\ worlds' = worlds \cup {<<target', link'>>}
      /\ UNCHANGED <<phase, dest, plan, probe, queued, running, answers,
                     unresolved, observed, report>>
  <2>1. ASSUME NEW c \in Condition, ChangeTarget(c)
        PROVE  /\ target' = c /\ link' = link
               /\ worlds' = worlds \cup {<<target', link'>>}
               /\ UNCHANGED <<phase, dest, plan, probe, queued, running,
                              answers, unresolved, observed, report>>
    BY <2>1 DEF ChangeTarget, pool, errors, outcome
  <2>2. ASSUME NEW a \in Agents, NEW c \in Condition, ChangeLink(a, c)
        PROVE  /\ target' = target /\ link' = [link EXCEPT ![a] = c]
               /\ worlds' = worlds \cup {<<target', link'>>}
               /\ UNCHANGED <<phase, dest, plan, probe, queued, running,
                              answers, unresolved, observed, report>>
    BY <2>2 DEF ChangeLink, pool, errors, outcome
  <2> QED
    BY <2>1, <2>2 DEF IInv, WorldInv
<1>2. WorldInv'
  BY <1>1 DEF IInv, WorldInv, World
<1>3. AnswerInv'
  <2>1. worlds \subseteq worlds'
    BY <1>1
  <2>2. \A w, a : ProbeStatus(w, a)' = ProbeStatus(w, a)
    BY <1>1, ProbeStatusKept
  <2> QED
    BY <1>1, <2>1, <2>2 DEF IInv, AnswerInv
<1> QED
  BY <1>1, <1>2, <1>3 DEF IInv, PlanInv, ReportInv, Done

LEMMA PlanStep ==
    ASSUME IInv, NEW d \in Dests, NEW requested \in Requests,
           NEW kind \in Kinds, Plan(d, requested, kind)
    PROVE  IInv'
<1>1. d \in Nodes \cup {None} /\ Eligible \in SUBSET Nodes
  BY DiagnosisAssumption DEF Eligible
<1>2. /\ DOMAIN plan' \subseteq Roles
      /\ \A r \in DOMAIN plan' : plan'[r] \in Nodes
      /\ \A r, q \in DOMAIN plan' : plan'[r] = plan'[q] => r = q
      /\ "destination" \in DOMAIN plan' => plan'["destination"] = d
  <2> DEFINE neighbours == IF d = None THEN {} ELSE Neighbours[d]
             p == SelectVantages(Eligible, d, requested, neighbours)
  <2>1. plan' = p
    BY DEF Plan
  <2> HIDE DEF neighbours
  <2>2. /\ DOMAIN p \subseteq Roles
        /\ \A r \in DOMAIN p : p[r] \in Nodes
        /\ \A r, q \in DOMAIN p : p[r] = p[q] => r = q
        /\ "destination" \in DOMAIN p => p["destination"] = d
    BY <1>1, PlanSound, Zenon
  <2> HIDE DEF p
  <2> QED
    BY <2>1, <2>2, Zenon
<1>3. DOMAIN answers = {} /\ running = {}
  BY DEF Plan, IInv, PlanInv
<1>4. PlanInv'
  <2>1. /\ dest' = d /\ queued' = DOMAIN plan' /\ running' = {}
        /\ phase' = IF DOMAIN plan' = {} THEN "raised" ELSE "fanout"
        /\ answers' = answers
    BY <1>3 DEF Plan
  <2>2. (queued' \cup running' # {} => phase' = "fanout") /\ DOMAIN answers' = {}
    BY <1>3, <2>1
  <2> QED
    BY <1>1, <1>2, <2>1, <2>2 DEF PlanInv
<1>5. WorldInv'
  BY DEF Plan, IInv, WorldInv, World
<1>6. AnswerInv' /\ ReportInv'
  BY <1>3 DEF Plan, AnswerInv, ReportInv, Done
<1> QED
  BY <1>4, <1>5, <1>6 DEF IInv

LEMMA AnswerStep ==
    ASSUME IInv, NEW role \in Roles, NEW q \in Qualities, Answer(role, q)
    PROVE  IInv'
<1> DEFINE a == AgentOf[plan[role]]
<1>1. phase = "fanout" /\ a \in Agents
  BY DiagnosisAssumption DEF Answer, IInv, PlanInv
<1>2. PICK s :
        /\ answers' = Put(answers, a, [status |-> s, confidence |-> q])
        /\ \/ s = "unknown"
           \/ a \in unresolved'
           \/ \E w \in Sensed : s \in ProbeStatus(w, a)
        /\ unresolved \ {a} \subseteq unresolved'
  <2> DEFINE Stored(s) == Put(answers, a, [status |-> s, confidence |-> q])
  <2>1. ASSUME NEW w \in Sensed, NEW s \in ProbeStatus(w, a),
               answers' = Stored(s), unresolved' = unresolved \ {a}
        PROVE  \E x : /\ answers' = Stored(x)
                      /\ \/ x = "unknown"
                         \/ a \in unresolved'
                         \/ \E v \in Sensed : x \in ProbeStatus(v, a)
                      /\ unresolved \ {a} \subseteq unresolved'
    BY <2>1, Zenon
  <2>2. ASSUME NEW s \in Unmeasured, answers' = Stored(s),
               unresolved' = IF s = "failed" THEN unresolved \cup {a}
                             ELSE unresolved \ {a}
        PROVE  \E x : /\ answers' = Stored(x)
                      /\ \/ x = "unknown"
                         \/ a \in unresolved'
                         \/ \E v \in Sensed : x \in ProbeStatus(v, a)
                      /\ unresolved \ {a} \subseteq unresolved'
    <3>1. s = "unknown" \/ s = "failed"
      BY <2>2 DEF Unmeasured
    <3>2. (s = "unknown" \/ a \in unresolved') /\ unresolved \ {a} \subseteq unresolved'
      BY <2>2, <3>1
    <3> QED
      BY <2>2, <3>2, Zenon
  <2> QED
    BY <2>1, <2>2 DEF Answer
<1>3. /\ UNCHANGED <<target, link, worlds, phase, dest, plan, probe, queued,
                     observed, report>>
      /\ running' \subseteq running
  BY DEF Answer, network, outcome
<1>4. \A w, b : ProbeStatus(w, b)' = ProbeStatus(w, b)
  BY <1>3, ProbeStatusKept
<1>5. \/ s = "unknown" \/ a \in unresolved'
      \/ \E w \in worlds : s \in ProbeStatus(w, a)
  BY <1>2 DEF IInv, WorldInv, Sensed
<1>6. AnswerInv'
  <2>1. /\ DOMAIN answers' = DOMAIN answers \cup {a}
        /\ answers'[a].status = s
        /\ \A b \in DOMAIN answers : b # a => answers'[b] = answers[b]
    BY <1>2 DEF Put
  <2>2. \A b \in unresolved : b # a => b \in unresolved'
    BY <1>2
  <2> HIDE DEF a
  <2> SUFFICES ASSUME NEW b \in DOMAIN answers'
               PROVE  /\ b \in Agents
                      /\ \/ answers'[b].status = "unknown"
                         \/ b \in unresolved'
                         \/ \E w \in worlds' :
                                answers'[b].status \in ProbeStatus(w, b)'
    BY DEF AnswerInv
  <2>3. CASE b = a
    BY <1>1, <1>3, <1>4, <1>5, <2>1, <2>3
  <2>4. CASE b # a
    <3>1. b \in DOMAIN answers /\ answers'[b] = answers[b]
      BY <2>1, <2>4
    <3> QED
      BY <1>3, <1>4, <2>2, <2>4, <3>1 DEF IInv, AnswerInv
  <2> QED
    BY <2>3, <2>4
<1>7. PlanInv' /\ WorldInv' /\ ReportInv'
  BY <1>1, <1>3 DEF IInv, PlanInv, WorldInv, ReportInv, Done
<1> QED
  BY <1>6, <1>7 DEF IInv

LEMMA IInvStep ==
    ASSUME IInv, [Next]_vars
    PROVE  IInv'
<1>1. ASSUME UNCHANGED <<worlds, dest, probe, answers, unresolved>>
      PROVE  AnswerInv'
  BY <1>1, ProbeStatusKept DEF IInv, AnswerInv
<1>2. ASSUME NEW a \in Agents, Register(a) PROVE IInv'
  BY <1>1, <1>2 DEF Register, network, pool, errors, outcome,
                    IInv, PlanInv, WorldInv, ReportInv, Done
<1>3. ASSUME NEW role \in Roles, Start(role) PROVE IInv'
  BY <1>1, <1>3 DEF Start, network, errors, outcome,
                    IInv, PlanInv, WorldInv, ReportInv, Done
<1>4. ASSUME NEW role \in Roles, Refuse(role) PROVE IInv'
  BY <1>1, <1>4 DEF Refuse, network, outcome,
                    IInv, PlanInv, WorldInv, ReportInv, Done
<1>5. CASE Conclude
  <2>1. /\ UNCHANGED <<target, link, worlds, dest, plan, probe, queued,
                       running, answers, unresolved>>
        /\ queued = {} /\ running = {} /\ phase' = "done"
    BY <1>5 DEF Conclude, network, pool, errors
  <2>2. ReportInv'
    BY <1>5, <2>1 DEF Conclude, ReportInv
  <2> QED
    BY <1>1, <2>1, <2>2 DEF IInv, PlanInv, WorldInv
<1>6. CASE UNCHANGED vars
  BY <1>1, <1>6 DEF vars, network, pool, errors, outcome,
                    IInv, PlanInv, WorldInv, ReportInv, Done
<1> QED
  BY <1>2, <1>3, <1>4, <1>5, <1>6, ChangeStep, PlanStep, AnswerStep DEF Next

LEMMA IInvAlways == Spec => []IInv
  BY InitIInv, IInvStep, PTL DEF Spec

-----------------------------------------------------------------------------
(* localize_fault                                                           *)

\* What an observation rests on.
LEMMA Observed ==
    ASSUME IInv, Done, NEW r \in DOMAIN observed
    PROVE  /\ r \in Roles /\ r \in DOMAIN plan /\ plan[r] \in Nodes
           /\ AgentOf[plan[r]] \in Agents
           /\ \/ observed[r].status = "unknown"
              \/ AgentOf[plan[r]] \in unresolved
              \/ \E w \in worlds :
                    observed[r].status \in ProbeStatus(w, AgentOf[plan[r]])
<1> DEFINE a == AgentOf[plan[r]]
<1>1. r \in DOMAIN plan /\ a \in DOMAIN answers /\ observed[r] = answers[a]
  BY DEF IInv, ReportInv
<1>2. r \in Roles /\ plan[r] \in Nodes
  BY <1>1 DEF IInv, PlanInv
<1>3. a \in Agents
  BY <1>2, DiagnosisAssumption
<1> QED
  BY <1>1, <1>2, <1>3 DEF IInv, AnswerInv

\* A probe that is sent to the target meets what is on its way.
LEMMA Reached ==
    ASSUME Probed, NEW w, NEW a, NEW s \in ProbeStatus(w, a)
    PROVE  /\ s \in {"healthy", "degraded", "failed"}
           /\ "down" \in OnTheWay(w, a) => s = "failed"
           /\ OnTheWay(w, a) = {"up"} => s = "healthy"
  BY DEF Probed, Reaching, ProbeStatus, PingHost, TestTcp

\* The report is what _decide says of the observations, if there are any.
LEMMA Reported ==
    ASSUME IInv, Done
    PROVE  report.localization = IF DOMAIN observed = {} THEN "inconclusive"
                                 ELSE Decide(observed).localization
<1>1. report \in LocalizeFault(observed)
  BY DEF IInv, ReportInv
<1> HIDE DEF Decide
<1> QED
  BY <1>1 DEF LocalizeFault

\* The target is blamed by its own host's observation, or for want of one.
LEMMA BlameNeeds ==
    ASSUME NEW obs, Decide(obs).localization = "target_side",
           "destination" \in DOMAIN obs
    PROVE  obs["destination"].status = "failed"
<1> SUFFICES ASSUME ~Has(obs, "destination", "failed") PROVE FALSE
  BY DEF Has, With
<1> DEFINE unreach == With(obs, "failed")
<1>1. "destination" \notin unreach /\ unreach # DOMAIN obs
  BY DEF Has
<1>2. DecideDegraded(obs).localization # "target_side"
  BY DEF DecideDegraded, Verdict, SideOf
<1>3. DecideDestHealthy(obs).localization # "target_side"
  BY DEF DecideDestHealthy, Verdict
<1>4. DecideExternal(obs).localization # "target_side"
  BY <1>1 DEF DecideExternal, Verdict, SideOf
<1> QED
  BY <1>2, <1>3, <1>4 DEF Decide, Verdict

\* With an observation from the target's own host, the target is blamed only
\* if something was wrong with it at some time the answers may tell of, or its
\* host could not even begin the TCP test.
THEOREM TargetBlamedAlways == Spec => []TargetBlamed
<1>1. IInv => TargetBlamed
  <2> SUFFICES ASSUME IInv, Probed, report.localization = "target_side",
                      "destination" \in DOMAIN observed,
                      AgentOf[dest] \notin unresolved
               PROVE  \E w \in worlds : w[1] # "up"
    BY DEF TargetBlamed, Ever
  <2>1. Done
    BY DEF Probed
  <2>2. observed["destination"].status = "failed"
    BY <2>1, Reported, BlameNeeds
  <2>3. plan["destination"] = dest /\ dest # None
    BY <2>1, Observed, NoneAssumption, DiagnosisAssumption DEF IInv, PlanInv
  <2>4. PICK w \in worlds : "failed" \in ProbeStatus(w, AgentOf[dest])
    BY <2>1, <2>2, <2>3, Observed
  <2>5. OnTheWay(w, AgentOf[dest]) = {w[1]}
    BY <2>3 DEF OnTheWay
  <2>6. w[1] # "up"
    BY <2>4, <2>5, Reached
  <2> QED
    BY <2>6
<1> QED
  BY <1>1, IInvAlways, PTL

\* Everything was up all the time, and every TCP test was begun: nobody is
\* blamed, whoever failed to answer or to measure.
THEOREM NoFalseAlarmAlways == Spec => []NoFalseAlarm
<1>1. IInv => NoFalseAlarm
  <2> DEFINE up == <<"up", [a \in Agents |-> "up"]>>
  <2> SUFFICES ASSUME IInv, Probed, unresolved = {}, worlds = {up}
               PROVE  report.localization \in {"healthy", "inconclusive"}
    BY DEF NoFalseAlarm
  <2>0. Done
    BY DEF Probed
  <2>1. ASSUME NEW r \in DOMAIN observed
        PROVE  observed[r].status \in {"unknown", "healthy"}
    <3> DEFINE a == AgentOf[plan[r]]
    <3>1. a \in Agents /\ (dest # None => AgentOf[dest] \in Agents)
      BY <2>0, <2>1, Observed, DiagnosisAssumption DEF IInv, PlanInv
    <3>2. OnTheWay(up, a) = {"up"}
      BY <3>1 DEF OnTheWay
    <3>3. observed[r].status = "unknown"
            \/ observed[r].status \in ProbeStatus(up, a)
      BY <2>0, <2>1, Observed
    <3> HIDE DEF up, a
    <3> QED
      BY <3>2, <3>3, Reached
  <2>2. With(observed, "failed") = {} /\ With(observed, "degraded") = {}
    BY <2>1 DEF With
  <2>3. Decide(observed).localization = "healthy"
    BY <2>2 DEF Decide, Has, Verdict
  <2> QED
    BY <2>0, <2>3, Reported
<1> QED
  BY <1>1, IInvAlways, PTL

-----------------------------------------------------------------------------
(* One fault.                                                               *)

\* What _decide makes of three conclusive observations when only the path of
\* one vantage, or the path they share, is disturbed.
LEMMA DecideShared ==
    ASSUME NEW obs, DOMAIN obs = Roles, NEW s \in {"failed", "degraded"},
           obs["destination"].status = "healthy",
           obs["source"].status = s, obs["third"].status = s
    PROVE  Decide(obs).localization = "path_shared"
<1>1. With(obs, s) = {"source", "third"}
  BY DEF With, Roles
<1>2. \A t : t # s /\ t # "healthy" => With(obs, t) = {}
  BY DEF With, Roles
<1>3. Has(obs, "destination", "healthy") /\ ~Has(obs, "destination", "failed")
  BY DEF Has, With, Roles
<1>4. CASE s = "failed"
  <2>1. DecideDestHealthy(obs).localization = "path_shared"
    BY <1>1, <1>4 DEF DecideDestHealthy, Verdict
  <2> QED
    BY <1>1, <1>3, <1>4, <2>1 DEF Decide
<1>5. CASE s = "degraded"
  <2>1. Cardinality({"source", "third"}) # 1
    <3>1. IsFiniteSet({"source"}) /\ Cardinality({"source"}) = 1
      BY FS_Singleton
    <3>2. Cardinality({"source"} \cup {"third"}) =
            IF "third" \in {"source"} THEN Cardinality({"source"})
                                      ELSE Cardinality({"source"}) + 1
      BY <3>1, FS_AddElement
    <3>3. {"source"} \cup {"third"} = {"source", "third"}
      OBVIOUS
    <3> QED
      BY <3>1, <3>2, <3>3
  <2>2. DecideDegraded(obs).localization = "path_shared"
    BY <1>1, <1>5, <2>1 DEF DecideDegraded, Verdict
  <2> QED
    BY <1>1, <1>2, <1>3, <1>5, <2>2 DEF Decide
<1> QED
  BY <1>4, <1>5

LEMMA DecideOne ==
    ASSUME NEW obs, DOMAIN obs = Roles, NEW s \in {"failed", "degraded"},
           NEW r \in {"source", "third"}, obs[r].status = s,
           \A q \in Roles \ {r} : obs[q].status = "healthy"
    PROVE  Decide(obs).localization = SideOf(r)
<1>1. With(obs, s) = {r}
  BY DEF With, Roles
<1>2. \A t : t # s /\ t # "healthy" => With(obs, t) = {}
  BY DEF With, Roles
<1>3. Has(obs, "destination", "healthy") /\ ~Has(obs, "destination", "failed")
  BY DEF Has, With, Roles
<1>4. CASE s = "failed"
  <2>1. DecideDestHealthy(obs).localization = SideOf(r)
    BY <1>1, <1>4 DEF DecideDestHealthy, Verdict, SideOf
  <2> QED
    BY <1>1, <1>3, <1>4, <2>1 DEF Decide
<1>5. CASE s = "degraded"
  <2>1. Cardinality({r}) = 1 /\ (CHOOSE q \in {r} : TRUE) = r
    BY FS_Singleton
  <2>2. DecideDegraded(obs).localization = SideOf(r)
    BY <1>1, <1>5, <2>1 DEF DecideDegraded, Verdict
  <2> QED
    BY <1>1, <1>2, <1>3, <1>5, <2>2 DEF Decide
<1> QED
  BY <1>4, <1>5

\* A verdict blames the target only if its own host does not reach it.
LEMMA DestinationReaches ==
    ASSUME NEW obs, "destination" \in DOMAIN obs,
           obs["destination"].status = "healthy"
    PROVE  Decide(obs).localization # "target_side"
  BY BlameNeeds

\* One thing was out of order throughout and three different agents measured:
\* what is down is named, and no verdict blames what is up.
THEOREM SingleFaultFoundAlways == Spec => []SingleFaultFound
<1>1. IInv => SingleFaultFound
  <2> SUFFICES ASSUME IInv, Probed, NEW w \in worlds, worlds = {w},
                      unresolved = {},
                      DOMAIN observed = Roles, With(observed, "unknown") = {},
                      \A r, q \in Roles : Vantage(r) = Vantage(q) => r = q
               PROVE  /\ w[1] = "down" => report.localization = "target_side"
                      /\ w[1] = "up" => \A r \in Roles :
                            Broken(w) = {Vantage(r)} =>
                                /\ report.localization # "target_side"
                                /\ w[2][Vantage(r)] = "down" =>
                                        report.localization = Named[r]
                                /\ r # "destination" =>
                                        report.localization
                                            \in {"healthy", Named[r]}
    BY DEF SingleFaultFound
  <2>0. Done
    BY DEF Probed
  <2>1. report.localization = Decide(observed).localization
    BY <2>0, Reported DEF Roles
  <2>2. \A r \in Roles :
            /\ Vantage(r) \in Agents
            /\ observed[r].status \in ProbeStatus(w, Vantage(r))
    <3> SUFFICES ASSUME NEW r \in Roles
                 PROVE  /\ Vantage(r) \in Agents
                        /\ observed[r].status \in ProbeStatus(w, Vantage(r))
      OBVIOUS
    <3>1. observed[r].status # "unknown"
      BY DEF With
    <3> QED
      BY <2>0, <3>1, Observed DEF Vantage
  <2>3. dest # None /\ Vantage("destination") = AgentOf[dest]
    <3>1. "destination" \in DOMAIN plan /\ plan["destination"] \in Nodes
      BY <2>0, Observed DEF Roles
    <3> QED
      BY <3>1, NoneAssumption, DiagnosisAssumption DEF IInv, PlanInv, Vantage
  <2>4. \A a \in Agents : w[2][a] \in Condition
    BY DEF IInv, WorldInv, World
  <2>5. /\ OnTheWay(w, Vantage("destination")) = {w[1]}
        /\ \A r \in {"source", "third"} :
              OnTheWay(w, Vantage(r)) =
                  {w[1], w[2][Vantage(r)], w[2][Vantage("destination")]}
    BY <2>3 DEF OnTheWay, Roles
  <2>6. \A r \in Roles :
            /\ observed[r].status \in {"healthy", "degraded", "failed"}
            /\ "down" \in OnTheWay(w, Vantage(r)) =>
                    observed[r].status = "failed"
            /\ OnTheWay(w, Vantage(r)) = {"up"} =>
                    observed[r].status = "healthy"
    BY <2>2, Reached
  <2>7. ASSUME w[1] = "down" PROVE report.localization = "target_side"
    <3>1. observed["destination"].status = "failed"
      BY <2>5, <2>6, <2>7 DEF Roles
    <3>2. Has(observed, "destination", "failed")
      BY <3>1 DEF Has, With, Roles
    <3>3. With(observed, "failed") # {} /\ ~Has(observed, "destination", "healthy")
      BY <3>1, <3>2 DEF Has, With
    <3> QED
      BY <2>1, <3>2, <3>3 DEF Decide, Verdict
  <2>8. ASSUME w[1] = "up", NEW r \in Roles, Broken(w) = {Vantage(r)}
        PROVE  /\ report.localization # "target_side"
               /\ w[2][Vantage(r)] = "down" => report.localization = Named[r]
               /\ r # "destination" =>
                      report.localization \in {"healthy", Named[r]}
    <3>1. /\ w[2][Vantage(r)] \in {"lossy", "down"}
          /\ \A q \in Roles : q # r => w[2][Vantage(q)] = "up"
      BY <2>2, <2>4, <2>8 DEF Broken, Condition
    <3>2. observed["destination"].status = "healthy"
      BY <2>5, <2>6, <2>8 DEF Roles
    <3>3. report.localization # "target_side"
      BY <2>1, <3>2, DestinationReaches DEF Roles
    <3>4. CASE r = "destination"
      <4>1. ASSUME w[2][Vantage(r)] = "down"
            PROVE  report.localization = "path_shared"
        <5>1. \A q \in {"source", "third"} : observed[q].status = "failed"
          BY <2>5, <2>6, <3>4, <4>1 DEF Roles
        <5> QED
          BY <2>1, <3>2, <5>1, DecideShared
      <4> QED
        BY <3>3, <3>4, <4>1 DEF Named
    <3>5. CASE r \in {"source", "third"}
      <4>1. \A q \in Roles \ {r} : observed[q].status = "healthy"
        BY <2>5, <2>6, <2>8, <3>1, <3>2, <3>5 DEF Roles
      <4>2. Named[r] = SideOf(r)
        BY <3>5 DEF Named, SideOf
      <4>3. CASE observed[r].status = "healthy"
        <5>1. w[2][Vantage(r)] # "down"
          BY <2>5, <2>6, <3>5, <4>3 DEF Roles
        <5>2. With(observed, "failed") = {} /\ With(observed, "degraded") = {}
          BY <4>1, <4>3 DEF With, Roles
        <5>3. Decide(observed).localization = "healthy"
          BY <5>2 DEF Decide, Has, Verdict
        <5> QED
          BY <2>1, <3>3, <5>1, <5>3
      <4>4. CASE observed[r].status \in {"failed", "degraded"}
        <5>1. Decide(observed).localization = SideOf(r)
          BY <3>5, <4>1, <4>4, DecideOne
        <5> QED
          BY <2>1, <3>3, <4>2, <5>1
      <4> QED
        BY <2>6, <4>3, <4>4
    <3> QED
      BY <3>4, <3>5 DEF Roles
  <2> QED
    BY <2>7, <2>8
<1> QED
  BY <1>1, IInvAlways, PTL
=============================================================================
