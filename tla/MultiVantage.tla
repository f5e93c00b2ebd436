----------------------------- MODULE MultiVantage -----------------------------
(***************************************************************************)
(* Vantage selection (controller/vantage.py) and fault localization         *)
(* (analysis/multivantage.py) as operators.                                 *)
(*                                                                         *)
(* A plan gives at most one node each of the roles destination, source and  *)
(* third, so a plan is a function from roles to nodes and the observations  *)
(* of a diagnosis a function from the roles that answered to               *)
(* [status, confidence].  Node ids are numbers, which sorted() orders.      *)
(* Verdict texts and the evidence trail are left out.                       *)
(***************************************************************************)
EXTENDS Monitoring, FiniteSets

Roles  == {"destination", "source", "third"}
Status == {"healthy", "degraded", "failed", "unknown"}

Least(S) == CHOOSE n \in S : \A m \in S : n <= m

-----------------------------------------------------------------------------
(* select_vantages                                                          *)

\* requested is the request's source_node_id; neighbours are the nodes next
\* to dest in the topology.
SourceNode(candidates, requested) ==
    IF requested \in candidates THEN requested
    ELSE IF candidates # {} THEN Least(candidates) ELSE None

\* Prefer a node that is not adjacent to the destination.
ThirdNode(remaining, neighbours) ==
    IF remaining \ neighbours # {} THEN Least(remaining \ neighbours)
    ELSE IF remaining # {} THEN Least(remaining) ELSE None

SelectVantages(eligible, dest, requested, neighbours) ==
    LET candidates == eligible \ {dest}
        source     == SourceNode(candidates, requested)
        third      == ThirdNode(candidates \ {source}, neighbours)
        choice     == [destination |-> IF dest \in eligible THEN dest ELSE None,
                       source |-> source, third |-> third]
    IN [role \in {r \in Roles : choice[r] # None} |-> choice[role]]

-----------------------------------------------------------------------------
(* localize_fault                                                           *)

\* Mutation: whoever did not measure counts as failed.
WithUnknown(obs, status) ==
    {r \in DOMAIN obs : \/ obs[r].status = status
                        \/ status = "failed" /\ obs[r].status = "unknown"}

With(obs, status) == {r \in DOMAIN obs : obs[r].status = status}

Has(obs, role, status) == role \in With(obs, status)

\* Mutation: the roles are swapped.
SideOfSwapped(role) ==
    IF role = "third" THEN "source_side" ELSE "vantage_isolated"

SideOf(role) == IF role = "source" THEN "source_side" ELSE "vantage_isolated"

\* The observations behind a verdict, with the number of times each is listed.
Once(S)     == [r \in Roles |-> IF r \in S THEN 1 ELSE 0]
DestPlus(S) == [r \in Roles |-> Once(S)[r] + Once({"destination"})[r]]

Verdict(localization, base, drivers) ==
    [localization |-> localization, base |-> base, drivers |-> drivers]

\* _decide without failures: only degradation.
DecideDegraded(obs) ==
    LET degrad == With(obs, "degraded")
    IN Verdict(IF Cardinality(degrad) = 1
                 THEN SideOf(CHOOSE r \in degrad : TRUE) ELSE "path_shared",
               60, Once(degrad))

\* Mutation: the destination's own observation is not asked.
DecideDestIgnored(obs) ==
    Verdict(IF {"source", "third"} \subseteq With(obs, "failed")
              THEN "target_side" ELSE "source_side", 75, Once(DOMAIN obs))

\* _decide when some vantage failed and the destination's own agent reached
\* the target.  Without peers it is the source, the third, or both that failed.
DecideDestHealthy(obs) ==
    LET unreach == With(obs, "failed")
    IN CASE {"source", "third"} \subseteq unreach ->
                Verdict("path_shared", 75, Once(Roles))
         [] "source" \in unreach /\ "third" \notin unreach ->
                Verdict("source_side", 82, Once(DOMAIN obs))
         [] OTHER ->
                Verdict("vantage_isolated", 78, Once({"destination", "third"}))

\* _decide when there is no conclusive destination-local observation.
DecideExternal(obs) ==
    LET unreach == With(obs, "failed")
    IN CASE unreach = DOMAIN obs ->
                Verdict("target_side", 60, Once(unreach))
         [] unreach # DOMAIN obs /\ Cardinality(unreach) = 1 ->
                Verdict(SideOf(CHOOSE r \in unreach : TRUE), 72,
                        Once(DOMAIN obs))
         [] OTHER ->
                Verdict("path_shared", 65,
                        Once(unreach \cup With(obs, "healthy")))

Decide(obs) ==
    LET unreach == With(obs, "failed")
    IN CASE unreach = {} /\ With(obs, "degraded") = {} ->
                Verdict("healthy", 90, Once(DOMAIN obs))
         [] unreach = {} /\ With(obs, "degraded") # {} -> DecideDegraded(obs)
         [] Has(obs, "destination", "failed") ->
                Verdict("target_side", 90, DestPlus(unreach))
         [] unreach # {} /\ Has(obs, "destination", "healthy") ->
                DecideDestHealthy(obs)
         [] OTHER -> DecideExternal(obs)

\* base * (0.6 + 0.4 * mean confidence of the drivers), rounded to a whole
\* percent and clamped.  A value halfway between two percents may come out as
\* either: the code rounds a binary fraction.
Confidences(obs, verdict) ==
    LET Weight(r) == verdict.drivers[r]
        Part(r)   == IF Weight(r) = 0 THEN 0 ELSE Weight(r) * obs[r].confidence
        count     == Weight("destination") + Weight("source") + Weight("third")
        total     == Part("destination") + Part("source") + Part("third")
        num       == verdict.base * (600 * count + 4 * total)
        den       == 1000 * count
        near      == {c \in Percent : /\ 2 * (c * den - num) <= den
                                      /\ 2 * (num - c * den) <= den}
    IN {IF c < 5 THEN 5 ELSE IF c > 99 THEN 99 ELSE c : c \in near}

OverallStatus(localization, obs) ==
    CASE localization = "healthy"      -> "healthy"
      [] localization = "inconclusive" -> "unknown"
      [] OTHER -> IF With(obs, "failed") # {} THEN "failed" ELSE "degraded"

\* The reports localize_fault may return.
LocalizeFault(obs) ==
    IF DOMAIN obs = {}
    THEN {[localization |-> "inconclusive", confidence |-> 5,
           status |-> "unknown", vantage_count |-> 0, reachable_count |-> 0]}
    ELSE LET verdict == Decide(obs)
         IN {[localization |-> verdict.localization, confidence |-> c,
              status |-> OverallStatus(verdict.localization, obs),
              vantage_count |-> Cardinality(DOMAIN obs),
              reachable_count |-> Cardinality(With(obs, "healthy"))] :
                c \in Confidences(obs, verdict)}
=============================================================================
