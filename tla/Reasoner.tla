------------------------------ MODULE Reasoner ------------------------------
(***************************************************************************)
(* What the AI agents conclude from the evidence they are given: the       *)
(* rule-based reasoner (ai/mock_reasoner.py), the validation of a remote   *)
(* model's answer (ai/providers.py), the catalogue of evidence that may be *)
(* stored (ai/investigator.py) and the planner (ai/mock_planner.py).       *)
(*                                                                         *)
(* A bundle of evidence is a record: the metrics that have rows, those of  *)
(* them with a high anomaly, whether the connections are at 1.8 times      *)
(* their mean, the error lines, whether they tell of exhausted             *)
(* connections, the deployments (last one first), the unhealthy            *)
(* dependencies, and whether a past incident is similar enough.            *)
(* Confidences are in per cent.                                            *)
(***************************************************************************)
EXTENDS Integers, Sequences, FiniteSets

Metrics ==
  {"request_latency_ms", "error_rate", "error_count", "request_count",
   "database_connections", "cpu_usage", "memory_usage", "queue_depth"}

\* What a bundle may be: an anomaly is noticed of a metric that has rows, and the
\* connections are compared with their mean only when they have.
WellFormed(b) ==
  /\ b \in [metrics : SUBSET Metrics, anomalies : SUBSET Metrics, db_ratio : BOOLEAN,
            error_lines : Nat, conn_logs : BOOLEAN, deploys : Seq([ref : STRING, minutes : Int]),
            unhealthy : Seq([service : STRING, kind : STRING]), similar : BOOLEAN]
  /\ b.anomalies \subseteq b.metrics
  /\ b.db_ratio => "database_connections" \in b.metrics

\* The hypotheses in the order they are formed.
Position ==
  [database_saturation |-> 1, deployment_regression |-> 2, upstream_dependency_failure |-> 3,
   traffic_overload |-> 4, resource_saturation |-> 5, inconclusive |-> 6]

Categories == DOMAIN Position

Least(a, b) == IF a < b THEN a ELSE b

\* --------------------------------- the signals ---------------------------------
Anom(b, m) == m \in b.anomalies

LatencyUp(b) == Anom(b, "request_latency_ms")

ErrorsUp(b) == Anom(b, "error_rate") \/ Anom(b, "error_count") \/ b.error_lines > 20

DbPressure(b) == Anom(b, "database_connections") \/ b.db_ratio

TrafficUp(b) == Anom(b, "request_count") \/ Anom(b, "queue_depth")

\* The deployments that landed shortly before the incident; the first one counts.
Recent(b) == {i \in DOMAIN b.deploys : b.deploys[i].minutes \in -2..30}

RecentDeploy(b) == b.deploys[CHOOSE i \in Recent(b) : \A j \in Recent(b) : i <= j].ref

If(condition, ids) == IF condition THEN ids ELSE {}

Latency(b) == If(LatencyUp(b), {<<"metric", "request_latency_ms">>})

Errors(b) == If(ErrorsUp(b), {<<"metric", "error_rate">>})

Deploy(b) == If(Recent(b) # {}, {<<"deploy", RecentDeploy(b)>>})

\* -------------------------------- the hypotheses --------------------------------
Suspects(b, c) ==
  CASE c = "database_saturation" -> DbPressure(b)
    [] c = "deployment_regression" -> Recent(b) # {} /\ (ErrorsUp(b) \/ LatencyUp(b))
    [] c = "upstream_dependency_failure" -> b.unhealthy # <<>>
    [] c = "traffic_overload" -> TrafficUp(b) /\ Recent(b) = {} /\ b.unhealthy = <<>>
    [] c = "resource_saturation" -> Anom(b, "cpu_usage") \/ Anom(b, "memory_usage")
    [] OTHER -> FALSE

\* What is formed: the inconclusive one when nothing is suspected.
Hypotheses(b) ==
  LET found == {c \in Categories : Suspects(b, c)}
  IN  IF found = {} THEN {"inconclusive"} ELSE found

Found(b, m) == If(Anom(b, m), {<<"metric", m>>})

\* What a hypothesis rests on, before a past incident is added to the first one.
Rests(b, c) ==
  CASE c = "database_saturation" ->
         {<<"metric", "database_connections">>} \cup Latency(b) \cup Errors(b) \cup Deploy(b)
         \cup If(b.conn_logs, {<<"logs", "connection_errors">>})
    [] c = "deployment_regression" ->
         Deploy(b) \cup Errors(b) \cup Latency(b)
         \cup If(b.error_lines > 20, {<<"logs", "error_sample">>})
    [] c = "upstream_dependency_failure" ->
         {<<"dep", b.unhealthy[1].service>>} \cup Latency(b) \cup Errors(b)
    [] c = "traffic_overload" ->
         Found(b, "request_count") \cup Found(b, "queue_depth") \cup Latency(b)
    [] c = "resource_saturation" -> Found(b, "cpu_usage") \cup Found(b, "memory_usage")
    [] OTHER -> {<<"metric", m>> : m \in b.metrics \cap {"request_latency_ms", "error_rate"}}

\* The first hypothesis is the one a similar incident of the past speaks for.
IsFirst(b, c) == \A d \in Hypotheses(b) : Position[c] <= Position[d]

Prior(b, c) == b.similar /\ c # "inconclusive" /\ IsFirst(b, c)

Cites(b, c) == Rests(b, c) \cup If(Prior(b, c), {<<"prior", "incident">>})

\* _confidence_for.
ConfidenceFor(support) == IF support >= 4 THEN 91 ELSE <<30, 46, 68, 82>>[support + 1]

\* Deviation: a failed datastore is nothing special.
Judged_NoDatastore(b, c) ==
  LET support == Cardinality(Rests(b, c))
  IN  CASE c = "deployment_regression" /\ DbPressure(b) -> Least(ConfidenceFor(support), 74)
        [] c = "resource_saturation" ->
             LET plain == ConfidenceFor(support + Cardinality(Latency(b)))
             IN  IF Recent(b) # {} \/ b.unhealthy # <<>> \/ DbPressure(b) THEN Least(plain, 55) ELSE plain
        [] c = "inconclusive" -> 32
        [] OTHER -> ConfidenceFor(support)

\* The confidence of a hypothesis by its support, with the caps.
Judged(b, c) ==
  LET support == Cardinality(Rests(b, c))
  IN  CASE c = "deployment_regression" /\ DbPressure(b) -> Least(ConfidenceFor(support), 74)
        [] c = "upstream_dependency_failure" ->
             IF b.unhealthy[1].kind = "datastore"
             THEN Least(ConfidenceFor(support) + 5, 94) ELSE ConfidenceFor(support)
        [] c = "resource_saturation" ->
             LET plain == ConfidenceFor(support + Cardinality(Latency(b)))
             IN  IF Recent(b) # {} \/ b.unhealthy # <<>> \/ DbPressure(b) THEN Least(plain, 55) ELSE plain
        [] c = "inconclusive" -> 32
        [] OTHER -> ConfidenceFor(support)

Confidence(b, c) == IF Prior(b, c) THEN Least(95, Judged(b, c) + 4) ELSE Judged(b, c)

\* The sort is stable: of equal confidences the one formed first leads.
Top(b) ==
  LET confidence == [c \in Hypotheses(b) |-> Confidence(b, c)]
  IN  CHOOSE c \in DOMAIN confidence : \A d \in DOMAIN confidence \ {c} :
        \/ confidence[c] > confidence[d]
        \/ confidence[c] = confidence[d] /\ Position[c] < Position[d]

Grounds(b) == UNION {Cites(b, c) : c \in Hypotheses(b)}

\* ---------------------------------- the evidence ----------------------------------
\* _evidence_catalog and _collect_evidence_ids: what a hypothesis may cite.
Catalogue(b) ==
  {<<"metric", m>> : m \in b.metrics} \cup {<<"anomaly", m>> : m \in b.anomalies}
  \cup {<<"deploy", b.deploys[i].ref>> : i \in DOMAIN b.deploys}
  \cup {<<"dep", b.unhealthy[i].service>> : i \in DOMAIN b.unhealthy}
  \cup If(b.similar, {<<"prior", "incident">>})
  \cup {<<"logs", "error_sample">>, <<"logs", "connection_errors">>, <<"logs", "top_patterns">>}

\* ---------------------------- a remote model's answer ----------------------------
\* A raw answer is a set of [category, confidence, cites]; Validated keeps what is in
\* the bundle and caps what rests on nothing.
\* Deviation: the cap looks at what the model claims to cite.
ValidHypothesis_AsClaimed(b, h) ==
  LET cited == h.cites \cap Catalogue(b)
  IN  [h EXCEPT !.cites = cited, !.confidence = IF h.cites = {} THEN Least(@, 50) ELSE @]

ValidHypothesis(b, h) ==
  LET cited == h.cites \cap Catalogue(b)
  IN  [h EXCEPT !.cites = cited, !.confidence = IF cited = {} THEN Least(@, 50) ELSE @]

ValidatedAnswer(b, raw) == {ValidHypothesis(b, h) : h \in raw}

\* ------------------------------------ the plan ------------------------------------
NoPlan == "no action"

\* plan: recent says that the agent found a deployment to blame.
PlannedAction(c, recent, confidence) ==
  CASE c = "inconclusive" \/ confidence < 40 -> NoPlan
    [] c = "deployment_regression" -> IF recent THEN "rollback_demo_deployment" ELSE NoPlan
    [] c = "database_saturation" -> IF recent THEN "rollback_demo_deployment" ELSE "scale_demo_service"
    [] c = "upstream_dependency_failure" -> "disable_demo_feature_flag"
    [] c = "traffic_overload" -> "scale_demo_service"
    [] c = "resource_saturation" -> "restart_demo_service"
    [] OTHER -> NoPlan

PlanRisk(action) ==
  IF action \in {"rollback_demo_deployment", "restart_demo_service"} THEN "MEDIUM" ELSE "LOW"
=============================================================================
