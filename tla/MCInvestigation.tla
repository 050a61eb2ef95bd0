--------------------------- MODULE MCInvestigation ---------------------------
EXTENDS Investigation

Quiet == [Nothing EXCEPT !.metrics = {"request_latency_ms"}]

\* A deployment that exhausts the connections; the error rate has no rows.
Exhausted ==
  [Nothing EXCEPT !.metrics = {"request_latency_ms", "database_connections"},
                  !.anomalies = {"request_latency_ms", "database_connections"},
                  !.error_lines = 60, !.conn_logs = TRUE,
                  !.deploys = <<[ref |-> "DEP-2", minutes |-> 4], [ref |-> "DEP-1", minutes |-> 90]>>]

\* A datastore is down, and the caller's processor is busy.
Upstream ==
  [Nothing EXCEPT !.metrics = {"cpu_usage"}, !.anomalies = {"cpu_usage"}, !.similar = TRUE,
                  !.unhealthy = <<[service |-> "postgres", kind |-> "datastore"]>>]

MCBundles == {Quiet, Exhausted, Upstream}

Claim(category, confidence, cites) == [category |-> category, confidence |-> confidence, cites |-> cites]

Answer(hypotheses, cause, confidence) ==
  [hypotheses |-> hypotheses, root_cause |-> cause, confidence |-> confidence]

\* What a model may say: with evidence, without, with some that is made up, and nothing.
MCAnswers ==
  {Answer({Claim("database_saturation", 90, {<<"metric", "database_connections">>, <<"deploy", "DEP-2">>})},
          "database_saturation", 90),
   Answer({Claim("traffic_overload", 80, {}),
           Claim("upstream_dependency_failure", 95, {<<"dep", "postgres">>, <<"metric", "made up">>})},
          "upstream_dependency_failure", 95),
   Answer({}, "inconclusive", 20)}

\* What a person may say: words of his own, or what the findings say too.
MCTexts == {"a person's words", "database_saturation"}
=============================================================================
