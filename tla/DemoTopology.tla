---------------------------- MODULE DemoTopology ----------------------------
(***************************************************************************)
(* The demo environment as tables (demo/topology.py, demo/scenarios.py):   *)
(* services with their objectives and the usual reading of every metric,   *)
(* the dependencies, the alert rules in the order they are created, and    *)
(* the scenarios.                                                          *)
(*                                                                         *)
(* Latencies are in ms, error rates in 1/10000, usages in per cent.  Left  *)
(* out are memory_usage, which no scenario moves, and error_count, which   *)
(* moves with error_rate and is read together with it.                     *)
(***************************************************************************)
EXTENDS Integers, Sequences, FiniteSets

Service(kind, tier, latency, error, baseline) ==
  [kind |-> kind, tier |-> tier, slo_latency |-> latency, slo_error |-> error,
   baseline |-> baseline]

SERVICES ==
  [web_frontend |-> Service("service", 1, 400, 200,
     [request_latency_ms |-> 180, request_count |-> 900, error_rate |-> 60, cpu_usage |-> 35]),
   api_gateway |-> Service("service", 1, 250, 100,
     [request_latency_ms |-> 90, request_count |-> 1400, error_rate |-> 40, cpu_usage |-> 40,
      queue_depth |-> 4]),
   order_service |-> Service("service", 1, 300, 150,
     [request_latency_ms |-> 120, request_count |-> 850, error_rate |-> 80, cpu_usage |-> 45,
      queue_depth |-> 6]),
   payment_service |-> Service("service", 1, 280, 100,
     [request_latency_ms |-> 140, request_count |-> 620, error_rate |-> 70, cpu_usage |-> 50,
      database_connections |-> 34, queue_depth |-> 3]),
   inventory_service |-> Service("service", 2, 260, 200,
     [request_latency_ms |-> 110, request_count |-> 700, error_rate |-> 90, cpu_usage |-> 40,
      database_connections |-> 22]),
   notification_service |-> Service("service", 3, 500, 300,
     [request_latency_ms |-> 220, request_count |-> 400, error_rate |-> 120, cpu_usage |-> 30,
      queue_depth |-> 12]),
   postgresql |-> Service("datastore", 1, 60, 50,
     [request_latency_ms |-> 12, request_count |-> 3200, error_rate |-> 10, cpu_usage |-> 40,
      database_connections |-> 120]),
   redis |-> Service("cache", 2, 15, 20,
     [request_latency_ms |-> 3, request_count |-> 5000, error_rate |-> 5, cpu_usage |-> 20])]

Services == DOMAIN SERVICES

\* Caller and what it depends on.
DEPENDENCIES ==
  {<<"web_frontend", "api_gateway">>, <<"api_gateway", "order_service">>,
   <<"order_service", "payment_service">>, <<"order_service", "inventory_service">>,
   <<"order_service", "notification_service">>, <<"payment_service", "postgresql">>,
   <<"inventory_service", "postgresql">>, <<"order_service", "postgresql">>,
   <<"payment_service", "redis">>, <<"order_service", "redis">>,
   <<"notification_service", "redis">>}

DependsOn(s) == {d \in Services : <<s, d>> \in DEPENDENCIES}

Neighbours(s) == {s} \cup DependsOn(s) \cup {c \in Services : <<c, s>> \in DEPENDENCIES}

\* --------------------------------- alert rules ---------------------------------
Rule(s, kind, metric, threshold) ==
  [service |-> s, kind |-> kind, metric |-> metric, threshold |-> threshold]

Larger(low, n) == IF n < low THEN low ELSE n

\* The rules of a service; no message the generator writes contains the word "error",
\* so that the third never sees a line.
RulesOf(s) ==
  <<Rule(s, "ERROR_RATE", "error_rate", Larger(300, (SERVICES[s].slo_error * 5) \div 2)),
    Rule(s, "LATENCY", "request_latency_ms", SERVICES[s].slo_latency * 2),
    Rule(s, "LOG_MATCH", "error", 40)>>

\* In the order they are created, which is the order they are evaluated in.
RULES ==
  RulesOf("web_frontend") \o RulesOf("api_gateway") \o RulesOf("order_service") \o
  RulesOf("payment_service") \o RulesOf("inventory_service") \o RulesOf("notification_service") \o
  <<Rule("payment_service", "RESOURCE", "database_connections", 85),
    Rule("notification_service", "RESOURCE", "queue_depth", 120),
    Rule("postgresql", "SERVICE_HEALTH", "", 1)>>

\* The same for every rule: window_seconds and for_seconds, in minutes.
Window == 5
ForMinutes == 2

\* ---------------------------------- scenarios ----------------------------------
\* A fault multiplies some metrics (in per cent of the usual reading), adds to the
\* error rate and writes so many error lines a minute; conn says that the lines tell
\* of exhausted connections.
Fault(category, multipliers, add, lines, conn) ==
  [category |-> category, multipliers |-> multipliers, add_error |-> add, lines |-> lines,
   conn |-> conn]

Scenario(faults, category, service, evidence) ==
  [faults |-> faults, category |-> category, service |-> service, evidence |-> evidence]

NoService == "no service"

SCENARIOS ==
  [normal |-> Scenario([s \in {} |-> {}], "inconclusive", NoService, {}),
   db_exhaustion |-> Scenario(
     [payment_service |-> Fault("database_saturation",
        [database_connections |-> 310, request_latency_ms |-> 650, cpu_usage |-> 140,
         request_count |-> 85], 1300, 6, TRUE)],
     "database_saturation", "payment_service",
     {<<"metric", "database_connections">>, <<"metric", "request_latency_ms">>,
      <<"logs", "connection_errors">>}),
   deploy_regression |-> Scenario(
     [order_service |-> Fault("deployment_regression",
        [request_latency_ms |-> 260, cpu_usage |-> 125, request_count |-> 95], 850, 5, FALSE)],
     "deployment_regression", "order_service",
     {<<"metric", "error_rate">>, <<"metric", "request_latency_ms">>}),
   dependency_failure |-> Scenario(
     [postgresql |-> Fault("upstream_dependency_failure",
        [request_latency_ms |-> 1400, cpu_usage |-> 180], 4000, 8, FALSE),
      payment_service |-> Fault("upstream_dependency_failure",
        [request_latency_ms |-> 550, database_connections |-> 190], 1100, 5, FALSE)],
     "upstream_dependency_failure", "payment_service",
     {<<"dep", "postgresql">>, <<"metric", "request_latency_ms">>}),
   traffic_spike |-> Scenario(
     [notification_service |-> Fault("traffic_overload",
        [request_count |-> 550, queue_depth |-> 1400, request_latency_ms |-> 320,
         cpu_usage |-> 190], 500, 3, FALSE)],
     "traffic_overload", "notification_service",
     {<<"metric", "queue_depth">>, <<"metric", "request_count">>})]

\* The deployment a scenario inserts, and when: so many minutes before the fault.
DeployedService(key) == IF key = "deploy_regression" THEN {"order_service"} ELSE {}
DeployedBeforeFault == 6
=============================================================================
