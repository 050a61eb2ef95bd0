---------------------------- MODULE DemoTelemetry ---------------------------
(***************************************************************************)
(* The telemetry the demo generator writes (demo/generator.py) and what    *)
(* the readers of the platform make of it: health (telemetry/aggregate.py) *)
(* anomalies (detection/anomaly.py, baseline.py), series (query.py) and    *)
(* log counts (ai/tools.py).                                               *)
(*                                                                         *)
(* Rows are one minute apart, and a function of the call of generate that  *)
(* wrote them: the state keeps for every minute with rows the call, which  *)
(* is its time, its scenario, and since when each fault had been healed.   *)
(* ripple is the daily ripple and the noise together, in per cent; it      *)
(* changes too little within a demo to be told apart from a constant.      *)
(* Readings are in hundredths of their unit.                               *)
(***************************************************************************)
EXTENDS DemoTopology, FiniteSetsExt

VARIABLES telemetry,      \* the call of generate that wrote the rows of a minute
          ripple

Never == -1000            \* before any time
FaultMinutes == 18        \* fault_minutes: the fault is that old when it is written
History == 60             \* minutes_history is 180: only the baseline goes back beyond this

\* ------------------------------- what is written -------------------------------
\* A call of generate: now, the scenario, and for every service with a fault when a
\* remediation suppressed it (Never if none did).
Generation(now, key, healed) == [at |-> now, key |-> key, healed |-> healed]

Written(g) == (g.at - History)..g.at

\* Deviation: the window is not purged; of two rows of a minute the older one counts.
Regenerated_Unpurged(g) ==
  [t \in DOMAIN telemetry \cup Written(g) |-> IF t \in DOMAIN telemetry THEN telemetry[t] ELSE g]

\* _purge_window, then the new rows: what was written up to one minute ahead, by whatever
\* clock, is gone.
Regenerated(g) ==
  LET kept == DOMAIN telemetry \ (g.at - History - 5)..(g.at + 1)
  IN  [t \in kept \cup Written(g) |-> IF t \in kept THEN telemetry[t] ELSE g]

\* The minutes since `since` that have rows, those ahead of the clock included.
RowsSince(since) == {t \in DOMAIN telemetry : t >= since}

RowsWithin(since, until) == {t \in since..until : t \in DOMAIN telemetry}

Faulty(g, s) == s \in DOMAIN SCENARIOS[g.key].faults

\* Deviation: a suppressed fault is not healed.
Healed_Never(g, s, t) == 0

\* How much of a suppressed fault is gone, in per cent: all of it after two minutes.
Healed(g, s, t) ==
  IF g.healed[s] = Never \/ t < g.healed[s] THEN 0 ELSE Min({(t - g.healed[s]) * 50, 100})

\* _fault_scale, in per cent: a ramp of five minutes.
Scale(g, s, t) ==
  LET start == g.at - FaultMinutes
  IN  IF ~ Faulty(g, s) \/ t < start THEN 0
      ELSE (Min({(t - start) * 20, 100}) * (100 - Healed(g, s, t))) \div 100

Multiplier(g, s, m) ==
  LET by == SCENARIOS[g.key].faults[s].multipliers
  IN  IF m \in DOMAIN by THEN by[m] ELSE 100

\* The value of a metric that the fault has at this strength, relative to the usual
\* one, in 1/10000.
Relative(g, s, m, t) ==
  IF Faulty(g, s) THEN 10000 + (Multiplier(g, s, m) - 100) * Scale(g, s, t) ELSE 10000

Reading(s, m, t) ==
  LET g == telemetry[t]
      base == (SERVICES[s].baseline[m] * Relative(g, s, m, t) * ripple) \div 10000
      added == IF m = "error_rate" /\ Faulty(g, s)
               THEN SCENARIOS[g.key].faults[s].add_error * Scale(g, s, t) ELSE 0
  IN  IF m = "error_rate" THEN Min({base + added, 950000}) ELSE base + added

\* The error lines of a minute: written while the fault is above 15 per cent.  The few
\* lines of an untroubled service stay below every threshold and are left out.
ErrorLines(s, t) ==
  LET g == telemetry[t]
  IN  IF Scale(g, s, t) > 15
      THEN Larger(1, (SCENARIOS[g.key].faults[s].lines * Scale(g, s, t)) \div 100) ELSE 0

\* -------------------------------- what is read --------------------------------
Average(s, m, rows) == MapThenSumSet(LAMBDA t : Reading(s, m, t), rows) \div Cardinality(rows)

Highest(s, m, rows) == Max({Reading(s, m, t) : t \in rows})

\* Log counts have no upper bound in time.
ErrorsSince(s, since) == MapThenSumSet(LAMBDA t : ErrorLines(s, t), RowsSince(since))

\* compute_service_health over w minutes.  The p95 of at most eleven rows is the
\* highest of them.
Health(s, now, w) ==
  LET rows == RowsWithin(now - w, now)
      p95 == Highest(s, "request_latency_ms", rows)
      errors == Average(s, "error_rate", rows)
      slo == SERVICES[s]
  IN  IF rows = {}
      THEN IF ErrorsSince(s, now - w) = 0 THEN "UNKNOWN"
           ELSE IF ErrorsSince(s, now - w) > 50 THEN "DEGRADED" ELSE "HEALTHY"
      ELSE IF p95 > slo.slo_latency * 300 \/ errors > Larger(slo.slo_error * 500, 100000)
           THEN "UNHEALTHY"
      ELSE IF p95 > slo.slo_latency * 100 \/ errors > slo.slo_error * 100
              \/ ErrorsSince(s, now - w) > 50
           THEN "DEGRADED" ELSE "HEALTHY"

Unwell(s, now, w) == Health(s, now, w) \in {"DEGRADED", "UNHEALTHY"}

\* ---------------------------------- anomalies ----------------------------------
\* How far a reading is from the mean of the baseline, in 1/10000 of it.  The baseline
\* ends 26 minutes ago, before any fault that is being written.
Deviation(s, m, t) ==
  LET g == telemetry[t]
      added == IF m = "error_rate" /\ Faulty(g, s)
               THEN (SCENARIOS[g.key].faults[s].add_error * Scale(g, s, t) * 100)
                    \div SERVICES[s].baseline[m]
               ELSE 0
  IN  Relative(g, s, m, t) - 10000 + added

\* A deviation of 3.5 spreads is 12 to 15 per cent of the mean (noise of 6 per cent,
\* drift of 12 a day).  Noise cannot make one out of nothing, but it decides below
\* SureAnomaly.
SureAnomaly == 3900
NoAnomaly == 300

\* detect_for_metric: the last three of at least six rows have to deviate, wherever the
\* clock is.  Only high anomalies are kept: nothing reads a low one.
LastRows(now) ==
  LET rows == RowsSince(now - 20)
  IN  {t \in rows : Cardinality({u \in rows : u > t}) < 3}

Deviating(s, last, by) ==
  {m \in DOMAIN SERVICES[s].baseline : \A t \in last : Deviation(s, m, t) > by}
=============================================================================
