-------------------------- MODULE IncidentSeverity --------------------------
(***************************************************************************)
(* The severity of an incident (incidents/severity.py) and how it follows  *)
(* the alerts the incident takes in (incidents/engine.py), one handler at  *)
(* a time.  Points are in tenths; error rates and latencies are multiples  *)
(* of the service's objective, rounded down.                               *)
(***************************************************************************)
EXTENDS Integers, Sequences

CONSTANTS Tier,        \* the tier of the incident's service
          MaxReading,  \* bound on multiples of an objective
          MaxAlerts    \* bound on the alerts of the incident

VARIABLES severity,    \* the incident's, or Unset
          alerts       \* those linked to it, in order

vars == <<severity, alerts>>

AlertSeverity == {"CRITICAL", "HIGH", "MEDIUM", "LOW"}
SeverityRank == [SEV1 |-> 1, SEV2 |-> 2, SEV3 |-> 3, SEV4 |-> 4]
Severities == DOMAIN SeverityRank
Unset == "unset"
None == -1             \* no measurement

Alert == [severity : AlertSeverity, health_rule : BOOLEAN]

\* What is measured when an alert is taken in: of the service, and of the tier-1
\* services in its blast radius.
Health ==
  [error : {None} \cup 0 .. MaxReading, latency : {None} \cup 0 .. MaxReading, impacted : Nat]

\* ------------------------------------ score ------------------------------------
Signals ==
  [tier : Int, alert : AlertSeverity, correlated : Nat, error : Int, latency : Int,
   impacted : Nat, outage : BOOLEAN]

TierPoints(tier) ==
  CASE tier = 1 -> 40 [] tier = 2 -> 20 [] tier = 3 -> 5 [] tier = 4 -> 0 [] OTHER -> 10

AlertPoints(level) ==
  CASE level = "CRITICAL" -> 40 [] level = "HIGH" -> 25 [] level = "MEDIUM" -> 10 [] level = "LOW" -> 3

\* One of the two bonuses of a signal, or none.
Step(value, low, some, high, more) == IF value >= high THEN more ELSE IF value >= low THEN some ELSE 0

Points(s) ==
  TierPoints(s.tier) + AlertPoints(s.alert) + Step(s.correlated, 2, 10, 4, 20)
    + Step(s.error, 3, 15, 10, 30) + Step(s.latency, 2, 10, 5, 25) + Step(s.impacted, 1, 10, 2, 20)
    + IF s.outage THEN 20 ELSE 0

Level(points) ==
  IF points >= 100 THEN "SEV1" ELSE IF points >= 65 THEN "SEV2" ELSE IF points >= 35 THEN "SEV3" ELSE "SEV4"

Score(s) == Level(Points(s))

\* ---------------------------------- the incident ----------------------------------
Has(as, level) == \E i \in DOMAIN as : as[i].severity = level

Worst(as) ==
  IF Has(as, "CRITICAL") THEN "CRITICAL" ELSE IF Has(as, "HIGH") THEN "HIGH"
  ELSE IF Has(as, "MEDIUM") THEN "MEDIUM" ELSE "LOW"

\* _severity_for the service and the alerts the query answers with.
SignalsOf(as, h) ==
  [tier |-> Tier, alert |-> Worst(as), correlated |-> Len(as), error |-> h.error, latency |-> h.latency,
   impacted |-> h.impacted,
   outage |-> h.error = None /\ \E i \in DOMAIN as : as[i].health_rule]

Init == severity = Unset /\ alerts = <<>>

\* ingest_alert opens the incident ...
OpenIncident(a, h) ==
  /\ severity = Unset
  /\ alerts' = <<a>> /\ severity' = Score(SignalsOf(<<a>>, h))

\* ... or attaches the alert: the query for the linked alerts runs before the link of
\* this one is flushed.  A severity only rises.
Attach(a, h) ==
  /\ severity # Unset /\ Len(alerts) < MaxAlerts
  /\ alerts' = Append(alerts, a)
  /\ LET new == Score(SignalsOf(alerts, h))
     IN  severity' = IF SeverityRank[new] < SeverityRank[severity] THEN new ELSE severity

Next == \E a \in Alert, h \in Health : OpenIncident(a, h) \/ Attach(a, h)

Spec == Init /\ [][Next]_vars

\* ----------------------------------- properties -----------------------------------
TypeOK == severity \in Severities \cup {Unset} /\ alerts \in Seq(Alert) /\ (severity = Unset <=> alerts = <<>>)

AtLeast(as) ==
  severity # Unset =>
    SeverityRank[severity] <= SeverityRank[Level(AlertPoints(Worst(as)) + TierPoints(Tier))]

\* Whatever was measured in between, an incident is as severe as the worst of the alerts
\* it has, on a service of its tier, makes it: of those before the last one.
SeverityKeepsUp == Len(alerts) > 1 => AtLeast(SubSeq(alerts, 1, Len(alerts) - 1))

\* "Severity is recomputed on attach and can escalate" (docs/incident-lifecycle.md):
\* the last alert counts too.
LastAlertCounts == alerts # <<>> => AtLeast(alerts)
=============================================================================
