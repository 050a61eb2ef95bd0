--------------------------- MODULE IncidentEngine ---------------------------
(***************************************************************************)
(* The incident engine (incidents/engine.py) with the correlation of       *)
(* alerts into incidents (detection/correlation.py), one transaction at a  *)
(* time: every action below is one whole request or event handler, from    *)
(* its first read to its commit.  A handler that raises rolls back and     *)
(* leaves the tables as they were, so it is not an action.  What happens   *)
(* when transactions overlap is the subject of IncidentSessions.           *)
(*                                                                         *)
(* The worker evaluates the alert rules and ingests what fired in one      *)
(* transaction (workers/handlers.py, on_telemetry_received), so an alert   *)
(* is always linked to an incident by the time anybody else can see it.    *)
(* Several alerts ingested by one handler are several Fire steps in a row. *)
(*                                                                         *)
(* Severity, titles, summaries, blast radius and findings are data that no *)
(* property here tells apart; they are left out.  The timestamps and the   *)
(* run id of an incident are columns of IncidentSessions, which is about   *)
(* what overlapping requests do to the columns of one row.                 *)
(***************************************************************************)
EXTENDS Integers, Sequences, FiniteSets

CONSTANTS
  Service,          \* services of one environment
  Fingerprint,      \* alert fingerprints: service | signal kind | subject | severity
  ServiceOf,        \* the service a fingerprint names
  Neighbours,       \* direct upstream and downstream services of each service
  CorrelationWindow,\* CORRELATION_WINDOW, in ticks
  MaxTime,          \* bound: the clock stops here
  MaxAlerts         \* bound: alerts ever fired

ASSUME ServicesAssumption ==
  /\ ServiceOf \in [Fingerprint -> Service]
  /\ Neighbours \in [Service -> SUBSET Service]
  /\ \A s, t \in Service : t \in Neighbours[s] <=> s \in Neighbours[t]

ASSUME BoundsAssumption ==
  /\ CorrelationWindow \in Nat
  /\ MaxTime \in Nat
  /\ MaxAlerts \in Nat

VARIABLES
  now,              \* the clock
  alerts,           \* the alerts table, in the order the alerts fired
  incidents         \* the incidents table, in the order the incidents were created

vars == <<now, alerts, incidents>>

\* The state machine of the incidents, which this module implements.
Machine ==
  INSTANCE IncidentFsm
    WITH IncidentId <- 1 .. MaxAlerts,
         status <- [i \in 1 .. MaxAlerts |->
                      IF i \in DOMAIN incidents THEN incidents[i].status ELSE "NONE"]

AlertIds == DOMAIN alerts
IncidentIds == DOMAIN incidents

Alert ==
  [fingerprint : Fingerprint, state : {"FIRING", "RESOLVED"}, incident_id : Nat \ {0}]

Incident ==
  [status : Machine!IncidentStatus,
   service : Service,
   detected_at : 0 .. MaxTime,
   correlated_alert_refs : SUBSET (Nat \ {0}),
   alert_count : Nat,
   archived : BOOLEAN]              \* a HistoricalIncident was written

TypeOK ==
  /\ now \in 0 .. MaxTime
  /\ alerts \in Seq(Alert)
  /\ incidents \in Seq(Incident)
  /\ \A a \in AlertIds : alerts[a].incident_id \in IncidentIds

IsOpen(i) == incidents[i].status \in Machine!OPEN_INCIDENT_STATUSES
IsFiring(a) == alerts[a].state = "FIRING"

-----------------------------------------------------------------------------
(***************************************************************************)
(* Correlation: find_incident_for_alert                                    *)
(***************************************************************************)

PriorAlerts(fp) == {a \in AlertIds : alerts[a].fingerprint = fp}

\* The last alert that fired with this fingerprint (ORDER BY fired_at DESC LIMIT 1).
MostRecent(fp) == {a \in PriorAlerts(fp) : \A b \in PriorAlerts(fp) : b <= a}

\* The open incident that alert is tied to, if it is still open.
DedupIncidents(fp) == {i \in {alerts[a].incident_id : a \in MostRecent(fp)} : IsOpen(i)}

RelatedServices(s) == {s} \cup Neighbours[s]

\* Open incidents on a related service detected within the window.
RecentRelated(fp) ==
  {i \in IncidentIds :
     /\ IsOpen(i)
     /\ incidents[i].detected_at >= now - CorrelationWindow
     /\ incidents[i].service \in RelatedServices(ServiceOf[fp])}

\* ORDER BY detected_at DESC, the first that is related.
Newest(S) == {i \in S : \A j \in S : incidents[j].detected_at <= incidents[i].detected_at}

\* Deviation: correlation without the fingerprint lookup.
Correlated_NoDedup(fp) == Newest(RecentRelated(fp))

\* Deviation: only the alert's own service is searched, not its neighbours.
Correlated_OwnService(fp) ==
  IF DedupIncidents(fp) # {} THEN DedupIncidents(fp)
  ELSE Newest({i \in RecentRelated(fp) : incidents[i].service = ServiceOf[fp]})

\* The incidents the alert may be attached to; empty when a new one is opened.
Correlated(fp) ==
  IF DedupIncidents(fp) # {} THEN DedupIncidents(fp) ELSE Newest(RecentRelated(fp))

-----------------------------------------------------------------------------
(***************************************************************************)
(* Alerts: evaluate_all_rules and ingest_alert                             *)
(***************************************************************************)

NewAlert(fp, i) == [fingerprint |-> fp, state |-> "FIRING", incident_id |-> i]

NewIncident(s, a) ==
  [status |-> "DETECTED", service |-> s, detected_at |-> now,
   correlated_alert_refs |-> {a}, alert_count |-> 1, archived |-> FALSE]

\* Deviation: the reference is added, the counter is not.
WithAlert_NoCount(inc, a) == [inc EXCEPT !.correlated_alert_refs = @ \cup {a}]

\* _attach_alert: an alert already listed is not counted again.
WithAlert(inc, a) ==
  IF a \in inc.correlated_alert_refs THEN inc
  ELSE [inc EXCEPT !.correlated_alert_refs = @ \cup {a}, !.alert_count = @ + 1]

\* _fire_or_refresh only refreshes an alert that is firing already.
MayFire(fp) ==
  /\ Len(alerts) < MaxAlerts
  /\ \A a \in PriorAlerts(fp) : ~IsFiring(a)

\* An alert fires and joins an open incident.
Attach(fp) ==
  \E i \in Correlated(fp) :
    /\ MayFire(fp)
    /\ alerts' = Append(alerts, NewAlert(fp, i))
    /\ incidents' = [incidents EXCEPT ![i] = WithAlert(@, Len(alerts) + 1)]
    /\ UNCHANGED now

\* An alert fires and nothing correlates: _incident_ref numbers the new incident
\* one above the last.
Open(fp) ==
  /\ Correlated(fp) = {}
  /\ MayFire(fp)
  /\ alerts' = Append(alerts, NewAlert(fp, Len(incidents) + 1))
  /\ incidents' = Append(incidents, NewIncident(ServiceOf[fp], Len(alerts) + 1))
  /\ UNCHANGED now

\* The rule no longer breaches: _resolve.
ClearAlert(a) ==
  /\ IsFiring(a)
  /\ alerts' = [alerts EXCEPT ![a].state = "RESOLVED"]
  /\ UNCHANGED <<now, incidents>>

-----------------------------------------------------------------------------
(***************************************************************************)
(* The state machine: transition and the handlers that call it             *)
(***************************************************************************)

\* Deviation: transition does not look the move up in the table.
Allowed_Unchecked(i, to) == incidents[i].status # to

\* A move to the present status is a no-op, any other must be in the table.
Allowed(i, to) == to \in Machine!INCIDENT_TRANSITIONS[incidents[i].status]

Stays(i, to) == incidents[i].status = to

Moved(inc, to) == [inc EXCEPT !.status = to]

Acknowledge(i) ==
  /\ Allowed(i, "ACKNOWLEDGED")
  /\ incidents' = [incidents EXCEPT ![i] = Moved(@, "ACKNOWLEDGED")]
  /\ UNCHANGED <<now, alerts>>

\* Deviation: the incident is resolved, its alerts keep firing.
Quieted_Kept(i) == alerts

\* The alerts table once every firing alert of the incident is resolved.
Quieted(i) ==
  [a \in AlertIds |->
     IF alerts[a].incident_id = i THEN [alerts[a] EXCEPT !.state = "RESOLVED"] ELSE alerts[a]]

Resolve(i) ==
  /\ Allowed(i, "RESOLVED")
  /\ incidents' = [incidents EXCEPT ![i] = Moved(@, "RESOLVED")]
  /\ alerts' = Quieted(i)
  /\ UNCHANGED now

\* Resolving a resolved incident moves nothing but still sweeps its alerts.
ResolveAgain(i) ==
  /\ Stays(i, "RESOLVED")
  /\ alerts' = Quieted(i)
  /\ UNCHANGED <<now, incidents>>

\* close: the move, then archive_incident.
Close(i) ==
  /\ Allowed(i, "CLOSED")
  /\ incidents' = [incidents EXCEPT ![i] = [Moved(@, "CLOSED") EXCEPT !.archived = TRUE]]
  /\ UNCHANGED <<now, alerts>>

\* investigate: start_investigation_state moves only an incident nobody has
\* touched.  When the session breaks, _mark_failed rolls the move back.
Investigate(i) ==
  /\ Stays(i, "DETECTED")
  /\ Allowed(i, "INVESTIGATING")
  /\ incidents' = [incidents EXCEPT ![i] = Moved(@, "INVESTIGATING")]
  /\ UNCHANGED <<now, alerts>>

\* execute of an approved remediation; policy lets it through only on an open
\* incident, and the StateTransitionError of a DETECTED one is swallowed.
Mitigate(i) ==
  /\ Allowed(i, "MITIGATING")
  /\ incidents' = [incidents EXCEPT ![i] = Moved(@, "MITIGATING")]
  /\ UNCHANGED <<now, alerts>>

Tick ==
  /\ now < MaxTime
  /\ now' = now + 1
  /\ UNCHANGED <<alerts, incidents>>

-----------------------------------------------------------------------------
Init ==
  /\ now = 0
  /\ alerts = <<>>
  /\ incidents = <<>>

Next ==
  \/ Tick
  \/ \E fp \in Fingerprint : Attach(fp) \/ Open(fp)
  \/ \E a \in AlertIds : ClearAlert(a)
  \/ \E i \in IncidentIds :
       \/ Acknowledge(i) \/ Resolve(i) \/ ResolveAgain(i) \/ Close(i)
       \/ Investigate(i) \/ Mitigate(i)

Spec == Init /\ [][Next]_vars

-----------------------------------------------------------------------------
(***************************************************************************)
(* Properties                                                              *)
(***************************************************************************)

\* Deduplication: two alerts with one fingerprint are never spread over two
\* incidents while the earlier one's is still open; correlation.py looks only at
\* the last alert of a fingerprint, and this is why that is enough.
OneOpenIncidentPerFingerprint ==
  \A a, b \in AlertIds :
    alerts[a].fingerprint = alerts[b].fingerprint
      /\ IsOpen(alerts[a].incident_id) /\ IsOpen(alerts[b].incident_id)
    => alerts[a].incident_id = alerts[b].incident_id

\* The two places that record which alerts make up an incident agree: the foreign
\* key on the alert, and the list and counter on the incident.
LinksAgree ==
  \A i \in IncidentIds :
    /\ incidents[i].correlated_alert_refs = {a \in AlertIds : alerts[a].incident_id = i}
    /\ incidents[i].alert_count = Cardinality(incidents[i].correlated_alert_refs)

\* Nothing fires under a resolved incident: resolve() sweeps the alerts it finds
\* and correlation attaches no later alert to it.
ResolvedIsQuiet ==
  \A a \in AlertIds : incidents[alerts[a].incident_id].status = "RESOLVED" => ~IsFiring(a)

\* Two open incidents on related services were detected more than a correlation
\* window apart: one outage that fires many alerts is one incident.
OneIncidentPerOutage ==
  \A i, j \in IncidentIds :
    /\ i < j
    /\ IsOpen(i) /\ IsOpen(j)
    /\ incidents[j].service \in RelatedServices(incidents[i].service)
    => incidents[j].detected_at > incidents[i].detected_at + CorrelationWindow

\* Every incident, whatever handlers touch it in whatever order, moves only along
\* the table; CLOSED is final and nothing comes back out of RESOLVED but CLOSED
\* or INVESTIGATING.
ImplementsFsm == Machine!Spec

\* docs/incident-lifecycle.md draws a single arrow into CLOSED, from RESOLVED.
ClosedOnlyFromResolved ==
  [][\A i \in IncidentIds :
       incidents'[i].status = "CLOSED" => incidents[i].status \in {"RESOLVED", "CLOSED"}]_vars
=============================================================================
