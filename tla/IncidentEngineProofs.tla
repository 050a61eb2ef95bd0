------------------------ MODULE IncidentEngineProofs ------------------------
(***************************************************************************)
(* Proofs about IncidentEngine: the invariants and the refinement that TLC *)
(* checks on a small instance hold for every set of services, every        *)
(* dependency graph, every window and every bound.                         *)
(***************************************************************************)
EXTENDS IncidentEngine, FiniteSetTheorems, SequenceTheorems, TLAPS

-----------------------------------------------------------------------------
(***************************************************************************)
(* The inductive invariant                                                 *)
(***************************************************************************)

\* An incident is opened by an alert.
NoMoreIncidentsThanAlerts ==
  Len(incidents) <= Len(alerts) /\ Len(alerts) <= MaxAlerts

\* Once an alert's incident is open, every later alert with its fingerprint is
\* in that incident; so the last one stands for all of them.
LaterAlertsFollow ==
  \A a, b \in AlertIds :
    a < b /\ alerts[a].fingerprint = alerts[b].fingerprint /\ IsOpen(alerts[a].incident_id)
    => alerts[b].incident_id = alerts[a].incident_id

DetectedInThePast == \A i \in IncidentIds : incidents[i].detected_at <= now

IInv ==
  /\ TypeOK
  /\ NoMoreIncidentsThanAlerts
  /\ DetectedInThePast
  /\ LaterAlertsFollow
  /\ LinksAgree
  /\ ResolvedIsQuiet
  /\ OneIncidentPerOutage

-----------------------------------------------------------------------------
(***************************************************************************)
(* Lemmas about numbers and sequences                                      *)
(***************************************************************************)

\* A non-empty set of numbers with an upper bound has a largest member: were
\* there none, adding one would inject everything below the set into itself
\* without zero.
LEMMA LargestOfBounded ==
  ASSUME NEW N \in Nat, NEW S \in SUBSET (0 .. N), S # {}
  PROVE  \E m \in S : \A n \in S : n <= m
<1> SUFFICES ASSUME \A m \in S : \E n \in S : n > m
             PROVE  FALSE
  OBVIOUS
<1> DEFINE T == {x \in 0 .. N : \E y \in S : x <= y}
           f == [x \in T |-> x + 1]
<1>1. IsFiniteSet(T) /\ IsFiniteSet(T \ {0})
  <2>1. IsFiniteSet(0 .. N)
    BY FS_Interval
  <2>2. T \in SUBSET (0 .. N) /\ T \ {0} \in SUBSET (0 .. N)
    OBVIOUS
  <2> HIDE DEF T
  <2> QED BY <2>1, <2>2, FS_Subset
<1>2. 0 \in T
  <2>1. PICK y \in S : TRUE
    OBVIOUS
  <2> QED BY <2>1
<1>3. \A x \in T : x + 1 \in T \ {0}
  OBVIOUS
<1>4. f \in Injection(T, T \ {0})
  <2>1. f \in [T -> T \ {0}]
    BY <1>3
  <2>2. \A x, y \in T : f[x] = f[y] => x = y
    OBVIOUS
  <2> QED BY <2>1, <2>2, Zenon DEF Injection, IsInjective
<1> HIDE DEF T, f
<1>5. Cardinality(T) <= Cardinality(T \ {0})
  BY <1>1, <1>4, FS_Injection
<1>6. Cardinality(T \ {0}) = Cardinality(T) - 1
  BY <1>1, <1>2, FS_RemoveElement
<1>7. Cardinality(T) \in Nat
  BY <1>1, FS_CardinalityType
<1> QED BY <1>5, <1>6, <1>7

\* The rows of the two tables, and their keys.
LEMMA Rows ==
  ASSUME TypeOK
  PROVE  /\ Len(alerts) \in Nat /\ AlertIds = 1 .. Len(alerts)
         /\ Len(incidents) \in Nat /\ IncidentIds = 1 .. Len(incidents)
         /\ \A a \in AlertIds : alerts[a] \in Alert
         /\ \A i \in IncidentIds : incidents[i] \in Incident
BY DEF TypeOK, AlertIds, IncidentIds

\* The query for the last alert of a fingerprint finds one when there is any.
LEMMA MostRecentExists ==
  ASSUME TypeOK, NEW fp \in Fingerprint, PriorAlerts(fp) # {}
  PROVE  MostRecent(fp) # {}
<1>1. PriorAlerts(fp) \in SUBSET (0 .. Len(alerts)) /\ Len(alerts) \in Nat
  BY Rows DEF PriorAlerts
<1>2. \E m \in PriorAlerts(fp) : \A n \in PriorAlerts(fp) : n <= m
  BY <1>1, LargestOfBounded
<1> QED BY <1>2, Zenon DEF MostRecent

\* The query for the newest of some incidents finds one when there are any.
LEMMA NewestExists ==
  ASSUME TypeOK, BoundsAssumption, NEW S \in SUBSET IncidentIds, S # {}
  PROVE  Newest(S) # {}
<1> DEFINE T == {incidents[i].detected_at : i \in S}
<1>1. \A i \in S : incidents[i].detected_at \in 0 .. MaxTime
  BY Rows DEF Incident
<1>2. T \in SUBSET (0 .. MaxTime) /\ T # {}
  BY <1>1
<1>3. PICK m \in T : \A n \in T : n <= m
  <2> HIDE DEF T
  <2> QED BY <1>2, LargestOfBounded DEF BoundsAssumption
<1>4. PICK i \in S : incidents[i].detected_at = m
  OBVIOUS
<1>5. i \in Newest(S)
  BY <1>3, <1>4 DEF Newest
<1> QED BY <1>5

-----------------------------------------------------------------------------
(***************************************************************************)
(* What the actions do to the two tables                                   *)
(***************************************************************************)

\* The alerts table keeps its rows, and no alert starts firing.
AlertsStay ==
  /\ alerts' \in Seq(Alert)
  /\ Len(alerts') = Len(alerts)
  /\ \A a \in AlertIds :
       /\ alerts'[a].fingerprint = alerts[a].fingerprint
       /\ alerts'[a].incident_id = alerts[a].incident_id
       /\ alerts'[a].state = "FIRING" => alerts[a].state = "FIRING"

\* The incidents table keeps its rows but for status and archive, and no incident
\* reopens.
IncidentsStay ==
  /\ incidents' \in Seq(Incident)
  /\ Len(incidents') = Len(incidents)
  /\ \A i \in IncidentIds :
       /\ incidents'[i].service = incidents[i].service
       /\ incidents'[i].detected_at = incidents[i].detected_at
       /\ incidents'[i].correlated_alert_refs = incidents[i].correlated_alert_refs
       /\ incidents'[i].alert_count = incidents[i].alert_count
       /\ incidents'[i].status \in Machine!OPEN_INCIDENT_STATUSES => IsOpen(i)

\* Resolving reaches every alert of the incident.
SweepsAlerts ==
  \A a \in AlertIds :
    LET i == alerts[a].incident_id
    IN  incidents'[i].status = "RESOLVED" /\ incidents[i].status # "RESOLVED"
        => alerts'[a].state # "FIRING"

\* A step that inserts no row.
Upkeep == AlertsStay /\ IncidentsStay /\ SweepsAlerts /\ now' \in now .. MaxTime

LEMMA MovesStay ==
  ASSUME TypeOK, NEW i \in IncidentIds, NEW to \in Machine!IncidentStatus,
         Allowed(i, to),
         to \in Machine!OPEN_INCIDENT_STATUSES => IsOpen(i),
         \/ incidents' = [incidents EXCEPT ![i] = Moved(@, to)]
         \/ incidents' = [incidents EXCEPT ![i] = [Moved(@, to) EXCEPT !.archived = TRUE]]
  PROVE  /\ IncidentsStay
         /\ incidents'[i].status = to
         /\ \A j \in IncidentIds \ {i} : incidents'[j] = incidents[j]
<1>1. Moved(incidents[i], to) \in Incident
  BY Rows DEF Moved, Incident
<1>2. [Moved(incidents[i], to) EXCEPT !.archived = TRUE] \in Incident
  BY <1>1 DEF Incident
<1>3. PICK row \in Incident :
        /\ incidents' = [incidents EXCEPT ![i] = row]
        /\ row.status = to
        /\ row.service = incidents[i].service
        /\ row.detected_at = incidents[i].detected_at
        /\ row.correlated_alert_refs = incidents[i].correlated_alert_refs
        /\ row.alert_count = incidents[i].alert_count
  BY <1>1, <1>2, Rows DEF Moved, Incident
<1>4. incidents' \in Seq(Incident) /\ Len(incidents') = Len(incidents)
  BY <1>3, Rows DEF TypeOK
<1>5. \A j \in IncidentIds : incidents'[j] = IF j = i THEN row ELSE incidents[j]
  BY <1>3, Rows
<1> QED BY <1>3, <1>4, <1>5 DEF IncidentsStay, IsOpen

\* The sweep of resolve().
LEMMA QuietedStays ==
  ASSUME TypeOK, NEW i \in IncidentIds, alerts' = Quieted(i)
  PROVE  /\ AlertsStay
         /\ \A a \in AlertIds : alerts[a].incident_id = i => alerts'[a].state # "FIRING"
<1>1. \A a \in AlertIds :
        alerts'[a] = IF alerts[a].incident_id = i THEN [alerts[a] EXCEPT !.state = "RESOLVED"]
                     ELSE alerts[a]
  BY Rows DEF Quieted
<1>2. \A a \in AlertIds : alerts'[a] \in Alert
  BY <1>1, Rows DEF Alert
<1>3. alerts' \in Seq(Alert) /\ Len(alerts') = Len(alerts)
  <2>1. DOMAIN alerts' = 1 .. Len(alerts)
    BY Rows DEF Quieted
  <2> QED BY <2>1, <1>2, Rows DEF Quieted
<1> QED BY <1>1, <1>3, Rows DEF AlertsStay, Alert

\* Unchanged tables stay.
LEMMA UnchangedStays ==
  ASSUME TypeOK
  PROVE  /\ alerts' = alerts => AlertsStay
         /\ incidents' = incidents => IncidentsStay
BY DEF TypeOK, AlertsStay, IncidentsStay, IsOpen

\* Every step but Attach and Open is an upkeep of the rows there are.
LEMMA UpkeepSteps ==
  ASSUME TypeOK, BoundsAssumption,
         \/ UNCHANGED vars
         \/ Tick
         \/ \E a \in AlertIds : ClearAlert(a)
         \/ \E i \in IncidentIds :
              \/ Acknowledge(i) \/ Resolve(i) \/ ResolveAgain(i) \/ Close(i)
              \/ Investigate(i) \/ Mitigate(i)
  PROVE  Upkeep
<1>0. now \in 0 .. MaxTime /\ MaxTime \in Nat
  BY DEF TypeOK, BoundsAssumption
<1>1. CASE UNCHANGED vars
  BY <1>0, <1>1, UnchangedStays, Rows DEF vars, Upkeep, SweepsAlerts
<1>2. CASE Tick
  BY <1>0, <1>2, UnchangedStays, Rows DEF Tick, Upkeep, SweepsAlerts
<1>3. ASSUME NEW a \in AlertIds, ClearAlert(a)
      PROVE  Upkeep
  <2>1. [alerts[a] EXCEPT !.state = "RESOLVED"] \in Alert
    BY Rows DEF Alert
  <2>2. alerts' = [alerts EXCEPT ![a] = [alerts[a] EXCEPT !.state = "RESOLVED"]]
    BY <1>3 DEF ClearAlert
  <2>3. AlertsStay
    BY <2>1, <2>2, Rows, SMTT(30) DEF AlertsStay, Alert, TypeOK
  <2> QED BY <1>0, <1>3, <2>3, UnchangedStays DEF ClearAlert, Upkeep, SweepsAlerts
<1>4. ASSUME NEW i \in IncidentIds,
             \/ Acknowledge(i) \/ Resolve(i) \/ ResolveAgain(i) \/ Close(i)
             \/ Investigate(i) \/ Mitigate(i)
      PROVE  Upkeep
  <2> USE DEF Machine!IncidentStatus, Machine!OPEN_INCIDENT_STATUSES
  <2>0. incidents[i].status \in Machine!IncidentStatus
    BY Rows DEF Incident
  <2>1. CASE Acknowledge(i) \/ Investigate(i) \/ Mitigate(i)
    <3>1. PICK to \in {"ACKNOWLEDGED", "INVESTIGATING", "MITIGATING"} :
            /\ Allowed(i, to) /\ IsOpen(i)
            /\ incidents' = [incidents EXCEPT ![i] = Moved(@, to)]
            /\ alerts' = alerts /\ now' = now
      BY <2>0, <2>1 DEF Acknowledge, Investigate, Mitigate, Allowed, Stays, IsOpen,
        Machine!INCIDENT_TRANSITIONS
    <3>2. /\ IncidentsStay /\ incidents'[i].status = to
          /\ \A j \in IncidentIds \ {i} : incidents'[j] = incidents[j]
      BY <3>1, MovesStay
    <3>3. SweepsAlerts
      BY <3>1, <3>2 DEF SweepsAlerts, TypeOK
    <3> QED BY <1>0, <3>1, <3>2, <3>3, UnchangedStays DEF Upkeep
  <2>2. CASE Close(i)
    <3>1. /\ IncidentsStay /\ incidents'[i].status = "CLOSED"
          /\ \A j \in IncidentIds \ {i} : incidents'[j] = incidents[j]
      BY <2>2, MovesStay DEF Close
    <3>2. SweepsAlerts
      BY <3>1 DEF SweepsAlerts, TypeOK
    <3> QED BY <1>0, <2>2, <3>1, <3>2, UnchangedStays DEF Close, Upkeep
  <2>3. CASE Resolve(i)
    <3>1. /\ IncidentsStay /\ incidents'[i].status = "RESOLVED"
          /\ \A j \in IncidentIds \ {i} : incidents'[j] = incidents[j]
      BY <2>3, MovesStay DEF Resolve
    <3>2. AlertsStay /\ SweepsAlerts
      BY <2>3, <3>1, QuietedStays DEF Resolve, SweepsAlerts, TypeOK
    <3> QED BY <1>0, <2>3, <3>1, <3>2 DEF Resolve, Upkeep
  <2>4. CASE ResolveAgain(i)
    BY <1>0, <2>4, UnchangedStays, QuietedStays DEF ResolveAgain, Upkeep, SweepsAlerts
  <2> QED BY <1>4, <2>1, <2>2, <2>3, <2>4
<1> QED BY <1>1, <1>2, <1>3, <1>4

\* Correlation answers with open incidents.
LEMMA CorrelatedIsOpen ==
  ASSUME TypeOK, NEW fp \in Fingerprint
  PROVE  \A i \in Correlated(fp) : i \in IncidentIds /\ IsOpen(i)
BY Rows DEF Correlated, DedupIncidents, MostRecent, PriorAlerts, Newest, RecentRelated, TypeOK

\* An alert that joins incident i: one row more, and one reference more on i.
Joins(fp, i) ==
  /\ alerts' \in Seq(Alert)
  /\ Len(alerts') = Len(alerts) + 1
  /\ \A a \in AlertIds : alerts'[a] = alerts[a]
  /\ alerts'[Len(alerts) + 1] = NewAlert(fp, i)
  /\ incidents' \in Seq(Incident)
  /\ i \in DOMAIN incidents'
  /\ \A j \in IncidentIds \ {i} : incidents'[j] = incidents[j]
  /\ now' = now
  /\ Len(alerts) < MaxAlerts

LEMMA AttachJoins ==
  ASSUME TypeOK, LinksAgree, NEW fp \in Fingerprint, Attach(fp)
  PROVE  \E i \in Correlated(fp) :
           /\ Joins(fp, i)
           /\ Len(incidents') = Len(incidents)
           /\ incidents'[i] =
                [incidents[i] EXCEPT !.correlated_alert_refs = @ \cup {Len(alerts) + 1},
                                     !.alert_count = @ + 1]
<1>1. PICK i \in Correlated(fp) :
        /\ MayFire(fp)
        /\ alerts' = Append(alerts, NewAlert(fp, i))
        /\ incidents' = [incidents EXCEPT ![i] = WithAlert(@, Len(alerts) + 1)]
        /\ now' = now
  BY DEF Attach
<1>2. i \in IncidentIds
  BY CorrelatedIsOpen
<1>3. NewAlert(fp, i) \in Alert
  BY <1>2, Rows DEF NewAlert, Alert
<1>4. Len(alerts) + 1 \notin incidents[i].correlated_alert_refs
  BY <1>2, Rows DEF LinksAgree
<1> DEFINE row == [incidents[i] EXCEPT !.correlated_alert_refs = @ \cup {Len(alerts) + 1},
                                       !.alert_count = @ + 1]
<1>5. row \in Incident /\ WithAlert(incidents[i], Len(alerts) + 1) = row
  <2>1. incidents[i] \in Incident /\ Len(alerts) + 1 \in Nat \ {0}
    BY <1>2, Rows
  <2>2. incidents[i].correlated_alert_refs \cup {Len(alerts) + 1} \in SUBSET (Nat \ {0})
    BY <2>1 DEF Incident
  <2>3. incidents[i].alert_count + 1 \in Nat
    BY <2>1 DEF Incident
  <2>4. row \in Incident
    BY <2>1, <2>2, <2>3 DEF Incident
  <2> QED BY <1>4, <2>4 DEF WithAlert
<1>6. incidents' = [incidents EXCEPT ![i] = row]
  BY <1>1, <1>2, <1>5
<1> HIDE DEF row
<1>7. /\ incidents' \in Seq(Incident) /\ Len(incidents') = Len(incidents)
      /\ \A j \in IncidentIds : incidents'[j] = IF j = i THEN row ELSE incidents[j]
  BY <1>2, <1>5, <1>6, Rows, ExceptSeq DEF TypeOK
<1>8. /\ alerts' \in Seq(Alert) /\ Len(alerts') = Len(alerts) + 1
      /\ \A a \in AlertIds : alerts'[a] = alerts[a]
      /\ alerts'[Len(alerts) + 1] = NewAlert(fp, i)
  BY <1>1, <1>3, Rows DEF TypeOK
<1>9. Joins(fp, i)
  BY <1>1, <1>2, <1>7, <1>8, Rows DEF Joins, MayFire
<1> QED BY <1>2, <1>7, <1>9 DEF row

LEMMA OpenJoins ==
  ASSUME TypeOK, ServicesAssumption, NEW fp \in Fingerprint, Open(fp)
  PROVE  /\ Joins(fp, Len(incidents) + 1)
         /\ Len(incidents') = Len(incidents) + 1
         /\ incidents'[Len(incidents) + 1] = NewIncident(ServiceOf[fp], Len(alerts) + 1)
<1>1. NewAlert(fp, Len(incidents) + 1) \in Alert
  BY Rows DEF NewAlert, Alert
<1>2. NewIncident(ServiceOf[fp], Len(alerts) + 1) \in Incident
  BY Rows DEF NewIncident, Incident, TypeOK, ServicesAssumption, Machine!IncidentStatus
<1>3. /\ alerts' \in Seq(Alert) /\ Len(alerts') = Len(alerts) + 1
      /\ \A a \in AlertIds : alerts'[a] = alerts[a]
      /\ alerts'[Len(alerts) + 1] = NewAlert(fp, Len(incidents) + 1)
  BY <1>1, Rows DEF Open, TypeOK
<1>4. /\ incidents' \in Seq(Incident) /\ Len(incidents') = Len(incidents) + 1
      /\ \A i \in IncidentIds : incidents'[i] = incidents[i]
      /\ incidents'[Len(incidents) + 1] = NewIncident(ServiceOf[fp], Len(alerts) + 1)
  BY <1>2, Rows DEF Open, TypeOK
<1> QED BY <1>3, <1>4, Rows DEF Open, Joins, MayFire

-----------------------------------------------------------------------------
(***************************************************************************)
(* Every step keeps the invariant                                          *)
(***************************************************************************)

LEMMA UpkeepKeepsIInv ==
  ASSUME IInv, Upkeep
  PROVE  IInv'
<1> USE DEF IInv, Upkeep
<1>1. /\ AlertIds' = AlertIds /\ IncidentIds' = IncidentIds
      /\ alerts' \in Seq(Alert) /\ incidents' \in Seq(Incident)
      /\ Len(alerts') = Len(alerts) /\ Len(incidents') = Len(incidents)
  BY Rows DEF AlertsStay, IncidentsStay, AlertIds, IncidentIds
<1>2. /\ \A a \in AlertIds : /\ alerts'[a].fingerprint = alerts[a].fingerprint
                             /\ alerts'[a].incident_id = alerts[a].incident_id
                             /\ alerts[a].incident_id \in IncidentIds
                             /\ IsFiring(a)' => IsFiring(a)
      /\ \A i \in IncidentIds : IsOpen(i)' => IsOpen(i)
  BY <1>1 DEF TypeOK, AlertsStay, IncidentsStay, IsFiring, IsOpen
<1>3. TypeOK'
  <2>1. now' \in 0 .. MaxTime
    BY DEF TypeOK
  <2> QED BY <1>1, <1>2, <2>1 DEF TypeOK
<1>4. NoMoreIncidentsThanAlerts'
  BY <1>1 DEF NoMoreIncidentsThanAlerts
<1>5. DetectedInThePast'
  <2>1. \A i \in IncidentIds : incidents'[i].detected_at = incidents[i].detected_at
    BY DEF IncidentsStay
  <2>2. \A i \in IncidentIds : incidents[i].detected_at \in Int /\ now' \in Int /\ now \in Int
    BY Rows DEF TypeOK, Incident
  <2>3. now' >= now
    BY DEF TypeOK
  <2> QED BY <1>1, <2>1, <2>2, <2>3 DEF DetectedInThePast
<1>6. LaterAlertsFollow'
  BY <1>1, <1>2 DEF LaterAlertsFollow
<1>7. LinksAgree'
  <2>1. \A i \in IncidentIds :
          /\ incidents'[i].correlated_alert_refs = incidents[i].correlated_alert_refs
          /\ incidents'[i].alert_count = incidents[i].alert_count
          /\ {a \in AlertIds' : alerts'[a].incident_id = i}
               = {a \in AlertIds : alerts[a].incident_id = i}
    BY <1>1, <1>2 DEF IncidentsStay
  <2> QED BY <1>1, <2>1 DEF LinksAgree
<1>8. ResolvedIsQuiet'
  BY <1>1, <1>2 DEF ResolvedIsQuiet, SweepsAlerts, IsFiring
<1>9. OneIncidentPerOutage'
  BY <1>1, <1>2 DEF OneIncidentPerOutage, IncidentsStay
<1> QED BY <1>3, <1>4, <1>5, <1>6, <1>7, <1>8, <1>9

LEMMA AttachKeepsIInv ==
  ASSUME IInv, BoundsAssumption, NEW fp \in Fingerprint, Attach(fp)
  PROVE  IInv'
<1> DEFINE n == Len(alerts) + 1
<1>1. PICK i \in Correlated(fp) :
        /\ Joins(fp, i)
        /\ Len(incidents') = Len(incidents)
        /\ incidents'[i] = [incidents[i] EXCEPT !.correlated_alert_refs = @ \cup {n},
                                                !.alert_count = @ + 1]
  BY AttachJoins DEF IInv
<1>2. i \in IncidentIds /\ IsOpen(i)
  BY CorrelatedIsOpen DEF IInv
<1>3. /\ AlertIds' = AlertIds \cup {n} /\ n \notin AlertIds
      /\ \A a \in AlertIds : a < n
      /\ IncidentIds' = IncidentIds
  BY <1>1, Rows DEF IInv, Joins, AlertIds, IncidentIds
<1>4. /\ \A a \in AlertIds : alerts'[a] = alerts[a] /\ alerts[a].incident_id \in IncidentIds
      /\ alerts'[n].fingerprint = fp /\ alerts'[n].incident_id = i
  BY <1>1 DEF IInv, Joins, NewAlert, TypeOK
<1>5. \A j \in IncidentIds :
        /\ incidents'[j].status = incidents[j].status
        /\ incidents'[j].service = incidents[j].service
        /\ incidents'[j].detected_at = incidents[j].detected_at
        /\ IsOpen(j)' <=> IsOpen(j)
  <2>1. incidents[i] \in Incident
    BY <1>2, Rows DEF IInv
  <2> QED BY <1>1, <2>1, ZenonT(60) DEF Joins, IsOpen, Incident
<1>6. TypeOK'
  BY <1>1, <1>2, <1>3, <1>4 DEF IInv, TypeOK, Joins
<1>7. NoMoreIncidentsThanAlerts'
  BY <1>1, Rows DEF IInv, NoMoreIncidentsThanAlerts, Joins, BoundsAssumption
<1>8. DetectedInThePast'
  BY <1>1, <1>3, <1>5 DEF IInv, DetectedInThePast, Joins
<1>9. LaterAlertsFollow'
  <2>1. \A a \in PriorAlerts(fp) : IsOpen(alerts[a].incident_id) => alerts[a].incident_id = i
    <3> SUFFICES ASSUME NEW a \in PriorAlerts(fp), IsOpen(alerts[a].incident_id)
                 PROVE  alerts[a].incident_id = i
      OBVIOUS
    <3>1. PICK m \in MostRecent(fp) : TRUE
      BY MostRecentExists DEF IInv
    <3>2. /\ m \in AlertIds /\ a \in AlertIds /\ a <= m
          /\ alerts[m].fingerprint = fp /\ alerts[a].fingerprint = fp
      BY DEF MostRecent, PriorAlerts
    <3>3. alerts[m].incident_id = alerts[a].incident_id
      BY <3>2, Rows DEF IInv, LaterAlertsFollow
    <3>4. \A o \in MostRecent(fp) : o = m
      BY <3>1, <3>2, Rows DEF IInv, MostRecent, PriorAlerts
    <3>5. DedupIncidents(fp) = {alerts[m].incident_id}
      BY <3>1, <3>3, <3>4 DEF DedupIncidents
    <3> QED BY <1>1, <3>3, <3>5 DEF Correlated
  <2> SUFFICES ASSUME NEW a \in AlertIds', NEW b \in AlertIds', a < b,
                      alerts'[a].fingerprint = alerts'[b].fingerprint,
                      IsOpen(alerts[a].incident_id)'
               PROVE  alerts'[b].incident_id = alerts'[a].incident_id
    BY DEF LaterAlertsFollow, IsOpen
  <2>2. a \in AlertIds /\ IsOpen(alerts[a].incident_id)
    BY <1>3, <1>4, <1>5, Rows DEF IInv, IsOpen
  <2>3. CASE b = n
    BY <1>4, <2>1, <2>2, <2>3 DEF PriorAlerts
  <2>4. CASE b \in AlertIds
    BY <1>4, <2>2, <2>4 DEF IInv, LaterAlertsFollow
  <2> QED BY <1>3, <2>3, <2>4
<1>10. LinksAgree'
  <2> SUFFICES ASSUME NEW j \in IncidentIds
               PROVE  /\ incidents'[j].correlated_alert_refs
                           = {a \in AlertIds' : alerts'[a].incident_id = j}
                      /\ incidents'[j].alert_count
                           = Cardinality(incidents'[j].correlated_alert_refs)
    BY <1>3 DEF LinksAgree
  <2>1. CASE j = i
    <3>1. /\ incidents'[i].correlated_alert_refs = incidents[i].correlated_alert_refs \cup {n}
          /\ incidents'[i].alert_count = incidents[i].alert_count + 1
      BY <1>1, <1>2, Rows DEF IInv, Incident
    <3>2. /\ incidents[i].correlated_alert_refs = {a \in AlertIds : alerts[a].incident_id = i}
          /\ incidents[i].alert_count = Cardinality(incidents[i].correlated_alert_refs)
      BY <1>2 DEF IInv, LinksAgree
    <3>3. IsFiniteSet(incidents[i].correlated_alert_refs)
      <4>1. IsFiniteSet(1 .. Len(alerts))
        BY Rows, FS_Interval DEF IInv
      <4>2. incidents[i].correlated_alert_refs \in SUBSET (1 .. Len(alerts))
        BY <3>2, Rows DEF IInv
      <4> QED BY <4>1, <4>2, FS_Subset
    <3>4. Cardinality(incidents[i].correlated_alert_refs \cup {n})
            = Cardinality(incidents[i].correlated_alert_refs) + 1
      BY <1>3, <3>2, <3>3, FS_AddElement
    <3>5. {a \in AlertIds' : alerts'[a].incident_id = i}
            = {a \in AlertIds : alerts[a].incident_id = i} \cup {n}
      BY <1>3, <1>4
    <3> QED BY <2>1, <3>1, <3>2, <3>4, <3>5
  <2>2. CASE j # i
    <3>1. incidents'[j] = incidents[j]
      BY <1>1, <2>2 DEF Joins
    <3>2. {a \in AlertIds' : alerts'[a].incident_id = j}
            = {a \in AlertIds : alerts[a].incident_id = j}
      BY <1>3, <1>4, <2>2
    <3> QED BY <3>1, <3>2 DEF IInv, LinksAgree
  <2> QED BY <2>1, <2>2
<1>11. ResolvedIsQuiet'
  <2>1. incidents'[i].status # "RESOLVED"
    BY <1>2, <1>5 DEF IsOpen, Machine!OPEN_INCIDENT_STATUSES
  <2> QED BY <1>3, <1>4, <1>5, <2>1 DEF IInv, ResolvedIsQuiet, IsFiring
<1>12. OneIncidentPerOutage'
  BY <1>3, <1>5 DEF IInv, OneIncidentPerOutage
<1> QED BY <1>6, <1>7, <1>8, <1>9, <1>10, <1>11, <1>12 DEF IInv

LEMMA OpenKeepsIInv ==
  ASSUME IInv, BoundsAssumption, ServicesAssumption, NEW fp \in Fingerprint, Open(fp)
  PROVE  IInv'
<1> DEFINE n == Len(alerts) + 1
           k == Len(incidents) + 1
<1>1. /\ Joins(fp, k)
      /\ Len(incidents') = Len(incidents) + 1
      /\ incidents'[k] = NewIncident(ServiceOf[fp], n)
  BY OpenJoins DEF IInv
<1>2. Correlated(fp) = {}
  BY DEF Open
<1>3. /\ AlertIds' = AlertIds \cup {n} /\ n \notin AlertIds
      /\ \A a \in AlertIds : a < n
      /\ IncidentIds' = IncidentIds \cup {k} /\ k \notin IncidentIds
      /\ \A i \in IncidentIds : i < k
  BY <1>1, Rows DEF IInv, Joins, AlertIds, IncidentIds
<1>4. /\ \A a \in AlertIds : alerts'[a] = alerts[a] /\ alerts[a].incident_id \in IncidentIds
      /\ alerts'[n].fingerprint = fp /\ alerts'[n].incident_id = k
      /\ \A i \in IncidentIds : incidents'[i] = incidents[i] /\ (IsOpen(i)' <=> IsOpen(i))
  BY <1>1, <1>3 DEF IInv, Joins, NewAlert, TypeOK, IsOpen
<1>5. /\ incidents'[k].status = "DETECTED" /\ incidents'[k].detected_at = now
      /\ incidents'[k].service = ServiceOf[fp]
      /\ incidents'[k].correlated_alert_refs = {n} /\ incidents'[k].alert_count = 1
  BY <1>1 DEF NewIncident
<1>6. TypeOK'
  BY <1>1, <1>3, <1>4 DEF IInv, TypeOK, Joins
<1>7. NoMoreIncidentsThanAlerts'
  BY <1>1, Rows DEF IInv, NoMoreIncidentsThanAlerts, Joins, BoundsAssumption
<1>8. DetectedInThePast'
  BY <1>1, <1>3, <1>4, <1>5 DEF IInv, DetectedInThePast, Joins, TypeOK
<1>9. LaterAlertsFollow'
  <2>1. \A a \in PriorAlerts(fp) : ~ IsOpen(alerts[a].incident_id)
    <3> SUFFICES ASSUME NEW a \in PriorAlerts(fp), IsOpen(alerts[a].incident_id)
                 PROVE  FALSE
      OBVIOUS
    <3>1. PICK m \in MostRecent(fp) : TRUE
      BY MostRecentExists DEF IInv
    <3>2. /\ m \in AlertIds /\ a \in AlertIds /\ a <= m
          /\ alerts[m].fingerprint = fp /\ alerts[a].fingerprint = fp
      BY DEF MostRecent, PriorAlerts
    <3>3. alerts[m].incident_id = alerts[a].incident_id
      BY <3>2, Rows DEF IInv, LaterAlertsFollow
    <3>4. alerts[m].incident_id \in DedupIncidents(fp)
      BY <3>1, <3>3 DEF DedupIncidents
    <3> QED BY <1>2, <3>4 DEF Correlated
  <2> SUFFICES ASSUME NEW a \in AlertIds', NEW b \in AlertIds', a < b,
                      alerts'[a].fingerprint = alerts'[b].fingerprint,
                      IsOpen(alerts[a].incident_id)'
               PROVE  alerts'[b].incident_id = alerts'[a].incident_id
    BY DEF LaterAlertsFollow, IsOpen
  <2>2. a \in AlertIds /\ IsOpen(alerts[a].incident_id)
    BY <1>3, <1>4, Rows DEF IInv, IsOpen
  <2>3. CASE b = n
    BY <1>4, <2>1, <2>2, <2>3 DEF PriorAlerts
  <2>4. CASE b \in AlertIds
    BY <1>4, <2>2, <2>4 DEF IInv, LaterAlertsFollow
  <2> QED BY <1>3, <2>3, <2>4
<1>10. LinksAgree'
  <2> SUFFICES ASSUME NEW j \in IncidentIds'
               PROVE  /\ incidents'[j].correlated_alert_refs
                           = {a \in AlertIds' : alerts'[a].incident_id = j}
                      /\ incidents'[j].alert_count
                           = Cardinality(incidents'[j].correlated_alert_refs)
    BY DEF LinksAgree
  <2>1. CASE j = k
    <3>1. {a \in AlertIds' : alerts'[a].incident_id = k} = {n}
      BY <1>3, <1>4
    <3> QED BY <1>5, <2>1, <3>1, FS_Singleton
  <2>2. CASE j \in IncidentIds
    <3>1. {a \in AlertIds' : alerts'[a].incident_id = j}
            = {a \in AlertIds : alerts[a].incident_id = j}
      BY <1>3, <1>4, <2>2
    <3> QED BY <1>4, <2>2, <3>1 DEF IInv, LinksAgree
  <2> QED BY <1>3, <2>1, <2>2
<1>11. ResolvedIsQuiet'
  BY <1>3, <1>4, <1>5 DEF IInv, ResolvedIsQuiet, IsFiring
<1>12. OneIncidentPerOutage'
  <2>1. RecentRelated(fp) = {}
    BY <1>2, NewestExists DEF IInv, Correlated, RecentRelated
  <2>2. \A i \in IncidentIds :
          IsOpen(i) /\ ServiceOf[fp] \in RelatedServices(incidents[i].service)
          => now > incidents[i].detected_at + CorrelationWindow
    <3> SUFFICES ASSUME NEW i \in IncidentIds, IsOpen(i),
                        ServiceOf[fp] \in RelatedServices(incidents[i].service)
                 PROVE  now > incidents[i].detected_at + CorrelationWindow
      OBVIOUS
    <3>1. /\ incidents[i].service \in Service /\ ServiceOf[fp] \in Service
          /\ incidents[i].detected_at \in 0 .. MaxTime /\ now \in 0 .. MaxTime
      BY Rows DEF IInv, TypeOK, Incident, ServicesAssumption
    <3>2. incidents[i].service \in RelatedServices(ServiceOf[fp])
      BY <3>1 DEF ServicesAssumption, RelatedServices
    <3>3. ~ (incidents[i].detected_at >= now - CorrelationWindow)
      BY <2>1, <3>2 DEF RecentRelated
    <3> QED BY <3>1, <3>3 DEF BoundsAssumption
  <2> SUFFICES ASSUME NEW i \in IncidentIds', NEW j \in IncidentIds', i < j,
                      IsOpen(i)', IsOpen(j)',
                      incidents'[j].service \in RelatedServices(incidents'[i].service)
               PROVE  incidents'[j].detected_at > incidents'[i].detected_at + CorrelationWindow
    BY DEF OneIncidentPerOutage, RelatedServices
  <2>3. i \in IncidentIds
    BY <1>3, Rows DEF IInv
  <2>4. CASE j = k
    BY <1>4, <1>5, <2>2, <2>3, <2>4
  <2>5. CASE j \in IncidentIds
    BY <1>4, <2>3, <2>5 DEF IInv, OneIncidentPerOutage
  <2> QED BY <1>3, <2>4, <2>5
<1> QED BY <1>6, <1>7, <1>8, <1>9, <1>10, <1>11, <1>12 DEF IInv

LEMMA InitEstablishesIInv == Init /\ BoundsAssumption => IInv
BY DEF Init, BoundsAssumption, IInv, TypeOK, NoMoreIncidentsThanAlerts, DetectedInThePast,
  LaterAlertsFollow, LinksAgree, ResolvedIsQuiet, OneIncidentPerOutage, AlertIds, IncidentIds

LEMMA NextKeepsIInv ==
  ASSUME IInv, [Next]_vars, BoundsAssumption, ServicesAssumption
  PROVE  IInv'
<1>1. ASSUME NEW fp \in Fingerprint, Attach(fp) PROVE IInv'
  BY <1>1, AttachKeepsIInv
<1>2. ASSUME NEW fp \in Fingerprint, Open(fp) PROVE IInv'
  BY <1>2, OpenKeepsIInv
<1>3. CASE \/ UNCHANGED vars
           \/ Tick
           \/ \E a \in AlertIds : ClearAlert(a)
           \/ \E i \in IncidentIds :
                \/ Acknowledge(i) \/ Resolve(i) \/ ResolveAgain(i) \/ Close(i)
                \/ Investigate(i) \/ Mitigate(i)
  <2>1. Upkeep
    BY <1>3, UpkeepSteps DEF IInv
  <2> QED BY <2>1, UpkeepKeepsIInv
<1> QED BY <1>1, <1>2, <1>3 DEF Next

-----------------------------------------------------------------------------
(***************************************************************************)
(* The theorems                                                            *)
(***************************************************************************)

\* The inductive invariant holds in every state the engine reaches.
THEOREM Invariance == Spec => []IInv
<1>1. Init => IInv
  BY InitEstablishesIInv, BoundsAssumption
<1>2. IInv /\ [Next]_vars => IInv'
  BY NextKeepsIInv, BoundsAssumption, ServicesAssumption
<1> QED BY <1>1, <1>2, PTL DEF Spec

\* Type correctness: above all, no alert is left without an existing incident.
THEOREM TypeCorrect == Spec => []TypeOK
<1>1. IInv => TypeOK
  BY DEF IInv
<1> QED BY <1>1, Invariance, PTL

\* Deduplication (find_incident_for_alert): looking only at the last alert of a
\* fingerprint is enough to keep all of them in one open incident.
THEOREM Deduplication == Spec => []OneOpenIncidentPerFingerprint
<1>1. IInv => OneOpenIncidentPerFingerprint
  <2> SUFFICES ASSUME IInv, NEW a \in AlertIds, NEW b \in AlertIds,
                      alerts[a].fingerprint = alerts[b].fingerprint,
                      IsOpen(alerts[a].incident_id), IsOpen(alerts[b].incident_id)
               PROVE  alerts[a].incident_id = alerts[b].incident_id
    BY DEF OneOpenIncidentPerFingerprint
  <2>1. CASE a < b
    BY <2>1 DEF IInv, LaterAlertsFollow
  <2>2. CASE b < a
    BY <2>2 DEF IInv, LaterAlertsFollow
  <2> QED BY <2>1, <2>2, Rows DEF IInv
<1> QED BY <1>1, Invariance, PTL

\* The alerts' foreign keys and the incident's list and counter tell one story.
THEOREM LinksAlwaysAgree == Spec => []LinksAgree
<1>1. IInv => LinksAgree
  BY DEF IInv
<1> QED BY <1>1, Invariance, PTL

\* No alert fires under a resolved incident.
THEOREM ResolvedIncidentsAreQuiet == Spec => []ResolvedIsQuiet
<1>1. IInv => ResolvedIsQuiet
  BY DEF IInv
<1> QED BY <1>1, Invariance, PTL

\* Related services never have two open incidents detected within one window.
THEOREM OutagesAreOneIncident == Spec => []OneIncidentPerOutage
<1>1. IInv => OneIncidentPerOutage
  BY DEF IInv
<1> QED BY <1>1, Invariance, PTL

\* Every handler moves incidents along INCIDENT_TRANSITIONS only: the engine
\* implements the abstract state machine.
THEOREM EngineImplementsFsm == Spec => ImplementsFsm
<1> DEFINE bar == [i \in 1 .. MaxAlerts |->
                     IF i \in DOMAIN incidents THEN incidents[i].status ELSE "NONE"]
<1>1. Init => Machine!Init
  BY DEF Init, Machine!Init
<1>2. IInv /\ [Next]_vars => [Machine!Next]_bar
  <2> SUFFICES ASSUME IInv, [Next]_vars
               PROVE  Machine!Next \/ bar' = bar
    OBVIOUS
  <2>0. /\ IncidentIds = 1 .. Len(incidents) /\ Len(incidents) \in Nat
        /\ Len(incidents) <= Len(alerts) /\ Len(alerts) <= MaxAlerts
        /\ MaxAlerts \in Nat /\ Len(alerts) \in Nat
        /\ \A i \in IncidentIds : incidents[i].status \in Machine!IncidentStatus
    BY Rows, BoundsAssumption
      DEF IInv, NoMoreIncidentsThanAlerts, BoundsAssumption, Incident
  <2>1. ASSUME NEW fp \in Fingerprint, Attach(fp)
        PROVE  bar' = bar
    <3>1. /\ Len(incidents') = Len(incidents) /\ incidents' \in Seq(Incident)
          /\ \A i \in IncidentIds : incidents'[i].status = incidents[i].status
      <4>1. PICK i \in Correlated(fp) :
              /\ Joins(fp, i)
              /\ Len(incidents') = Len(incidents)
              /\ incidents'[i] =
                   [incidents[i] EXCEPT !.correlated_alert_refs = @ \cup {Len(alerts) + 1},
                                        !.alert_count = @ + 1]
        BY <2>1, AttachJoins DEF IInv
      <4>2. incidents'[i].status = incidents[i].status
        BY <4>1, CorrelatedIsOpen, Rows DEF IInv, Incident
      <4> QED BY <4>1, <4>2 DEF Joins
    <3>2. DOMAIN incidents' = DOMAIN incidents
      BY <3>1, <2>0 DEF IncidentIds
    <3> QED BY <3>1, <3>2 DEF IncidentIds
  <2>2. ASSUME NEW fp \in Fingerprint, Open(fp)
        PROVE  Machine!Next
    <3>1. /\ Joins(fp, Len(incidents) + 1)
          /\ Len(incidents') = Len(incidents) + 1
          /\ incidents'[Len(incidents) + 1] = NewIncident(ServiceOf[fp], Len(alerts) + 1)
      <4>1. TypeOK
        BY DEF IInv
      <4> QED BY <2>2, <4>1, OpenJoins, ServicesAssumption
    <3>2. Len(alerts) < MaxAlerts
      BY <3>1 DEF Joins
    <3>3. PICK k \in 1 .. MaxAlerts : k = Len(incidents) + 1
      BY <2>0, <3>2
    <3>4. k \notin IncidentIds /\ DOMAIN incidents' = IncidentIds \cup {k}
      BY <2>0, <3>1, <3>3 DEF Joins
    <3>5. \A i \in IncidentIds : incidents'[i] = incidents[i]
      BY <3>1, <3>3, <3>4 DEF Joins
    <3>6. bar' = [bar EXCEPT ![k] = "DETECTED"]
      <4>1. incidents'[k].status = "DETECTED"
        BY <3>1, <3>3 DEF NewIncident
      <4>2. \A i \in 1 .. MaxAlerts : bar'[i] = IF i = k THEN "DETECTED" ELSE bar[i]
        BY <3>4, <3>5, <4>1 DEF IncidentIds
      <4> QED BY <4>2
    <3>7. bar[k] = "NONE"
      BY <3>4 DEF IncidentIds
    <3> QED BY <3>6, <3>7 DEF Machine!Next, Machine!Detect
  <2>3. ASSUME NEW i \in IncidentIds, NEW to \in Machine!IncidentStatus, Allowed(i, to),
               \/ incidents' = [incidents EXCEPT ![i] = Moved(@, to)]
               \/ incidents' = [incidents EXCEPT ![i] = [Moved(@, to) EXCEPT !.archived = TRUE]]
        PROVE  Machine!Next
    <3>1. /\ DOMAIN incidents' = DOMAIN incidents
          /\ incidents'[i].status = to
          /\ \A j \in IncidentIds \ {i} : incidents'[j] = incidents[j]
      <4>1. incidents[i] \in Incident
        BY Rows DEF IInv
      <4> QED BY <2>3, <4>1 DEF Moved, Incident, IncidentIds
    <3>2. i \in 1 .. MaxAlerts
      BY <2>0
    <3>3. bar' = [bar EXCEPT ![i] = to]
      BY <3>1, <3>2 DEF IncidentIds
    <3>4. bar[i] = incidents[i].status
      BY <3>2 DEF IncidentIds
    <3>5. Machine!Move(i)
      BY <2>0, <2>3, <3>3, <3>4 DEF Machine!Move, Allowed
    <3> QED BY <3>2, <3>5 DEF Machine!Next
  <2>4. ASSUME NEW i \in IncidentIds,
               \/ Acknowledge(i) \/ Resolve(i) \/ Close(i)
               \/ Investigate(i) \/ Mitigate(i)
        PROVE  Machine!Next
    <3>1. PICK to \in Machine!IncidentStatus :
            /\ Allowed(i, to)
            /\ \/ incidents' = [incidents EXCEPT ![i] = Moved(@, to)]
               \/ incidents' =
                    [incidents EXCEPT ![i] = [Moved(@, to) EXCEPT !.archived = TRUE]]
      BY <2>4 DEF Acknowledge, Resolve, Close, Investigate, Mitigate, Machine!IncidentStatus
    <3> QED BY <2>3, <3>1
  <2>5. CASE incidents' = incidents
    BY <2>5
  <2> QED BY <2>1, <2>2, <2>4, <2>5 DEF Next, Tick, ClearAlert, ResolveAgain, vars
<1> QED BY <1>1, <1>2, Invariance, PTL DEF Spec, ImplementsFsm, Machine!Spec

-----------------------------------------------------------------------------
(***************************************************************************)
(* Severity: the score for all signals, and the severity of an incident    *)
(* for any tier and any number of alerts (IncidentSeverity)                *)
(***************************************************************************)
CONSTANTS Tier, MaxReading, MaxTaken
VARIABLES severity, taken

Sev == INSTANCE IncidentSeverity WITH MaxAlerts <- MaxTaken, alerts <- taken

AlertLevel == [LOW |-> 0, MEDIUM |-> 1, HIGH |-> 2, CRITICAL |-> 3]

\* t is at least as bad as s, signal by signal.
AtLeastAsBad(t, s) ==
  /\ t.tier <= s.tier
  /\ AlertLevel[t.alert] >= AlertLevel[s.alert]
  /\ t.correlated >= s.correlated
  /\ t.error >= s.error
  /\ t.latency >= s.latency
  /\ t.impacted >= s.impacted
  /\ s.outage => t.outage

LEMMA LevelIsMonotone ==
  ASSUME NEW p \in Int, NEW q \in Int, q >= p
  PROVE  Sev!SeverityRank[Sev!Level(q)] <= Sev!SeverityRank[Sev!Level(p)]
BY DEF Sev!Level, Sev!SeverityRank

LEMMA LevelType ==
  ASSUME NEW p \in Int
  PROVE  Sev!Level(p) \in Sev!Severities /\ Sev!SeverityRank[Sev!Level(p)] \in Nat
BY DEF Sev!Level, Sev!SeverityRank, Sev!Severities

\* A worse signal never makes an incident less severe: of two sets of signals on known
\* tiers, the one that is at least as bad in each scores at least as severe.
THEOREM ScoreIsMonotone ==
  ASSUME NEW s \in Sev!Signals, NEW t \in Sev!Signals,
         s.tier \in 1 .. 4, t.tier \in 1 .. 4, AtLeastAsBad(t, s)
  PROVE  Sev!SeverityRank[Sev!Score(t)] <= Sev!SeverityRank[Sev!Score(s)]
<1>1. Sev!TierPoints(s.tier) \in Nat /\ Sev!TierPoints(t.tier) \in Nat /\ Sev!TierPoints(t.tier) >= Sev!TierPoints(s.tier)
  BY DEF Sev!TierPoints, AtLeastAsBad
<1>2. Sev!AlertPoints(s.alert) \in Nat /\ Sev!AlertPoints(t.alert) \in Nat /\ Sev!AlertPoints(t.alert) >= Sev!AlertPoints(s.alert)
  <2>1. s.alert \in Sev!AlertSeverity /\ t.alert \in Sev!AlertSeverity
    BY DEF Sev!Signals
  <2>2. AlertLevel[t.alert] >= AlertLevel[s.alert]
    BY DEF AtLeastAsBad
  <2> QED  BY <2>1, <2>2 DEF Sev!AlertSeverity, Sev!AlertPoints, AlertLevel
<1>3. Sev!Step(s.correlated, 2, 10, 4, 20) \in Nat /\ Sev!Step(t.correlated, 2, 10, 4, 20) \in Nat
      /\ Sev!Step(s.correlated, 2, 10, 4, 20) <= Sev!Step(t.correlated, 2, 10, 4, 20)
  BY DEF Sev!Step, Sev!Signals, AtLeastAsBad
<1>4. Sev!Step(s.error, 3, 15, 10, 30) \in Nat /\ Sev!Step(t.error, 3, 15, 10, 30) \in Nat
      /\ Sev!Step(s.error, 3, 15, 10, 30) <= Sev!Step(t.error, 3, 15, 10, 30)
  BY DEF Sev!Step, Sev!Signals, AtLeastAsBad
<1>5. Sev!Step(s.latency, 2, 10, 5, 25) \in Nat /\ Sev!Step(t.latency, 2, 10, 5, 25) \in Nat
      /\ Sev!Step(s.latency, 2, 10, 5, 25) <= Sev!Step(t.latency, 2, 10, 5, 25)
  BY DEF Sev!Step, Sev!Signals, AtLeastAsBad
<1>6. Sev!Step(s.impacted, 1, 10, 2, 20) \in Nat /\ Sev!Step(t.impacted, 1, 10, 2, 20) \in Nat
      /\ Sev!Step(s.impacted, 1, 10, 2, 20) <= Sev!Step(t.impacted, 1, 10, 2, 20)
  BY DEF Sev!Step, Sev!Signals, AtLeastAsBad
<1>7. s.outage \in BOOLEAN /\ t.outage \in BOOLEAN /\ (s.outage => t.outage)
  BY DEF Sev!Signals, AtLeastAsBad
<1>8. Sev!Points(s) \in Int /\ Sev!Points(t) \in Int /\ Sev!Points(t) >= Sev!Points(s)
  BY <1>1, <1>2, <1>3, <1>4, <1>5, <1>6, <1>7 DEF Sev!Points
<1> QED  BY <1>8, LevelIsMonotone DEF Sev!Score

\* An incident's alerts and its service alone give it a part of its points.
LEMMA ScoreOfAlerts ==
  ASSUME NEW as, NEW h
  PROVE  /\ Sev!Score(Sev!SignalsOf(as, h)) \in Sev!Severities
         /\ Sev!Level(Sev!AlertPoints(Sev!Worst(as)) + Sev!TierPoints(Tier)) \in Sev!Severities
         /\ Sev!SeverityRank[Sev!Score(Sev!SignalsOf(as, h))]
              <= Sev!SeverityRank[Sev!Level(Sev!AlertPoints(Sev!Worst(as)) + Sev!TierPoints(Tier))]
<1> DEFINE s == Sev!SignalsOf(as, h)
           tier == Sev!TierPoints(Tier)
           alert == Sev!AlertPoints(Sev!Worst(as))
           correlated == Sev!Step(s.correlated, 2, 10, 4, 20)
           error == Sev!Step(s.error, 3, 15, 10, 30)
           latency == Sev!Step(s.latency, 2, 10, 5, 25)
           impacted == Sev!Step(s.impacted, 1, 10, 2, 20)
           outage == IF s.outage THEN 20 ELSE 0
           points == Sev!Points(s)
<1>1. tier \in Nat
  BY DEF Sev!TierPoints
<1>2. alert \in Nat
  BY DEF Sev!Worst, Sev!AlertPoints
<1>3. correlated \in Nat /\ error \in Nat /\ latency \in Nat /\ impacted \in Nat /\ outage \in Nat
  BY DEF Sev!Step
<1>4. points = tier + alert + correlated + error + latency + impacted + outage
  BY DEF Sev!SignalsOf, Sev!Points
<1>5. Sev!Score(s) = Sev!Level(points)
  BY DEF Sev!Score
<1> HIDE DEF s, points, tier, alert, correlated, error, latency, impacted, outage
<1>6. points \in Int /\ alert + tier \in Int /\ points >= alert + tier
  BY <1>1, <1>2, <1>3, <1>4
<1>7. Sev!Level(points) \in Sev!Severities /\ Sev!Level(alert + tier) \in Sev!Severities /\ Sev!SeverityRank[Sev!Level(points)] <= Sev!SeverityRank[Sev!Level(alert + tier)]
  BY <1>6, LevelType, LevelIsMonotone
<1> QED  BY <1>5, <1>7 DEF s, tier, alert

LEMMA SeverityTypeCorrect == Sev!Spec => []Sev!TypeOK
<1>1. Sev!Init => Sev!TypeOK
  BY DEF Sev!Init, Sev!TypeOK
<1>2. Sev!TypeOK /\ [Sev!Next]_(Sev!vars) => Sev!TypeOK'
  <2> SUFFICES ASSUME Sev!TypeOK, [Sev!Next]_(Sev!vars) PROVE Sev!TypeOK'
    OBVIOUS
  <2>1. ASSUME NEW a \in Sev!Alert, NEW h \in Sev!Health, Sev!OpenIncident(a, h) PROVE Sev!TypeOK'
    <3>1. severity' \in Sev!Severities /\ severity' # Sev!Unset
      BY <2>1, ScoreOfAlerts DEF Sev!OpenIncident, Sev!Severities, Sev!Unset, Sev!SeverityRank
    <3> QED  BY <2>1, <3>1 DEF Sev!OpenIncident, Sev!TypeOK
  <2>2. ASSUME NEW a \in Sev!Alert, NEW h \in Sev!Health, Sev!Attach(a, h) PROVE Sev!TypeOK'
    <3>1. severity' \in Sev!Severities /\ severity' # Sev!Unset
      BY <2>2, ScoreOfAlerts DEF Sev!Attach, Sev!TypeOK, Sev!Severities, Sev!Unset, Sev!SeverityRank
    <3> QED  BY <2>2, <3>1 DEF Sev!Attach, Sev!TypeOK
  <2>3. CASE UNCHANGED Sev!vars
    BY <2>3 DEF Sev!vars, Sev!TypeOK
  <2> QED  BY <2>1, <2>2, <2>3 DEF Sev!Next
<1> QED  BY <1>1, <1>2, PTL DEF Sev!Spec

\* Whatever is measured and in whatever order alerts come in, an incident is never less
\* severe than the worst of its alerts but the last, on its service's tier, makes it:
\* every attach recomputes from what the query answers, and a severity only rises.
THEOREM SeverityAlwaysKeepsUp == Sev!Spec => []Sev!SeverityKeepsUp
<1>1. Sev!Init => Sev!SeverityKeepsUp
  BY DEF Sev!Init, Sev!SeverityKeepsUp
<1>2. Sev!TypeOK /\ Sev!SeverityKeepsUp /\ [Sev!Next]_(Sev!vars) => Sev!SeverityKeepsUp'
  <2> SUFFICES ASSUME Sev!TypeOK, Sev!SeverityKeepsUp, [Sev!Next]_(Sev!vars) PROVE Sev!SeverityKeepsUp'
    OBVIOUS
  <2>1. ASSUME NEW a \in Sev!Alert, NEW h \in Sev!Health, Sev!OpenIncident(a, h) PROVE Sev!SeverityKeepsUp'
    BY <2>1 DEF Sev!OpenIncident, Sev!SeverityKeepsUp
  <2>2. ASSUME NEW a \in Sev!Alert, NEW h \in Sev!Health, Sev!Attach(a, h) PROVE Sev!SeverityKeepsUp'
    <3>1. taken \in Seq(Sev!Alert) /\ Len(taken') = Len(taken) + 1
          /\ SubSeq(taken', 1, Len(taken') - 1) = taken
      BY <2>2 DEF Sev!Attach, Sev!TypeOK
    <3> DEFINE new == Sev!Score(Sev!SignalsOf(taken, h))
               least == Sev!Level(Sev!AlertPoints(Sev!Worst(taken)) + Sev!TierPoints(Tier))
    <3>2. new \in Sev!Severities /\ Sev!SeverityRank[new] <= Sev!SeverityRank[least] /\ least \in Sev!Severities
      BY ScoreOfAlerts
    <3>3. severity \in Sev!Severities /\ severity' = IF Sev!SeverityRank[new] < Sev!SeverityRank[severity] THEN new ELSE severity
      BY <2>2 DEF Sev!Attach, Sev!TypeOK
    <3> HIDE DEF new, least
    <3>4. Sev!SeverityRank[severity'] <= Sev!SeverityRank[least]
      BY <3>2, <3>3 DEF Sev!Severities, Sev!SeverityRank
    <3> QED  BY <3>1, <3>4 DEF Sev!SeverityKeepsUp, Sev!AtLeast, least
  <2>3. CASE UNCHANGED Sev!vars
    BY <2>3 DEF Sev!vars, Sev!SeverityKeepsUp, Sev!AtLeast
  <2> QED  BY <2>1, <2>2, <2>3 DEF Sev!Next
<1> QED  BY <1>1, <1>2, SeverityTypeCorrect, PTL DEF Sev!Spec
=============================================================================
