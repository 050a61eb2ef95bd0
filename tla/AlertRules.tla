----------------------------- MODULE AlertRules -----------------------------
(***************************************************************************)
(* Workers that evaluate the alert rules at the same time: evaluate_rule   *)
(* and its helpers (detection/alerts.py), the correlation of what fires    *)
(* (detection/correlation.py) and the incidents that are opened            *)
(* (incidents/engine.py), as on_telemetry_received of workers/handlers.py  *)
(* strings them together in one transaction.                               *)
(*                                                                         *)
(* A worker loads the rules once and evaluates them service by service.    *)
(* It reads the rest as it is committed at that moment together with its   *)
(* own writes, but keeps what it has loaded already; a query sees its own  *)
(* writes from the next flush on.  It writes the columns it has changed    *)
(* when it commits, and an incident reference that is taken by then fails  *)
(* the transaction as a whole.  What PostgreSQL's locks would delay        *)
(* happens here in any order.                                              *)
(*                                                                         *)
(* Age stands for time: what has lasted less than for_seconds is fresh,    *)
(* and long afterwards.  Everything happens within CORRELATION_WINDOW.     *)
(***************************************************************************)
EXTENDS Integers, Sequences, FiniteSets, Functions, TLC

CONSTANTS Workers,
          Rules,          \* as a sequence: the order they are evaluated in
          Targets,        \* the services of each rule, as a sequence
          Signal,         \* signal_kind, subject and severity of a rule, as one value
          Related,        \* pairs of services one of which depends on the other
          MaxChanges      \* bound on changes of the telemetry and incidents resolved by hand

VARIABLES condition,      \* of each rule and service: whether and how long it breaches
          rules,          \* breaching_since and active_alert_id
          alerts,
          incidents,
          session,        \* what a worker is doing
          changes         \* how much has happened around the workers

vars == <<condition, rules, alerts, incidents, session, changes>>

Rule == Range(Rules)

ASSUME RulesAssumption ==
  Rules \in Seq(Rule) /\ \A r \in Rule : Targets[r] \in Seq(Range(Targets[r]))

Clear == "clear"
Null == "null"            \* breaching_since is not set
Older(a, b) == IF "long" \in {a, b} THEN "long" ELSE IF "fresh" \in {a, b} THEN "fresh" ELSE Null

Breaches(r, s) == condition[r][s] # Clear

Fingerprint(r, s) == <<s, Signal[r]>>

\* Alerts and incidents a worker has written and not yet committed have negative ids.
NoId == 0
Committed(id) == id > 0

Idle == [pc |-> "idle"]

Init ==
  /\ condition = [r \in Rule |-> [s \in Range(Targets[r]) |-> Clear]]
  /\ rules = [r \in Rule |-> [since |-> Null, active |-> NoId]]
  /\ alerts = <<>> /\ incidents = <<>>
  /\ session = [w \in Workers |-> Idle] /\ changes = 0

\* ----------------------------- what a worker can see -----------------------------
\* The committed rows, then its own.
AlertIds(x) == {id \in (- Len(x.alerts))..Len(alerts) : id # NoId}

Alert(x, id) ==
  IF Committed(id)
  THEN [alerts[id] EXCEPT !.state = IF id \in x.resolved THEN "RESOLVED" ELSE @,
                          !.incident = IF id \in DOMAIN x.links THEN x.links[id] ELSE @]
  ELSE x.alerts[- id]

IncidentIds(x) == {id \in (- Len(x.incidents))..Len(incidents) : id # NoId}

Incident(x, id) == IF Committed(id) THEN incidents[id] ELSE x.incidents[- id]

\* Own rows are newer than committed ones.
Newer(a, b) == IF Committed(a) = Committed(b) THEN (IF Committed(a) THEN a > b ELSE a < b) ELSE ~ Committed(a)

Newest(ids) == IF ids = {} THEN NoId ELSE CHOOSE a \in ids : \A b \in ids \ {a} : Newer(a, b)

\* ---------------------------------- evaluate ----------------------------------
\* evaluate_all_rules loads the rules.
Begin(w) ==
  /\ session[w].pc = "idle" /\ Rules # <<>>
  /\ session' = [session EXCEPT ![w] =
       [pc |-> "evaluate", todo |-> Rules, seen |-> 0, breach |-> FALSE, last |-> NoId,
        loaded |-> rules, rules |-> rules, alerts |-> <<>>, resolved |-> {}, flushed |-> {},
        refreshed |-> {}, links |-> [a \in {} |-> NoId], incidents |-> <<>>, held |-> {}, queue |-> <<>>]]
  /\ UNCHANGED <<condition, rules, alerts, incidents, changes>>

\* Deviation: the alert may have been resolved.
Existing_Resolved(x, f) == {a \in AlertIds(x) : Alert(x, a).fingerprint = f}

\* _fire_or_refresh: the alerts with this fingerprint that fire already, among them those
\* that the worker has resolved since its last flush.
Existing(x, f) ==
  {a \in AlertIds(x) :
     /\ Alert(x, a).fingerprint = f
     /\ Alert(x, a).state = "FIRING" \/ (a \in x.resolved \ x.flushed /\ alerts[a].state = "FIRING")}

\* A new alert, and the flush that writes all that is pending.
Fire(x, r, s) ==
  LET new == - (Len(x.alerts) + 1)
  IN  [x EXCEPT !.alerts = Append(@, [fingerprint |-> Fingerprint(r, s), service |-> s,
                                      state |-> "FIRING", incident |-> NoId]),
                !.rules[r].active = new, !.last = new, !.flushed = x.resolved]

Refresh(x, f) ==
  LET a == CHOOSE a \in Existing(x, f) : TRUE IN [x EXCEPT !.refreshed = @ \cup {a}, !.last = a]

\* evaluate_rule for a service that breaches: the dwell time is the rule's, whichever of
\* its services began it.
Breach(x, r, s) ==
  LET y == [x EXCEPT !.rules[r].since = Older(@, condition[r][s]), !.breach = TRUE]
  IN  IF y.rules[r].since # "long" THEN y
      ELSE IF Existing(y, Fingerprint(r, s)) # {} THEN Refresh(y, Fingerprint(r, s)) ELSE Fire(y, r, s)

\* The next service of a rule, if it has one.
Evaluated(x, r) ==
  IF x.seen >= Len(Targets[r]) THEN x
  ELSE LET s == Targets[r][x.seen + 1]
           y == IF Breaches(r, s) THEN Breach(x, r, s) ELSE x
       IN  [y EXCEPT !.seen = @ + 1]

\* _resolve: only the alert the rule has fired last.
Cleared(x, r) ==
  LET a == x.rules[r].active
      y == [x EXCEPT !.rules[r] = [since |-> Null, active |-> NoId]]
  IN  IF Committed(a) /\ alerts[a].state = "FIRING" THEN [y EXCEPT !.resolved = @ \cup {a}] ELSE y

\* Alerts without an incident.
Unlinked(x) == {a \in AlertIds(x) : Alert(x, a).incident = NoId}

\* The end of evaluate_rule, which returns the last alert it has fired or refreshed.  The
\* alerts returned that have no incident are taken in, each of them once.
Concluded(x, r) ==
  LET y == IF x.breach THEN x ELSE Cleared(x, r)
  IN  [y EXCEPT !.todo = Tail(@), !.seen = 0, !.breach = FALSE, !.last = NoId,
                !.queue = IF x.last \in Unlinked(x) \ Range(@) THEN Append(@, x.last) ELSE @]

\* The rows of a query, in any order.
Listings(S) == {l \in [1 .. Cardinality(S) -> S] : \A a \in S : \E k \in DOMAIN l : l[k] = a}

\* Deviation: only what evaluate_all_rules returns, one alert of a rule, is taken in.
ToIngest_Returned(x) == {x.queue}

\* on_telemetry_received: what evaluate_all_rules returns, one alert of a rule, then every
\* other firing alert without an incident.
ToIngest(x) ==
  {x.queue \o l : l \in Listings({a \in Unlinked(x) : Alert(x, a).state = "FIRING"} \ Range(x.queue))}

\* One service of a rule.  What is taken in is selected with the last one: a committed alert
\* has an incident (AlertsAreLinked), so that no commit in between could change the selection.
EvaluateRule(w) ==
  /\ session[w].pc = "evaluate"
  /\ LET r == Head(session[w].todo)
         x == Evaluated(session[w], r)
         y == IF x.seen >= Len(Targets[r]) THEN Concluded(x, r) ELSE x
     IN  IF y.todo # <<>> THEN session' = [session EXCEPT ![w] = y]
         ELSE \E l \in ToIngest(y) : session' = [session EXCEPT ![w] = [y EXCEPT !.pc = "ingest", !.flushed = {}, !.queue = l]]
  /\ UNCHANGED <<condition, rules, alerts, incidents, changes>>

\* ----------------------------------- ingest -----------------------------------
\* find_incident_for_alert: the incident of the last alert with this fingerprint, if it is
\* open or was when the worker loaded it.
Prior(x, a) ==
  LET priors == {b \in AlertIds(x) \ {a} :
                   Alert(x, b).fingerprint = Alert(x, a).fingerprint /\ Alert(x, b).incident # NoId}
  IN  IF priors = {} THEN NoId ELSE Alert(x, Newest(priors)).incident

Deduplicated(x, a) == Prior(x, a) # NoId /\ (Incident(x, Prior(x, a)).open \/ Prior(x, a) \in x.held)

\* Else the newest open one on a related service.
Candidates(x) == {i \in IncidentIds(x) : Incident(x, i).open}

Near(x, a) ==
  {i \in Candidates(x) :
     \/ Incident(x, i).service = Alert(x, a).service
     \/ <<Incident(x, i).service, Alert(x, a).service>> \in Related}

Correlated(x, a) == IF Deduplicated(x, a) THEN Prior(x, a) ELSE Newest(Near(x, a))

Linked(x, a, i) ==
  IF Committed(a) THEN [x EXCEPT !.links = @ @@ (a :> i)] ELSE [x EXCEPT !.alerts[- a].incident = i]

\* ingest_alert up to the decision.
Correlate(w) ==
  /\ session[w].pc = "ingest" /\ session[w].queue # <<>>
  /\ LET a == Head(session[w].queue)
         i == Correlated(session[w], a)
         loaded == IF Deduplicated(session[w], a) THEN {i} ELSE Candidates(session[w])
         x == [session[w] EXCEPT !.held = @ \cup loaded]
     IN  session' = [session EXCEPT ![w] =
           IF i = NoId THEN [x EXCEPT !.pc = "open"]
           ELSE [Linked(x, a, i) EXCEPT !.queue = Tail(@)]]
  /\ UNCHANGED <<condition, rules, alerts, incidents, changes>>

\* _incident_ref: one more than the newest incident's.
NextRef(x) ==
  LET newest == Newest(IncidentIds(x)) IN IF newest = NoId THEN 1 ELSE Incident(x, newest).ref + 1

\* The rest of ingest_alert when no incident was found.
OpenIncident(w) ==
  /\ session[w].pc = "open"
  /\ LET x == session[w]
         a == Head(x.queue)
         inc == [ref |-> NextRef(x), service |-> Alert(x, a).service, open |-> TRUE]
         y == [x EXCEPT !.incidents = Append(@, inc), !.pc = "ingest", !.queue = Tail(@)]
     IN  session' = [session EXCEPT ![w] = Linked(y, a, - Len(y.incidents))]
  /\ UNCHANGED <<condition, rules, alerts, incidents, changes>>

\* ----------------------------------- commit -----------------------------------
Collides(x) == \E i \in DOMAIN incidents, j \in DOMAIN x.incidents : incidents[i].ref = x.incidents[j].ref

AlertId(a) == IF a < 0 THEN Len(alerts) - a ELSE a

IncidentId(i) == IF i < 0 THEN Len(incidents) - i ELSE i

\* Deviation: the whole row is written, with the state that was read.
Refreshed_Whole(alert) == [alert EXCEPT !.state = "FIRING"]

\* A refresh writes observed_value and context, which are left out.
Refreshed(alert) == alert

\* The columns of a rule that the worker has changed.
Updated(x, r) ==
  [since |-> IF x.rules[r].since = x.loaded[r].since THEN rules[r].since ELSE x.rules[r].since,
   active |-> IF x.rules[r].active = x.loaded[r].active THEN rules[r].active ELSE AlertId(x.rules[r].active)]

Written(x, a) ==
  LET old == IF a \in x.refreshed THEN Refreshed(alerts[a]) ELSE alerts[a]
  IN  [old EXCEPT !.state = IF a \in x.resolved THEN "RESOLVED" ELSE @,
                  !.incident = IF a \in DOMAIN x.links THEN IncidentId(x.links[a]) ELSE @]

Commit(w) ==
  /\ session[w].pc = "ingest" /\ session[w].queue = <<>> /\ ~ Collides(session[w])
  /\ LET x == session[w]
     IN  /\ rules' = [r \in Rule |-> Updated(x, r)]
         /\ alerts' = [a \in DOMAIN alerts |-> Written(x, a)]
                      \o [k \in DOMAIN x.alerts |-> [x.alerts[k] EXCEPT !.incident = IncidentId(@)]]
         /\ incidents' = incidents \o x.incidents
  /\ session' = [session EXCEPT ![w] = Idle]
  /\ UNCHANGED <<condition, changes>>

\* The unique constraint on the reference fails the handler; _dispatch rolls back.
RollBack(w) ==
  /\ session[w].pc = "ingest" /\ session[w].queue = <<>> /\ Collides(session[w])
  /\ session' = [session EXCEPT ![w] = Idle]
  /\ UNCHANGED <<condition, rules, alerts, incidents, changes>>

\* -------------------------------- around the workers --------------------------------
\* Telemetry arrives: a rule begins or ceases to breach for a service.
Change(r, s) ==
  /\ changes < MaxChanges /\ changes' = changes + 1
  /\ \E c \in (IF Breaches(r, s) THEN {Clear} ELSE {"fresh", "long"}) :
       condition' = [condition EXCEPT ![r][s] = c]
  /\ UNCHANGED <<rules, alerts, incidents, session>>

Aged(age) == IF age = "fresh" THEN "long" ELSE age

AgedRules(table) == [r \in Rule |-> [table[r] EXCEPT !.since = Aged(@)]]

\* for_seconds pass.
Pass ==
  /\ condition' = [r \in Rule |-> [s \in DOMAIN condition[r] |-> Aged(condition[r][s])]]
  /\ rules' = AgedRules(rules)
  /\ session' = [w \in Workers |->
       IF session[w] = Idle THEN Idle
       ELSE [session[w] EXCEPT !.rules = AgedRules(@), !.loaded = AgedRules(@)]]
  /\ UNCHANGED <<alerts, incidents, changes>>

\* engine.resolve: with the incident, its firing alerts.
Resolve(i) ==
  /\ incidents[i].open /\ changes < MaxChanges /\ changes' = changes + 1
  /\ incidents' = [incidents EXCEPT ![i].open = FALSE]
  /\ alerts' = [a \in DOMAIN alerts |->
                  IF alerts[a].incident = i THEN [alerts[a] EXCEPT !.state = "RESOLVED"] ELSE alerts[a]]
  /\ UNCHANGED <<condition, rules, session>>

Work(w) ==
  \/ Begin(w) \/ EvaluateRule(w) \/ Correlate(w) \/ OpenIncident(w)
  \/ Commit(w) \/ RollBack(w)

Next ==
  \/ \E w \in Workers : Work(w)
  \/ \E r \in Rule : \E s \in DOMAIN condition[r] : Change(r, s)
  \/ Pass
  \/ \E i \in DOMAIN incidents : Resolve(i)

\* Every step of a worker takes it elsewhere, and nothing else does.
Place(w) ==
  IF session[w] = Idle THEN Idle
  ELSE [pc |-> session[w].pc, todo |-> session[w].todo, seen |-> session[w].seen, queue |-> session[w].queue]

Moves(w) == Place(w)' # Place(w)

\* Telemetry keeps arriving, so that every worker keeps evaluating; and time passes.  A
\* worker always has a next step: that it takes one again and again is its weak fairness.
Spec ==
  Init /\ [][Next]_vars /\ WF_vars(Pass) /\ \A w \in Workers : []<><<Moves(w)>>_session

\* --------------------------------- properties ---------------------------------
\* Whatever two workers do at the same time, and although a reference that is taken
\* throws a whole evaluation away: no alert is committed without an incident that exists.
AlertsAreLinked == \A a \in DOMAIN alerts : alerts[a].incident \in DOMAIN incidents

\* A worker that has read an alert before somebody resolved it must not bring it back, and
\* no alert moves to another incident (alerts.py:120-127, engine.py:177-181).
AlertsEnd ==
  [][\A a \in DOMAIN alerts :
       /\ alerts[a].state = "RESOLVED" => alerts'[a].state = "RESOLVED"
       /\ alerts'[a].incident = alerts[a].incident]_vars

\* A service that goes on breaching a rule is alerted in the end, for good: neither lost
\* updates of breaching_since and active_alert_id nor refused references prevent it.
PersistingBreachFires ==
  \A r \in Rule : \A s \in Range(Targets[r]) :
    <>[]Breaches(r, s)
      => <>[](\E a \in DOMAIN alerts : alerts[a].fingerprint = Fingerprint(r, s) /\ alerts[a].state = "FIRING")
=============================================================================
