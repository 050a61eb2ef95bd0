-------------------------- MODULE IncidentSessions --------------------------
(***************************************************************************)
(* Overlapping transactions on one incident.  API requests (api/deps.py,   *)
(* get_db), the worker's handlers (core/db.py, session_scope) and demo     *)
(* runs each own a SQLAlchemy session with autoflush off: the row is read  *)
(* into an object, the handler decides on the object, a flush writes the   *)
(* columns it changed, and the commit comes when the handler returns.      *)
(*                                                                         *)
(* The database is PostgreSQL at READ COMMITTED: a read sees what is       *)
(* committed, the first UPDATE of a row locks it until the transaction     *)
(* ends, an UPDATE that waited is applied to the newest version, and a     *)
(* cycle of waiting transactions is broken by aborting one of them.        *)
(*                                                                         *)
(* The timeline has no order but that of its stamps, and a handler stamps  *)
(* its event before the flush that may have to wait for the row.           *)
(*                                                                         *)
(* The incident starts as detected from one alert.  Every session handles  *)
(* one request or event and ends.  Sessions and alerts are numbered in the *)
(* order they begin and fire.  Text columns, findings, severity and the    *)
(* rows only one session writes (audit log, agent run, tool calls) are     *)
(* left out.                                                               *)
(***************************************************************************)
EXTENDS Integers, Sequences, FiniteSets

CONSTANTS
  Session,          \* the transactions, numbered
  Ops,              \* which handlers run: a subset of AllOps
  Alert,            \* alerts of the incident's service, fired or yet to fire
  FirstAlert,       \* the one that opened the incident
  NoOne             \* not a session: a NULL column, a free lock

AllOps == {"acknowledge", "resolve", "close", "investigate", "mitigate", "detect"}

ASSUME SessionsAssumption ==
  /\ Ops \subseteq AllOps
  /\ Session \subseteq Nat /\ Alert \subseteq Nat
  /\ FirstAlert \in Alert
  /\ NoOne \notin Session

VARIABLES
  row,              \* the committed row of the incident
  timeline,         \* its committed status_changed events
  archived,         \* a HistoricalIncident is committed
  state,            \* of each committed alert; "NONE" when it never fired
  tied,             \* the committed alerts whose incident_id is this incident
  rowLock,          \* the session that holds the incident's row lock
  alertLock,        \* the session that holds each alert's row lock
  clock,            \* utcnow(), as often as an event is stamped
  session           \* of each session: its step, and what it has read and written

vars == <<row, timeline, archived, state, tied, rowLock, alertLock, clock, session>>
database == <<row, timeline, archived, state, tied>>

Machine ==
  INSTANCE IncidentFsm
    WITH IncidentId <- {"incident"}, status <- [i \in {"incident"} |-> row.status]

Row ==
  [status : Machine!IncidentStatus,
   acknowledged : Session \cup {NoOne},      \* acknowledged_at and _by
   mitigated : Session \cup {NoOne},         \* mitigated_at
   resolved : Session \cup {NoOne},          \* resolved_at and _by
   closed : Session \cup {NoOne},            \* closed_at
   run : Session \cup {NoOne},               \* last_investigation_run_id
   alert_count : Nat,
   correlated_alert_refs : SUBSET Alert]

Steps == {"new", "evaluated", "loaded", "decided", "flushed", "failing", "marked", "swept", "done"}

Move == [from : Machine!IncidentStatus, to : Machine!IncidentStatus, by : Session, at : Nat]

-----------------------------------------------------------------------------
(***************************************************************************)
(* What a handler decides on the row it has read                           *)
(***************************************************************************)

\* The status an operation asks transition() for.
Target(op) ==
  CASE op = "acknowledge" -> "ACKNOWLEDGED"
    [] op = "resolve" -> "RESOLVED"
    [] op = "close" -> "CLOSED"
    [] op = "investigate" -> "INVESTIGATING"
    [] op = "mitigate" -> "MITIGATING"

\* start_investigation_state moves only a DETECTED incident; execute does not ask
\* again on a MITIGATING, RESOLVED or CLOSED one; an alert never moves its incident.
Asks(op, seen) ==
  CASE op = "investigate" -> seen.status = "DETECTED"
    [] op = "mitigate" -> seen.status \notin {"MITIGATING", "RESOLVED", "CLOSED"}
    [] op = "detect" -> FALSE
    [] OTHER -> TRUE

Allowed(op, seen) == Target(op) \in Machine!INCIDENT_TRANSITIONS[seen.status]

Moves(op, seen) == Asks(op, seen) /\ Allowed(op, seen)

\* StateTransitionError; execute swallows it.
Raises(op, seen) ==
  /\ op # "mitigate"
  /\ Asks(op, seen)
  /\ seen.status # Target(op)
  /\ ~ Allowed(op, seen)

\* A row, or a part of it, with other values in some columns.
Updated(r, columns) ==
  [c \in DOMAIN r \cup DOMAIN columns |-> IF c \in DOMAIN columns THEN columns[c] ELSE r[c]]

\* The stamp of a move, unless the object already carries one.
Stamps(op, seen, s) ==
  CASE op = "acknowledge" /\ seen.acknowledged = NoOne -> [acknowledged |-> s]
    [] op = "mitigate" /\ seen.mitigated = NoOne -> [mitigated |-> s]
    [] op = "resolve" /\ seen.resolved = NoOne -> [resolved |-> s]
    [] op = "close" /\ seen.closed = NoOne -> [closed |-> s]
    [] OTHER -> <<>>

\* Deviation: the counter is raised in the database, the list in the handler.
Attached_CountedThere(seen, a) ==
  [alert_count |-> row.alert_count + 1,
   correlated_alert_refs |-> seen.correlated_alert_refs \cup {a}]

\* _attach_alert: counter and list are computed from the object.
Attached(seen, a) ==
  [alert_count |-> seen.alert_count + 1,
   correlated_alert_refs |-> seen.correlated_alert_refs \cup {a}]

\* The columns the handler's object has changed when it is flushed.
Changed(op, seen, s, a) ==
  Updated(
    Updated(IF op = "detect" THEN Attached(seen, a) ELSE <<>>,
            IF op = "investigate" THEN [run |-> s] ELSE <<>>),
    IF Moves(op, seen) THEN Updated(Stamps(op, seen, s), [status |-> Target(op)]) ELSE <<>>)

\* Deviation: execute sets the status of an incident itself.
Events_SilentMitigation(op, seen, s) ==
  IF Moves(op, seen) /\ op # "mitigate"
  THEN {[from |-> seen.status, to |-> Target(op), by |-> s, at |-> clock]} ELSE {}

\* The status_changed event that goes with them, stamped with the present time.
Events(op, seen, s) ==
  IF Moves(op, seen)
  THEN {[from |-> seen.status, to |-> Target(op), by |-> s, at |-> clock]} ELSE {}

-----------------------------------------------------------------------------
(***************************************************************************)
(* The steps of a session                                                  *)
(***************************************************************************)

At(s, step) == session[s].step = step

Free(lock, s) == lock \in {NoOne, s}

Release(s) ==
  /\ rowLock' = IF rowLock = s THEN NoOne ELSE rowLock
  /\ alertLock' = [a \in Alert |-> IF alertLock[a] = s THEN NoOne ELSE alertLock[a]]

\* A session that holds nothing, not yet or no longer.
Empty(step) ==
  [step |-> step, op |-> NoOne, seen |-> NoOne, alert |-> NoOne, changed |-> <<>>,
   events |-> {}, writes |-> <<>>]

Ends(s) ==
  /\ session' = [session EXCEPT ![s] = Empty("done")]
  /\ Release(s)

\* The sessions before s have begun.
Begins(s) == At(s, "new") /\ \A t \in Session : t < s => ~ At(t, "new")

\* A request reads its incident: routers' _get, db.get in the worker.
Load(s) ==
  /\ Begins(s)
  /\ \E op \in Ops \ {"detect"} :
       session' = [session EXCEPT ![s].op = op, ![s].seen = row, ![s].step = "loaded"]
  /\ UNCHANGED <<database, rowLock, alertLock, clock>>

\* The alerts that may fire next: none, or the first that has not.
MayFire ==
  LET fresh == {a \in Alert : state[a] = "NONE" /\ \A t \in Session : session[t].alert # a}
  IN  {a \in fresh : \A b \in fresh : a <= b} \cup {NoOne}

\* The alerts of A in any order: a flush writes them by primary key, and a flush
\* comes whenever a rule fires.
Orders(A) ==
  UNION {{f \in [1..n -> A] : \A i, j \in 1..n : i # j => f[i] # f[j]} : n \in 0..Cardinality(A)}

\* The worker evaluates the rules: an alert fires or none does, and others that
\* still breach are refreshed.
Evaluate(s) ==
  /\ Begins(s)
  /\ "detect" \in Ops
  /\ \E a \in MayFire, refreshed \in Orders({b \in Alert : state[b] = "FIRING"}) :
       session' = [session EXCEPT ![s].op = "detect", ![s].alert = a, ![s].writes = refreshed,
                                  ![s].step = "evaluated"]
  /\ UNCHANGED <<database, rowLock, alertLock, clock>>

\* One more alert is written, and so locked: by the flush of an alert that fires
\* (the refreshed ones), or by the flush of the commit (those, and what a resolve
\* has swept).
WriteAlert(s) ==
  /\ At(s, "evaluated") \/ At(s, "swept")
  /\ session[s].writes # <<>>
  /\ LET a == Head(session[s].writes)
     IN  /\ Free(alertLock[a], s)
         /\ alertLock' = [alertLock EXCEPT ![a] = s]
  /\ session' = [session EXCEPT ![s].writes = Tail(session[s].writes)]
  /\ UNCHANGED <<database, rowLock, clock>>

\* find_incident_for_alert answers with this incident while it is open; otherwise
\* the alert goes to an incident of its own, which this module does not follow.
Correlate(s) ==
  /\ At(s, "evaluated")
  /\ session[s].alert # NoOne /\ session[s].writes = <<>>
  /\ IF row.status \in Machine!OPEN_INCIDENT_STATUSES
     THEN /\ session' = [session EXCEPT ![s].seen = row, ![s].step = "loaded"]
          /\ UNCHANGED <<rowLock, alertLock>>
     ELSE Ends(s)
  /\ UNCHANGED <<database, clock>>

\* The handler decides on its object, and stamps the event of a move.
Decide(s) ==
  /\ At(s, "loaded")
  /\ LET op == session[s].op
         seen == session[s].seen
         events == Events(op, seen, s)
     IN  /\ ~ Raises(op, seen)
         /\ session' = [session EXCEPT ![s].changed = Changed(op, seen, s, session[s].alert),
                                       ![s].events = events,
                                       ![s].step = "decided"]
         /\ clock' = IF events = {} THEN clock ELSE clock + 1
  /\ UNCHANGED <<database, rowLock, alertLock>>

\* It flushes what it has changed, which waits for the row.  An investigation is
\* then in its analysis, with the row locked if it moved the incident or set its
\* run id.
Flush(s) ==
  /\ At(s, "decided")
  /\ IF DOMAIN session[s].changed = {} THEN UNCHANGED rowLock
     ELSE Free(rowLock, s) /\ rowLock' = s
  /\ session' = [session EXCEPT ![s].step = "flushed"]
  /\ UNCHANGED <<database, alertLock, clock>>

\* resolve() reads the alerts still firing under the incident, to be written when
\* its session commits.
Sweep(s) ==
  /\ At(s, "flushed")
  /\ session[s].op = "resolve"
  /\ LET firing == {a \in tied : state[a] = "FIRING"}
     IN  \E swept \in Orders(firing) :
           /\ Len(swept) = Cardinality(firing)
           /\ session' = [session EXCEPT ![s].writes = swept, ![s].step = "swept"]
  /\ UNCHANGED <<database, rowLock, alertLock, clock>>

\* Deviation: the failed run is recorded in a transaction of its own, the first one
\* left open.
AnalysisBreaks_LeftOpen(s) ==
  /\ At(s, "flushed")
  /\ session[s].op = "investigate"
  /\ session' = [session EXCEPT ![s].changed = <<>>, ![s].events = {}, ![s].step = "failing"]
  /\ UNCHANGED <<database, rowLock, alertLock, clock>>

\* The analysis breaks in a way that spoils the session: _mark_failed rolls back
\* and goes on in a new transaction.
AnalysisBreaks(s) ==
  /\ At(s, "flushed")
  /\ session[s].op = "investigate"
  /\ session' = [session EXCEPT ![s].changed = <<>>, ![s].events = {}, ![s].step = "failing"]
  /\ Release(s)
  /\ UNCHANGED <<database, clock>>

\* The second transaction, which holds nothing yet, records the failed run; the
\* status the first had set is gone with it.
MarkFailed(s) ==
  /\ At(s, "failing")
  /\ rowLock = NoOne
  /\ rowLock' = s
  /\ session' = [session EXCEPT ![s].changed = [run |-> s], ![s].step = "marked"]
  /\ UNCHANGED <<database, alertLock, clock>>

\* close() archives the incident whether or not it moved it.
Archives(s) == session[s].op = "close"

\* What resolve has swept and by now written.
Swept(s) == IF session[s].op = "resolve" THEN {a \in Alert : alertLock[a] = s} ELSE {}

\* The handler has returned and everything it changed is written.
Finished(s) ==
  \/ At(s, "flushed") /\ session[s].op # "resolve"
  \/ At(s, "marked")
  \/ At(s, "swept") /\ session[s].writes = <<>>
  \/ At(s, "evaluated") /\ session[s].alert = NoOne /\ session[s].writes = <<>>

Commit(s) ==
  /\ Finished(s)
  /\ row' = Updated(row, session[s].changed)
  /\ timeline' = timeline \cup session[s].events
  /\ archived' = (archived \/ Archives(s))
  /\ state' = [a \in Alert |->
                 IF a \in Swept(s) THEN "RESOLVED"
                 ELSE IF a = session[s].alert THEN "FIRING" ELSE state[a]]
  /\ tied' = tied \cup ({session[s].alert} \ {NoOne})
  /\ Ends(s)
  /\ UNCHANGED clock

\* The handler raises, or its process or connection dies: nothing is kept.
Rollback(s) ==
  /\ Ends(s)
  /\ UNCHANGED <<database, clock>>

Refuse(s) ==
  /\ At(s, "loaded")
  /\ Raises(session[s].op, session[s].seen)
  /\ Rollback(s)

Crash(s) ==
  /\ session[s].step \notin {"new", "done"}
  /\ Rollback(s)

\* s waits for a lock t holds: it can wait for one lock only.
WaitsForRow(s, t) ==
  /\ rowLock = t /\ s # t
  /\ \/ At(s, "decided") /\ DOMAIN session[s].changed # {}
     \/ At(s, "failing")

WaitsForAlert(s, t) ==
  /\ s # t
  /\ At(s, "evaluated") \/ At(s, "swept")
  /\ session[s].writes # <<>> /\ alertLock[Head(session[s].writes)] = t

Waits(s, t) == WaitsForRow(s, t) \/ WaitsForAlert(s, t)

\* s is on a cycle of waiting sessions: in a set where every member waits for one,
\* and one waits for every member.
Deadlocked(s) ==
  \E C \in SUBSET Session :
    /\ s \in C
    /\ \A t \in C : (\E u \in C : Waits(t, u)) /\ (\E u \in C : Waits(u, t))

\* The database aborts one member of the cycle, either one.
BreakDeadlock(s) ==
  /\ Deadlocked(s)
  /\ Rollback(s)

-----------------------------------------------------------------------------
Init ==
  /\ row = [status |-> "DETECTED", acknowledged |-> NoOne, mitigated |-> NoOne,
            resolved |-> NoOne, closed |-> NoOne, run |-> NoOne,
            alert_count |-> 1, correlated_alert_refs |-> {FirstAlert}]
  /\ timeline = {}
  /\ archived = FALSE
  /\ state = [a \in Alert |-> IF a = FirstAlert THEN "FIRING" ELSE "NONE"]
  /\ tied = {FirstAlert}
  /\ rowLock = NoOne
  /\ alertLock = [a \in Alert |-> NoOne]
  /\ clock = 0
  /\ session = [s \in Session |-> Empty("new")]

\* What a session does by itself, once begun.
Proceed(s) ==
  \/ WriteAlert(s) \/ Correlate(s) \/ Decide(s) \/ Flush(s) \/ Refuse(s)
  \/ Sweep(s) \/ MarkFailed(s) \/ Commit(s)

Next ==
  \E s \in Session :
    \/ Load(s) \/ Evaluate(s)
    \/ Proceed(s)
    \/ AnalysisBreaks(s) \/ Crash(s) \/ BreakDeadlock(s)

Spec == Init /\ [][Next]_vars

\* Handlers run to their end, and PostgreSQL looks for deadlocks every second.
FairSpec ==
  /\ Spec
  /\ \A s \in Session : WF_vars(Proceed(s))
  /\ WF_vars(\E s \in Session : BreakDeadlock(s))

-----------------------------------------------------------------------------
(***************************************************************************)
(* What overlapping sessions keep                                          *)
(***************************************************************************)

TypeOK ==
  /\ row \in Row
  /\ timeline \in SUBSET Move
  /\ archived \in BOOLEAN
  /\ state \in [Alert -> {"NONE", "FIRING", "RESOLVED"}]
  /\ tied \in SUBSET Alert
  /\ clock \in Nat
  /\ \A s \in Session :
       /\ session[s].step \in Steps
       /\ session[s].writes \in Seq(Alert)
       /\ session[s].step \in {"new", "done"} => s \notin {rowLock} \cup {alertLock[a] : a \in Alert}

\* The incident was put in this status before a given time.
Reached(status, time) ==
  status = "DETECTED" \/ \E e \in timeline : e.to = status /\ e.at < time

\* The timeline accounts for the status column: whatever overlaps, is rolled back or
\* breaks, it has an entry for the committed status, and every entry leaves a status
\* that an entry stamped before it had reached.
StatusIsExplained ==
  /\ Reached(row.status, clock)
  /\ \A e \in timeline : Reached(e.from, e.at)

\* A status other than DETECTED and INVESTIGATING has its stamp, and a closed
\* incident its archive entry, though handlers stamp only what their object lacks
\* and nobody clears a stamp when an overlapping handler overwrites the status.
StatusHasItsStamp ==
  /\ row.status = "ACKNOWLEDGED" => row.acknowledged # NoOne
  /\ row.status = "MITIGATING" => row.mitigated # NoOne
  /\ row.status = "RESOLVED" => row.resolved # NoOne
  /\ row.status = "CLOSED" => row.closed # NoOne /\ archived

\* Counter and list of alerts agree with each other, whichever worker wrote last,
\* and list only alerts that point back.
CountMatchesRefs ==
  /\ row.alert_count = Cardinality(row.correlated_alert_refs)
  /\ row.correlated_alert_refs \subseteq tied

\* No handler waits for ever, although a resolve locks the incident before its
\* alerts, a worker alerts before the incident, two workers the same alerts one by
\* one, and an investigation that breaks goes on in a second transaction.
SessionsEnd == \A s \in Session : []<>(session[s].step \in {"new", "done"})

-----------------------------------------------------------------------------
(***************************************************************************)
(* What they may lose                                                      *)
(***************************************************************************)

\* "The UI renders them as an ordered list" (docs/incident-lifecycle.md), by `at`
\* (models/incidents.py): the entry with the last stamp tells the status.
LastEntryTells ==
  \A e \in timeline : (\A f \in timeline : f.at <= e.at) => row.status = e.to

\* "Transitions are enforced by INCIDENT_TRANSITIONS" (docs/incident-lifecycle.md):
\* the committed status moves along the table only.
TableEnforced ==
  [][row'.status # row.status => row'.status \in Machine!INCIDENT_TRANSITIONS[row.status]]_vars

\* The second of two acknowledgements changes nothing
\* (tests/integration/test_postgres_redis.py, on two sessions).
FirstAcknowledgerStays ==
  [][row.acknowledged # NoOne => row'.acknowledged = row.acknowledged]_vars

\* An alert that attaches "bumps alert_count / correlated_alert_refs"
\* (docs/incident-lifecycle.md): every alert of the incident is counted.
EveryAlertCounted == row.correlated_alert_refs = tied

\* "resolve any still-firing alerts tied to the incident" (incidents/engine.py).
ResolvedIsQuiet ==
  row.status = "RESOLVED" => \A a \in tied : state[a] # "FIRING"
=============================================================================
