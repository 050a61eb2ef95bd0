----------------------- MODULE IncidentSessionsProofs -----------------------
(***************************************************************************)
(* Overlapping sessions on one incident, for any number of sessions and    *)
(* alerts, whatever they read and in whichever order they commit: the      *)
(* timeline accounts for the status column, counter and list of alerts     *)
(* agree, and a status has its stamp.                                      *)
(*                                                                         *)
(* What a session holds is kept as a whole: what it has read was once      *)
(* committed, and what it will write is computed from that alone.          *)
(***************************************************************************)
EXTENDS IncidentSessions, FiniteSetTheorems, TLAPS

IncidentStatus == Machine!IncidentStatus

Stamped == {"acknowledged", "mitigated", "resolved", "closed"}

Columns == {"status", "run", "alert_count", "correlated_alert_refs"} \cup Stamped

\* The stamp that goes with a status.
StampOf == [ACKNOWLEDGED |-> "acknowledged", MITIGATING |-> "mitigated",
            RESOLVED |-> "resolved", CLOSED |-> "closed"]

\* A row as it was once committed.
WellFormed(r) ==
  /\ DOMAIN r = Columns /\ r.status \in IncidentStatus
  /\ Reached(r.status, clock)

Counted(r) ==
  /\ IsFiniteSet(r.correlated_alert_refs)
  /\ r.correlated_alert_refs \subseteq tied
  /\ r.alert_count = Cardinality(r.correlated_alert_refs)

\* An event that was stamped after the status it leaves was reached.
Told(m) == m \in Move /\ m.at < clock /\ Reached(m.from, m.at)

\* The status a session writes is the one its event tells.
OneStory(r) ==
  \/ r.events = {} /\ "status" \notin DOMAIN r.changed
  \/ \E m \in Move :
       r.events = {m} /\ Told(m) /\ "status" \in DOMAIN r.changed /\ r.changed["status"] = m.to

\* Counter and list are written together, one more than was read.
OneMore(r) ==
  {"alert_count", "correlated_alert_refs"} \cap DOMAIN r.changed # {} =>
    /\ {"alert_count", "correlated_alert_refs"} \subseteq DOMAIN r.changed
    /\ r.alert # NoOne
    /\ r.changed["alert_count"] = r.seen.alert_count + 1
    /\ r.changed["correlated_alert_refs"] = r.seen.correlated_alert_refs \cup {r.alert}

\* A stamp is never taken back, and the one that goes with a status is written with
\* it or was there when the row was read.
StampsStay(r) ==
  /\ \A c \in Stamped \cap DOMAIN r.changed : r.changed[c] # NoOne
  /\ "status" \in DOMAIN r.changed =>
       /\ r.changed["status"] \in DOMAIN StampOf =>
            \/ StampOf[r.changed["status"]] \in DOMAIN r.changed
            \/ row[StampOf[r.changed["status"]]] # NoOne
       /\ r.changed["status"] = "CLOSED" => r.op = "close"

\* What a session has read.
Read(seen) ==
  /\ WellFormed(seen) /\ Counted(seen)
  /\ \A c \in Stamped : seen[c] # NoOne => row[c] # NoOne

\* What a session under way holds.
Holds(r) ==
  /\ r.op \in AllOps
  /\ r.step \in {"loaded", "decided", "flushed"} /\ r.op = "detect" => r.alert # NoOne
  /\ r.step \in {"evaluated", "loaded", "failing"} => r.changed = <<>> /\ r.events = {}
  /\ r.step = "marked" => r.events = {}
  /\ r.alert # NoOne => r.alert \in Alert \ tied
  /\ r.step # "evaluated" => Read(r.seen)
  /\ DOMAIN r.changed \subseteq Columns
  /\ OneStory(r) /\ OneMore(r) /\ StampsStay(r)

Shape(r) ==
  r = [step |-> r.step, op |-> r.op, seen |-> r.seen, alert |-> r.alert,
       changed |-> r.changed, events |-> r.events, writes |-> r.writes]

Sound(r) ==
  /\ Shape(r)
  /\ r.step \in {"new", "done"} => r.alert = NoOne /\ r.changed = <<>> /\ r.events = {}
  /\ r.step \notin {"new", "done"} => Holds(r)

Committed ==
  /\ WellFormed(row) /\ Counted(row)
  /\ \A m \in timeline : Told(m)
  /\ StatusHasItsStamp
  /\ state = [a \in Alert |-> state[a]]
  /\ tied \subseteq {a \in Alert : state[a] # "NONE"}

\* Two sessions do not bring the same alert.
AlertsApart == \A s, t \in Session : s # t /\ session[s].alert = session[t].alert => session[s].alert = NoOne

IInv ==
  /\ clock \in Nat
  /\ Committed
  /\ session = [s \in Session |-> session[s]]
  /\ AlertsApart
  /\ \A s \in Session : Sound(session[s])

-----------------------------------------------------------------------------
(***************************************************************************)
(* What a handler changes                                                  *)
(***************************************************************************)

LEMMA ColumnsUpdated ==
  ASSUME NEW r, NEW columns
  PROVE  /\ DOMAIN Updated(r, columns) = DOMAIN r \cup DOMAIN columns
         /\ \A c \in DOMAIN columns : Updated(r, columns)[c] = columns[c]
         /\ \A c \in DOMAIN r \ DOMAIN columns : Updated(r, columns)[c] = r[c]
  BY DEF Updated

LEMMA NoColumns == DOMAIN <<>> = {}
  OBVIOUS

\* The move of the incident, if there is one.
Moved(op, seen, s) == IF Moves(op, seen) THEN Updated(Stamps(op, seen, s), [status |-> Target(op)]) ELSE <<>>

Numbered(op, s) == IF op = "investigate" THEN [run |-> s] ELSE <<>>

Attaches(op, seen, a) == IF op = "detect" THEN Attached(seen, a) ELSE <<>>

LEMMA MoveColumns ==
  ASSUME NEW op \in AllOps, NEW seen, NEW s \in Session, seen.status \in IncidentStatus
  PROVE  LET c == Moved(op, seen, s)
         IN  /\ DOMAIN c \subseteq {"status"} \cup Stamped
             /\ "status" \in DOMAIN c <=> Moves(op, seen)
             /\ Moves(op, seen) => c["status"] = Target(op) /\ Target(op) \in IncidentStatus
             /\ \A x \in DOMAIN c \cap Stamped : c[x] = s
             /\ Moves(op, seen) /\ Target(op) \in DOMAIN StampOf =>
                  StampOf[Target(op)] \in DOMAIN c \/ seen[StampOf[Target(op)]] # NoOne
             /\ Moves(op, seen) /\ Target(op) = "CLOSED" => op = "close"
<1> DEFINE stamps == Stamps(op, seen, s)
           move == [status |-> Target(op)]
<1>1. Moves(op, seen) => Target(op) \in IncidentStatus
  BY DEF Moves, Allowed, IncidentStatus, Machine!IncidentStatus, Machine!INCIDENT_TRANSITIONS
<1>2. DOMAIN stamps \subseteq Stamped /\ \A x \in DOMAIN stamps : stamps[x] = s
  BY NoColumns DEF Stamps, Stamped
<1>3. Moves(op, seen) => op \in {"acknowledge", "resolve", "close", "investigate", "mitigate"}
  BY DEF Moves, Asks, AllOps
<1>4. ASSUME Moves(op, seen), Target(op) \in DOMAIN StampOf
      PROVE  StampOf[Target(op)] \in DOMAIN stamps \/ seen[StampOf[Target(op)]] # NoOne
  BY <1>3, <1>4 DEF Stamps, StampOf, Target
<1>5. Moves(op, seen) /\ Target(op) = "CLOSED" => op = "close"
  BY <1>3 DEF Target
<1> HIDE DEF stamps
<1>6. /\ DOMAIN move = {"status"} /\ move["status"] = Target(op)
  OBVIOUS
<1> HIDE DEF move
<1>7. /\ DOMAIN Updated(stamps, move) = {"status"} \cup DOMAIN stamps /\ Updated(stamps, move)["status"] = Target(op)
      /\ \A x \in DOMAIN stamps \ {"status"} : Updated(stamps, move)[x] = s
  <2>1. /\ DOMAIN Updated(stamps, move) = DOMAIN stamps \cup DOMAIN move
        /\ \A x \in DOMAIN move : Updated(stamps, move)[x] = move[x]
        /\ \A x \in DOMAIN stamps \ DOMAIN move : Updated(stamps, move)[x] = stamps[x]
    BY ColumnsUpdated
  <2> QED  BY <1>2, <1>6, <2>1
<1>8. CASE Moves(op, seen)
  <2>1. Moved(op, seen, s) = Updated(stamps, move)
    BY <1>8 DEF Moved, move, stamps
  <2>2. "status" \notin Stamped
    BY DEF Stamped
  <2> QED  BY <1>1, <1>2, <1>4, <1>5, <1>7, <1>8, <2>1, <2>2
<1>9. CASE ~ Moves(op, seen)
  <2>1. Moved(op, seen, s) = <<>>
    BY <1>9 DEF Moved
  <2> QED  BY <1>9, <2>1, NoColumns
<1> QED  BY <1>8, <1>9

\* Every handler's change, and nothing else.
LEMMA HandlersChange ==
  ASSUME NEW op \in AllOps, NEW seen, NEW s \in Session, NEW a, seen.status \in IncidentStatus
  PROVE  LET c == Changed(op, seen, s, a)
         IN  /\ DOMAIN c \subseteq Columns
             /\ "status" \in DOMAIN c <=> Moves(op, seen)
             /\ Moves(op, seen) => c["status"] = Target(op) /\ Target(op) \in IncidentStatus
             /\ \A x \in DOMAIN c \cap Stamped : c[x] = s
             /\ Moves(op, seen) /\ Target(op) \in DOMAIN StampOf =>
                  StampOf[Target(op)] \in DOMAIN c \/ seen[StampOf[Target(op)]] # NoOne
             /\ Moves(op, seen) /\ Target(op) = "CLOSED" => op = "close"
             /\ {"alert_count", "correlated_alert_refs"} \cap DOMAIN c # {} =>
                  /\ op = "detect"
                  /\ {"alert_count", "correlated_alert_refs"} \subseteq DOMAIN c
                  /\ c["alert_count"] = seen.alert_count + 1
                  /\ c["correlated_alert_refs"] = seen.correlated_alert_refs \cup {a}
<1> DEFINE moved == Moved(op, seen, s)
           number == Numbered(op, s)
           attached == Attaches(op, seen, a)
           c == Updated(Updated(attached, number), moved)
<1>1. c = Changed(op, seen, s, a)
  BY DEF Changed, Moved, Numbered, Attaches
<1>2. /\ DOMAIN moved \subseteq {"status"} \cup Stamped
      /\ "status" \in DOMAIN moved <=> Moves(op, seen)
      /\ Moves(op, seen) => moved["status"] = Target(op) /\ Target(op) \in IncidentStatus
      /\ \A x \in DOMAIN moved \cap Stamped : moved[x] = s
      /\ Moves(op, seen) /\ Target(op) \in DOMAIN StampOf =>
           StampOf[Target(op)] \in DOMAIN moved \/ seen[StampOf[Target(op)]] # NoOne
      /\ Moves(op, seen) /\ Target(op) = "CLOSED" => op = "close"
  BY MoveColumns
<1>3. DOMAIN number \subseteq {"run"}
  BY NoColumns DEF Numbered
<1>4. /\ DOMAIN attached \subseteq {"alert_count", "correlated_alert_refs"}
      /\ DOMAIN attached # {} =>
           /\ op = "detect" /\ {"alert_count", "correlated_alert_refs"} \subseteq DOMAIN attached
           /\ attached["alert_count"] = seen.alert_count + 1
           /\ attached["correlated_alert_refs"] = seen.correlated_alert_refs \cup {a}
  BY NoColumns DEF Attaches, Attached
<1> HIDE DEF moved, number, attached
<1>5. /\ DOMAIN Updated(attached, number) = DOMAIN attached \cup DOMAIN number
      /\ \A x \in DOMAIN attached \ DOMAIN number : Updated(attached, number)[x] = attached[x]
  BY ColumnsUpdated
<1>6. /\ DOMAIN c = DOMAIN moved \cup DOMAIN number \cup DOMAIN attached
      /\ \A x \in DOMAIN moved : c[x] = moved[x]
      /\ \A x \in DOMAIN attached \ (DOMAIN moved \cup DOMAIN number) : c[x] = attached[x]
  <2> DEFINE r == Updated(attached, number)
  <2>1. /\ DOMAIN Updated(r, moved) = DOMAIN r \cup DOMAIN moved
        /\ \A x \in DOMAIN moved : Updated(r, moved)[x] = moved[x]
        /\ \A x \in DOMAIN r \ DOMAIN moved : Updated(r, moved)[x] = r[x]
    BY ColumnsUpdated
  <2> HIDE DEF r
  <2>2. c = Updated(r, moved)
    BY DEF r
  <2>3. /\ DOMAIN r = DOMAIN attached \cup DOMAIN number
        /\ \A x \in DOMAIN attached \ DOMAIN number : r[x] = attached[x]
    BY <1>5 DEF r
  <2> HIDE DEF c
  <2> QED  BY <2>1, <2>2, <2>3
<1>7. /\ \A x \in {"status"} \cup Stamped : x # "run" /\ x \notin {"alert_count", "correlated_alert_refs"}
      /\ "run" \notin {"alert_count", "correlated_alert_refs"} \cup {"status"}
      /\ "status" \notin {"alert_count", "correlated_alert_refs"}
  BY DEF Stamped
<1> HIDE DEF c
<1>8. DOMAIN c \subseteq Columns
  BY <1>2, <1>3, <1>4, <1>6 DEF Columns
<1>9. \A x \in {"status"} \cup Stamped : x \in DOMAIN c <=> x \in DOMAIN moved
  BY <1>3, <1>4, <1>6, <1>7
<1>10. \A x \in DOMAIN attached : c[x] = attached[x]
  BY <1>2, <1>3, <1>4, <1>6, <1>7
<1>11. \A x \in {"alert_count", "correlated_alert_refs"} : x \in DOMAIN c <=> x \in DOMAIN attached
  BY <1>2, <1>3, <1>6, <1>7
<1>12. {"alert_count", "correlated_alert_refs"} \cap DOMAIN c # {} =>
         /\ op = "detect"
         /\ {"alert_count", "correlated_alert_refs"} \subseteq DOMAIN c
         /\ c["alert_count"] = seen.alert_count + 1
         /\ c["correlated_alert_refs"] = seen.correlated_alert_refs \cup {a}
  BY <1>4, <1>10, <1>11
<1>13. Moves(op, seen) => c["status"] = Target(op) /\ Target(op) \in IncidentStatus
  BY <1>2, <1>6
<1>14. \A x \in DOMAIN c \cap Stamped : c[x] = s
  BY <1>2, <1>6, <1>9
<1>15. \A t \in DOMAIN StampOf : StampOf[t] \in Stamped
  BY DEF StampOf, Stamped
<1>16. Moves(op, seen) /\ Target(op) \in DOMAIN StampOf =>
         StampOf[Target(op)] \in DOMAIN c \/ seen[StampOf[Target(op)]] # NoOne
  BY <1>2, <1>9, <1>15
<1> QED  BY <1>1, <1>2, <1>8, <1>9, <1>12, <1>13, <1>14, <1>16

-----------------------------------------------------------------------------
(***************************************************************************)
(* Time goes on                                                            *)
(***************************************************************************)

\* What is committed later: more events, more alerts, more stamps.
Later ==
  /\ clock \in Nat /\ clock' \in Nat /\ clock <= clock'
  /\ timeline \subseteq timeline' /\ tied \subseteq tied'
  /\ \A m \in timeline : m \in Move
  /\ \A c \in Stamped : row[c] # NoOne => row'[c] # NoOne

LEMMA ReachedStays ==
  ASSUME NEW status, NEW t \in Nat, NEW u \in Nat, t <= u, Reached(status, t), Later
  PROVE  Reached(status, u)'
<1>1. CASE status = "DETECTED"
  BY <1>1 DEF Reached
<1>2. CASE \E e \in timeline : e.to = status /\ e.at < t
  <2>1. PICK e \in timeline : e.to = status /\ e.at < t
    BY <1>2
  <2>2. e \in timeline' /\ e.at \in Nat
    BY <2>1 DEF Later, Move
  <2>3. e.at < u
    BY <2>1, <2>2
  <2> QED  BY <2>1, <2>2, <2>3 DEF Reached
<1> QED  BY <1>1, <1>2 DEF Reached

LEMMA ToldStays ==
  ASSUME NEW m, Told(m), Later
  PROVE  Told(m)'
<1>1. m \in Move /\ m.at \in Nat /\ m.at < clock /\ Reached(m.from, m.at)
  BY DEF Told, Move
<1>2. m.at < clock'
  BY <1>1 DEF Later
<1>3. PICK status, t : status = m.from /\ t = m.at
  OBVIOUS
<1>4. Reached(status, t)'
  BY <1>1, <1>3, ReachedStays
<1>5. Reached(m.from, m.at)'
  BY <1>3, <1>4 DEF Reached
<1> QED  BY <1>1, <1>2, <1>5 DEF Told, Move, IncidentStatus

LEMMA ReadStays ==
  ASSUME NEW seen, Read(seen), Later
  PROVE  Read(seen)'
<1>1. PICK status : status = seen.status
  OBVIOUS
<1>2. Reached(status, clock) /\ clock \in Nat /\ clock' \in Nat /\ clock <= clock'
  BY <1>1 DEF Read, WellFormed, Later
<1>3. \A t, u \in Nat : t <= u /\ Reached(status, t) => Reached(status, u)'
  BY ReachedStays
<1>4. Reached(status, clock)'
  BY <1>2, <1>3 DEF Reached
<1>5. Reached(seen.status, clock)'
  BY <1>1, <1>4 DEF Reached
<1> QED  BY <1>5 DEF Read, WellFormed, Counted, Later, IncidentStatus

\* What a session holds is not overtaken in what matters.
LEMMA StaysSound ==
  ASSUME NEW q, Sound(q), Later, q.alert # NoOne => q.alert \notin tied'
  PROVE  Sound(q)'
<1>1. CASE q.step \in {"new", "done"}
  BY <1>1 DEF Sound, Shape
<1>2. CASE q.step \notin {"new", "done"}
  <2>1. Holds(q)
    BY <1>2 DEF Sound
  <2>2. OneStory(q)'
    <3>1. CASE q.events = {} /\ "status" \notin DOMAIN q.changed
      BY <3>1 DEF OneStory
    <3>2. CASE \E m \in Move : q.events = {m} /\ Told(m) /\ "status" \in DOMAIN q.changed /\ q.changed["status"] = m.to
      <4>1. PICK m \in Move : q.events = {m} /\ Told(m) /\ "status" \in DOMAIN q.changed /\ q.changed["status"] = m.to
        BY <3>2
      <4>2. Told(m)'
        BY <4>1, ToldStays
      <4> QED  BY <4>1, <4>2 DEF OneStory, Move
    <3> QED  BY <2>1, <3>1, <3>2 DEF Holds, OneStory
  <2>3. OneMore(q)'
    BY <2>1 DEF Holds, OneMore
  <2>4. StampsStay(q)'
    <3>1. \A x \in DOMAIN StampOf : StampOf[x] \in Stamped
      BY DEF StampOf, Stamped
    <3> QED  BY <2>1, <3>1 DEF Holds, StampsStay, Later
  <2>5. q.step # "evaluated" => Read(q.seen)'
    <3>1. PICK seen : seen = q.seen
      OBVIOUS
    <3>2. q.step # "evaluated" => Read(seen)'
      BY <2>1, <3>1, ReadStays DEF Holds
    <3> QED  BY <3>1, <3>2 DEF Read, WellFormed, Counted, Reached
  <2>6. Holds(q)'
    BY <2>1, <2>2, <2>3, <2>4, <2>5 DEF Holds
  <2> QED  BY <1>2, <2>6 DEF Sound, Shape
<1> QED  BY <1>1, <1>2

\* The same of a session's record.
LEMMA OthersStaySound ==
  ASSUME IInv, Later, NEW t \in Session, session'[t] = session[t],
         session[t].alert # NoOne => session[t].alert \notin tied'
  PROVE  Sound(session[t])'
<1>1. PICK q : q = session[t]
  OBVIOUS
<1>2. Sound(q) /\ session'[t] = q
  BY <1>1 DEF IInv
<1>3. Sound(q)'
  BY <1>1, <1>2, StaysSound
<1> QED  BY <1>2, <1>3 DEF Sound, Shape, Holds, Read, WellFormed, Counted, Reached, OneStory, Told, OneMore, StampsStay

-----------------------------------------------------------------------------
(***************************************************************************)
(* Steps of one session                                                    *)
(***************************************************************************)

\* One session has moved.
Became(s, q) ==
  /\ session' = [t \in Session |-> session'[t]]
  /\ session'[s] = q
  /\ \A t \in Session : t # s => session'[t] = session[t]

Record(step, op, seen, alert, changed, events, writes) ==
  [step |-> step, op |-> op, seen |-> seen, alert |-> alert,
   changed |-> changed, events |-> events, writes |-> writes]

LEMMA SessionMoves ==
  ASSUME NEW s \in Session, session = [t \in Session |-> session[t]], Sound(session[s]),
         NEW step, NEW op, NEW seen, NEW alert, NEW changed, NEW events, NEW writes
  PROVE  LET r == session[s]
         IN  /\ session' = [session EXCEPT ![s].op = op, ![s].seen = seen, ![s].step = step] =>
                  Became(s, Record(step, op, seen, r.alert, r.changed, r.events, r.writes))
             /\ session' = [session EXCEPT ![s].op = op, ![s].alert = alert, ![s].writes = writes, ![s].step = step] =>
                  Became(s, Record(step, op, r.seen, alert, r.changed, r.events, writes))
             /\ session' = [session EXCEPT ![s].seen = seen, ![s].step = step] =>
                  Became(s, Record(step, r.op, seen, r.alert, r.changed, r.events, r.writes))
             /\ session' = [session EXCEPT ![s].changed = changed, ![s].events = events, ![s].step = step] =>
                  Became(s, Record(step, r.op, r.seen, r.alert, changed, events, r.writes))
             /\ session' = [session EXCEPT ![s].writes = writes, ![s].step = step] =>
                  Became(s, Record(step, r.op, r.seen, r.alert, r.changed, r.events, writes))
             /\ session' = [session EXCEPT ![s].writes = writes] =>
                  Became(s, Record(r.step, r.op, r.seen, r.alert, r.changed, r.events, writes))
             /\ session' = [session EXCEPT ![s].changed = changed, ![s].step = step] =>
                  Became(s, Record(step, r.op, r.seen, r.alert, changed, r.events, r.writes))
             /\ session' = [session EXCEPT ![s].step = step] =>
                  Became(s, Record(step, r.op, r.seen, r.alert, r.changed, r.events, r.writes))
<1> DEFINE r == session[s]
<1>1. r = [step |-> r.step, op |-> r.op, seen |-> r.seen, alert |-> r.alert,
           changed |-> r.changed, events |-> r.events, writes |-> r.writes]
  BY DEF Sound, Shape
<1>2. ASSUME session' = [session EXCEPT ![s].op = op, ![s].seen = seen, ![s].step = step]
      PROVE  Became(s, Record(step, op, seen, r.alert, r.changed, r.events, r.writes))
  BY <1>1, <1>2 DEF Became, Record
<1>3. ASSUME session' = [session EXCEPT ![s].op = op, ![s].alert = alert, ![s].writes = writes, ![s].step = step]
      PROVE  Became(s, Record(step, op, r.seen, alert, r.changed, r.events, writes))
  BY <1>1, <1>3 DEF Became, Record
<1>4. ASSUME session' = [session EXCEPT ![s].seen = seen, ![s].step = step]
      PROVE  Became(s, Record(step, r.op, seen, r.alert, r.changed, r.events, r.writes))
  BY <1>1, <1>4 DEF Became, Record
<1>5. ASSUME session' = [session EXCEPT ![s].changed = changed, ![s].events = events, ![s].step = step]
      PROVE  Became(s, Record(step, r.op, r.seen, r.alert, changed, events, r.writes))
  BY <1>1, <1>5 DEF Became, Record
<1>6. ASSUME session' = [session EXCEPT ![s].writes = writes, ![s].step = step]
      PROVE  Became(s, Record(step, r.op, r.seen, r.alert, r.changed, r.events, writes))
  BY <1>1, <1>6 DEF Became, Record
<1>7. ASSUME session' = [session EXCEPT ![s].writes = writes]
      PROVE  Became(s, Record(r.step, r.op, r.seen, r.alert, r.changed, r.events, writes))
  BY <1>1, <1>7 DEF Became, Record
<1>8. ASSUME session' = [session EXCEPT ![s].changed = changed, ![s].step = step]
      PROVE  Became(s, Record(step, r.op, r.seen, r.alert, changed, r.events, r.writes))
  BY <1>1, <1>8 DEF Became, Record
<1>9. ASSUME session' = [session EXCEPT ![s].step = step]
      PROVE  Became(s, Record(step, r.op, r.seen, r.alert, r.changed, r.events, r.writes))
  BY <1>1, <1>9 DEF Became, Record
<1> QED  BY <1>2, <1>3, <1>4, <1>5, <1>6, <1>7, <1>8, <1>9

LEMMA SessionEnds ==
  ASSUME NEW s \in Session, session = [t \in Session |-> session[t]], Ends(s)
  PROVE  Became(s, Empty("done"))
  BY DEF Ends, Became

\* A session that touches only what is its own.
LEMMA OwnStep ==
  ASSUME IInv, UNCHANGED database, clock' \in Nat, clock <= clock',
         NEW s \in Session, NEW q, Became(s, q), Sound(q)',
         \A t \in Session : t # s /\ session[t].alert = q.alert => q.alert = NoOne
  PROVE  IInv'
<1>1. row' = row /\ timeline' = timeline /\ archived' = archived /\ state' = state /\ tied' = tied
  BY DEF database
<1>2. /\ session' = [t \in Session |-> session'[t]] /\ session'[s] = q
      /\ \A t \in Session : t # s => session'[t] = session[t]
  BY DEF Became
<1>3. Later
  BY <1>1 DEF Later, IInv, Committed, Told
<1>4. (WellFormed(row) /\ Counted(row))'
  <2>1. PICK seen : seen = row
    OBVIOUS
  <2>2. Read(seen)
    BY <2>1 DEF IInv, Committed, Read
  <2>3. Read(seen)'
    BY <1>3, <2>2, ReadStays
  <2> QED  BY <1>1, <2>1, <2>3 DEF Read, WellFormed, Counted, Reached
<1>5. ASSUME NEW m \in timeline PROVE Told(m)'
  BY <1>3, ToldStays DEF IInv, Committed
<1>6. Committed'
  BY <1>1, <1>4, <1>5 DEF IInv, Committed, StatusHasItsStamp
<1>7. AlertsApart'
  BY <1>2 DEF IInv, AlertsApart
<1>8. ASSUME NEW t \in Session PROVE Sound(session[t])'
  <2>1. CASE t = s
    BY <1>2, <2>1 DEF Sound, Shape, Holds, Read, WellFormed, Counted, Reached, OneStory, Told, OneMore, StampsStay
  <2>2. CASE t # s
    <3>1. session[t].alert # NoOne => session[t].alert \notin tied'
      BY <1>1 DEF IInv, Sound, Holds
    <3> QED  BY <1>2, <1>3, <2>2, <3>1, OthersStaySound
  <2> QED  BY <2>1, <2>2
<1> QED  BY <1>2, <1>6, <1>7, <1>8 DEF IInv

\* And while no time passes.
LEMMA QuietStep ==
  ASSUME IInv, UNCHANGED <<database, clock>>, NEW s \in Session, NEW q, Became(s, q), Sound(q),
         \A t \in Session : t # s /\ session[t].alert = q.alert => q.alert = NoOne
  PROVE  IInv'
<1>1. row' = row /\ timeline' = timeline /\ tied' = tied /\ clock' = clock /\ clock \in Nat /\ UNCHANGED database
  BY DEF database, IInv
<1>2. Later
  BY <1>1 DEF Later, IInv, Committed, Told
<1>3. q.alert # NoOne => q.alert \notin tied'
  BY <1>1 DEF Sound, Holds
<1>4. Sound(q)'
  BY <1>2, <1>3, StaysSound
<1> QED  BY <1>1, <1>4, OwnStep

\* Before it decides a session has nothing to write: what it reads meanwhile is free.
LEMMA ReadingIsSound ==
  ASSUME IInv, NEW step \in {"evaluated", "loaded"}, NEW op \in AllOps, NEW seen, NEW alert, NEW writes,
         step = "loaded" => seen = row,
         alert # NoOne => alert \in Alert \ tied,
         step = "loaded" /\ op = "detect" => alert # NoOne
  PROVE  Sound(Record(step, op, seen, alert, <<>>, {}, writes))
<1>1. PICK q : q = Record(step, op, seen, alert, <<>>, {}, writes)
  OBVIOUS
<1>2. /\ q.step = step /\ q.op = op /\ q.seen = seen /\ q.alert = alert /\ q.changed = <<>>
      /\ q.events = {} /\ q.writes = writes
  BY <1>1 DEF Record
<1>3. Shape(q)
  BY <1>1, <1>2 DEF Shape, Record
<1>4. step = "loaded" => Read(seen)
  BY DEF IInv, Committed, Read
<1>5. DOMAIN q.changed = {}
  BY <1>2, NoColumns
<1>6. OneStory(q) /\ OneMore(q) /\ StampsStay(q)
  BY <1>2, <1>5 DEF OneStory, OneMore, StampsStay
<1>7. Holds(q)
  BY <1>2, <1>4, <1>5, <1>6 DEF Holds
<1> QED  BY <1>1, <1>2, <1>3, <1>7 DEF Sound

\* What was written is kept by a session that goes on.
LEMMA GoingOnIsSound ==
  ASSUME IInv, NEW s \in Session, NEW step, NEW writes,
         LET r == session[s]
         IN  \/ step = r.step /\ step \notin {"new", "done"}
             \/ r.step = "decided" /\ step = "flushed"
             \/ r.step = "flushed" /\ step = "swept"
  PROVE  LET r == session[s]
         IN  Sound(Record(step, r.op, r.seen, r.alert, r.changed, r.events, writes))
<1> DEFINE r == session[s]
<1>1. PICK q : q = Record(step, r.op, r.seen, r.alert, r.changed, r.events, writes)
  OBVIOUS
<1>2. /\ q.step = step /\ q.op = r.op /\ q.seen = r.seen /\ q.alert = r.alert /\ q.changed = r.changed
      /\ q.events = r.events /\ q.writes = writes
  BY <1>1 DEF Record
<1>3. Shape(q)
  BY <1>1, <1>2 DEF Shape, Record
<1>4. Sound(r) /\ r.step \notin {"new", "done"} /\ step \notin {"new", "done"}
  BY DEF IInv
<1>5. Holds(r)
  BY <1>4 DEF Sound
<1> HIDE DEF r
<1>6. OneStory(q) /\ OneMore(q) /\ StampsStay(q)
  BY <1>2, <1>5 DEF Holds, OneStory, OneMore, StampsStay
<1>7. \/ step = r.step
      \/ r.step = "decided" /\ step = "flushed"
      \/ r.step = "flushed" /\ step = "swept"
  BY DEF r
<1>8. Holds(q)
  BY <1>2, <1>5, <1>6, <1>7 DEF Holds
<1> QED  BY <1>1, <1>2, <1>3, <1>8 DEF Sound, r

LEMMA GoingOnKeeps ==
  ASSUME IInv, UNCHANGED <<database, clock>>, NEW s \in Session, NEW step, NEW writes,
         LET r == session[s]
         IN  /\ \/ step = r.step /\ step \notin {"new", "done"}
                \/ r.step = "decided" /\ step = "flushed"
                \/ r.step = "flushed" /\ step = "swept"
             /\ Became(s, Record(step, r.op, r.seen, r.alert, r.changed, r.events, writes))
  PROVE  IInv'
<1> DEFINE r == session[s]
<1>1. PICK q : q = Record(step, r.op, r.seen, r.alert, r.changed, r.events, writes)
  OBVIOUS
<1>2. Became(s, q)
  BY <1>1 DEF Became
<1>3. Sound(q)
  BY <1>1, GoingOnIsSound
<1>4. \A t \in Session : t # s /\ session[t].alert = q.alert => q.alert = NoOne
  BY <1>1 DEF IInv, AlertsApart, Record
<1> QED  BY <1>2, <1>3, <1>4, QuietStep

LEMMA WriteAlertKeeps ==
  ASSUME IInv, NEW s \in Session, WriteAlert(s)
  PROVE  IInv'
<1> DEFINE r == session[s]
<1>1. Sound(r) /\ session = [t \in Session |-> session[t]] /\ r.step \in {"evaluated", "swept"} /\ UNCHANGED <<database, clock>>
  BY DEF IInv, WriteAlert, At
<1>2. session' = [session EXCEPT ![s].writes = Tail(session[s].writes)]
  BY DEF WriteAlert
<1>3. Became(s, Record(r.step, r.op, r.seen, r.alert, r.changed, r.events, Tail(r.writes)))
  BY <1>1, <1>2, SessionMoves
<1> QED  BY <1>1, <1>3, GoingOnKeeps

LEMMA FlushKeeps ==
  ASSUME IInv, NEW s \in Session, Flush(s)
  PROVE  IInv'
<1> DEFINE r == session[s]
<1>1. Sound(r) /\ session = [t \in Session |-> session[t]] /\ r.step = "decided" /\ UNCHANGED <<database, clock>>
  BY DEF IInv, Flush, At
<1>2. session' = [session EXCEPT ![s].step = "flushed"]
  BY DEF Flush
<1>3. Became(s, Record("flushed", r.op, r.seen, r.alert, r.changed, r.events, r.writes))
  BY <1>1, <1>2, SessionMoves
<1> QED  BY <1>1, <1>3, GoingOnKeeps

LEMMA SweepKeeps ==
  ASSUME IInv, NEW s \in Session, Sweep(s)
  PROVE  IInv'
<1> DEFINE r == session[s]
<1>1. Sound(r) /\ session = [t \in Session |-> session[t]] /\ r.step = "flushed" /\ UNCHANGED <<database, clock>>
  BY DEF IInv, Sweep, At
<1>2. PICK swept : session' = [session EXCEPT ![s].writes = swept, ![s].step = "swept"]
  BY DEF Sweep
<1>3. Became(s, Record("swept", r.op, r.seen, r.alert, r.changed, r.events, swept))
  BY <1>1, <1>2, SessionMoves
<1> QED  BY <1>1, <1>3, GoingOnKeeps

LEMMA LoadKeeps ==
  ASSUME IInv, NEW s \in Session, Load(s)
  PROVE  IInv'
<1> DEFINE r == session[s]
<1>1. PICK op \in Ops \ {"detect"} :
        session' = [session EXCEPT ![s].op = op, ![s].seen = row, ![s].step = "loaded"]
  BY DEF Load
<1>2. Sound(r) /\ session = [t \in Session |-> session[t]] /\ r.step = "new" /\ UNCHANGED <<database, clock>>
  BY DEF IInv, Load, Begins, At
<1>3. Became(s, Record("loaded", op, row, r.alert, r.changed, r.events, r.writes))
  BY <1>1, <1>2, SessionMoves
<1>4. op \in AllOps /\ r.alert = NoOne /\ r.changed = <<>> /\ r.events = {}
  BY <1>2, SessionsAssumption DEF Sound
<1>5. PICK q : q = Record("loaded", op, row, NoOne, <<>>, {}, r.writes)
  OBVIOUS
<1>6. Became(s, q)
  BY <1>3, <1>4, <1>5 DEF Became
<1>7. Sound(q) /\ q.alert = NoOne
  BY <1>1, <1>4, <1>5, ReadingIsSound DEF Record
<1> QED  BY <1>2, <1>6, <1>7, QuietStep

\* A rule's alert is new to the incident, and to the other sessions.
LEMMA EvaluateKeeps ==
  ASSUME IInv, NEW s \in Session, Evaluate(s)
  PROVE  IInv'
<1> DEFINE r == session[s]
<1>1. PICK a \in MayFire, writes \in Orders({b \in Alert : state[b] = "FIRING"}) :
        session' = [session EXCEPT ![s].op = "detect", ![s].alert = a, ![s].writes = writes, ![s].step = "evaluated"]
  BY DEF Evaluate
<1>2. Sound(r) /\ session = [t \in Session |-> session[t]] /\ r.step = "new" /\ UNCHANGED <<database, clock>>
  BY DEF IInv, Evaluate, Begins, At
<1>3. r.changed = <<>> /\ r.events = {}
  BY <1>2 DEF Sound
<1>4. /\ a # NoOne => a \in Alert \ tied
      /\ \A t \in Session : t # s /\ session[t].alert = a => a = NoOne
  BY <1>1 DEF MayFire, IInv, Committed
<1>5. Became(s, Record("evaluated", "detect", r.seen, a, r.changed, r.events, writes))
  BY <1>1, <1>2, SessionMoves
<1>6. PICK q : q = Record("evaluated", "detect", r.seen, a, <<>>, {}, writes)
  OBVIOUS
<1>7. Became(s, q) /\ q.alert = a
  BY <1>3, <1>5, <1>6 DEF Became, Record
<1>8. Sound(q)
  BY <1>4, <1>6, ReadingIsSound DEF AllOps
<1> QED  BY <1>2, <1>4, <1>7, <1>8, QuietStep

\* A session that ends without a commit.
LEMMA EndKeeps ==
  ASSUME IInv, NEW s \in Session, Ends(s), UNCHANGED <<database, clock>>
  PROVE  IInv'
<1>1. Became(s, Empty("done"))
  BY SessionEnds DEF IInv
<1>2. PICK q : q = Empty("done")
  OBVIOUS
<1>3. Became(s, q)
  BY <1>1, <1>2 DEF Became
<1>4. Sound(q) /\ q.alert = NoOne
  BY <1>2 DEF Sound, Shape, Empty
<1> QED  BY <1>3, <1>4, QuietStep

LEMMA CorrelateKeeps ==
  ASSUME IInv, NEW s \in Session, Correlate(s)
  PROVE  IInv'
<1> DEFINE r == session[s]
<1>1. /\ Sound(r) /\ session = [t \in Session |-> session[t]] /\ r.step = "evaluated" /\ r.alert # NoOne
      /\ UNCHANGED <<database, clock>> /\ AlertsApart
  BY DEF IInv, Correlate, At
<1>2. r.op \in AllOps /\ r.changed = <<>> /\ r.events = {} /\ r.alert \in Alert \ tied
  BY <1>1 DEF Sound, Holds
<1>3. CASE row.status \in Machine!OPEN_INCIDENT_STATUSES
  <2>1. session' = [session EXCEPT ![s].seen = row, ![s].step = "loaded"]
    BY <1>3 DEF Correlate
  <2>2. Became(s, Record("loaded", r.op, row, r.alert, r.changed, r.events, r.writes))
    BY <1>1, <2>1, SessionMoves
  <2>3. PICK q : q = Record("loaded", r.op, row, r.alert, <<>>, {}, r.writes)
    OBVIOUS
  <2>4. Became(s, q) /\ q.alert = r.alert
    BY <1>2, <2>2, <2>3 DEF Became, Record
  <2>5. Sound(q)
    BY <1>1, <1>2, <2>3, ReadingIsSound
  <2>6. \A t \in Session : t # s /\ session[t].alert = q.alert => q.alert = NoOne
    BY <1>1, <2>4 DEF AlertsApart
  <2> QED  BY <1>1, <2>4, <2>5, <2>6, QuietStep
<1>4. CASE row.status \notin Machine!OPEN_INCIDENT_STATUSES
  BY <1>1, <1>4, EndKeeps DEF Correlate
<1> QED  BY <1>3, <1>4

\* The event is stamped now, and what the handler has read was committed before.
LEMMA DecideKeeps ==
  ASSUME IInv, NEW s \in Session, Decide(s)
  PROVE  IInv'
<1> DEFINE r == session[s]
           changed == Changed(r.op, r.seen, s, r.alert)
           events == Events(r.op, r.seen, s)
<1>1. Sound(r) /\ session = [t \in Session |-> session[t]] /\ r.step = "loaded" /\ UNCHANGED database /\ AlertsApart
  BY DEF IInv, Decide, At
<1>2. /\ session' = [session EXCEPT ![s].changed = changed, ![s].events = events, ![s].step = "decided"]
      /\ clock' = IF events = {} THEN clock ELSE clock + 1
  BY DEF Decide
<1>3. Became(s, Record("decided", r.op, r.seen, r.alert, changed, events, r.writes))
  BY <1>1, <1>2, SessionMoves
<1>4. PICK q : q = Record("decided", r.op, r.seen, r.alert, changed, events, r.writes)
  OBVIOUS
<1>5. /\ q.step = "decided" /\ q.op = r.op /\ q.seen = r.seen /\ q.alert = r.alert /\ q.changed = changed
      /\ q.events = events /\ q.writes = r.writes /\ Shape(q) /\ Became(s, q)
  BY <1>3, <1>4 DEF Record, Shape, Became
<1>6. clock \in Nat /\ clock' \in Nat /\ clock <= clock'
  BY <1>2 DEF IInv
<1>7. Later
  BY <1>1, <1>6 DEF Later, database, IInv, Committed, Told
<1>8. /\ r.op \in AllOps /\ (r.op = "detect" => r.alert # NoOne) /\ Read(r.seen)
      /\ r.alert # NoOne => r.alert \in Alert \ tied
  BY <1>1 DEF Sound, Holds
<1>9. r.seen.status \in IncidentStatus /\ Reached(r.seen.status, clock)
  BY <1>8 DEF Read, WellFormed
<1>10. /\ DOMAIN changed \subseteq Columns
       /\ "status" \in DOMAIN changed <=> Moves(r.op, r.seen)
       /\ Moves(r.op, r.seen) => changed["status"] = Target(r.op) /\ Target(r.op) \in IncidentStatus
       /\ \A x \in DOMAIN changed \cap Stamped : changed[x] = s
       /\ Moves(r.op, r.seen) /\ Target(r.op) \in DOMAIN StampOf =>
            StampOf[Target(r.op)] \in DOMAIN changed \/ r.seen[StampOf[Target(r.op)]] # NoOne
       /\ Moves(r.op, r.seen) /\ Target(r.op) = "CLOSED" => r.op = "close"
       /\ {"alert_count", "correlated_alert_refs"} \cap DOMAIN changed # {} =>
            /\ r.op = "detect"
            /\ {"alert_count", "correlated_alert_refs"} \subseteq DOMAIN changed
            /\ changed["alert_count"] = r.seen.alert_count + 1
            /\ changed["correlated_alert_refs"] = r.seen.correlated_alert_refs \cup {r.alert}
  BY <1>8, <1>9, HandlersChange
<1>11. \/ events = {} /\ ~ Moves(r.op, r.seen)
       \/ Moves(r.op, r.seen) /\ events = {[from |-> r.seen.status, to |-> Target(r.op), by |-> s, at |-> clock]}
  BY DEF Events
<1> HIDE DEF changed, events, r
<1>12. OneStory(q)'
  <2>1. CASE events = {} /\ ~ Moves(r.op, r.seen)
    BY <1>5, <1>10, <2>1 DEF OneStory
  <2>2. CASE Moves(r.op, r.seen) /\ events = {[from |-> r.seen.status, to |-> Target(r.op), by |-> s, at |-> clock]}
    <3>1. PICK m : m = [from |-> r.seen.status, to |-> Target(r.op), by |-> s, at |-> clock]
      OBVIOUS
    <3>2. m.from = r.seen.status /\ m.to = Target(r.op) /\ m.at = clock /\ m \in Move /\ events = {m}
      BY <1>6, <1>9, <1>10, <2>2, <3>1 DEF Move, IncidentStatus
    <3>3. clock' = clock + 1
      BY <1>2, <3>2
    <3>4. \A status : \A t \in Nat : Reached(status, t) => Reached(status, t)'
      BY <1>7, ReachedStays
    <3>5. PICK status, t : status = r.seen.status /\ t = clock
      OBVIOUS
    <3>6. Reached(status, t)'
      BY <1>6, <1>9, <3>4, <3>5
    <3>7. m.from = status /\ m.at = t /\ m.at < clock'
      BY <1>6, <3>2, <3>3, <3>5
    <3>8. Told(m)'
      BY <3>2, <3>6, <3>7 DEF Told, Move, IncidentStatus
    <3> QED  BY <1>5, <1>10, <2>2, <3>2, <3>8 DEF OneStory, Move
  <2> QED  BY <1>11, <2>1, <2>2
<1>13. OneMore(q)'
  BY <1>5, <1>8, <1>10 DEF OneMore
<1>14. StampsStay(q)'
  <2>1. \A x \in Stamped : r.seen[x] # NoOne => row'[x] # NoOne
    BY <1>7, <1>8 DEF Read, Later
  <2>2. \A x \in Stamped \cap DOMAIN changed : changed[x] # NoOne
    BY <1>10, SessionsAssumption
  <2>3. \A t \in DOMAIN StampOf : StampOf[t] \in Stamped
    BY DEF StampOf, Stamped
  <2> QED  BY <1>5, <1>10, <2>1, <2>2, <2>3 DEF StampsStay
<1>15. Read(q.seen)'
  <2>1. PICK seen : seen = q.seen
    OBVIOUS
  <2>2. Read(seen)'
    BY <1>5, <1>7, <1>8, <2>1, ReadStays
  <2> QED  BY <2>1, <2>2 DEF Read, WellFormed, Counted, Reached
<1>16. (r.alert # NoOne => r.alert \in Alert \ tied')
  BY <1>1, <1>8 DEF database
<1>17. Holds(q)'
  BY <1>5, <1>8, <1>10, <1>12, <1>13, <1>14, <1>15, <1>16 DEF Holds
<1>18. Sound(q)'
  BY <1>5, <1>17 DEF Sound, Shape
<1>19. \A t \in Session : t # s /\ session[t].alert = q.alert => q.alert = NoOne
  BY <1>1, <1>5 DEF AlertsApart, r
<1> QED  BY <1>1, <1>5, <1>6, <1>18, <1>19, OwnStep

\* The failed run is all that is left of an analysis that breaks.
LEMMA FailureKeeps ==
  ASSUME IInv, NEW s \in Session, AnalysisBreaks(s) \/ MarkFailed(s)
  PROVE  IInv'
<1> DEFINE r == session[s]
<1>1. Sound(r) /\ session = [t \in Session |-> session[t]] /\ UNCHANGED <<database, clock>> /\ AlertsApart
  BY DEF IInv, AnalysisBreaks, MarkFailed
<1>2. r.step \in {"flushed", "failing"}
  BY DEF AnalysisBreaks, MarkFailed, At
<1>3. Holds(r)
  BY <1>1, <1>2 DEF Sound
<1>4. PICK changed, step :
        /\ Became(s, Record(step, r.op, r.seen, r.alert, changed, {}, r.writes))
        /\ (changed = <<>> /\ step = "failing") \/ (changed = [run |-> s] /\ step = "marked")
  <2>1. CASE AnalysisBreaks(s)
    <3>1. session' = [session EXCEPT ![s].changed = <<>>, ![s].events = {}, ![s].step = "failing"]
      BY <2>1 DEF AnalysisBreaks
    <3>2. Became(s, Record("failing", r.op, r.seen, r.alert, <<>>, {}, r.writes))
      BY <1>1, <3>1, SessionMoves
    <3> QED  BY <3>2
  <2>2. CASE MarkFailed(s)
    <3>1. session' = [session EXCEPT ![s].changed = [run |-> s], ![s].step = "marked"] /\ r.step = "failing"
      BY <2>2 DEF MarkFailed, At
    <3>2. Became(s, Record("marked", r.op, r.seen, r.alert, [run |-> s], r.events, r.writes))
      BY <1>1, <3>1, SessionMoves
    <3>3. r.events = {}
      BY <1>3, <3>1 DEF Holds
    <3> QED  BY <3>2, <3>3
  <2> QED  BY <2>1, <2>2
<1>5. DOMAIN changed \subseteq {"run"} /\ step \in {"failing", "marked"} /\ (step = "failing" => changed = <<>>)
  BY <1>4, NoColumns
<1>6. PICK q : q = Record(step, r.op, r.seen, r.alert, changed, {}, r.writes)
  OBVIOUS
<1>7. /\ q.step = step /\ q.op = r.op /\ q.seen = r.seen /\ q.alert = r.alert /\ q.changed = changed
      /\ q.events = {} /\ q.writes = r.writes /\ Shape(q) /\ Became(s, q)
  BY <1>4, <1>6 DEF Record, Shape, Became
<1>8. r.op \in AllOps /\ Read(r.seen) /\ (r.alert # NoOne => r.alert \in Alert \ tied)
  BY <1>2, <1>3 DEF Holds
<1> HIDE DEF r
<1>9. OneStory(q) /\ OneMore(q) /\ StampsStay(q) /\ DOMAIN q.changed \subseteq Columns
  BY <1>5, <1>7 DEF OneStory, OneMore, StampsStay, Stamped, Columns
<1>10. Sound(q)
  BY <1>5, <1>7, <1>8, <1>9 DEF Sound, Holds
<1>11. \A t \in Session : t # s /\ session[t].alert = q.alert => q.alert = NoOne
  BY <1>1, <1>7 DEF AlertsApart, r
<1> QED  BY <1>1, <1>7, <1>10, <1>11, QuietStep

-----------------------------------------------------------------------------
(***************************************************************************)
(* A commit                                                                *)
(***************************************************************************)

\* A session that commits is under way.
LEMMA CommitHolds ==
  ASSUME IInv, NEW s \in Session, Commit(s)
  PROVE  Holds(session[s])
<1>1. session[s].step \in {"flushed", "marked", "swept", "evaluated"}
  BY DEF Commit, Finished, At
<1> QED  BY <1>1 DEF IInv, Sound

\* What the row is when a session's columns are written over it.
LEMMA RowWritten ==
  ASSUME IInv, NEW s \in Session, Commit(s)
  PROVE  LET c == session[s].changed
         IN  /\ DOMAIN row' = Columns
             /\ \A x \in DOMAIN c : row'[x] = c[x]
             /\ \A x \in Columns \ DOMAIN c : row'[x] = row[x]
             /\ \A x \in Stamped : row[x] # NoOne => row'[x] # NoOne
<1> DEFINE c == session[s].changed
<1>1. DOMAIN row = Columns /\ DOMAIN c \subseteq Columns /\ (\A x \in Stamped \cap DOMAIN c : c[x] # NoOne)
  BY CommitHolds DEF IInv, Committed, WellFormed, Holds, StampsStay
<1>2. /\ DOMAIN Updated(row, c) = DOMAIN row \cup DOMAIN c
      /\ \A x \in DOMAIN c : Updated(row, c)[x] = c[x]
      /\ \A x \in DOMAIN row \ DOMAIN c : Updated(row, c)[x] = row[x]
  BY ColumnsUpdated
<1>3. row' = Updated(row, c)
  BY DEF Commit
<1> HIDE DEF c
<1>4. Stamped \subseteq Columns
  BY DEF Columns
<1>5. /\ DOMAIN row' = Columns
      /\ \A x \in DOMAIN c : row'[x] = c[x]
      /\ \A x \in Columns \ DOMAIN c : row'[x] = row[x]
  BY <1>1, <1>2, <1>3
<1>6. ASSUME NEW x \in Stamped, row[x] # NoOne PROVE row'[x] # NoOne
  BY <1>1, <1>4, <1>5, <1>6
<1> QED  BY <1>5, <1>6 DEF c

LEMMA CommitIsLater ==
  ASSUME IInv, NEW s \in Session, Commit(s)
  PROVE  Later
<1>1. timeline' = timeline \cup session[s].events /\ tied' = tied \cup ({session[s].alert} \ {NoOne}) /\ clock' = clock
  BY DEF Commit
<1>2. \A x \in Stamped : row[x] # NoOne => row'[x] # NoOne
  BY RowWritten
<1>3. clock \in Nat /\ \A m \in timeline : m \in Move
  BY DEF IInv, Committed, Told
<1> QED  BY <1>1, <1>2, <1>3 DEF Later

\* Status and timeline.
LEMMA CommitTellsOneStory ==
  ASSUME IInv, NEW s \in Session, Commit(s)
  PROVE  WellFormed(row)' /\ \A m \in timeline' : Told(m)'
<1> DEFINE r == session[s]
<1>1. /\ OneStory(r) /\ WellFormed(row) /\ (\A m \in timeline : Told(m))
      /\ timeline' = timeline \cup r.events /\ clock' = clock /\ clock \in Nat
  BY CommitHolds DEF IInv, Committed, Holds, Commit
<1>2. /\ DOMAIN row' = Columns /\ "status" \in Columns
      /\ "status" \in DOMAIN r.changed => row'["status"] = r.changed["status"]
      /\ "status" \notin DOMAIN r.changed => row'["status"] = row["status"]
  BY RowWritten DEF Columns
<1>3. Later
  BY CommitIsLater
<1> HIDE DEF r
<1>4. \A m : Told(m) => Told(m)'
  BY <1>3, ToldStays
<1>5. CASE r.events = {} /\ "status" \notin DOMAIN r.changed
  <2>1. timeline' = timeline /\ row'.status = row.status
    BY <1>1, <1>2, <1>5
  <2>2. Reached(row.status, clock)'
    BY <1>1, <2>1 DEF WellFormed, Reached
  <2> QED  BY <1>1, <1>2, <1>4, <2>1, <2>2 DEF WellFormed, IncidentStatus
<1>6. CASE \E m \in Move : r.events = {m} /\ Told(m) /\ "status" \in DOMAIN r.changed /\ r.changed["status"] = m.to
  <2>1. PICK m \in Move : r.events = {m} /\ Told(m) /\ "status" \in DOMAIN r.changed /\ r.changed["status"] = m.to
    BY <1>6
  <2>2. timeline' = timeline \cup {m} /\ row'.status = m.to /\ m.to \in IncidentStatus /\ m.at < clock
    BY <1>1, <1>2, <2>1 DEF Move, IncidentStatus, Told
  <2>3. Reached(row.status, clock)'
    BY <1>1, <2>2 DEF Reached
  <2>4. \A e \in timeline' : Told(e)'
    BY <1>1, <1>4, <2>1, <2>2
  <2> QED  BY <1>2, <2>2, <2>3, <2>4 DEF WellFormed, IncidentStatus
<1> QED  BY <1>1, <1>5, <1>6 DEF OneStory

\* Counter and list: no other session brings the alert that is added.
LEMMA CommitCounts ==
  ASSUME IInv, NEW s \in Session, Commit(s)
  PROVE  Counted(row)'
<1> DEFINE r == session[s]
           both == {"alert_count", "correlated_alert_refs"}
<1>1. Holds(r)
  BY CommitHolds
<1>2. Counted(row) /\ OneMore(r) /\ (r.alert # NoOne => r.alert \notin tied)
  BY <1>1 DEF IInv, Committed, Holds
<1>3. tied' = tied \cup ({r.alert} \ {NoOne})
  BY DEF Commit
<1>4. /\ both \subseteq Columns
      /\ \A x \in DOMAIN r.changed : row'[x] = r.changed[x]
      /\ \A x \in Columns \ DOMAIN r.changed : row'[x] = row[x]
  BY RowWritten DEF Columns
<1> HIDE DEF r
<1>5. CASE both \cap DOMAIN r.changed = {}
  <2>1. row'.alert_count = row.alert_count /\ row'.correlated_alert_refs = row.correlated_alert_refs
    BY <1>4, <1>5
  <2> QED  BY <1>2, <1>3, <2>1 DEF Counted
<1>6. CASE both \cap DOMAIN r.changed # {}
  <2>1. /\ both \subseteq DOMAIN r.changed /\ r.alert # NoOne
        /\ r.changed["alert_count"] = r.seen.alert_count + 1
        /\ r.changed["correlated_alert_refs"] = r.seen.correlated_alert_refs \cup {r.alert}
    BY <1>2, <1>6 DEF OneMore
  <2>2. /\ row'.alert_count = r.seen.alert_count + 1
        /\ row'.correlated_alert_refs = r.seen.correlated_alert_refs \cup {r.alert}
    BY <1>4, <2>1
  <2>3. Counted(r.seen)
    <3>1. r.changed # <<>>
      BY <1>6, NoColumns
    <3> QED  BY <1>1, <3>1 DEF Holds, Read
  <2> DEFINE refs == r.seen.correlated_alert_refs
  <2>4. IsFiniteSet(refs) /\ r.alert \notin refs /\ r.seen.alert_count = Cardinality(refs) /\ refs \subseteq tied
    BY <1>2, <2>1, <2>3 DEF Counted
  <2> HIDE DEF refs
  <2>5. IsFiniteSet(refs \cup {r.alert}) /\ Cardinality(refs \cup {r.alert}) = Cardinality(refs) + 1
    BY <2>4, FS_AddElement
  <2> QED  BY <1>3, <2>1, <2>2, <2>4, <2>5 DEF Counted, refs
<1> QED  BY <1>5, <1>6

\* Status and stamp.
LEMMA CommitStamps ==
  ASSUME IInv, NEW s \in Session, Commit(s)
  PROVE  StatusHasItsStamp'
<1> DEFINE r == session[s]
<1>1. StampsStay(r) /\ StatusHasItsStamp
  BY CommitHolds DEF IInv, Committed, Holds
<1>2. archived' = (archived \/ r.op = "close")
  BY DEF Commit, Archives
<1>3. /\ \A x \in DOMAIN r.changed : row'[x] = r.changed[x]
      /\ \A x \in Columns \ DOMAIN r.changed : row'[x] = row[x]
      /\ \A x \in Stamped : row[x] # NoOne => row'[x] # NoOne
  BY RowWritten
<1>4. /\ Stamped \subseteq Columns /\ "status" \in Columns
      /\ DOMAIN StampOf = {"ACKNOWLEDGED", "MITIGATING", "RESOLVED", "CLOSED"}
      /\ \A t \in DOMAIN StampOf : StampOf[t] \in Stamped
  BY DEF Columns, Stamped, StampOf
<1>5. \A t \in DOMAIN StampOf : row.status = t => row[StampOf[t]] # NoOne
  BY <1>1 DEF StatusHasItsStamp, StampOf
<1> HIDE DEF r
<1>6. ASSUME NEW t \in DOMAIN StampOf, row'["status"] = t PROVE row'[StampOf[t]] # NoOne
  <2>1. CASE "status" \in DOMAIN r.changed
    <3>1. r.changed["status"] = t
      BY <1>3, <1>6, <2>1
    <3>2. StampOf[t] \in DOMAIN r.changed \/ row[StampOf[t]] # NoOne
      BY <1>1, <2>1, <3>1 DEF StampsStay
    <3>3. StampOf[t] \in DOMAIN r.changed => r.changed[StampOf[t]] # NoOne
      BY <1>1, <1>4 DEF StampsStay
    <3> QED  BY <1>3, <1>4, <3>2, <3>3
  <2>2. CASE "status" \notin DOMAIN r.changed
    BY <1>3, <1>4, <1>5, <1>6, <2>2
  <2> QED  BY <2>1, <2>2
<1>7. ASSUME row'["status"] = "CLOSED" PROVE archived'
  <2>1. CASE "status" \in DOMAIN r.changed
    BY <1>1, <1>2, <1>3, <1>7, <2>1 DEF StampsStay
  <2>2. CASE "status" \notin DOMAIN r.changed
    BY <1>1, <1>2, <1>3, <1>4, <1>7, <2>2 DEF StatusHasItsStamp
  <2> QED  BY <2>1, <2>2
<1>8. /\ StampOf["ACKNOWLEDGED"] = "acknowledged" /\ StampOf["MITIGATING"] = "mitigated"
      /\ StampOf["RESOLVED"] = "resolved" /\ StampOf["CLOSED"] = "closed"
  BY DEF StampOf
<1> QED  BY <1>4, <1>6, <1>7, <1>8 DEF StatusHasItsStamp

\* The alerts.
LEMMA CommitTies ==
  ASSUME IInv, NEW s \in Session, Commit(s)
  PROVE  /\ state' = [a \in Alert |-> state'[a]]
         /\ tied' \subseteq {a \in Alert : state'[a] # "NONE"}
<1> DEFINE r == session[s]
           swept == Swept(s)
<1>1. r.alert # NoOne => r.alert \in Alert
  BY CommitHolds DEF Holds
<1>2. /\ state' = [a \in Alert |-> IF a \in swept THEN "RESOLVED"
                                   ELSE IF a = r.alert THEN "FIRING" ELSE state[a]]
      /\ tied' = tied \cup ({r.alert} \ {NoOne})
  BY DEF Commit
<1>3. tied \subseteq {a \in Alert : state[a] # "NONE"}
  BY DEF IInv, Committed
<1> HIDE DEF r, swept
<1> QED  BY <1>1, <1>2, <1>3

LEMMA CommitKeeps ==
  ASSUME IInv, NEW s \in Session, Commit(s)
  PROVE  IInv'
<1> DEFINE r == session[s]
<1>1. session = [u \in Session |-> session[u]] /\ AlertsApart /\ clock' \in Nat
  BY DEF IInv, Commit
<1>2. Became(s, Empty("done"))
  BY <1>1, SessionEnds DEF Commit
<1>3. /\ session' = [u \in Session |-> session'[u]] /\ session'[s] = Empty("done") /\ session'[s].alert = NoOne
      /\ \A u \in Session : u # s => session'[u] = session[u]
  BY <1>2 DEF Became, Empty
<1>4. AlertsApart'
  BY <1>1, <1>3 DEF AlertsApart
<1>5. Committed'
  BY CommitTellsOneStory, CommitCounts, CommitStamps, CommitTies DEF Committed
<1>6. ASSUME NEW t \in Session PROVE Sound(session[t])'
  <2>1. CASE t = s
    BY <1>3, <2>1 DEF Sound, Shape, Empty
  <2>2. CASE t # s
    <3>1. tied' = tied \cup ({r.alert} \ {NoOne})
      BY DEF Commit
    <3>2. session[t].alert # NoOne => session[t].alert \notin tied
      BY DEF IInv, Sound, Holds
    <3>3. session[t].alert # NoOne => session[t].alert # r.alert
      BY <1>1, <2>2 DEF AlertsApart
    <3>4. session[t].alert # NoOne => session[t].alert \notin tied'
      BY <3>1, <3>2, <3>3
    <3> QED  BY <1>3, <2>2, <3>4, CommitIsLater, OthersStaySound
  <2> QED  BY <2>1, <2>2
<1> QED  BY <1>1, <1>3, <1>4, <1>5, <1>6 DEF IInv

-----------------------------------------------------------------------------
(***************************************************************************)
(* What overlapping sessions keep                                          *)
(***************************************************************************)

LEMMA StartsSound == Init => IInv
<1> SUFFICES ASSUME Init PROVE IInv
  OBVIOUS
<1>1. /\ row = [status |-> "DETECTED", acknowledged |-> NoOne, mitigated |-> NoOne, resolved |-> NoOne,
                closed |-> NoOne, run |-> NoOne, alert_count |-> 1, correlated_alert_refs |-> {FirstAlert}]
      /\ timeline = {} /\ tied = {FirstAlert} /\ clock \in Nat
      /\ state = [a \in Alert |-> IF a = FirstAlert THEN "FIRING" ELSE "NONE"]
      /\ session = [s \in Session |-> Empty("new")]
  BY DEF Init
<1>2. WellFormed(row)
  BY <1>1 DEF WellFormed, Columns, Stamped, IncidentStatus, Machine!IncidentStatus, Reached
<1>3. Counted(row)
  <2>1. IsFiniteSet({FirstAlert}) /\ Cardinality({FirstAlert}) = 1
    BY FS_Singleton
  <2> QED  BY <1>1, <2>1 DEF Counted
<1>4. StatusHasItsStamp /\ \A m \in timeline : Told(m)
  BY <1>1 DEF StatusHasItsStamp
<1>5. state = [a \in Alert |-> state[a]] /\ tied \subseteq {a \in Alert : state[a] # "NONE"}
  BY <1>1, SessionsAssumption
<1>6. Committed
  BY <1>2, <1>3, <1>4, <1>5 DEF Committed
<1>7. ASSUME NEW s \in Session PROVE Sound(session[s]) /\ session[s].alert = NoOne
  BY <1>1 DEF Sound, Shape, Empty
<1>8. AlertsApart
  BY <1>7 DEF AlertsApart
<1>9. session = [s \in Session |-> session[s]]
  BY <1>1
<1> QED  BY <1>1, <1>6, <1>7, <1>8, <1>9 DEF IInv

LEMMA NothingKeeps ==
  ASSUME IInv, UNCHANGED vars
  PROVE  IInv'
<1>1. /\ row' = row /\ timeline' = timeline /\ archived' = archived /\ state' = state /\ tied' = tied
      /\ clock' = clock /\ session' = session
  BY DEF vars
<1>2. Committed' /\ AlertsApart'
  BY <1>1 DEF IInv, Committed, WellFormed, Counted, Told, Reached, StatusHasItsStamp, AlertsApart
<1>3. Later
  BY <1>1 DEF Later, IInv, Committed, Told
<1>4. ASSUME NEW t \in Session PROVE Sound(session[t])'
  <2>1. session[t].alert # NoOne => session[t].alert \notin tied'
    BY <1>1 DEF IInv, Sound, Holds
  <2> QED  BY <1>1, <1>3, <2>1, OthersStaySound
<1> QED  BY <1>1, <1>2, <1>4 DEF IInv

LEMMA NextKeeps == IInv /\ [Next]_vars => IInv'
<1> SUFFICES ASSUME IInv, [Next]_vars PROVE IInv'
  OBVIOUS
<1>1. CASE UNCHANGED vars
  BY <1>1, NothingKeeps
<1>2. ASSUME NEW s \in Session,
             \/ Load(s) \/ Evaluate(s)
             \/ Proceed(s)
             \/ AnalysisBreaks(s) \/ Crash(s) \/ BreakDeadlock(s)
      PROVE  IInv'
  <2>1. CASE Refuse(s) \/ Crash(s) \/ BreakDeadlock(s)
    <3>1. Ends(s) /\ UNCHANGED <<database, clock>>
      BY <2>1 DEF Refuse, Crash, BreakDeadlock, Rollback
    <3> QED  BY <3>1, EndKeeps
  <2>2. CASE Proceed(s)
    BY <2>1, <2>2, WriteAlertKeeps, CorrelateKeeps, DecideKeeps, FlushKeeps, SweepKeeps, FailureKeeps,
       CommitKeeps DEF Proceed
  <2> QED  BY <1>2, <2>1, <2>2, LoadKeeps, EvaluateKeeps, FailureKeeps
<1> QED  BY <1>1, <1>2 DEF Next

\* transition() stamps its event and writes it with the status, in one transaction
\* (incidents/engine.py): whatever sessions overlap, however stale what they decide on and
\* whichever are rolled back, the timeline has an entry for the committed status, and each
\* entry leaves a status that an entry stamped before it had reached.
THEOREM StatusIsAlwaysExplained == Spec => []StatusIsExplained
<1>1. IInv => StatusIsExplained
  BY DEF IInv, Committed, WellFormed, Told, StatusIsExplained
<1> QED  BY <1>1, StartsSound, NextKeeps, PTL DEF Spec

\* _attach_alert computes counter and list from one object: both may lose an alert to another
\* worker, but never one without the other, and they list only alerts that point back.
THEOREM CountAlwaysMatchesRefs == Spec => []CountMatchesRefs
<1>1. IInv => CountMatchesRefs
  BY DEF IInv, Committed, Counted, CountMatchesRefs
<1> QED  BY <1>1, StartsSound, NextKeeps, PTL DEF Spec

\* acknowledge, execute, resolve and close stamp only what their object lacks: for any
\* overlap of sessions an acknowledged, mitigating, resolved or closed incident has the
\* stamp of its status, and a closed one is archived.
THEOREM StatusAlwaysHasItsStamp == Spec => []StatusHasItsStamp
<1>1. IInv => StatusHasItsStamp
  BY DEF IInv, Committed
<1> QED  BY <1>1, StartsSound, NextKeeps, PTL DEF Spec
=============================================================================
