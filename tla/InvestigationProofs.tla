------------------------ MODULE InvestigationProofs -------------------------
(***************************************************************************)
(* For any number of investigations of one incident, of the worker or of   *)
(* people, any number of requests to resolve it with a cause of their own, *)
(* and whatever tools and models answer: the findings are those of one     *)
(* completed run, and the run an incident names is there.                  *)
(*                                                                         *)
(* The argument is the row lock.  add_event flushes the incident's new run *)
(* id at the start, so that an investigation holds the row of the incident *)
(* from then to its end, and what it deletes is still all there is when it *)
(* commits.  A request to resolve holds it from its write to its end.  The *)
(* second half is about what is stored: the root cause is that of the      *)
(* findings or what a person has said since, and verdicts rest on stored   *)
(* evidence.                                                               *)
(***************************************************************************)
EXTENDS Investigation, WellFoundedInduction, TLAPS

USE DEF people

\* The steps at which the row is not held: before it is claimed, after the end, and
\* between the rollback of a broken transaction and the second one.
Unlocked == {"new", "skipped", "loaded", "recreating", "done", "dead"}

Fields(step, seen, stale, world, bundle, broken, result, deletes) ==
  [step |-> step, seen |-> seen, stale |-> stale, world |-> world, bundle |-> bundle,
   broken |-> broken, result |-> result, deletes |-> deletes]

IsSession(s) ==
  \E step, seen, stale, world, bundle, broken, result, deletes :
    s = Fields(step, seen, stale, world, bundle, broken, result, deletes)

Shape ==
  /\ session = [r \in Run |-> session[r]] /\ \A r \in Run : IsSession(session[r])
  /\ incident = [run |-> incident.run, root_cause |-> incident.root_cause, confidence |-> incident.confidence]
  /\ findings = [r \in DOMAIN findings |-> findings[r]]
  /\ agent_runs = [r \in DOMAIN agent_runs |-> agent_runs[r]]

RowIsHeld == \A r \in Run : session[r].step \notin Unlocked => rowLock = r

DeletesWhatIsThere == \A r \in Run : session[r].step = "persisted" => session[r].deletes = DOMAIN findings

\* A run whose findings are stored has ended, so that it will not be marked as failed.
StoredRunsAreDone ==
  \A r \in DOMAIN findings :
    /\ r \in Run /\ session[r].step = "done"
    /\ r \in DOMAIN agent_runs /\ agent_runs[r] = "COMPLETED"

OneRunIsStored == \A q, r \in DOMAIN findings : q = r

ConfidenceHasFindings == incident.confidence # None => DOMAIN findings # {}

\* A request that has written the incident holds its row.
ResolversHold ==
  /\ resolver = [p \in Resolver |-> resolver[p]]
  /\ \A p \in Resolver : resolver[p].step = "resolving" => rowLock = p

IInv ==
  /\ Shape /\ RowIsHeld /\ DeletesWhatIsThere /\ StoredRunsAreDone /\ OneRunIsStored
  /\ ConfidenceHasFindings /\ LastRunIsKept /\ ResolversHold

\* A step of one investigation that commits nothing.
Uncommitted(r) ==
  /\ UNCHANGED <<incident, findings, agent_runs, resolver>>
  /\ session' = [q \in Run |-> session'[q]] /\ IsSession(session'[r])
  /\ \A q \in Run \ {r} : session'[q] = session[q]
  /\ session[r].step # "done"
  /\ session'[r].step \notin Unlocked => rowLock' = r
  /\ rowLock' # rowLock => rowLock \in {None, r}
  /\ session'[r].step = "persisted" => session'[r].deletes = DOMAIN findings

LEMMA UncommittedKeepsIInv ==
  ASSUME IInv, NEW r \in Run, Uncommitted(r) PROVE IInv'
<1> USE DEF IInv, Uncommitted
<1>1. Shape'
  BY DEF Shape
<1>2. RowIsHeld'
  <2> SUFFICES ASSUME NEW q \in Run, (session[q].step \notin Unlocked)' PROVE rowLock' = q
    BY DEF RowIsHeld
  <2>1. CASE q = r
    BY <2>1
  <2>2. CASE q # r
    <3>1. rowLock = q
      BY <2>2 DEF RowIsHeld
    <3>2. q # None
      BY InvestigationAssumption
    <3> QED  BY <2>2, <3>1, <3>2
  <2> QED  BY <2>1, <2>2
<1>3. DeletesWhatIsThere'
  BY DEF DeletesWhatIsThere
<1>4. StoredRunsAreDone'
  BY DEF StoredRunsAreDone
<1>5. OneRunIsStored' /\ ConfidenceHasFindings' /\ LastRunIsKept'
  BY DEF OneRunIsStored, ConfidenceHasFindings, LastRunIsKept
<1>6. ResolversHold'
  <2> SUFFICES ASSUME NEW p \in Resolver, resolver[p].step = "resolving" PROVE rowLock' = p
    BY DEF ResolversHold
  <2>1. rowLock = p /\ p \notin {None, r}
    BY InvestigationAssumption DEF ResolversHold
  <2> QED  BY <2>1
<1> QED  BY <1>1, <1>2, <1>3, <1>4, <1>5, <1>6

-----------------------------------------------------------------------------
\* What writing a session does.
LEMMA WriteLemma ==
  ASSUME Shape, NEW r \in Run, NEW s, IsSession(s), session' = [session EXCEPT ![r] = s]
  PROVE  /\ session' = [q \in Run |-> session'[q]] /\ IsSession(session'[r])
         /\ \A q \in Run \ {r} : session'[q] = session[q]
         /\ session'[r] = s
BY DEF Shape

LEMMA EndsLemma ==
  ASSUME Shape, NEW r \in Run, NEW step, Ends(r, step)
  PROVE  /\ session' = [q \in Run |-> session'[q]] /\ IsSession(session'[r])
         /\ \A q \in Run \ {r} : session'[q] = session[q]
         /\ session'[r].step = step
BY DEF Shape, Ends, Session, IsSession, Fields

LEMMA GoesLemma ==
  ASSUME Shape, NEW r \in Run, NEW step, Goes(r, step)
  PROVE  /\ session' = [q \in Run |-> session'[q]] /\ IsSession(session'[r])
         /\ \A q \in Run \ {r} : session'[q] = session[q]
         /\ session'[r].step = step
<1> DEFINE old == session[r]
           new == [old EXCEPT !.step = step]
<1>1. session' = [session EXCEPT ![r] = new]
  BY DEF Goes, Shape
<1>2. IsSession(old)
  BY DEF Shape
<1>3. new = [old EXCEPT !.step = step]
  OBVIOUS
<1> HIDE DEF old, new
<1>4. IsSession(new) /\ new.step = step
  <2>1. PICK s1, s2, s3, s4, s5, s6, s7, s8 : old = Fields(s1, s2, s3, s4, s5, s6, s7, s8)
    BY <1>2 DEF IsSession
  <2>2. new = Fields(step, s2, s3, s4, s5, s6, s7, s8)
    BY <1>3, <2>1 DEF Fields
  <2> QED  BY <2>2 DEF IsSession, Fields
<1> QED  BY <1>1, <1>4, WriteLemma

LEMMA ToolsAreLocked ==
  /\ \A i \in DOMAIN Playbook : Playbook[i] \notin Unlocked /\ Playbook[i] # "persisted"
  /\ \A i \in DOMAIN Playbook : Following(Playbook[i]) \notin Unlocked /\ Following(Playbook[i]) # "persisted"
<1>1. DOMAIN Playbook = 1 .. 5 /\ Len(Playbook) = 5
  BY DEF Playbook
<1>2. \A i \in 1 .. 5 : Playbook[i] \notin Unlocked /\ Playbook[i] # "persisted"
  BY DEF Playbook, Unlocked
<1>3. ASSUME NEW i \in 1 .. 5 PROVE Following(Playbook[i]) \notin Unlocked /\ Following(Playbook[i]) # "persisted"
  <2> DEFINE j == CHOOSE k \in DOMAIN Playbook : Playbook[k] = Playbook[i]
  <2>1. j \in 1 .. 5
    BY <1>1
  <2>2. Following(Playbook[i]) = IF j = 5 THEN "gathered" ELSE Playbook[j + 1]
    BY <1>1 DEF Following
  <2> HIDE DEF j
  <2> QED  BY <1>2, <2>1, <2>2 DEF Unlocked
<1> QED  BY <1>1, <1>2, <1>3

LEMMA ToolsAreNamed ==
  \A tool \in {Playbook[i] : i \in DOMAIN Playbook} :
    /\ tool \in {"query_metrics", "search_logs", "get_recent_deployments", "get_dependencies", "get_related_incidents"}
    /\ Following(tool) \notin {"analysed", "persisted"}
<1>1. DOMAIN Playbook = 1 .. 5 /\ Len(Playbook) = 5
  BY DEF Playbook
<1>2. \A i \in 1 .. 5 :
        Playbook[i] \in {"query_metrics", "search_logs", "get_recent_deployments", "get_dependencies", "get_related_incidents"}
  BY DEF Playbook
<1>3. ASSUME NEW i \in 1 .. 5 PROVE Following(Playbook[i]) \notin {"analysed", "persisted"}
  <2> DEFINE j == CHOOSE k \in DOMAIN Playbook : Playbook[k] = Playbook[i]
  <2>1. j \in 1 .. 5
    BY <1>1
  <2>2. Following(Playbook[i]) = IF j = 5 THEN "gathered" ELSE Playbook[j + 1]
    BY <1>1 DEF Following
  <2> HIDE DEF j
  <2> QED  BY <1>2, <2>1, <2>2
<1> QED  BY <1>1, <1>2, <1>3

LEMMA LoadIsUncommitted ==
  ASSUME IInv, NEW r \in Run, Load(r) PROVE Uncommitted(r)
<1>1. CASE Ends(r, "skipped")
  BY <1>1, EndsLemma DEF IInv, Load, At, Uncommitted, Unlocked
<1>2. CASE session' = [session EXCEPT ![r].step = "loaded", ![r].seen = incident]
  <2> DEFINE old == session[r]
             new == [old EXCEPT !.step = "loaded", !.seen = incident]
  <2>1. session' = [session EXCEPT ![r] = new]
    BY <1>2 DEF IInv, Shape
  <2>2. IsSession(old)
    BY DEF IInv, Shape
  <2>3. new = [old EXCEPT !.step = "loaded", !.seen = incident]
    OBVIOUS
  <2> HIDE DEF old, new
  <2>4. IsSession(new) /\ new.step = "loaded"
    <3>1. PICK s1, s2, s3, s4, s5, s6, s7, s8 : old = Fields(s1, s2, s3, s4, s5, s6, s7, s8)
      BY <2>2 DEF IsSession
    <3>2. new = Fields("loaded", incident, s3, s4, s5, s6, s7, s8)
      BY <2>3, <3>1 DEF Fields
    <3> QED  BY <3>2 DEF IsSession, Fields
  <2> QED  BY <2>1, <2>4, WriteLemma DEF IInv, Load, At, Uncommitted, Unlocked
<1> QED  BY <1>1, <1>2 DEF Load

LEMMA BeginIsUncommitted ==
  ASSUME IInv, NEW r \in Run, Begin(r) PROVE Uncommitted(r)
<1>1. PICK b \in Bundles :
        session' = [session EXCEPT ![r].step = "query_metrics", ![r].world = b, ![r].stale = session[r].seen # incident]
  BY DEF Begin, Playbook
<1> DEFINE stale == session[r].seen # incident
<1> DEFINE old == session[r]
           new == [old EXCEPT !.step = "query_metrics", !.world = b, !.stale = stale]
<1>2. session' = [session EXCEPT ![r] = new]
  BY <1>1 DEF IInv, Shape
<1>3. IsSession(old)
  BY DEF IInv, Shape
<1>4. new = [old EXCEPT !.step = "query_metrics", !.world = b, !.stale = stale]
  OBVIOUS
<1> HIDE DEF old, new
<1>5. IsSession(new) /\ new.step = "query_metrics"
  <2>1. PICK s1, s2, s3, s4, s5, s6, s7, s8 : old = Fields(s1, s2, s3, s4, s5, s6, s7, s8)
    BY <1>3 DEF IsSession
  <2>2. new = Fields("query_metrics", s2, stale, b, s5, s6, s7, s8)
    BY <1>4, <2>1 DEF Fields
  <2> QED  BY <2>2 DEF IsSession, Fields
<1>6. session[r].step = "loaded" /\ rowLock' = r /\ rowLock \in {None, r} /\ UNCHANGED <<incident, findings, agent_runs, resolver>>
  BY DEF Begin, At, Claims, Free
<1> QED  BY <1>2, <1>5, <1>6, WriteLemma DEF IInv, Uncommitted

LEMMA GatherIsUncommitted ==
  ASSUME IInv, NEW r \in Run, Gather(r) PROVE Uncommitted(r)
<1>1. PICK tool \in {Playbook[i] : i \in DOMAIN Playbook} :
        /\ At(r, tool) /\ UNCHANGED <<incident, findings, agent_runs, rowLock, resolver>>
        /\ \/ \E b : session' = [session EXCEPT ![r] = [session[r] EXCEPT !.step = Following(tool), !.bundle = b]]
           \/ session' = [session EXCEPT ![r] =
                [[session[r] EXCEPT !.step = Following(tool), !.bundle = Nothing]
                   EXCEPT !.world = Nothing, !.broken = TRUE]]
  <2>1. PICK tool \in {Playbook[i] : i \in DOMAIN Playbook} :
          /\ At(r, tool)
          /\ LET s == session[r]
                 Returned(b) == [s EXCEPT !.step = Following(tool), !.bundle = b]
             IN  \/ /\ ~ s.broken
                    /\ \E lost \in IF tool = "query_metrics" THEN SUBSET s.world.metrics ELSE {{}} :
                         session' = [session EXCEPT ![r] = Returned(Adds(tool, s.bundle, Without(s.world, lost)))]
                 \/ ~ s.broken /\ session' = [session EXCEPT ![r] = Returned(s.bundle)]
                 \/ session' = [session EXCEPT ![r] = [Returned(Nothing) EXCEPT !.world = Nothing, !.broken = TRUE]]
          /\ UNCHANGED <<provider, incident, findings, agent_runs, rowLock, people>>
    BY Zenon DEF Gather
  <2> QED  BY <2>1, Zenon
<1>2. session[r].step \notin Unlocked /\ Following(tool) \notin Unlocked /\ Following(tool) # "persisted"
  BY <1>1, ToolsAreLocked DEF At
<1>3. session[r].step # "done" /\ rowLock = r
  BY <1>2 DEF IInv, RowIsHeld, Unlocked
<1> DEFINE next == Following(tool)
<1>4. ASSUME NEW t, \/ \E b : t = [session[r] EXCEPT !.step = next, !.bundle = b]
                   \/ t = [[session[r] EXCEPT !.step = next, !.bundle = Nothing] EXCEPT !.world = Nothing, !.broken = TRUE]
      PROVE  IsSession(t) /\ t.step = next
  <2> DEFINE old == session[r]
  <2>1. PICK s1, s2, s3, s4, s5, s6, s7, s8 : old = Fields(s1, s2, s3, s4, s5, s6, s7, s8)
    BY DEF IInv, Shape, IsSession
  <2>2. \/ \E b : t = [old EXCEPT !.step = next, !.bundle = b]
        \/ t = [[old EXCEPT !.step = next, !.bundle = Nothing] EXCEPT !.world = Nothing, !.broken = TRUE]
    BY <1>4
  <2> HIDE DEF old, next
  <2>3. ASSUME NEW b, t = [old EXCEPT !.step = next, !.bundle = b] PROVE IsSession(t) /\ t.step = next
    <3>1. t = Fields(next, s2, s3, s4, b, s6, s7, s8)
      BY <2>1, <2>3 DEF Fields
    <3> QED  BY <3>1 DEF IsSession, Fields
  <2>4. ASSUME t = [[old EXCEPT !.step = next, !.bundle = Nothing] EXCEPT !.world = Nothing, !.broken = TRUE]
        PROVE  IsSession(t) /\ t.step = next
    <3>1. t = Fields(next, s2, s3, Nothing, Nothing, TRUE, s7, s8)
      BY <2>1, <2>4 DEF Fields
    <3> QED  BY <3>1 DEF IsSession, Fields
  <2> QED  BY <2>2, <2>3, <2>4
<1>5. PICK s : session' = [session EXCEPT ![r] = s] /\ IsSession(s) /\ s.step = next
  BY <1>1, <1>4, Zenon
<1> QED  BY <1>1, <1>2, <1>3, <1>5, WriteLemma DEF IInv, Uncommitted

LEMMA AnalyseIsUncommitted ==
  ASSUME IInv, NEW r \in Run, Analyse(r) \/ Unavailable(r) PROVE Uncommitted(r)
<1>1. session[r].step = "gathered" /\ rowLock = r /\ UNCHANGED <<incident, findings, agent_runs, rowLock, resolver>>
  BY DEF Analyse, Unavailable, At, IInv, RowIsHeld, Unlocked
<1>2. CASE Fruitless(r)
  BY <1>1, <1>2, EndsLemma DEF IInv, Fruitless, Uncommitted
<1>3. ASSUME NEW answer, Concluded(r, answer) PROVE Uncommitted(r)
  <2>1. PICK x : session' = [session EXCEPT ![r].step = "analysed", ![r].world = Nothing,
                                            ![r].bundle = Nothing, ![r].result = x]
    BY <1>3, Zenon DEF Concluded
  <2> DEFINE old == session[r]
             new == [old EXCEPT !.step = "analysed", !.world = Nothing, !.bundle = Nothing, !.result = x]
  <2>2. session' = [session EXCEPT ![r] = new]
    BY <2>1 DEF IInv, Shape
  <2>3. IsSession(old)
    BY DEF IInv, Shape
  <2>4. new = [old EXCEPT !.step = "analysed", !.world = Nothing, !.bundle = Nothing, !.result = x]
    OBVIOUS
  <2> HIDE DEF old, new
  <2>5. IsSession(new) /\ new.step = "analysed"
    <3>1. PICK s1, s2, s3, s4, s5, s6, s7, s8 : old = Fields(s1, s2, s3, s4, s5, s6, s7, s8)
      BY <2>3 DEF IsSession
    <3>2. new = Fields("analysed", s2, s3, Nothing, Nothing, s6, x, s8)
      BY <2>4, <3>1 DEF Fields
    <3> QED  BY <3>2 DEF IsSession, Fields
  <2> QED  BY <1>1, <2>2, <2>5, WriteLemma DEF IInv, Uncommitted
<1>4. Fruitless(r) \/ \E answer : Concluded(r, answer)
  BY Zenon DEF Analyse, Unavailable
<1> QED  BY <1>2, <1>3, <1>4

LEMMA PersistIsUncommitted ==
  ASSUME IInv, NEW r \in Run, Persist(r) PROVE Uncommitted(r)
<1>1. session[r].step = "analysed" /\ rowLock = r
  BY DEF Persist, At, IInv, RowIsHeld, Unlocked
<1> DEFINE old == session[r]
           new == [old EXCEPT !.step = "persisted", !.deletes = DOMAIN findings]
<1>2. session' = [session EXCEPT ![r] = new]
  BY DEF Persist, Cleared, IInv, Shape
<1>3. IsSession(old)
  BY DEF IInv, Shape
<1>4. new = [old EXCEPT !.step = "persisted", !.deletes = DOMAIN findings]
  OBVIOUS
<1> HIDE DEF old, new
<1>5. IsSession(new) /\ new.step = "persisted" /\ new.deletes = DOMAIN findings
  <2>1. PICK s1, s2, s3, s4, s5, s6, s7, s8 : old = Fields(s1, s2, s3, s4, s5, s6, s7, s8)
    BY <1>3 DEF IsSession
  <2>2. new = Fields("persisted", s2, s3, s4, s5, s6, s7, DOMAIN findings)
    BY <1>4, <2>1 DEF Fields
  <2> QED  BY <2>2 DEF IsSession, Fields
<1> QED  BY <1>1, <1>2, <1>5, WriteLemma DEF IInv, Persist, Uncommitted

LEMMA EndingsAreUncommitted ==
  ASSUME IInv, NEW r \in Run, Break(r) \/ Fail(r) \/ Crash(r) PROVE Uncommitted(r)
<1>1. CASE Break(r)
  <2>1. rowLock = r /\ session[r].step # "done"
    BY <1>1 DEF Break, IInv, RowIsHeld, Unlocked
  <2> QED  BY <1>1, <2>1, EndsLemma DEF IInv, Break, Uncommitted
<1>2. CASE Fail(r)
  <2>1. rowLock = r
    BY <1>2 DEF Fail, At, IInv, RowIsHeld, Unlocked
  <2> QED  BY <1>2, <2>1, GoesLemma DEF IInv, Fail, At, RollBack, Release, Uncommitted, Unlocked
<1>3. CASE Crash(r)
  BY <1>3, EndsLemma DEF IInv, Crash, Release, Uncommitted, Unlocked
<1> QED  BY <1>1, <1>2, <1>3

-----------------------------------------------------------------------------
\* A commit: the row is held or taken, so that no other investigation is between its
\* claim and its end.
Committed(r) ==
  /\ session' = [q \in Run |-> session'[q]] /\ IsSession(session'[r])
  /\ \A q \in Run \ {r} : session'[q] = session[q]
  /\ session'[r].step = "done"
  /\ rowLock \in {None, r} /\ rowLock' = None /\ resolver' = resolver
  /\ r \in DOMAIN agent_runs' /\ \A q \in DOMAIN agent_runs \ {r} : q \in DOMAIN agent_runs' /\ agent_runs'[q] = agent_runs[q]
  /\ agent_runs' = [q \in DOMAIN agent_runs' |-> agent_runs'[q]]
  /\ incident'.run = r
  /\ incident' = [run |-> incident'.run, root_cause |-> incident'.root_cause, confidence |-> incident'.confidence]

LEMMA CommittedKeepsLock ==
  ASSUME IInv, NEW r \in Run, Committed(r)
  PROVE  RowIsHeld' /\ DeletesWhatIsThere' /\ LastRunIsKept' /\ ResolversHold'
<1>1. \A q \in Run : session'[q].step \in Unlocked
  <2> SUFFICES ASSUME NEW q \in Run, q # r PROVE session[q].step \in Unlocked
    BY DEF Committed, Unlocked
  <2> QED  BY InvestigationAssumption DEF Committed, IInv, RowIsHeld
<1>2. "persisted" \notin Unlocked
  BY DEF Unlocked
<1>3. \A p \in Resolver : resolver[p].step # "resolving"
  BY InvestigationAssumption DEF Committed, IInv, ResolversHold
<1>4. ResolversHold'
  BY <1>3 DEF ResolversHold, IInv, Committed
<1> QED  BY <1>1, <1>2, <1>4 DEF RowIsHeld, DeletesWhatIsThere, LastRunIsKept, Committed

LEMMA CompleteKeepsIInv ==
  ASSUME IInv, NEW r \in Run, Complete(r) PROVE IInv'
<1>1. session[r].step = "persisted" /\ rowLock = r /\ session[r].deletes = DOMAIN findings
  BY DEF Complete, At, IInv, RowIsHeld, DeletesWhatIsThere, Unlocked
<1>2. findings' = [q \in {r} |-> session[r].result]
  <2>1. DOMAIN findings \ session[r].deletes = {}
    BY <1>1
  <2> QED  BY <2>1 DEF Complete, WithRow
<1>3. agent_runs' = [q \in {r} \cup DOMAIN agent_runs |-> IF q = r THEN "COMPLETED" ELSE agent_runs[q]]
  BY DEF Complete, WithRow
<1>4. /\ session' = [q \in Run |-> session'[q]] /\ IsSession(session'[r])
      /\ \A q \in Run \ {r} : session'[q] = session[q]
      /\ session'[r].step = "done" /\ rowLock' = None /\ resolver' = resolver
  BY <1>1, EndsLemma DEF Complete, Release, IInv
<1>5. /\ incident'.run = r
      /\ incident' = [run |-> incident'.run, root_cause |-> incident'.root_cause, confidence |-> incident'.confidence]
  BY DEF Complete
<1>6. Committed(r)
  BY <1>1, <1>3, <1>4, <1>5 DEF Committed
<1>7. Shape'
  BY <1>2, <1>3, <1>4, <1>5 DEF IInv, Shape
<1>8. StoredRunsAreDone' /\ OneRunIsStored' /\ ConfidenceHasFindings'
  BY <1>2, <1>3, <1>4 DEF StoredRunsAreDone, OneRunIsStored, ConfidenceHasFindings
<1> QED  BY <1>6, <1>7, <1>8, CommittedKeepsLock DEF IInv

LEMMA MarkFailedKeepsIInv ==
  ASSUME IInv, NEW r \in Run, MarkFailed(r) PROVE IInv'
<1>1. session[r].step \in {"unavailable", "recreating"} /\ rowLock \in {None, r}
  BY DEF MarkFailed, At, Free
<1>2. agent_runs' = [q \in {r} \cup DOMAIN agent_runs |-> IF q = r THEN "FAILED" ELSE agent_runs[q]]
  BY DEF MarkFailed, FailedRun, WithRow
<1>3. /\ session' = [q \in Run |-> session'[q]] /\ IsSession(session'[r])
      /\ \A q \in Run \ {r} : session'[q] = session[q]
      /\ session'[r].step = "done" /\ rowLock' = None /\ resolver' = resolver
  BY <1>1, EndsLemma DEF MarkFailed, Release, IInv
<1>4. /\ incident'.run = r /\ incident'.confidence = incident.confidence
      /\ incident' = [run |-> incident'.run, root_cause |-> incident'.root_cause, confidence |-> incident'.confidence]
  BY DEF MarkFailed, IInv, Shape
<1>5. Committed(r)
  BY <1>1, <1>2, <1>3, <1>4 DEF Committed
<1>6. findings' = findings
  BY DEF MarkFailed
<1>7. Shape'
  BY <1>2, <1>3, <1>4, <1>6 DEF IInv, Shape
<1>8. StoredRunsAreDone'
  <2>1. r \notin DOMAIN findings
    BY <1>1 DEF IInv, StoredRunsAreDone
  <2> QED  BY <1>2, <1>3, <1>6, <2>1 DEF IInv, StoredRunsAreDone
<1>9. OneRunIsStored' /\ ConfidenceHasFindings'
  BY <1>4, <1>6 DEF IInv, OneRunIsStored, ConfidenceHasFindings
<1> QED  BY <1>5, <1>7, <1>8, <1>9, CommittedKeepsLock DEF IInv

-----------------------------------------------------------------------------
\* What writing the record of a request to resolve does.
LEMMA RequestLemma ==
  ASSUME ResolversHold, NEW p \in Resolver, NEW new, resolver' = [resolver EXCEPT ![p] = new]
  PROVE  /\ resolver' = [q \in Resolver |-> resolver'[q]] /\ resolver'[p] = new
         /\ \A q \in Resolver \ {p} : resolver'[q] = resolver[q]
BY DEF ResolversHold

\* Such a request touches neither findings nor investigations, and the incident's row only
\* while nobody else has it.
Resolves(p) == LoadToResolve(p) \/ Resolve(p) \/ CommitResolve(p) \/ AbandonResolve(p)

LEMMA ResolveKeepsIInv ==
  ASSUME IInv, NEW p \in Resolver, Resolves(p) PROVE IInv'
<1>1. UNCHANGED <<provider, findings, agent_runs, session>>
  BY DEF Resolves, LoadToResolve, Resolve, CommitResolve, AbandonResolve
<1>2. /\ incident'.run = incident.run /\ incident'.confidence = incident.confidence
      /\ incident' = [run |-> incident'.run, root_cause |-> incident'.root_cause, confidence |-> incident'.confidence]
  <2>1. CASE CommitResolve(p)
    <3> DEFINE cause == Updated("root_cause", resolver[p].text, [root_cause |-> resolver[p].seen])
    <3>1. incident' = [incident EXCEPT !.root_cause = cause]
      BY <2>1 DEF CommitResolve
    <3> HIDE DEF cause
    <3>2. PICK a, b, c : incident = [run |-> a, root_cause |-> b, confidence |-> c]
      BY DEF IInv, Shape
    <3> QED  BY <3>1, <3>2
  <2>2. CASE incident' = incident
    BY <2>2 DEF IInv, Shape
  <2> QED  BY <2>1, <2>2 DEF Resolves, LoadToResolve, Resolve, AbandonResolve
<1>3. (rowLock \in {None, p} /\ rowLock' \in {None, p}) \/ rowLock' = rowLock
  BY DEF Resolves, LoadToResolve, Resolve, CommitResolve, AbandonResolve, EndsRequest, Release
<1>4. RowIsHeld'
  <2> SUFFICES ASSUME NEW r \in Run, session[r].step \notin Unlocked PROVE rowLock' = r
    BY <1>1 DEF RowIsHeld
  <2>1. rowLock = r /\ r \notin {None, p}
    BY InvestigationAssumption DEF IInv, RowIsHeld
  <2> QED  BY <1>3, <2>1
<1>5. ResolversHold'
  <2>1. PICK new : /\ resolver' = [resolver EXCEPT ![p] = new]
                   /\ new.step = "resolving" => rowLock' = p
    <3>1. CASE LoadToResolve(p)
      <4>1. PICK text \in Texts : resolver' = [resolver EXCEPT ![p] = Request("loaded", incident.root_cause, text)]
        BY <3>1 DEF LoadToResolve
      <4> WITNESS Request("loaded", incident.root_cause, text)
      <4> QED  BY <4>1 DEF Request
    <3>2. CASE Resolve(p)
      <4> WITNESS [resolver[p] EXCEPT !.step = "resolving"]
      <4> QED  BY <3>2 DEF Resolve
    <3>3. CASE EndsRequest(p)
      <4> WITNESS Request("done", None, None)
      <4> QED  BY <3>3 DEF EndsRequest, Request
    <3> QED  BY <3>1, <3>2, <3>3 DEF Resolves, CommitResolve, AbandonResolve
  <2>2. /\ resolver' = [q \in Resolver |-> resolver'[q]] /\ resolver'[p] = new
        /\ \A q \in Resolver \ {p} : resolver'[q] = resolver[q]
    BY <2>1, RequestLemma DEF IInv
  <2>3. ASSUME NEW q \in Resolver, resolver'[q].step = "resolving" PROVE rowLock' = q
    <3>1. CASE q = p
      BY <2>1, <2>2, <2>3, <3>1
    <3>2. CASE q # p
      <4>1. rowLock = q /\ q \notin {None, p}
        BY <2>2, <2>3, <3>2, InvestigationAssumption DEF IInv, ResolversHold
      <4> QED  BY <1>3, <4>1
    <3> QED  BY <3>1, <3>2
  <2> QED  BY <2>2, <2>3 DEF ResolversHold
<1> QED  BY <1>1, <1>2, <1>4, <1>5 DEF IInv, Shape, DeletesWhatIsThere, StoredRunsAreDone, OneRunIsStored,
                                      ConfidenceHasFindings, LastRunIsKept

-----------------------------------------------------------------------------
\* The inductive invariant holds.
THEOREM Invariance == Spec => []IInv
<1>1. Init => IInv
  <2> SUFFICES ASSUME Init PROVE IInv
    OBVIOUS
  <2>1. session = [r \in Run |-> session[r]] /\ \A r \in Run : IsSession(session[r]) /\ session[r].step = "new"
    BY DEF Init, Session, IsSession, Fields
  <2>2. DOMAIN findings = {} /\ DOMAIN agent_runs = {}
    BY DEF Init
  <2>3. findings = [r \in DOMAIN findings |-> findings[r]] /\ agent_runs = [r \in DOMAIN agent_runs |-> agent_runs[r]]
    BY DEF Init
  <2>4. incident.run = None /\ incident.confidence = None
        /\ incident = [run |-> incident.run, root_cause |-> incident.root_cause, confidence |-> incident.confidence]
    BY DEF Init
  <2>5. ResolversHold
    BY DEF Init, Request, ResolversHold
  <2> QED  BY <2>1, <2>2, <2>3, <2>4, <2>5 DEF IInv, Shape, RowIsHeld, DeletesWhatIsThere, StoredRunsAreDone,
                                              OneRunIsStored, ConfidenceHasFindings, LastRunIsKept, Unlocked
<1>2. IInv /\ [Next]_vars => IInv'
  <2> SUFFICES ASSUME IInv, [Next]_vars PROVE IInv'
    OBVIOUS
  <2>1. CASE UNCHANGED vars
    BY <2>1 DEF vars, IInv, Shape, RowIsHeld, DeletesWhatIsThere, StoredRunsAreDone, OneRunIsStored,
                ConfidenceHasFindings, LastRunIsKept, ResolversHold
  <2>2. ASSUME NEW r \in Run, Load(r) \/ Step(r) \/ Crash(r) PROVE IInv'
    <3>1. CASE Load(r)
      BY <3>1, LoadIsUncommitted, UncommittedKeepsIInv
    <3>2. CASE Begin(r)
      BY <3>2, BeginIsUncommitted, UncommittedKeepsIInv
    <3>3. CASE Gather(r)
      BY <3>3, GatherIsUncommitted, UncommittedKeepsIInv
    <3>4. CASE Analyse(r) \/ Unavailable(r)
      BY <3>4, AnalyseIsUncommitted, UncommittedKeepsIInv
    <3>5. CASE Persist(r)
      BY <3>5, PersistIsUncommitted, UncommittedKeepsIInv
    <3>6. CASE Complete(r)
      BY <3>6, CompleteKeepsIInv
    <3>7. CASE Break(r) \/ Fail(r) \/ Crash(r)
      BY <3>7, EndingsAreUncommitted, UncommittedKeepsIInv
    <3>8. CASE MarkFailed(r)
      BY <3>8, MarkFailedKeepsIInv
    <3> QED  BY <2>2, <3>1, <3>2, <3>3, <3>4, <3>5, <3>6, <3>7, <3>8 DEF Step
  <2>3. ASSUME NEW p \in Resolver, Resolves(p) PROVE IInv'
    BY <2>3, ResolveKeepsIInv
  <2> QED  BY <2>1, <2>2, <2>3 DEF Next, Resolves
<1> QED  BY <1>1, <1>2, PTL DEF Spec

\* A re-investigation replaces what was found before, whoever else investigates the
\* incident meanwhile, whoever resolves it with a cause of his own, and whatever breaks:
\* findings are never mixed, never those of a failed run, and not missing while the
\* incident has a confidence.
THEOREM FindingsStayOfOneRun == Spec => []FindingsAreOfOneRun
<1>1. IInv => FindingsAreOfOneRun
  <2>1. DOMAIN findings # {} => findings # <<>>
    OBVIOUS
  <2> QED  BY <2>1 DEF IInv, StoredRunsAreDone, OneRunIsStored, ConfidenceHasFindings, FindingsAreOfOneRun
<1> QED  BY <1>1, Invariance, PTL

\* The run an incident names is never lost, although a run is rolled back and made again
\* in a second transaction when its analysis breaks.
THEOREM LastRunStays == Spec => []LastRunIsKept
<1>1. IInv => LastRunIsKept
  BY DEF IInv
<1> QED  BY <1>1, Invariance, PTL

-----------------------------------------------------------------------------
(***************************************************************************)
(* What the mock concludes from a bundle, whatever the tools have found    *)
(***************************************************************************)

\* A set of numbers that has a member has a smallest one.
LEMMA SmallestExists ==
  ASSUME NEW S \in SUBSET Nat, S # {}
  PROVE  \E m \in S : \A n \in S : m <= n
<1> DEFINE R == OpToRel(<, Nat)
<1>1. \A x, y \in Nat : <<y, x>> \in R <=> y < x
  BY DEF OpToRel
<1>2. IsWellFoundedOn(R, Nat)
  BY NatLessThanWellFounded
<1> HIDE DEF R
<1>3. PICK m \in S : \A n \in S : ~ (<<n, m>> \in R)
  BY <1>2, WFMin
<1>4. \A n \in S : m \in Nat /\ n \in Nat /\ ~ (n < m)
  BY <1>1, <1>3
<1>5. \A n \in S : m <= n
  BY <1>4
<1> QED  BY <1>5

\* What every signal cites is in the catalogue, but for the error rate.
LEMMA SignalsAreCatalogued ==
  ASSUME NEW b, WellFormed(b)
  PROVE  /\ \A m : Anom(b, m) => <<"metric", m>> \in Catalogue(b)
         /\ Latency(b) \subseteq Catalogue(b)
         /\ Errors(b) \subseteq {<<"metric", "error_rate">>}
         /\ Recent(b) # {} => <<"deploy", RecentDeploy(b)>> \in Catalogue(b)
         /\ Deploy(b) \subseteq Catalogue(b)
         /\ DbPressure(b) => <<"metric", "database_connections">> \in Catalogue(b)
         /\ b.unhealthy # <<>> => <<"dep", b.unhealthy[1].service>> \in Catalogue(b)
<1> USE DEF WellFormed
<1>1. \A m : Anom(b, m) => <<"metric", m>> \in Catalogue(b)
  BY DEF Anom, Catalogue
<1>2. Latency(b) \subseteq Catalogue(b)
  BY <1>1 DEF Latency, LatencyUp, If
<1>3. Errors(b) \subseteq {<<"metric", "error_rate">>}
  BY DEF Errors, If
<1>4. ASSUME Recent(b) # {} PROVE <<"deploy", RecentDeploy(b)>> \in Catalogue(b)
  <2> DEFINE i == CHOOSE j \in Recent(b) : \A k \in Recent(b) : j <= k
  <2>1. \E j \in Recent(b) : \A k \in Recent(b) : j <= k
    <3>1. Recent(b) \subseteq Nat
      BY DEF Recent
    <3> HIDE DEF WellFormed
    <3> QED  BY <1>4, <3>1, SmallestExists
  <2>2. i \in Recent(b)
    BY <2>1
  <2>3. RecentDeploy(b) = b.deploys[i].ref
    BY DEF RecentDeploy
  <2> HIDE DEF i
  <2> QED  BY <2>2, <2>3 DEF Recent, Catalogue
<1>5. Deploy(b) \subseteq Catalogue(b)
  BY <1>4 DEF Deploy, If
<1>6. DbPressure(b) => <<"metric", "database_connections">> \in Catalogue(b)
  BY <1>1 DEF DbPressure, Catalogue
<1>7. b.unhealthy # <<>> => <<"dep", b.unhealthy[1].service>> \in Catalogue(b)
  BY DEF Catalogue
<1> QED  BY <1>1, <1>2, <1>3, <1>4, <1>5, <1>6, <1>7

\* A suspicion always rests on something that is in the catalogue.
LEMMA SuspicionsAreGrounded ==
  ASSUME NEW b, WellFormed(b), NEW c \in Categories, Suspects(b, c)
  PROVE  Rests(b, c) \cap Catalogue(b) # {}
<1> USE SignalsAreCatalogued
<1>1. CASE c = "database_saturation"
  BY <1>1 DEF Suspects, Rests
<1>2. CASE c = "deployment_regression"
  BY <1>2 DEF Suspects, Rests, Deploy, If
<1>3. CASE c = "upstream_dependency_failure"
  BY <1>3 DEF Suspects, Rests
<1>4. CASE c = "traffic_overload"
  BY <1>4 DEF Suspects, Rests, TrafficUp, Found, If
<1>5. CASE c = "resource_saturation"
  BY <1>5 DEF Suspects, Rests, Found, If
<1>6. CASE c = "inconclusive"
  BY <1>6 DEF Suspects
<1> QED  BY <1>1, <1>2, <1>3, <1>4, <1>5, <1>6 DEF Categories, Position

\* And on nothing else but the error rate.
LEMMA HypothesesCite ==
  ASSUME NEW b, WellFormed(b), NEW c \in Categories
  PROVE  Suspects(b, c) \/ c = "inconclusive"
           => Cites(b, c) \ Catalogue(b) \subseteq {<<"metric", "error_rate">>}
<1> USE SignalsAreCatalogued
<1>0. Cites(b, c) \ Catalogue(b) \subseteq Rests(b, c) \ Catalogue(b)
  BY DEF Cites, If, Prior, Catalogue
<1>1. CASE c = "database_saturation"
  <2>1. Rests(b, c) = {<<"metric", "database_connections">>} \cup Latency(b) \cup Errors(b) \cup Deploy(b)
                      \cup If(b.conn_logs, {<<"logs", "connection_errors">>})
    BY <1>1 DEF Rests
  <2>2. If(b.conn_logs, {<<"logs", "connection_errors">>}) \subseteq Catalogue(b)
    BY DEF If, Catalogue
  <2>3. Suspects(b, c) => <<"metric", "database_connections">> \in Catalogue(b)
    BY <1>1 DEF Suspects
  <2> QED  BY <1>0, <1>1, <2>1, <2>2, <2>3
<1>2. CASE c = "deployment_regression"
  BY <1>0, <1>2, ZenonT(60) DEF Suspects, Rests, If, Catalogue
<1>3. CASE c = "upstream_dependency_failure"
  BY <1>0, <1>3 DEF Suspects, Rests
<1>4. CASE c = "traffic_overload"
  BY <1>0, <1>4 DEF Suspects, Rests, Found, If
<1>5. CASE c = "resource_saturation"
  BY <1>0, <1>5 DEF Suspects, Rests, Found, If
<1>6. CASE c = "inconclusive"
  BY <1>0, <1>6 DEF Rests, Catalogue
<1> QED  BY <1>1, <1>2, <1>3, <1>4, <1>5, <1>6 DEF Categories, Position

\* The mock's hypotheses: one above 50 has something in the catalogue, and nothing else
\* but the error rate is missing there.
LEMMA MockIsGrounded ==
  ASSUME NEW b, WellFormed(b), NEW h \in MockAnswer(b).hypotheses
  PROVE  /\ h.confidence > 50 => h.cites \cap Catalogue(b) # {}
         /\ h.cites \ Catalogue(b) \subseteq {<<"metric", "error_rate">>}
<1>1. PICK c \in Hypotheses(b) : h = [category |-> c, confidence |-> Confidence(b, c), cites |-> Cites(b, c)]
  BY DEF MockAnswer
<1>2. h.confidence = Confidence(b, c) /\ h.cites = Cites(b, c)
  BY <1>1
<1>3. c \in Categories /\ (Suspects(b, c) \/ c = "inconclusive")
  BY DEF Hypotheses, Categories, Position
<1>4. c = "inconclusive" => Confidence(b, c) = 32
  BY DEF Confidence, Prior, Judged
<1>5. Suspects(b, c) => Cites(b, c) \cap Catalogue(b) # {}
  BY <1>3, SuspicionsAreGrounded DEF Cites
<1> QED  BY <1>2, <1>3, <1>4, <1>5, HypothesesCite

\* A remote model's, once validated.
LEMMA RemoteIsGrounded ==
  ASSUME NEW b, NEW answer \in Answers, NEW h \in RemoteAnswer(b, answer).hypotheses
  PROVE  /\ h.confidence > 50 => h.cites \cap Catalogue(b) # {}
         /\ h.cites \ Catalogue(b) \subseteq {}
<1>1. answer \in [hypotheses : SUBSET [category : Categories, confidence : Int, cites : SUBSET (STRING \X STRING)],
                  root_cause : Categories, confidence : Int]
  BY AnswersAssumption
<1>2. PICK raw \in answer.hypotheses : h = ValidHypothesis(b, raw)
  BY <1>1 DEF RemoteAnswer, ValidatedAnswer
<1>3. raw \in [category : Categories, confidence : Int, cites : SUBSET (STRING \X STRING)]
  BY <1>1
<1> DEFINE cited == raw.cites \cap Catalogue(b)
<1>4. h.cites = cited /\ h.confidence = IF cited = {} THEN Least(raw.confidence, 50) ELSE raw.confidence
  BY <1>2, <1>3 DEF ValidHypothesis
<1>5. raw.confidence \in Int
  BY <1>3
<1> QED  BY <1>4, <1>5 DEF Least

\* Whatever a tool adds, and whatever calls were lost, a bundle is one.
LEMMA ToolsKeepBundles ==
  ASSUME NEW tool, NEW b, NEW w, NEW lost, WellFormed(b), WellFormed(w)
  PROVE  WellFormed(Adds(tool, b, Without(w, lost)))
<1> DEFINE v == Without(w, lost)
<1>1. WellFormed(v)
  BY DEF WellFormed, Without
<1> HIDE DEF v
<1>2. WellFormed(Adds(tool, b, v))
  <2>1. CASE tool = "query_metrics"
    BY <1>1, <2>1 DEF WellFormed, Adds
  <2>2. CASE tool = "search_logs"
    BY <1>1, <2>2 DEF WellFormed, Adds
  <2>3. CASE tool = "get_recent_deployments"
    BY <1>1, <2>3 DEF WellFormed, Adds
  <2>4. CASE tool = "get_dependencies"
    BY <1>1, <2>4 DEF WellFormed, Adds
  <2>5. CASE tool \notin {"query_metrics", "search_logs", "get_recent_deployments", "get_dependencies"}
    BY <1>1, <2>5 DEF WellFormed, Adds
  <2> QED  BY <2>1, <2>2, <2>3, <2>4, <2>5
<1> QED  BY <1>2 DEF v

LEMMA NothingIsWellFormed == WellFormed(Nothing)
BY DEF WellFormed, Nothing

-----------------------------------------------------------------------------
(***************************************************************************)
(* What is stored                                                          *)
(***************************************************************************)

Grounded(result) ==
  \A h \in result.hypotheses :
    /\ h.confidence > 50 => h.cites \cap result.evidence # {}
    /\ h.cites \ result.evidence \subseteq
         IF provider = "remote" THEN {} ELSE {<<"metric", "error_rate">>}

\* The steps between the claim and the end, a failure left out: the row is held, and
\* nobody else changes the incident.
Held ==
  {"query_metrics", "search_logs", "get_recent_deployments", "get_dependencies",
   "get_related_incidents", "gathered", "analysed", "persisted"}

\* The session's bundle is one, its result is grounded, and what it has loaded of the
\* incident is still so unless it was stale from the beginning.
SessionIsSound(s) ==
  /\ WellFormed(s.world) /\ WellFormed(s.bundle)
  /\ s.step \in {"analysed", "persisted"} => Grounded(s.result) /\ s.result.stale = s.stale
  /\ s.step \in Held /\ ~ s.stale => s.seen = incident

Sound ==
  /\ provider \in {"mock", "remote"}
  /\ \A r \in Run : SessionIsSound(session[r])
  /\ VerdictsHaveEvidence /\ RcaIsOfTheFindings

LEMMA FieldsAre ==
  ASSUME NEW step, NEW seen, NEW stale, NEW world, NEW bundle, NEW broken, NEW result, NEW deletes
  PROVE  /\ Fields(step, seen, stale, world, bundle, broken, result, deletes).step = step
         /\ Fields(step, seen, stale, world, bundle, broken, result, deletes).seen = seen
         /\ Fields(step, seen, stale, world, bundle, broken, result, deletes).stale = stale
         /\ Fields(step, seen, stale, world, bundle, broken, result, deletes).world = world
         /\ Fields(step, seen, stale, world, bundle, broken, result, deletes).bundle = bundle
         /\ Fields(step, seen, stale, world, bundle, broken, result, deletes).result = result
BY DEF Fields

\* A session that writes nothing but its own state.
LEMMA QuietKeepsSound ==
  ASSUME Sound, NEW r \in Run, \A q \in Run \ {r} : session'[q] = session[q],
         UNCHANGED <<provider, incident, findings, told>>, SessionIsSound(session'[r])
  PROVE  Sound'
<1>1. \A q \in Run : SessionIsSound(session'[q])
  BY DEF Sound
<1>2. \A s : SessionIsSound(s) => SessionIsSound(s)'
  BY DEF SessionIsSound, Grounded
<1>3. \A q \in Run : SessionIsSound(session[q])'
  BY <1>1 DEF SessionIsSound, Grounded
<1> QED  BY <1>3 DEF Sound, VerdictsHaveEvidence, RcaIsOfTheFindings

\* One that ends is sound.
LEMMA EndedIsSound ==
  ASSUME IInv, NEW r \in Run, NEW step, step \notin Held, Ends(r, step)
  PROVE  SessionIsSound(session'[r]) /\ \A q \in Run \ {r} : session'[q] = session[q]
<1>1. session'[r] = Session(step) /\ \A q \in Run \ {r} : session'[q] = session[q]
  BY DEF Ends, IInv, Shape
<1>2. SessionIsSound(Session(step))
  BY NothingIsWellFormed DEF SessionIsSound, Session, Held
<1> QED  BY <1>1, <1>2

LEMMA LoadKeepsSound ==
  ASSUME IInv, Sound, NEW r \in Run, Load(r) PROVE Sound'
<1>1. CASE Ends(r, "skipped")
  BY <1>1, EndedIsSound, QuietKeepsSound DEF Load, Held
<1>2. CASE session' = [session EXCEPT ![r].step = "loaded", ![r].seen = incident]
  <2> DEFINE old == session[r]
             new == [old EXCEPT !.step = "loaded", !.seen = incident]
  <2>1. session'[r] = new /\ \A q \in Run \ {r} : session'[q] = session[q]
    BY <1>2 DEF IInv, Shape
  <2>2. IsSession(old) /\ SessionIsSound(old)
    BY DEF IInv, Shape, Sound
  <2>3. new = [old EXCEPT !.step = "loaded", !.seen = incident]
    OBVIOUS
  <2> HIDE DEF old, new
  <2>4. PICK s1, s2, s3, s4, s5, s6, s7, s8 : old = Fields(s1, s2, s3, s4, s5, s6, s7, s8)
    BY <2>2 DEF IsSession
  <2>5. new = Fields("loaded", incident, s3, s4, s5, s6, s7, s8)
    BY <2>3, <2>4 DEF Fields
  <2>6. SessionIsSound(new)
    BY <2>2, <2>4, <2>5, FieldsAre DEF SessionIsSound, Held
  <2> QED  BY <2>1, <2>6, QuietKeepsSound DEF Load
<1> QED  BY <1>1, <1>2 DEF Load

LEMMA BeginKeepsSound ==
  ASSUME IInv, Sound, NEW r \in Run, Begin(r) PROVE Sound'
<1>1. PICK b \in Bundles :
        session' = [session EXCEPT ![r].step = "query_metrics", ![r].world = b, ![r].stale = session[r].seen # incident]
  BY DEF Begin, Playbook
<1> DEFINE stale == session[r].seen # incident
           old == session[r]
           new == [old EXCEPT !.step = "query_metrics", !.world = b, !.stale = stale]
<1>2. session'[r] = new /\ \A q \in Run \ {r} : session'[q] = session[q]
  BY <1>1 DEF IInv, Shape
<1>3. IsSession(old) /\ SessionIsSound(old) /\ (~ stale => old.seen = incident)
  BY DEF IInv, Shape, Sound
<1>4. new = [old EXCEPT !.step = "query_metrics", !.world = b, !.stale = stale]
  OBVIOUS
<1> HIDE DEF old, new, stale
<1>5. PICK s1, s2, s3, s4, s5, s6, s7, s8 : old = Fields(s1, s2, s3, s4, s5, s6, s7, s8)
  BY <1>3 DEF IsSession
<1>6. new = Fields("query_metrics", s2, stale, b, s5, s6, s7, s8)
  BY <1>4, <1>5 DEF Fields
<1>7. WellFormed(b)
  BY BundlesAssumption
<1>8. old.seen = s2 /\ old.bundle = s5
  BY <1>5, FieldsAre
<1>9. /\ new.step = "query_metrics" /\ new.world = b /\ new.bundle = s5 /\ new.seen = s2
      /\ new.stale = stale
  BY <1>6, FieldsAre
<1>10. SessionIsSound(new)
  BY <1>3, <1>7, <1>8, <1>9 DEF SessionIsSound
<1> QED  BY <1>2, <1>10, QuietKeepsSound DEF Begin

LEMMA GatherKeepsSound ==
  ASSUME IInv, Sound, NEW r \in Run, Gather(r) PROVE Sound'
<1> DEFINE old == session[r]
<1>1. PICK tool \in {Playbook[i] : i \in DOMAIN Playbook} :
        /\ old.step = tool /\ UNCHANGED <<provider, incident, findings, told>>
        /\ \/ \E lost : session' = [session EXCEPT ![r] =
                [old EXCEPT !.step = Following(tool), !.bundle = Adds(tool, old.bundle, Without(old.world, lost))]]
           \/ session' = [session EXCEPT ![r] = [old EXCEPT !.step = Following(tool), !.bundle = old.bundle]]
           \/ session' = [session EXCEPT ![r] =
                [[old EXCEPT !.step = Following(tool), !.bundle = Nothing] EXCEPT !.world = Nothing, !.broken = TRUE]]
  <2>1. PICK tool \in {Playbook[i] : i \in DOMAIN Playbook} :
          /\ At(r, tool)
          /\ LET s == session[r]
                 Returned(b) == [s EXCEPT !.step = Following(tool), !.bundle = b]
             IN  \/ /\ ~ s.broken
                    /\ \E lost \in IF tool = "query_metrics" THEN SUBSET s.world.metrics ELSE {{}} :
                         session' = [session EXCEPT ![r] = Returned(Adds(tool, s.bundle, Without(s.world, lost)))]
                 \/ ~ s.broken /\ session' = [session EXCEPT ![r] = Returned(s.bundle)]
                 \/ session' = [session EXCEPT ![r] = [Returned(Nothing) EXCEPT !.world = Nothing, !.broken = TRUE]]
          /\ UNCHANGED <<provider, incident, findings, agent_runs, rowLock, people>>
    BY Zenon DEF Gather
  <2> QED  BY <2>1, Zenon DEF At
<1> DEFINE next == Following(tool)
<1>2. tool \in Held /\ next \notin {"analysed", "persisted"}
  BY ToolsAreNamed DEF Held
<1>3. IsSession(old) /\ SessionIsSound(old) /\ session = [q \in Run |-> session[q]]
  BY DEF IInv, Shape, Sound
<1>4. PICK s1, s2, s3, s4, s5, s6, s7, s8 : old = Fields(s1, s2, s3, s4, s5, s6, s7, s8)
  BY <1>3 DEF IsSession
<1>5. old.step = tool /\ WellFormed(old.bundle) /\ WellFormed(old.world)
  BY <1>1, <1>3 DEF SessionIsSound
<1>6. PICK new : session' = [session EXCEPT ![r] = new]
        /\ \/ \E b : WellFormed(b) /\ new = [old EXCEPT !.step = next, !.bundle = b]
           \/ new = [[old EXCEPT !.step = next, !.bundle = Nothing] EXCEPT !.world = Nothing, !.broken = TRUE]
  BY <1>1, <1>5, ToolsKeepBundles, Zenon
<1> HIDE DEF old, next
<1>7. PICK world, bundle, broken :
        WellFormed(world) /\ WellFormed(bundle) /\ new = Fields(next, s2, s3, world, bundle, broken, s7, s8)
  <2>1. ASSUME NEW b, WellFormed(b), new = [old EXCEPT !.step = next, !.bundle = b]
        PROVE  new = Fields(next, s2, s3, s4, b, s6, s7, s8) /\ WellFormed(s4)
    BY <1>4, <1>5, <2>1 DEF Fields
  <2>2. ASSUME new = [[old EXCEPT !.step = next, !.bundle = Nothing] EXCEPT !.world = Nothing, !.broken = TRUE]
        PROVE  new = Fields(next, s2, s3, Nothing, Nothing, TRUE, s7, s8)
    BY <1>4, <2>2 DEF Fields
  <2> QED  BY <1>6, <2>1, <2>2, NothingIsWellFormed, Zenon
<1>8. /\ new.step = next /\ new.world = world /\ new.bundle = bundle /\ new.seen = s2 /\ new.stale = s3
      /\ old.seen = s2 /\ old.stale = s3
  BY <1>4, <1>7, FieldsAre
<1>9. SessionIsSound(new)
  BY <1>2, <1>3, <1>5, <1>7, <1>8 DEF SessionIsSound
<1>10. session'[r] = new /\ \A q \in Run \ {r} : session'[q] = session[q]
  BY <1>3, <1>6
<1> QED  BY <1>1, <1>9, <1>10, QuietKeepsSound

LEMMA AnalyseKeepsSound ==
  ASSUME IInv, Sound, NEW r \in Run, Analyse(r) \/ Unavailable(r) PROVE Sound'
<1>1. UNCHANGED <<provider, incident, findings, told>> /\ session[r].step = "gathered"
  BY DEF Analyse, Unavailable, At
<1>2. CASE Fruitless(r)
  BY <1>1, <1>2, EndedIsSound, QuietKeepsSound DEF Fruitless, Held
<1> DEFINE bundle == session[r].bundle
<1>3. ASSUME NEW answer, Concluded(r, answer),
             \A h \in answer.hypotheses :
               /\ h.confidence > 50 => h.cites \cap Catalogue(bundle) # {}
               /\ h.cites \ Catalogue(bundle) \subseteq IF provider = "remote" THEN {} ELSE {<<"metric", "error_rate">>}
      PROVE  Sound'
  <2> DEFINE old == session[r]
             evidence == (UNION {h.cites : h \in answer.hypotheses}) \cap Catalogue(bundle)
             result == [hypotheses |-> answer.hypotheses, root_cause |-> answer.root_cause,
                        confidence |-> answer.confidence, stale |-> old.stale, evidence |-> evidence]
             new == [old EXCEPT !.step = "analysed", !.world = Nothing, !.bundle = Nothing, !.result = result]
  <2>1. session'[r] = new /\ \A q \in Run \ {r} : session'[q] = session[q]
    BY <1>3 DEF Concluded, IInv, Shape
  <2>2. IsSession(old) /\ SessionIsSound(old) /\ old.step = "gathered"
    BY <1>1 DEF IInv, Shape, Sound
  <2>3. Grounded(result)
    <3>1. result.hypotheses = answer.hypotheses /\ result.evidence = evidence
      OBVIOUS
    <3> HIDE DEF result, bundle
    <3>2. \A h \in answer.hypotheses : h.cites \cap evidence = h.cites \cap Catalogue(bundle)
                                       /\ h.cites \ evidence = h.cites \ Catalogue(bundle)
      OBVIOUS
    <3> QED  BY <1>3, <3>1, <3>2 DEF Grounded
  <2>4. result.stale = old.stale
    OBVIOUS
  <2>5. new = [old EXCEPT !.step = "analysed", !.world = Nothing, !.bundle = Nothing, !.result = result]
    OBVIOUS
  <2> HIDE DEF old, new, result, evidence
  <2>6. PICK s1, s2, s3, s4, s5, s6, s7, s8 : old = Fields(s1, s2, s3, s4, s5, s6, s7, s8)
    BY <2>2 DEF IsSession
  <2>7. new = Fields("analysed", s2, s3, Nothing, Nothing, s6, result, s8)
    BY <2>5, <2>6 DEF Fields
  <2>8. /\ new.step = "analysed" /\ new.world = Nothing /\ new.bundle = Nothing /\ new.result = result
        /\ new.seen = s2 /\ new.stale = s3 /\ old.seen = s2 /\ old.stale = s3
    BY <2>6, <2>7, FieldsAre
  <2>9. SessionIsSound(new)
    BY <2>2, <2>3, <2>4, <2>8, NothingIsWellFormed DEF SessionIsSound, Held
  <2> QED  BY <1>1, <2>1, <2>9, QuietKeepsSound
<1>4. WellFormed(bundle)
  BY DEF Sound, SessionIsSound
<1>5. CASE provider = "mock" /\ Concluded(r, MockAnswer(bundle))
  <2> DEFINE answer == MockAnswer(bundle)
  <2>1. \A h \in answer.hypotheses :
          /\ h.confidence > 50 => h.cites \cap Catalogue(bundle) # {}
          /\ h.cites \ Catalogue(bundle) \subseteq {<<"metric", "error_rate">>}
    BY <1>4, MockIsGrounded
  <2> HIDE DEF answer
  <2> QED  BY <1>3, <1>5, <2>1 DEF answer
<1>6. CASE provider = "remote" /\ \E a \in Answers : Concluded(r, RemoteAnswer(bundle, a))
  <2>1. PICK a \in Answers : Concluded(r, RemoteAnswer(bundle, a))
    BY <1>6
  <2> DEFINE answer == RemoteAnswer(bundle, a)
  <2>2. \A h \in answer.hypotheses :
          /\ h.confidence > 50 => h.cites \cap Catalogue(bundle) # {}
          /\ h.cites \ Catalogue(bundle) \subseteq {}
    BY RemoteIsGrounded
  <2> HIDE DEF answer
  <2> QED  BY <1>3, <1>6, <2>1, <2>2 DEF answer
<1>7. \/ Fruitless(r)
      \/ provider = "mock" /\ Concluded(r, MockAnswer(bundle))
      \/ provider = "remote" /\ \E a \in Answers : Concluded(r, RemoteAnswer(bundle, a))
  BY Zenon DEF Analyse, Unavailable
<1> QED  BY <1>2, <1>5, <1>6, <1>7

LEMMA PersistKeepsSound ==
  ASSUME IInv, Sound, NEW r \in Run, Persist(r) PROVE Sound'
<1> DEFINE old == session[r]
           new == [old EXCEPT !.step = "persisted", !.deletes = DOMAIN findings]
<1>1. session'[r] = new /\ \A q \in Run \ {r} : session'[q] = session[q]
  BY DEF Persist, Cleared, IInv, Shape
<1>2. IsSession(old) /\ SessionIsSound(old) /\ old.step = "analysed"
  BY DEF Persist, At, IInv, Shape, Sound
<1>3. new = [old EXCEPT !.step = "persisted", !.deletes = DOMAIN findings]
  OBVIOUS
<1> HIDE DEF old, new
<1>4. PICK s1, s2, s3, s4, s5, s6, s7, s8 : old = Fields(s1, s2, s3, s4, s5, s6, s7, s8)
  BY <1>2 DEF IsSession
<1>5. new = Fields("persisted", s2, s3, s4, s5, s6, s7, DOMAIN findings)
  BY <1>3, <1>4 DEF Fields
<1>6. /\ new.step = "persisted" /\ new.world = old.world /\ new.bundle = old.bundle /\ new.result = old.result
      /\ new.seen = old.seen /\ new.stale = old.stale
  BY <1>4, <1>5, FieldsAre
<1>7. SessionIsSound(new)
  BY <1>2, <1>6 DEF SessionIsSound, Held
<1> QED  BY <1>1, <1>7, QuietKeepsSound DEF Persist

LEMMA EndingsKeepSound ==
  ASSUME IInv, Sound, NEW r \in Run, Break(r) \/ Fail(r) \/ Crash(r) PROVE Sound'
<1>1. CASE Break(r)
  BY <1>1, EndedIsSound, QuietKeepsSound DEF Break, Held
<1>2. CASE Crash(r)
  BY <1>2, EndedIsSound, QuietKeepsSound DEF Crash, Held
<1>3. CASE Fail(r)
  <2> DEFINE old == session[r]
             new == [old EXCEPT !.step = "recreating"]
  <2>1. session'[r] = new /\ \A q \in Run \ {r} : session'[q] = session[q]
    BY <1>3 DEF Fail, RollBack, Goes, IInv, Shape
  <2>2. IsSession(old) /\ SessionIsSound(old)
    BY DEF IInv, Shape, Sound
  <2>3. new = [old EXCEPT !.step = "recreating"]
    OBVIOUS
  <2> HIDE DEF old, new
  <2>4. PICK s1, s2, s3, s4, s5, s6, s7, s8 : old = Fields(s1, s2, s3, s4, s5, s6, s7, s8)
    BY <2>2 DEF IsSession
  <2>5. new = Fields("recreating", s2, s3, s4, s5, s6, s7, s8)
    BY <2>3, <2>4 DEF Fields
  <2>6. SessionIsSound(new)
    BY <2>2, <2>4, <2>5, FieldsAre DEF SessionIsSound, Held
  <2> QED  BY <1>3, <2>1, <2>6, QuietKeepsSound DEF Fail
<1> QED  BY <1>1, <1>2, <1>3

\* Nobody else is between claim and end when an investigation commits.
LEMMA OthersDoNotHold ==
  ASSUME IInv, NEW r \in Run, rowLock \in {None, r}
  PROVE  \A q \in Run \ {r} : session[q].step \notin Held
BY InvestigationAssumption DEF IInv, RowIsHeld, Held, Unlocked

\* So that what the incident has become is nothing others have to go by.
LEMMA SessionsStaySound ==
  ASSUME IInv, Sound, NEW r \in Run, rowLock \in {None, r}, Ends(r, "done"), provider' = provider
  PROVE  \A q \in Run : SessionIsSound(session[q])'
<1>1. session'[r] = Session("done") /\ \A q \in Run \ {r} : session'[q] = session[q]
  BY DEF Ends, IInv, Shape
<1>2. ASSUME NEW q \in Run \ {r} PROVE SessionIsSound(session[q])'
  <2>1. session[q].step \notin Held /\ SessionIsSound(session[q])
    BY OthersDoNotHold DEF Sound
  <2> QED  BY <1>1, <2>1 DEF SessionIsSound, Held
<1>3. SessionIsSound(session[r])'
  BY <1>1, NothingIsWellFormed DEF SessionIsSound, Session, Held
<1> QED  BY <1>2, <1>3

LEMMA CompleteKeepsSound ==
  ASSUME IInv, Sound, NEW r \in Run, Complete(r) PROVE Sound'
<1>1. session[r].step = "persisted" /\ rowLock \in {None, r} /\ session[r].deletes = DOMAIN findings
  BY DEF Complete, Free, At, IInv, DeletesWhatIsThere
<1>2. findings' = [q \in {r} |-> session[r].result]
  <2>1. DOMAIN findings \ session[r].deletes = {}
    BY <1>1
  <2> QED  BY <2>1 DEF Complete, WithRow
<1> DEFINE seen == session[r].seen
           result == session[r].result
<1>3. Grounded(result) /\ (result.stale = session[r].stale) /\ (~ session[r].stale => seen = incident)
  BY <1>1 DEF Sound, SessionIsSound, Held
<1>4. incident'.root_cause = Updated("root_cause", result.root_cause, seen)
      /\ incident'.confidence = Updated("confidence", result.confidence, seen)
  BY DEF Complete
<1>5. ~ session[r].stale => incident'.root_cause = result.root_cause /\ incident'.confidence = result.confidence
  <2>1. incident = [run |-> incident.run, root_cause |-> incident.root_cause, confidence |-> incident.confidence]
    BY DEF IInv, Shape
  <2>2. incident["root_cause"] = incident.root_cause /\ incident["confidence"] = incident.confidence
    OBVIOUS
  <2> QED  BY <1>3, <1>4, <2>2 DEF Updated
<1>6. \A q \in Run : SessionIsSound(session[q])'
  BY <1>1, SessionsStaySound DEF Complete
<1>7. provider' = provider
  BY DEF Complete
<1>8. RcaIsOfTheFindings'
  BY <1>2, <1>3, <1>5 DEF RcaIsOfTheFindings
<1>9. VerdictsHaveEvidence'
  BY <1>2, <1>3, <1>7 DEF VerdictsHaveEvidence, Grounded
<1> QED  BY <1>6, <1>7, <1>8, <1>9 DEF Sound

LEMMA MarkFailedKeepsSound ==
  ASSUME IInv, Sound, NEW r \in Run, MarkFailed(r) PROVE Sound'
<1>1. rowLock \in {None, r} /\ Ends(r, "done") /\ UNCHANGED <<provider, findings, told>>
  BY DEF MarkFailed, Free
<1>2. incident'.root_cause = incident.root_cause /\ incident'.confidence = incident.confidence
  BY DEF MarkFailed, IInv, Shape
<1>3. \A q \in Run : SessionIsSound(session[q])'
  BY <1>1, SessionsStaySound
<1> QED  BY <1>1, <1>2, <1>3 DEF Sound, RcaIsOfTheFindings, VerdictsHaveEvidence

\* Who resolves the incident has its row, so that no investigation goes by what it was.
LEMMA ResolveKeepsSound ==
  ASSUME IInv, Sound, NEW p \in Resolver, Resolves(p) PROVE Sound'
<1>1. UNCHANGED <<provider, findings, session>>
  BY DEF Resolves, LoadToResolve, Resolve, CommitResolve, AbandonResolve
<1>2. CASE CommitResolve(p)
  <2> DEFINE cause == Updated("root_cause", resolver[p].text, [root_cause |-> resolver[p].seen])
  <2>1. \A r \in Run : session[r].step \notin Held
    <3>1. rowLock = p
      BY <1>2 DEF CommitResolve, IInv, ResolversHold
    <3> QED  BY <3>1, InvestigationAssumption DEF IInv, RowIsHeld, Held, Unlocked
  <2>2. \A r \in Run : SessionIsSound(session[r])'
    BY <1>1, <2>1 DEF Sound, SessionIsSound, Grounded
  <2>3. incident' = [incident EXCEPT !.root_cause = cause] /\ told' = told \cup {resolver[p].text}
    BY <1>2 DEF CommitResolve
  <2>4. cause \in {incident.root_cause, resolver[p].text}
    <3>1. incident["root_cause"] = incident.root_cause
      OBVIOUS
    <3> QED  BY <3>1 DEF Updated
  <2> HIDE DEF cause
  <2>5. PICK a, b, c : incident = [run |-> a, root_cause |-> b, confidence |-> c]
    BY DEF IInv, Shape
  <2>6. incident'.confidence = incident.confidence /\ incident'.root_cause \in {incident.root_cause, resolver[p].text}
    BY <2>3, <2>4, <2>5
  <2>7. RcaIsOfTheFindings'
    BY <1>1, <2>3, <2>6 DEF Sound, RcaIsOfTheFindings
  <2> QED  BY <1>1, <2>2, <2>7 DEF Sound, VerdictsHaveEvidence
<1>3. CASE UNCHANGED <<incident, told>>
  BY <1>1, <1>3 DEF Sound, SessionIsSound, Grounded, VerdictsHaveEvidence, RcaIsOfTheFindings
<1> QED  BY <1>2, <1>3 DEF Resolves, LoadToResolve, Resolve, AbandonResolve

LEMMA Soundness == Spec => []Sound
<1>1. Init => Sound
  <2> SUFFICES ASSUME Init PROVE Sound
    OBVIOUS
  <2>1. \A r \in Run : SessionIsSound(session[r])
    BY NothingIsWellFormed DEF Init, Session, SessionIsSound, Held
  <2>2. DOMAIN findings = {}
    BY DEF Init
  <2> QED  BY <2>1, <2>2 DEF Init, Sound, VerdictsHaveEvidence, RcaIsOfTheFindings
<1>2. IInv /\ Sound /\ [Next]_vars => Sound'
  <2> SUFFICES ASSUME IInv, Sound, [Next]_vars PROVE Sound'
    OBVIOUS
  <2>1. CASE UNCHANGED vars
    BY <2>1 DEF vars, Sound, SessionIsSound, Grounded, VerdictsHaveEvidence, RcaIsOfTheFindings
  <2>2. ASSUME NEW r \in Run, Load(r) \/ Step(r) \/ Crash(r) PROVE Sound'
    BY <2>2, LoadKeepsSound, BeginKeepsSound, GatherKeepsSound, AnalyseKeepsSound, PersistKeepsSound,
       CompleteKeepsSound, EndingsKeepSound, MarkFailedKeepsSound DEF Step
  <2>3. ASSUME NEW p \in Resolver, Resolves(p) PROVE Sound'
    BY <2>3, ResolveKeepsSound
  <2> QED  BY <2>1, <2>2, <2>3 DEF Next, Resolves
<1> QED  BY <1>1, <1>2, Invariance, PTL DEF Spec

\* The confidence of the incident is that of the findings shown with it, and the root cause
\* theirs or what was said at resolving since, for any number of overlapping investigations,
\* failed ones included, and of people who resolve it: who holds the row reads it before
\* anybody else can change it, unless it was stale at the start.
THEOREM RcaIsAlwaysOfTheFindings == Spec => []RcaIsOfTheFindings
<1>1. Sound => RcaIsOfTheFindings
  BY DEF Sound
<1> QED  BY <1>1, Soundness, PTL

\* No stored verdict above 50 is without evidence that is stored with it, whatever the
\* tools find and lose and whatever a remote model answers, made-up ids included.
THEOREM VerdictsAlwaysHaveEvidence == Spec => []VerdictsHaveEvidence
<1>1. Sound => VerdictsHaveEvidence
  BY DEF Sound
<1> QED  BY <1>1, Soundness, PTL
=============================================================================
