---------------------------- MODULE Investigation ----------------------------
(***************************************************************************)
(* Investigations of one incident (ai/investigator.py): the worker's and   *)
(* those that engineers ask for (api/routers/incidents.py), each in a      *)
(* database transaction of its own, with the tools that gather the         *)
(* evidence (ai/tools.py) and a provider that may fail (ai/providers.py);  *)
(* and people who resolve the incident meanwhile and say themselves what   *)
(* its root cause was (incidents/engine.py).                               *)
(*                                                                         *)
(* The transactions are PostgreSQL's at READ COMMITTED: nothing of one is  *)
(* seen before its commit, and a row that one has updated is locked until  *)
(* its end.  The UPDATE of the incident holds only what differs from what  *)
(* the session has loaded.  A bundle of evidence, the mock's reasoning and *)
(* the validation of a remote answer are those of Reasoner.                *)
(***************************************************************************)
EXTENDS Reasoner

CONSTANTS Run,      \* investigations
          OfWorker, \* those the worker starts, Run's others are asked for by people
          Resolver, \* requests to resolve the incident
          Texts,    \* what these may give as the root cause
          Bundles,  \* what the tools may find
          Answers,  \* what a remote model may answer
          None      \* a NULL column, a free lock
ASSUME InvestigationAssumption ==
  OfWorker \subseteq Run /\ None \notin Run \cup Resolver /\ Run \cap Resolver = {}
ASSUME BundlesAssumption == \A b \in Bundles : WellFormed(b)
ASSUME AnswersAssumption ==
  Answers \subseteq
    [hypotheses : SUBSET [category : Categories, confidence : Int, cites : SUBSET (STRING \X STRING)],
     root_cause : Categories, confidence : Int]

\* The tools in the order of the playbook, as far as the analysis depends on them.
Playbook == <<"query_metrics", "search_logs", "get_recent_deployments", "get_dependencies",
              "get_related_incidents">>

VARIABLES provider,   \* "mock" or "remote"
          incident,   \* the incident's committed columns
          findings,   \* committed hypotheses, evidence and result, by the run they are of
          agent_runs, \* status of the committed runs
          rowLock,    \* who has updated the incident's row
          session,    \* where every investigation is
          resolver,   \* where every request to resolve is
          told        \* history: the causes people have given since the findings

people == <<resolver, told>>
vars == <<provider, incident, findings, agent_runs, rowLock, session, people>>

Nothing ==
  [metrics |-> {}, anomalies |-> {}, db_ratio |-> FALSE, error_lines |-> 0, conn_logs |-> FALSE,
   deploys |-> <<>>, unhealthy |-> <<>>, similar |-> FALSE]

\* A session that holds nothing.
Session(step) ==
  [step |-> step, seen |-> None, stale |-> FALSE, world |-> Nothing, bundle |-> Nothing,
   broken |-> FALSE, result |-> None, deletes |-> {}]

\* A request to resolve: the cause it has read, and the one it gives.
Request(step, seen, text) == [step |-> step, seen |-> seen, text |-> text]

Init ==
  /\ provider \in {"mock", "remote"}
  /\ incident = [run |-> None, root_cause |-> None, confidence |-> None]
  /\ findings = <<>> /\ agent_runs = <<>> /\ rowLock = None
  /\ session = [r \in Run |-> Session("new")]
  /\ resolver = [p \in Resolver |-> Request("new", None, None)] /\ told = {}

\* A table with a row inserted or overwritten.
WithRow(table, key, row) == [k \in DOMAIN table \cup {key} |-> IF k = key THEN row ELSE table[k]]

At(r, step) == session[r].step = step

Goes(r, step) == session' = [session EXCEPT ![r].step = step]

Ends(r, step) == session' = [session EXCEPT ![r] = Session(step)]

Free(r) == rowLock \in {None, r}

Release(r) == rowLock' = IF rowLock = r THEN None ELSE rowLock

\* The incident is read; the worker leaves one alone that has a run.
Load(r) ==
  /\ At(r, "new")
  /\ IF r \in OfWorker /\ incident.run # None THEN Ends(r, "skipped")
     ELSE session' = [session EXCEPT ![r].step = "loaded", ![r].seen = incident]
  /\ UNCHANGED <<provider, incident, findings, agent_runs, rowLock, people>>

\* add_event flushes the run and the incident's new run id, which locks its row.
Claims(r) == Free(r) /\ rowLock' = r

Begin(r) ==
  /\ At(r, "loaded") /\ Claims(r)
  /\ \E b \in Bundles :
       session' = [session EXCEPT ![r].step = Playbook[1], ![r].world = b,
                                  ![r].stale = session[r].seen # incident]
  /\ UNCHANGED <<provider, incident, findings, agent_runs, people>>

-----------------------------------------------------------------------------
\* What a tool adds to the bundle.
Adds(tool, b, w) ==
  CASE tool = "query_metrics" ->
         [b EXCEPT !.metrics = w.metrics, !.anomalies = w.anomalies, !.db_ratio = w.db_ratio]
    [] tool = "search_logs" -> [b EXCEPT !.error_lines = w.error_lines, !.conn_logs = w.conn_logs]
    [] tool = "get_recent_deployments" -> [b EXCEPT !.deploys = w.deploys]
    [] tool = "get_dependencies" -> [b EXCEPT !.unhealthy = w.unhealthy]
    [] OTHER -> [b EXCEPT !.similar = w.similar]

\* query_metrics is called for every metric: the calls for these fail.
Without(w, lost) ==
  [w EXCEPT !.metrics = @ \ lost, !.anomalies = @ \ lost,
            !.db_ratio = @ /\ "database_connections" \notin lost]

Following(tool) ==
  LET i == CHOOSE j \in DOMAIN Playbook : Playbook[j] = tool
  IN  IF i = Len(Playbook) THEN "gathered" ELSE Playbook[i + 1]

\* run_tool returns whatever happens.  A tool that fails leaves its part of the bundle
\* empty; one that fails in the database spoils the transaction and so all tools after it.
Gather(r) ==
  \E tool \in {Playbook[i] : i \in DOMAIN Playbook} :
    /\ At(r, tool)
    /\ LET s == session[r]
           Returned(b) == [s EXCEPT !.step = Following(tool), !.bundle = b]
       IN  \/ /\ ~ s.broken
              /\ \E lost \in IF tool = "query_metrics" THEN SUBSET s.world.metrics ELSE {{}} :
                   session' = [session EXCEPT ![r] = Returned(Adds(tool, s.bundle, Without(s.world, lost)))]
           \/ ~ s.broken /\ session' = [session EXCEPT ![r] = Returned(s.bundle)]
           \/ session' = [session EXCEPT ![r] = [Returned(Nothing) EXCEPT !.world = Nothing, !.broken = TRUE]]
    /\ UNCHANGED <<provider, incident, findings, agent_runs, rowLock, people>>

-----------------------------------------------------------------------------
\* The mock's hypotheses with their confidence, the first one the root cause.
MockAnswer(b) ==
  LET first == Top(b)
  IN  [hypotheses |-> {[category |-> c, confidence |-> Confidence(b, c), cites |-> Cites(b, c)] :
                       c \in Hypotheses(b)},
       root_cause |-> first, confidence |-> Confidence(b, first)]

\* _validate_analysis: the root cause and the confidence are taken from the answer.
RemoteAnswer(b, answer) == [answer EXCEPT !.hypotheses = ValidatedAnswer(b, @)]

\* The result goes with a row of evidence for every id that is cited and in the catalogue.
Concluded(r, answer) ==
  session' = [session EXCEPT
    ![r].step = "analysed", ![r].world = Nothing, ![r].bundle = Nothing,
    ![r].result = [hypotheses |-> answer.hypotheses, root_cause |-> answer.root_cause,
                   confidence |-> answer.confidence, stale |-> session[r].stale,
                   evidence |-> (UNION {h.cites : h \in answer.hypotheses}) \cap Catalogue(session[r].bundle)]]

Fruitless(r) == Ends(r, "unavailable")

\* The provider answers; an answer without hypotheses is refused.
Analyse(r) ==
  /\ At(r, "gathered") /\ ~ session[r].broken
  /\ \/ /\ provider = "mock"
        /\ Concluded(r, MockAnswer(session[r].bundle))
     \/ /\ provider = "remote"
        /\ \E answer \in Answers :
             IF answer.hypotheses = {} THEN Fruitless(r)
             ELSE Concluded(r, RemoteAnswer(session[r].bundle, answer))
  /\ UNCHANGED <<provider, incident, findings, agent_runs, rowLock, people>>

\* ProviderUnavailable: no answer, or none that is JSON of the right shape.
Unavailable(r) ==
  /\ At(r, "gathered") /\ ~ session[r].broken /\ provider = "remote" /\ Fruitless(r)
  /\ UNCHANGED <<provider, incident, findings, agent_runs, rowLock, people>>

\* Deviation: only what this run has stored is deleted.
Cleared_Own(r) == DOMAIN findings \cap {r}

\* Whatever there is for the incident.
Cleared(r) == DOMAIN findings

\* The first statements of _persist_findings.
Persist(r) ==
  /\ At(r, "analysed")
  /\ session' = [session EXCEPT ![r].step = "persisted", ![r].deletes = Cleared(r)]
  /\ UNCHANGED <<provider, incident, findings, agent_runs, rowLock, people>>

\* Deviation: the first analysis stays.
Updated_Once(column, value, seen) == IF seen[column] = None THEN value ELSE incident[column]

\* A column set to what was loaded is not part of the UPDATE.
Updated(column, value, seen) == IF seen[column] = value THEN incident[column] ELSE value

Complete(r) ==
  /\ At(r, "persisted") /\ Free(r) /\ Ends(r, "done")
  /\ LET s == session[r]
     IN  /\ findings' = WithRow([q \in DOMAIN findings \ s.deletes |-> findings[q]], r, s.result)
         /\ incident' = [run |-> r,
                          root_cause |-> Updated("root_cause", s.result.root_cause, s.seen),
                          confidence |-> Updated("confidence", s.result.confidence, s.seen)]
  /\ agent_runs' = WithRow(agent_runs, r, "COMPLETED")
  /\ told' = {}
  /\ Release(r)
  /\ UNCHANGED <<provider, resolver>>

-----------------------------------------------------------------------------
\* Anything else that goes wrong, and always after a tool has spoiled the transaction.
Break(r) ==
  /\ session[r].step \in {"gathered", "analysed", "persisted"}
  /\ Ends(r, "failing")
  /\ UNCHANGED <<provider, incident, findings, agent_runs, rowLock, people>>

\* Deviation: the failure is rolled back and logged, no more.
RollBack_Logs(r) == Ends(r, "done") /\ Release(r)

RollBack(r) == Goes(r, "recreating") /\ Release(r)

Fail(r) ==
  /\ At(r, "failing") /\ RollBack(r)
  /\ UNCHANGED <<provider, incident, findings, agent_runs, people>>

\* Deviation: a run that was rolled back is not made again.
FailedRun_Lost(r) == IF At(r, "recreating") THEN agent_runs ELSE WithRow(agent_runs, r, "FAILED")

FailedRun(r) == WithRow(agent_runs, r, "FAILED")

\* The end of _mark_failed, in the first transaction or in the new one.
MarkFailed(r) ==
  /\ At(r, "unavailable") \/ At(r, "recreating")
  /\ Free(r) /\ Ends(r, "done")
  /\ incident' = [incident EXCEPT !.run = r]
  /\ agent_runs' = FailedRun(r)
  /\ Release(r)
  /\ UNCHANGED <<provider, findings, people>>

\* The process dies, or something fails where nothing catches it: before the try, or in the
\* second transaction of _mark_failed.
Crash(r) ==
  /\ session[r].step \notin {"new", "done", "skipped", "dead"}
  /\ Ends(r, "dead") /\ Release(r)
  /\ UNCHANGED <<provider, incident, findings, agent_runs, people>>

Step(r) ==
  \/ Begin(r) \/ Gather(r) \/ Analyse(r) \/ Unavailable(r) \/ Persist(r) \/ Complete(r)
  \/ Break(r) \/ Fail(r) \/ MarkFailed(r)

-----------------------------------------------------------------------------
\* engine.resolve, with a root cause.  The incident is read, ...
LoadToResolve(p) ==
  /\ resolver[p].step = "new"
  /\ \E text \in Texts :
       resolver' = [resolver EXCEPT ![p] = Request("loaded", incident.root_cause, text)]
  /\ UNCHANGED <<provider, incident, findings, agent_runs, rowLock, session, told>>

\* ... written by the flush in add_event, which locks its row, ...
Resolve(p) ==
  /\ resolver[p].step = "loaded" /\ rowLock = None
  /\ rowLock' = p /\ resolver' = [resolver EXCEPT ![p].step = "resolving"]
  /\ UNCHANGED <<provider, incident, findings, agent_runs, session, told>>

EndsRequest(p) ==
  /\ resolver' = [resolver EXCEPT ![p] = Request("done", None, None)]
  /\ Release(p)

\* ... and committed.
CommitResolve(p) ==
  /\ resolver[p].step = "resolving" /\ EndsRequest(p)
  /\ incident' = [incident EXCEPT
       !.root_cause = Updated("root_cause", resolver[p].text, [root_cause |-> resolver[p].seen])]
  /\ told' = told \cup {resolver[p].text}
  /\ UNCHANGED <<provider, findings, agent_runs, session>>

\* The table refuses it, or it fails.
AbandonResolve(p) ==
  /\ resolver[p].step \in {"loaded", "resolving"} /\ EndsRequest(p)
  /\ UNCHANGED <<provider, incident, findings, agent_runs, session, told>>

Next ==
  \/ \E r \in Run : Load(r) \/ Step(r) \/ Crash(r)
  \/ \E p \in Resolver : LoadToResolve(p) \/ Resolve(p) \/ CommitResolve(p) \/ AbandonResolve(p)

\* An investigation that is under way goes on unless it waits for the row: weak fairness
\* of Step(r), with the condition that enables it written out.  A request that has locked
\* the row ends.
Able(r) ==
  \/ session[r].step \in {"loaded", "unavailable", "recreating", "persisted"} /\ Free(r)
  \/ session[r].step \notin {"new", "loaded", "unavailable", "recreating", "persisted", "done", "skipped", "dead"}

Moves(r) == session'[r] # session[r]

Fairness ==
  /\ \A r \in Run : []<>(~ Able(r)) \/ []<><<Moves(r)>>_session
  /\ \A p \in Resolver : []<>(resolver[p].step # "resolving")

Spec == Init /\ [][Next]_vars /\ Fairness

-----------------------------------------------------------------------------
(***************************************************************************)
(* Properties                                                              *)
(***************************************************************************)

\* "clear previous run's findings so re-investigation is idempotent", with investigations
\* that overlap, tools that fail and transactions that break: the findings are those of
\* one completed run, and there are some whenever the incident has the confidence that the
\* policy of remediation goes by.  (A root cause it may have without: a person's.)
FindingsAreOfOneRun ==
  /\ \A q, r \in DOMAIN findings : q = r
  /\ \A r \in DOMAIN findings : r \in DOMAIN agent_runs /\ agent_runs[r] = "COMPLETED"
  /\ incident.confidence # None => findings # <<>>

\* The confidence that remediation and its policy read is that of the findings that are
\* shown with it, and the root cause is theirs or what a person has said at resolving since
\* (engine.py:284): never the cause of findings that are gone, and never what was said
\* before the findings.  Excepted are runs that began with an incident that another, or a
\* person, has changed since it was read.
RcaIsOfTheFindings ==
  \A r \in DOMAIN findings :
    ~ findings[r].stale =>
      /\ incident.confidence = findings[r].confidence
      /\ incident.root_cause \in {findings[r].root_cause} \cup told

\* "Output validation drops uncited evidence and caps ungrounded confidence": whatever the
\* tools have lost, a hypothesis above 50 has a row of evidence; a remote model's ones
\* rest on rows of evidence only, and the mock's on nothing else but the error rate.
VerdictsHaveEvidence ==
  \A r \in DOMAIN findings : \A h \in findings[r].hypotheses :
    /\ h.confidence > 50 => h.cites \cap findings[r].evidence # {}
    /\ h.cites \ findings[r].evidence \subseteq
         IF provider = "remote" THEN {} ELSE {<<"metric", "error_rate">>}

\* The run an incident names, in its report too, is there to be read.
LastRunIsKept == incident.run # None => incident.run \in DOMAIN agent_runs

\* "the run is marked FAILED and can be retried": whatever the try of investigate meets and
\* whoever has the row, an investigation ends with a run that says how, unless its process
\* dies or what fails is outside the try (investigator.py:256-267) or the recording itself.
InvestigationsAreRecorded ==
  \A r \in Run : At(r, "loaded") ~> (r \in DOMAIN agent_runs \/ At(r, "dead"))
=============================================================================
