---------------------------- MODULE Remediation ----------------------------
(***************************************************************************)
(* Remediations of one incident, from the proposal to the rollback:        *)
(* remediation/agent.py, remediation/executor.py, the endpoints of         *)
(* api/routers/remediations.py and the demo's drive (demo/flow.py).        *)
(*                                                                         *)
(* A session serves one request after another.  It reads the action, the   *)
(* incident and the service, decides on what it has read, and writes at    *)
(* its commit; a row lock only delays the commit, since nothing another    *)
(* request may change is read after it (the objects of the session keep    *)
(* what they first read).  One session alone is the system without         *)
(* overlapping requests.                                                   *)
(*                                                                         *)
(* Every caller of approve is an INCIDENT_COMMANDER at least, which is     *)
(* enough for every action (RemediationProofs).  Services are never        *)
(* deleted.  Plans, texts, timeline and audit rows are left out.           *)
(***************************************************************************)
EXTENDS Integers, Sequences, FiniteSets, RemediationPolicy, RemediationRegistry

CONSTANTS
  Session,          \* database sessions serving requests
  Rem,              \* remediation actions of the incident
  Plan,             \* what the planner may answer: an action with parameters and risk
  MODE,             \* settings.remediation_mode
  Confidence,       \* of the incident's root cause, or NoConfidence
  Forced,            \* proposals are made with force
  MaxExecutions     \* bound: executions recorded

ASSUME RemediationAssumption ==
  /\ MODE \in Modes
  /\ \A p \in Plan : p.name \in DOMAIN REGISTRY
  /\ Forced \in BOOLEAN
  /\ MaxExecutions \in Nat

VARIABLES
  incident,         \* the committed status of the incident
  runtime,          \* the committed attributes of the service
  status,           \* of each action; "NONE" until its row is inserted
  plan,             \* of each action
  approvals,        \* RemediationApproval rows, in commit order
  executions,       \* RemediationExecution rows, in commit order
  session           \* of each session: the request it serves and what it has read

records == <<plan, approvals, executions>>
vars == <<incident, runtime, status, records, session>>

Machine ==
  INSTANCE IncidentFsm WITH IncidentId <- {"incident"}, status <- [i \in {"incident"} |-> incident]

_ACTIVE == {"APPROVAL_REQUIRED", "PROPOSED", "APPROVED"}

OpenStatuses == _ACTIVE \cup {"EXECUTING", "VERIFYING"}

RemediationStatus == OpenStatuses \cup {"REJECTED", "SUCCEEDED", "FAILED", "ROLLED_BACK"}

Idle == [op |-> "idle"]
NoPlan == [name |-> "none"]
Ended == {"RESOLVED", "CLOSED"}

-----------------------------------------------------------------------------
(***************************************************************************)
(* What a request asks of the rows it reads; otherwise it raises           *)
(***************************************************************************)

Asked(p, seen) ==
  [action |-> p.name, valid |-> TRUE, found |-> TRUE, status |-> seen,
   risk |-> p.risk, confidence |-> Confidence, mode |-> MODE]

\* Deviation: a remediation that waits to be verified does not count as open.
MayPropose_Unverified(r) ==
  /\ status[r] = "NONE"
  /\ incident \notin Ended
  /\ Forced \/ \A o \in Rem : status[o] \notin OpenStatuses \ {"VERIFYING"}

MayPropose(r) ==
  /\ status[r] = "NONE"
  /\ incident \notin Ended
  /\ Forced \/ \A o \in Rem : status[o] \notin OpenStatuses

\* Deviation: an action may be approved again while it is verified.
MayApprove_Again(r) ==
  /\ status[r] \in OpenStatuses
  /\ ~ Blocked(Asked(plan[r], incident))

MayApprove(r) ==
  /\ status[r] \in _ACTIVE
  /\ ~ Blocked(Asked(plan[r], incident))

\* Deviation: an action that runs may still be rejected.
MayReject_Late(r) == status[r] \in OpenStatuses

MayReject(r) == status[r] \in _ACTIVE

\* EXECUTING is never committed.
MayVerify(r) == status[r] \in {"VERIFYING", "EXECUTING"}

MayRollback(r) ==
  /\ status[r] \in {"SUCCEEDED", "FAILED", "VERIFYING"}
  /\ REGISTRY[plan[r].name].reversible

\* The demo's drive approves the incident's action, executes and verifies it and
\* resolves the incident in one request; when apply fails, verify raises.
MayDrive(r) == MayApprove(r) /\ ~ Raises(plan[r])

\* The status moves that people and the investigator ask for (incidents/engine.py).
MayMove(to) ==
  /\ to \in Machine!INCIDENT_TRANSITIONS[incident] \ {"MITIGATING"}
  /\ to = "INVESTIGATING" => incident = "DETECTED"

-----------------------------------------------------------------------------
(***************************************************************************)
(* Reading                                                                 *)
(***************************************************************************)

Reads(s, op, r) ==
  /\ session[s] = Idle
  /\ session' = [session EXCEPT ![s] =
       [op |-> op, rem |-> r, incident |-> incident, runtime |-> runtime]]
  /\ UNCHANGED <<incident, runtime, status, records>>

Propose(s, r) == MayPropose(r) /\ Reads(s, "propose", r)
Approve(s, r) == MayApprove(r) /\ Reads(s, "approve", r)
Reject(s, r) == MayReject(r) /\ Reads(s, "reject", r)
Verify(s, r) == MayVerify(r) /\ Reads(s, "verify", r)
Rollback(s, r) == MayRollback(r) /\ Reads(s, "rollback", r)
Drive(s, r) == MayDrive(r) /\ Reads(s, "drive", r)

Move(s, to) ==
  /\ MayMove(to)
  /\ session[s] = Idle
  /\ session' = [session EXCEPT ![s] = [op |-> "move", to |-> to]]
  /\ UNCHANGED <<incident, runtime, status, records>>

-----------------------------------------------------------------------------
(***************************************************************************)
(* Writing                                                                 *)
(***************************************************************************)

Serving(s, op) == session[s].op = op

R(s) == session[s].rem

Done(s) == session' = [session EXCEPT ![s] = Idle]

Record(r, kind, ok) ==
  /\ Len(executions) < MaxExecutions
  /\ executions' = Append(executions, [of |-> r, kind |-> kind, ok |-> ok])

Decide(r, decision) == approvals' = Append(approvals, [of |-> r, decision |-> decision])

\* A proposal the policy blocks is recorded as PROPOSED.
CommitProposal(s) ==
  /\ Serving(s, "propose")
  /\ status[R(s)] = "NONE"
  /\ \E p \in Plan :
       /\ plan' = [plan EXCEPT ![R(s)] = p]
       /\ status' = [status EXCEPT ![R(s)] =
            IF Evaluate(Asked(p, session[s].incident)).requires_approval
            THEN "APPROVAL_REQUIRED" ELSE "PROPOSED"]
  /\ Done(s)
  /\ UNCHANGED <<incident, runtime, approvals, executions>>

\* execute() asks for MITIGATING, and goes on when the table refuses.
Mitigated(seen) ==
  IF seen \notin Ended /\ "MITIGATING" \in Machine!INCIDENT_TRANSITIONS[seen]
  THEN "MITIGATING" ELSE incident

Outcome(p) == IF Raises(p) THEN "FAILED" ELSE "VERIFYING"

\* approve and execute, in the transaction of one request.
CommitRun(s) ==
  LET p == plan[R(s)] IN
  /\ Serving(s, "approve")
  /\ Decide(R(s), "approved")
  /\ Record(R(s), "apply", ~ Raises(p))
  /\ status' = [status EXCEPT ![R(s)] = Outcome(p)]
  /\ runtime' = IF Raises(p) THEN runtime ELSE Apply(p, session[s].runtime)
  /\ incident' = Mitigated(session[s].incident)
  /\ Done(s)
  /\ UNCHANGED plan

CommitRejection(s) ==
  /\ Serving(s, "reject")
  /\ Decide(R(s), "rejected")
  /\ status' = [status EXCEPT ![R(s)] = "REJECTED"]
  /\ Done(s)
  /\ UNCHANGED <<incident, runtime, plan, executions>>

\* The checks pass or fail; the incident is left alone.
CommitVerification(s) ==
  /\ Serving(s, "verify")
  /\ \E verdict \in {"SUCCEEDED", "FAILED"} : status' = [status EXCEPT ![R(s)] = verdict]
  /\ Done(s)
  /\ UNCHANGED <<incident, runtime, records>>

\* A rollback that fails leaves the status: it may be asked for again.
RollbackFails(s) ==
  /\ Record(R(s), "rollback", FALSE)
  /\ UNCHANGED <<runtime, status>>

RollbackWorks(s) ==
  /\ Record(R(s), "rollback", TRUE)
  /\ runtime' = Revert(plan[R(s)], session[s].runtime)
  /\ status' = [status EXCEPT ![R(s)] = "ROLLED_BACK"]

CommitRollback(s) ==
  /\ Serving(s, "rollback")
  /\ IF Raises(plan[R(s)]) THEN RollbackFails(s) ELSE RollbackWorks(s)
  /\ Done(s)
  /\ UNCHANGED <<incident, plan, approvals>>

CommitDrive(s) ==
  /\ Serving(s, "drive")
  /\ Decide(R(s), "approved")
  /\ Record(R(s), "apply", TRUE)
  /\ runtime' = Apply(plan[R(s)], session[s].runtime)
  /\ \/ /\ status' = [status EXCEPT ![R(s)] = "SUCCEEDED"]
        /\ incident' = "RESOLVED"
     \/ /\ status' = [status EXCEPT ![R(s)] = "FAILED"]
        /\ incident' = Mitigated(session[s].incident)
  /\ Done(s)
  /\ UNCHANGED plan

CommitMove(s) ==
  /\ Serving(s, "move")
  /\ incident' = session[s].to
  /\ Done(s)
  /\ UNCHANGED <<runtime, status, records>>

\* An error, a lost connection or a crash before the commit.
RollsBack(s) ==
  /\ session[s] # Idle
  /\ Done(s)
  /\ UNCHANGED <<incident, runtime, status, records>>

-----------------------------------------------------------------------------
Init ==
  /\ incident \in {"DETECTED", "INVESTIGATING"}
  /\ runtime = DEFAULT_RUNTIME
  /\ status = [r \in Rem |-> "NONE"]
  /\ plan = [r \in Rem |-> NoPlan]
  /\ approvals = <<>>
  /\ executions = <<>>
  /\ session = [s \in Session |-> Idle]

Begin(s) ==
  \/ \E r \in Rem :
       \/ Propose(s, r)
       \/ Approve(s, r)
       \/ Reject(s, r)
       \/ Verify(s, r)
       \/ Rollback(s, r)
       \/ Drive(s, r)
  \/ \E to \in Machine!IncidentStatus : Move(s, to)

Commit(s) ==
  \/ CommitProposal(s)
  \/ CommitRun(s)
  \/ CommitRejection(s)
  \/ CommitVerification(s)
  \/ CommitRollback(s)
  \/ CommitDrive(s)
  \/ CommitMove(s)

Next == \E s \in Session : Begin(s) \/ Commit(s) \/ RollsBack(s)

Spec == Init /\ [][Next]_vars

-----------------------------------------------------------------------------
(***************************************************************************)
(* Properties                                                              *)
(***************************************************************************)

Runs(r) == Cardinality({i \in DOMAIN executions : executions[i] = [of |-> r, kind |-> "apply", ok |-> TRUE]})

Undone(r) == Cardinality({i \in DOMAIN executions : executions[i] = [of |-> r, kind |-> "rollback", ok |-> TRUE]})

Decisions(r, d) == {i \in DOMAIN approvals : approvals[i] = [of |-> r, decision |-> d]}

\* Only the statuses of RemediationStatus are committed, EXECUTING and APPROVED never:
\* approve and execute are one transaction.
TypeOK ==
  /\ incident \in Machine!IncidentStatus
  /\ DOMAIN runtime = DOMAIN DEFAULT_RUNTIME
  /\ runtime.replicas >= 1 /\ runtime.connection_pool >= 5
  /\ runtime.suppressed_faults \subseteq Tags
  /\ status \in [Rem -> (RemediationStatus \ {"APPROVED", "EXECUTING"}) \cup {"NONE"}]
  /\ \A r \in Rem : status[r] = "NONE" <=> plan[r] = NoPlan
  /\ Len(executions) <= MaxExecutions

\* "Approvals/rejections/executions/rollbacks are all recorded": whatever requests
\* overlap, every committed status has the row that accounts for it.
StatusHasItsRecord ==
  \A r \in Rem :
    /\ status[r] \in {"VERIFYING", "SUCCEEDED"} => Runs(r) > 0
    /\ status[r] = "ROLLED_BACK" => Undone(r) > 0
    /\ status[r] = "REJECTED" => Decisions(r, "rejected") # {}

\* No action runs, or is tried, without a recorded approval of its own.
EveryRunIsApproved ==
  \A r \in Rem :
    Cardinality({i \in DOMAIN executions : executions[i].of = r /\ executions[i].kind = "apply"})
      = Cardinality(Decisions(r, "approved"))

\* An action changes the service once, and only a change that was made is undone.
AppliedOnce == \A r \in Rem : Undone(r) <= Runs(r) /\ Runs(r) <= 1

\* Without force an incident has one open remediation at most.
OneOpenRemediation ==
  \A r, o \in Rem : status[r] \in OpenStatuses /\ status[o] \in OpenStatuses => r = o

\* No action runs on an incident that is resolved or closed.
RunsOnOpenIncident ==
  [][\A i \in DOMAIN executions' \ DOMAIN executions :
       executions'[i].kind = "apply" => incident \notin Ended]_vars

\* A reversible change that is in effect can be rolled back.
LiveChangesCanBeUndone ==
  \A r \in Rem :
    status[r] # "NONE" /\ Runs(r) > Undone(r) /\ REGISTRY[plan[r].name].reversible
      => MayRollback(r)

\* The replicas that a scaling in effect has added.
Added(r) ==
  IF plan[r].name = "scale_demo_service" /\ Runs(r) > Undone(r)
  THEN {r} \X (1 .. plan[r].replicas_delta)
  ELSE {}

\* The service has the replicas it began with and those that the scalings in effect have
\* added, whatever was applied and rolled back in between: as long as plans scale out,
\* the clamp of a revert is never met, and no revert takes back what is not its own.
ReplicasAccountedFor ==
  runtime.replicas = DEFAULT_RUNTIME.replicas + Cardinality(UNION {Added(r) : r \in Rem})

\* "Scale the service and pool back to their previous values": when every action that
\* ran is rolled back, the service has the replicas it began with.
RollbackRestores ==
  (\A r \in Rem : Runs(r) = Undone(r)) => runtime.replicas = DEFAULT_RUNTIME.replicas

\* The faults that an action in effect suppresses stay suppressed.
EffectsLast ==
  \A r \in Rem :
    status[r] \in {"VERIFYING", "SUCCEEDED"} => FaultTags(plan[r].name) \subseteq runtime.suppressed_faults

\* "RECOMMEND is advisory only".
AdvisoryNeverRuns == MODE = "RECOMMEND" => executions = <<>>

\* "all checks pass: status SUCCEEDED -> incident RESOLVED".
VerifiedResolves == (\E r \in Rem : status[r] = "SUCCEEDED") => incident \in Ended
=============================================================================
