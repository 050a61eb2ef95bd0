------------------------- MODULE RemediationProofs --------------------------
(***************************************************************************)
(* What remediations record and what they do to the service, for any       *)
(* number of actions and sessions.                                         *)
(*                                                                         *)
(* The records only grow, so that what a request has read of them is true  *)
(* at its commit, whatever was committed in between.  What it has read of  *)
(* statuses is not: each of the other theorems names the requests that     *)
(* must not be served together for it, and leaves all others to overlap.   *)
(***************************************************************************)
EXTENDS Remediation, FiniteSetTheorems, TLAPS

-----------------------------------------------------------------------------
(***************************************************************************)
(* The policy's answers for every request it can be asked                  *)
(* (remediation/policy.py): whatever the action, status, risk, confidence  *)
(* and mode                                                                *)
(***************************************************************************)

\* What is executed without a person is harmless: only in AUTONOMOUS mode, only a
\* registered reversible action of low risk with valid parameters, on an incident that
\* is not over and whose root cause is known with a confidence of 0.8 at least
\* (policy.py:99-119).
THEOREM AutonomyIsBounded ==
  ASSUME NEW actions, NEW statuses, NEW risks,
         NEW q \in Request(actions, statuses, risks, Int),
         Evaluate(q).allowed_now
  PROVE  /\ q.mode = "AUTONOMOUS"
         /\ q.action \in DOMAIN REGISTRY /\ REGISTRY[q.action].reversible /\ q.valid
         /\ Risk(q) = "LOW" /\ q.confidence >= 80
         /\ q.status \notin {"RESOLVED", "CLOSED"}
<1>1. ~ Unusable(q)
  BY DEF Evaluate
<1>2. ~ Blocked(q) /\ ~ NeedsApproval(q)
  BY <1>1 DEF Evaluate
<1>3. q.mode = "AUTONOMOUS" /\ AutonomousOk(q)
  BY <1>2 DEF NeedsApproval
<1>4. Risk(q) = "LOW"
  BY <1>3 DEF AutonomousOk, RiskRank, Risk
<1> QED  BY <1>1, <1>2, <1>3, <1>4 DEF Blocked, Unusable, AutonomousOk

\* The policy always decides: a request is blocked, or may run now, or waits for an
\* approval, and no two of the last; what cannot be used is blocked, and so is everything
\* in OBSERVE mode.
THEOREM Decided ==
  ASSUME NEW actions, NEW statuses, NEW risks,
         NEW q \in Request(actions, statuses, risks, Int)
  PROVE  LET answer == Evaluate(q)
         IN  /\ ~ (answer.blocked /\ answer.allowed_now)
             /\ ~ answer.blocked => (answer.allowed_now <=> ~ answer.requires_approval)
             /\ q.mode = "OBSERVE" \/ Unusable(q) => answer.blocked
<1>1. CASE Unusable(q)
  BY <1>1 DEF Evaluate
<1>2. CASE ~ Unusable(q)
  <2>1. Blocked(q) \in BOOLEAN /\ NeedsApproval(q) \in BOOLEAN
    BY DEF Blocked, NeedsApproval
  <2>2. q.mode = "OBSERVE" => Blocked(q)
    BY DEF Blocked
  <2> QED  BY <1>2, <2>1, <2>2 DEF Evaluate
<1> QED  BY <1>1, <1>2

\* Whoever may approve is entitled to: a request that waits for an approval, and every
\* one of medium or high risk, asks for an incident commander at least, and no usable
\* request asks for less than its action's registered role or for more than a commander.
\* The endpoints let commanders approve (api/routers/remediations.py:82).
THEOREM RolesAreOrdered ==
  ASSUME NEW actions, NEW statuses, NEW risks,
         NEW q \in Request(actions, statuses, risks, Int),
         ~ Unusable(q)
  PROVE  LET role == Evaluate(q).min_role
         IN  /\ Evaluate(q).requires_approval \/ Risk(q) # "LOW" => role = "INCIDENT_COMMANDER"
             /\ Rank[role] >= Rank[REGISTRY[q.action].requires_role]
             /\ Rank[role] <= Rank["INCIDENT_COMMANDER"]
<1>1. q.action \in DOMAIN REGISTRY
  BY DEF Unusable
<1>2. REGISTRY[q.action].requires_role \in {"ENGINEER", "INCIDENT_COMMANDER"}
  BY <1>1 DEF REGISTRY
<1>3. Risk(q) \in DOMAIN RiskRank /\ (Risk(q) # "LOW" => RiskRank[Risk(q)] >= 1)
  BY DEF Risk, RiskRank
<1>4. NeedsApproval(q) \/ Risk(q) # "LOW" => MinRole(q) = "INCIDENT_COMMANDER"
  BY <1>2, <1>3 DEF MinRole, Rank
<1>5. ~ NeedsApproval(q) /\ Risk(q) = "LOW" => MinRole(q) = REGISTRY[q.action].requires_role
  BY DEF MinRole, RiskRank
<1>6. Evaluate(q).min_role = MinRole(q) /\ (Evaluate(q).requires_approval => NeedsApproval(q))
  BY DEF Evaluate
<1> QED  BY <1>2, <1>4, <1>5, <1>6 DEF Rank

-----------------------------------------------------------------------------
(***************************************************************************)
(* The records of remediations                                             *)
(***************************************************************************)

Decision == [of : Rem, decision : {"approved", "rejected"}]
Execution == [of : Rem, kind : {"apply", "rollback"}, ok : BOOLEAN]

\* Where a row of a set is in a table.
Places(table, rows) == {i \in DOMAIN table : table[i] \in rows}

Approval(r) == [of |-> r, decision |-> "approved"]
Rejection(r) == [of |-> r, decision |-> "rejected"]
Run(r) == [of |-> r, kind |-> "apply", ok |-> TRUE]
Undoing(r) == [of |-> r, kind |-> "rollback", ok |-> TRUE]
Tries(r) == {[of |-> r, kind |-> "apply", ok |-> ok] : ok \in BOOLEAN}

Approvals(r) == Cardinality(Places(approvals, {Approval(r)}))
TriesOf(r) == Cardinality(Places(executions, Tries(r)))
RunsOf(r) == Cardinality(Places(executions, {Run(r)}))
UndoneOf(r) == Cardinality(Places(executions, {Undoing(r)}))
Rejections(r) == Places(approvals, {Rejection(r)})

Typed ==
  /\ status = [r \in Rem |-> status[r]]
  /\ plan = [r \in Rem |-> plan[r]]
  /\ approvals \in Seq(Decision)
  /\ executions \in Seq(Execution)
  /\ session = [s \in Session |-> session[s]]
  /\ \A s \in Session : session[s].op \in {"idle", "move"} \/ session[s].rem \in Rem

-----------------------------------------------------------------------------
(***************************************************************************)
(* Tables                                                                  *)
(***************************************************************************)

\* A row more is counted if it is one of those that are counted.
LEMMA Appending ==
  ASSUME NEW T, NEW table \in Seq(T), NEW row \in T, NEW rows
  PROVE  /\ Cardinality(Places(table, rows)) \in Nat
         /\ row \in rows => Cardinality(Places(Append(table, row), rows)) = Cardinality(Places(table, rows)) + 1
         /\ row \notin rows => Cardinality(Places(Append(table, row), rows)) = Cardinality(Places(table, rows))
<1> DEFINE longer == Append(table, row)
           n == Len(table) + 1
<1>1. /\ DOMAIN table = 1 .. Len(table) /\ DOMAIN longer = 1 .. n /\ Len(table) \in Nat
      /\ longer[n] = row /\ \A i \in DOMAIN table : longer[i] = table[i]
  OBVIOUS
<1>2. IsFiniteSet(Places(table, rows)) /\ n \notin Places(table, rows)
  <2>1. Places(table, rows) \in SUBSET (1 .. Len(table)) /\ IsFiniteSet(1 .. Len(table))
    BY <1>1, FS_Interval DEF Places
  <2> QED  BY <1>1, <2>1, FS_Subset DEF Places
<1>3. Cardinality(Places(table, rows)) \in Nat
  BY <1>2, FS_CardinalityType
<1> HIDE DEF longer
<1>4. CASE row \in rows
  <2>1. Places(longer, rows) = Places(table, rows) \cup {n}
    BY <1>1, <1>4 DEF Places
  <2> QED  BY <1>2, <1>3, <1>4, <2>1, FS_AddElement DEF longer
<1>5. CASE row \notin rows
  <2>1. Places(longer, rows) = Places(table, rows)
    BY <1>1, <1>5 DEF Places
  <2> QED  BY <1>3, <1>5, <2>1 DEF longer
<1> QED  BY <1>4, <1>5

\* The rows of one action, as the properties count them.
LEMMA Counts ==
  ASSUME Typed, NEW r \in Rem
  PROVE  /\ Runs(r) = RunsOf(r)
         /\ Undone(r) = UndoneOf(r)
         /\ Decisions(r, "approved") = Places(approvals, {Approval(r)})
         /\ Decisions(r, "rejected") = Rejections(r)
         /\ {i \in DOMAIN executions : executions[i].of = r /\ executions[i].kind = "apply"}
              = Places(executions, Tries(r))
<1>1. \A i \in DOMAIN executions : executions[i] \in Execution
  BY DEF Typed
<1>2. ASSUME NEW e \in Execution PROVE e \in Tries(r) <=> e.of = r /\ e.kind = "apply"
  BY DEF Execution, Tries
<1>3. {i \in DOMAIN executions : executions[i].of = r /\ executions[i].kind = "apply"} = Places(executions, Tries(r))
  BY <1>1, <1>2 DEF Places
<1> QED  BY <1>3 DEF Runs, Undone, RunsOf, UndoneOf, Rejections, Decisions, Places, Run, Undoing, Approval, Rejection

\* What a row more does to the counts.
LEMMA Executed ==
  ASSUME Typed, NEW o \in Rem, NEW kind \in {"apply", "rollback"}, NEW ok \in BOOLEAN, Record(o, kind, ok)
  PROVE  /\ executions' \in Seq(Execution)
         /\ \A r \in Rem :
              /\ RunsOf(r) \in Nat
              /\ UndoneOf(r) \in Nat
              /\ TriesOf(r) \in Nat
              /\ RunsOf(r)' =
                   IF r = o /\ kind = "apply" /\ ok THEN RunsOf(r) + 1
                   ELSE RunsOf(r)
              /\ UndoneOf(r)' =
                   IF r = o /\ kind = "rollback" /\ ok THEN UndoneOf(r) + 1
                   ELSE UndoneOf(r)
              /\ TriesOf(r)' = IF r = o /\ kind = "apply" THEN TriesOf(r) + 1 ELSE TriesOf(r)
<1> DEFINE e == [of |-> o, kind |-> kind, ok |-> ok]
<1>1. e \in Execution /\ executions' = Append(executions, e) /\ executions \in Seq(Execution)
  BY DEF Execution, Record, Typed
<1>2. executions' \in Seq(Execution)
  BY <1>1
<1>3. ASSUME NEW r \in Rem
      PROVE  /\ e \in {Run(r)} <=> (r = o /\ kind = "apply" /\ ok)
             /\ e \in {Undoing(r)} <=> (r = o /\ kind = "rollback" /\ ok)
             /\ e \in Tries(r) <=> (r = o /\ kind = "apply")
  BY DEF Run, Undoing, Tries
<1> HIDE DEF e
<1> QED  BY <1>1, <1>2, <1>3, Appending DEF TriesOf, RunsOf, UndoneOf

LEMMA Judged ==
  ASSUME Typed, NEW o \in Rem, NEW d \in {"approved", "rejected"}, Decide(o, d)
  PROVE  /\ approvals' \in Seq(Decision)
         /\ \A r \in Rem :
              /\ Approvals(r) \in Nat
              /\ Approvals(r)' = IF r = o /\ d = "approved" THEN Approvals(r) + 1 ELSE Approvals(r)
              /\ Rejections(r) # {} => Rejections(r)' # {}
         /\ d = "rejected" => Rejections(o)' # {}
<1> DEFINE e == [of |-> o, decision |-> d]
<1>1. e \in Decision /\ approvals' = Append(approvals, e) /\ approvals \in Seq(Decision)
  BY DEF Decision, Decide, Typed
<1>2. approvals' \in Seq(Decision)
  BY <1>1
<1>3. ASSUME NEW r \in Rem
      PROVE  /\ e \in {Approval(r)} <=> (r = o /\ d = "approved")
             /\ e \in {Rejection(r)} <=> (r = o /\ d = "rejected")
  BY DEF Approval, Rejection
<1> HIDE DEF e
<1>4. \A r \in Rem : Rejections(r) # {} => Rejections(r)' # {}
  BY <1>1 DEF Places, Rejections
<1>5. d = "rejected" => Rejections(o)' # {}
  BY <1>1, <1>3 DEF Places, Rejections
<1>6. \A r \in Rem : Approvals(r) \in Nat
                      /\ Approvals(r)' = IF r = o /\ d = "approved" THEN Approvals(r) + 1 ELSE Approvals(r)
  BY <1>1, <1>3, Appending DEF Approvals
<1> QED  BY <1>2, <1>4, <1>5, <1>6
-----------------------------------------------------------------------------
(***************************************************************************)
(* The records, whatever requests overlap                                  *)
(***************************************************************************)

\* Every status has its record.
RowIsRecorded(r) ==
  /\ TriesOf(r) = Approvals(r)
  /\ status[r] # "EXECUTING"
  /\ status[r] \in {"VERIFYING", "SUCCEEDED"} => RunsOf(r) > 0
  /\ status[r] = "ROLLED_BACK" => UndoneOf(r) > 0
  /\ status[r] = "REJECTED" => Rejections(r) # {}

Recorded == \A r \in Rem : RowIsRecorded(r)

\* What is being verified has run.
VerifiesWhatRan ==
  \A s \in Session, r \in Rem : (session[s].op = "verify" /\ session[s].rem = r) => RunsOf(r) > 0

IInv == Typed /\ Recorded /\ VerifiesWhatRan

LEMMA SameTables ==
  ASSUME UNCHANGED <<status, plan, approvals, executions>>
  PROVE  \A r \in Rem : (RowIsRecorded(r) => RowIsRecorded(r)') /\ RunsOf(r)' = RunsOf(r)
BY DEF RowIsRecorded, TriesOf, Approvals, RunsOf, UndoneOf, Rejections, Places

LEMMA ReadingKeepsIInv ==
  ASSUME IInv, NEW s \in Session, Begin(s)
  PROVE  IInv'
<1>1. ASSUME NEW new, session' = [session EXCEPT ![s] = new], new.op = "move" \/ new.rem \in Rem,
             new.op = "verify" => \A r \in Rem : new.rem = r => RunsOf(r) > 0, UNCHANGED <<status, plan, approvals, executions>>
      PROVE  IInv'
  <2>1. Typed'
    BY <1>1 DEF IInv, Typed
  <2>2. Recorded'
    BY <1>1, SameTables DEF IInv, Recorded
  <2>3. VerifiesWhatRan'
    <3>1. ASSUME NEW u \in Session, NEW r \in Rem, session'[u].op = "verify", session'[u].rem = r
          PROVE  RunsOf(r)' > 0
      <4>1. RunsOf(r) > 0
        BY <1>1, <3>1 DEF IInv, Typed, VerifiesWhatRan
      <4> QED  BY <1>1, <4>1, SameTables
    <3> QED  BY <3>1 DEF VerifiesWhatRan
  <2> QED  BY <2>1, <2>2, <2>3 DEF IInv
<1>2. ASSUME NEW r \in Rem, NEW op, Reads(s, op, r), op = "verify" => RunsOf(r) > 0 PROVE IInv'
  <2> DEFINE new == [op |-> op, rem |-> r, incident |-> incident, runtime |-> runtime]
  <2>1. session' = [session EXCEPT ![s] = new] /\ UNCHANGED <<status, plan, approvals, executions>>
    BY <1>2 DEF Reads, records
  <2>2. new.op = op /\ new.rem = r
    OBVIOUS
  <2> HIDE DEF new
  <2> QED  BY <1>1, <1>2, <2>1, <2>2
<1>3. ASSUME NEW to, Move(s, to) PROVE IInv'
  <2> DEFINE new == [op |-> "move", to |-> to]
  <2>1. session' = [session EXCEPT ![s] = new] /\ UNCHANGED <<status, plan, approvals, executions>>
    BY <1>3 DEF Move, records
  <2>2. new.op = "move"
    OBVIOUS
  <2> HIDE DEF new
  <2> QED  BY <1>1, <2>1, <2>2
<1>4. ASSUME NEW r \in Rem, Verify(s, r) PROVE IInv'
  <2>1. RunsOf(r) > 0
    BY <1>4 DEF Verify, MayVerify, IInv, Recorded, RowIsRecorded
  <2> QED  BY <1>2, <1>4, <2>1 DEF Verify
<1>5. ASSUME NEW r \in Rem, Propose(s, r) \/ Approve(s, r) \/ Reject(s, r) \/ Rollback(s, r) \/ Drive(s, r) PROVE IInv'
  BY <1>2, <1>5 DEF Propose, Approve, Reject, Rollback, Drive
<1> QED  BY <1>3, <1>4, <1>5 DEF Begin

\* The records of an action only grow.
NothingIsLost(r) ==
  /\ RunsOf(r) > 0 => RunsOf(r)' > 0
  /\ UndoneOf(r) > 0 => UndoneOf(r)' > 0
  /\ Rejections(r) # {} => Rejections(r)' # {}

\* A commit that writes one action's row and adds what accounts for it.
LEMMA RecordingKeepsIInv ==
  ASSUME IInv, NEW s \in Session, Done(s), NEW o \in Rem, NEW to,
         status' = [status EXCEPT ![o] = to], plan' = [r \in Rem |-> plan'[r]],
         approvals' \in Seq(Decision), executions' \in Seq(Execution),
         \A r \in Rem : TriesOf(r)' = Approvals(r)' /\ NothingIsLost(r),
         to # "EXECUTING",
         to \in {"VERIFYING", "SUCCEEDED"} => RunsOf(o)' > 0,
         to = "ROLLED_BACK" => UndoneOf(o)' > 0,
         to = "REJECTED" => Rejections(o)' # {}
  PROVE  IInv'
<1>1. \A u \in Session : session'[u] = IF u = s THEN Idle ELSE session[u]
  BY DEF Done, IInv, Typed
<1>2. Typed'
  BY <1>1 DEF Done, Idle, IInv, Typed
<1>3. ASSUME NEW r \in Rem PROVE RowIsRecorded(r)'
  <2>1. CASE r = o
    BY <2>1 DEF IInv, Typed, RowIsRecorded
  <2>2. CASE r # o
    <3>1. status'[r] = status[r] /\ RowIsRecorded(r)
      BY <2>2 DEF IInv, Typed, Recorded
    <3> QED  BY <3>1 DEF RowIsRecorded, NothingIsLost
  <2> QED  BY <2>1, <2>2
<1>4. VerifiesWhatRan'
  <2>1. ASSUME NEW u \in Session, NEW r \in Rem, session'[u].op = "verify", session'[u].rem = r
        PROVE  RunsOf(r)' > 0
    <3>1. session'[u] = session[u]
      BY <1>1, <2>1 DEF Idle
    <3>2. RunsOf(r) > 0
      BY <2>1, <3>1 DEF IInv, VerifiesWhatRan
    <3> QED  BY <3>2 DEF NothingIsLost
  <2> QED  BY <2>1 DEF VerifiesWhatRan
<1> QED  BY <1>2, <1>3, <1>4 DEF IInv, Recorded

LEMMA SameApprovals ==
  approvals' = approvals => \A r : Approvals(r)' = Approvals(r) /\ Rejections(r)' = Rejections(r)
BY DEF Approvals, Rejections, Places

LEMMA SameExecutions ==
  executions' = executions => \A r : TriesOf(r)' = TriesOf(r) /\ RunsOf(r)' = RunsOf(r) /\ UndoneOf(r)' = UndoneOf(r)
BY DEF TriesOf, RunsOf, UndoneOf, Places

\* A session that is done and has written nothing of an action.
LEMMA SkippingKeepsIInv ==
  ASSUME IInv, NEW s \in Session, Done(s), UNCHANGED <<status, plan, approvals, executions>>
  PROVE  IInv'
<1>1. \A u \in Session : session'[u] = IF u = s THEN Idle ELSE session[u]
  BY DEF Done, IInv, Typed
<1>2. Typed'
  BY <1>1 DEF Done, Idle, IInv, Typed
<1>3. Recorded'
  BY SameTables DEF IInv, Recorded
<1>4. VerifiesWhatRan'
  <2>1. ASSUME NEW u \in Session, NEW r \in Rem, session'[u].op = "verify", session'[u].rem = r
        PROVE  RunsOf(r)' > 0
    <3>1. session'[u] = session[u]
      BY <1>1, <2>1 DEF Idle
    <3>2. RunsOf(r) > 0
      BY <2>1, <3>1 DEF IInv, VerifiesWhatRan
    <3> QED  BY <3>2, SameTables
  <2> QED  BY <2>1 DEF VerifiesWhatRan
<1> QED  BY <1>2, <1>3, <1>4 DEF IInv

LEMMA CommitKeepsIInv ==
  ASSUME IInv, NEW s \in Session, Commit(s)
  PROVE  IInv'
<1>0. /\ Typed
      /\ \A r \in Rem : TriesOf(r) = Approvals(r)
  BY DEF IInv, Recorded, RowIsRecorded
<1>7. ASSUME session[s].op \notin {"idle", "move"} PROVE \E o \in Rem : o = R(s)
  BY <1>7 DEF IInv, Typed, R
<1>1. CASE CommitProposal(s)
  <2>0. PICK o \in Rem : o = R(s)
    BY <1>7, <1>1 DEF CommitProposal, Serving
  <2>1. PICK to \in {"APPROVAL_REQUIRED", "PROPOSED"} : status' = [status EXCEPT ![o] = to]
    BY <1>1, <2>0 DEF CommitProposal
  <2>2. /\ Done(s) /\ plan' = [r \in Rem |-> plan'[r]]
        /\ approvals' = approvals /\ executions' = executions
    BY <1>0, <1>1, <2>0 DEF CommitProposal, Serving, Typed
  <2> QED  BY <1>0, <2>1, <2>2, SameApprovals, SameExecutions, RecordingKeepsIInv DEF Typed, NothingIsLost
<1>2. CASE CommitRun(s) \/ CommitDrive(s)
  <2>0. PICK o \in Rem : o = R(s)
    BY <1>7, <1>2 DEF CommitRun, CommitDrive, Serving
  <2>1. PICK ok \in BOOLEAN, to \in {"VERIFYING", "SUCCEEDED", "FAILED"} :
          /\ Record(o, "apply", ok) /\ status' = [status EXCEPT ![o] = to]
          /\ to # "FAILED" => ok
    <3>1. CASE CommitRun(s)
      <4>1. /\ Record(o, "apply", ~ Raises(plan[o]))
            /\ status' = [status EXCEPT ![o] = Outcome(plan[o])]
        BY <3>1, <2>0 DEF CommitRun
      <4>2. /\ (~ Raises(plan[o])) \in BOOLEAN /\ Outcome(plan[o]) \in {"VERIFYING", "FAILED"}
            /\ Outcome(plan[o]) # "FAILED" => ~ Raises(plan[o])
        BY DEF Outcome
      <4> QED  BY <4>1, <4>2
    <3>2. CASE CommitDrive(s)
      BY <3>2, <2>0 DEF CommitDrive
    <3> QED  BY <1>2, <3>1, <3>2
  <2>2. Done(s) /\ plan' = [r \in Rem |-> plan'[r]] /\ Decide(o, "approved")
    BY <1>0, <1>2, <2>0 DEF CommitRun, CommitDrive, Serving, Typed
  <2>3. /\ executions' \in Seq(Execution) /\ approvals' \in Seq(Decision)
        /\ \A r \in Rem : TriesOf(r)' = Approvals(r)' /\ NothingIsLost(r)
        /\ ok => RunsOf(o)' > 0
    <3>1. /\ executions' \in Seq(Execution)
          /\ \A r \in Rem : /\ TriesOf(r) \in Nat
                            /\ TriesOf(r)' = IF r = o THEN TriesOf(r) + 1 ELSE TriesOf(r)
                            /\ RunsOf(r) > 0 => RunsOf(r)' > 0
                            /\ UndoneOf(r) > 0 => UndoneOf(r)' > 0
          /\ ok => RunsOf(o)' > 0
      BY <1>0, <2>1, Executed
    <3>2. /\ approvals' \in Seq(Decision)
          /\ \A r \in Rem : /\ Approvals(r)' = IF r = o THEN Approvals(r) + 1 ELSE Approvals(r)
                            /\ Rejections(r) # {} => Rejections(r)' # {}
      BY <1>0, <2>2, Judged
    <3> QED  BY <1>0, <3>1, <3>2 DEF NothingIsLost
  <2> QED  BY <2>1, <2>2, <2>3, RecordingKeepsIInv
<1>3. CASE CommitRejection(s)
  <2>0. PICK o \in Rem : o = R(s)
    BY <1>7, <1>3 DEF CommitRejection, Serving
  <2>1. /\ Done(s) /\ plan' = [r \in Rem |-> plan'[r]] /\ Decide(o, "rejected")
        /\ status' = [status EXCEPT ![o] = "REJECTED"] /\ executions' = executions
    BY <1>0, <1>3, <2>0 DEF CommitRejection, Serving, Typed
  <2>2. /\ approvals' \in Seq(Decision) /\ Rejections(o)' # {}
        /\ \A r \in Rem : Approvals(r)' = Approvals(r) /\ (Rejections(r) # {} => Rejections(r)' # {})
    BY <1>0, <2>1, Judged
  <2> QED  BY <1>0, <2>1, <2>2, SameExecutions, RecordingKeepsIInv DEF Typed, NothingIsLost
<1>4. CASE CommitVerification(s)
  <2>0. PICK o \in Rem : o = R(s)
    BY <1>7, <1>4 DEF CommitVerification, Serving
  <2>1. PICK to \in {"SUCCEEDED", "FAILED"} : status' = [status EXCEPT ![o] = to]
    BY <1>4, <2>0 DEF CommitVerification
  <2>2. /\ Done(s) /\ plan' = [r \in Rem |-> plan'[r]]
        /\ approvals' = approvals /\ executions' = executions
    BY <1>0, <1>4, <2>0 DEF CommitVerification, Serving, Typed, records
  <2>3. RunsOf(o) > 0
    BY <1>4, <2>0 DEF CommitVerification, Serving, IInv, VerifiesWhatRan, R
  <2> QED  BY <1>0, <2>1, <2>2, <2>3, SameApprovals, SameExecutions, RecordingKeepsIInv DEF Typed, NothingIsLost
<1>5. CASE CommitRollback(s)
  <2>0. PICK o \in Rem : o = R(s)
    BY <1>7, <1>5 DEF CommitRollback, Serving
  <2>1. /\ Done(s) /\ plan' = [r \in Rem |-> plan'[r]] /\ approvals' = approvals
        /\ approvals \in Seq(Decision)
    BY <1>0, <1>5, <2>0 DEF CommitRollback, Serving, Typed
  <2>2. PICK ok \in BOOLEAN : /\ Record(o, "rollback", ok)
                             /\ status' = IF ok THEN [status EXCEPT ![o] = "ROLLED_BACK"] ELSE status
    BY <1>5, <2>0 DEF CommitRollback, RollbackFails, RollbackWorks
  <2>3. /\ executions' \in Seq(Execution)
        /\ \A r \in Rem : /\ TriesOf(r)' = TriesOf(r)
                          /\ RunsOf(r) > 0 => RunsOf(r)' > 0
                          /\ UndoneOf(r) > 0 => UndoneOf(r)' > 0
        /\ ok => UndoneOf(o)' > 0
    BY <1>0, <2>1, <2>2, Executed
  <2>4. \A r \in Rem : TriesOf(r)' = Approvals(r)' /\ Rejections(r)' = Rejections(r)
    BY <1>0, <2>1, <2>3, SameApprovals
  <2>5. CASE ok
    BY <2>1, <2>2, <2>3, <2>4, <2>5, RecordingKeepsIInv DEF NothingIsLost
  <2>6. CASE ~ ok
    <3>1. status' = [status EXCEPT ![o] = status[o]]
      BY <1>0, <2>2, <2>6 DEF Typed
    <3>2. RowIsRecorded(o)
      BY <2>1 DEF IInv, Recorded
    <3>3. /\ status[o] # "EXECUTING"
          /\ status[o] \in {"VERIFYING", "SUCCEEDED"} => RunsOf(o)' > 0
          /\ status[o] = "ROLLED_BACK" => UndoneOf(o)' > 0
          /\ status[o] = "REJECTED" => Rejections(o)' # {}
      BY <2>1, <2>3, <2>4, <3>2 DEF RowIsRecorded
    <3> QED  BY <2>1, <2>3, <2>4, <3>1, <3>3, RecordingKeepsIInv DEF NothingIsLost
  <2> QED  BY <2>5, <2>6
<1>6. CASE CommitMove(s)
  BY <1>6, SkippingKeepsIInv DEF CommitMove, records
<1> QED  BY <1>1, <1>2, <1>3, <1>4, <1>5, <1>6 DEF Commit

LEMMA InitIsIInv ==
  ASSUME Init
  PROVE  IInv
<1>1. Typed /\ VerifiesWhatRan
  BY DEF Init, Typed, VerifiesWhatRan, Idle
<1>2. ASSUME NEW r \in Rem PROVE RowIsRecorded(r)
  <2>1. Places(executions, Tries(r)) = {} /\ Places(approvals, {Approval(r)}) = {}
    BY DEF Init, Places
  <2>2. TriesOf(r) = Approvals(r)
    BY <2>1 DEF TriesOf, Approvals
  <2> QED  BY <1>2, <2>2 DEF Init, RowIsRecorded
<1> QED  BY <1>1, <1>2 DEF IInv, Recorded

LEMMA NextKeepsIInv ==
  ASSUME IInv, [Next]_vars
  PROVE  IInv'
<1>1. ASSUME NEW s \in Session, RollsBack(s) PROVE IInv'
  BY <1>1, SkippingKeepsIInv DEF RollsBack, records
<1>2. CASE UNCHANGED vars
  BY <1>2, SameTables DEF vars, records, IInv, Typed, Recorded, VerifiesWhatRan
<1> QED  BY <1>1, <1>2, ReadingKeepsIInv, CommitKeepsIInv DEF Next

LEMMA RecordsAreInvariant == Spec => []IInv
<1>1. Init => IInv
  BY InitIsIInv
<1>2. IInv /\ [Next]_vars => IInv'
  BY NextKeepsIInv
<1> QED  BY <1>1, <1>2, PTL DEF Spec

\* No action runs, or is tried, without a recorded approval of its own, whatever requests
\* overlap.
THEOREM EveryRunWasApproved == Spec => []EveryRunIsApproved
<1>1. IInv => EveryRunIsApproved
  BY Counts DEF IInv, Recorded, RowIsRecorded, EveryRunIsApproved, TriesOf, Approvals
<1> QED  BY <1>1, RecordsAreInvariant, PTL

\* Every committed status has the row that accounts for it, whatever requests overlap.
THEOREM StatusAlwaysHasItsRecord == Spec => []StatusHasItsRecord
<1>1. IInv => StatusHasItsRecord
  BY Counts DEF IInv, Recorded, RowIsRecorded, StatusHasItsRecord, Rejections
<1> QED  BY <1>1, RecordsAreInvariant, PTL

-----------------------------------------------------------------------------
(***************************************************************************)
(* What a step does to a row, whichever request it is a step of            *)
(***************************************************************************)

Runners == {"approve", "drive"}
Waiting == {"NONE", "APPROVAL_REQUIRED", "PROPOSED"}
Tried == {"VERIFYING", "SUCCEEDED", "FAILED"}

\* A session serves a request about an action.
Served(s) == session[s].op \notin {"idle", "move"}

NotOpen(r) == status[r] \notin OpenStatuses

\* What lets a request in.
Admitted(op, r) ==
  /\ op = "propose" => status[r] = "NONE" /\ (Forced \/ \A o \in Rem : NotOpen(o))
  /\ op \in Runners \cup {"reject"} => status[r] \in _ACTIVE
  /\ op = "verify" => status[r] \in {"VERIFYING", "EXECUTING"}
  /\ op = "rollback" => status[r] \in Tried

SameCounts(r) == RunsOf(r)' = RunsOf(r) /\ UndoneOf(r)' = UndoneOf(r)

Stays(r) == status'[r] = status[r] /\ plan'[r] = plan[r] /\ SameCounts(r)

ProposalEffect(r) ==
  status[r] = "NONE" /\ status'[r] \in {"APPROVAL_REQUIRED", "PROPOSED"} /\ SameCounts(r)

RunEffect(r) ==
  /\ status'[r] \in Tried /\ plan'[r] = plan[r] /\ UndoneOf(r)' = UndoneOf(r)
  /\ RunsOf(r)' \in {RunsOf(r), RunsOf(r) + 1}
  /\ Raises(plan[r]) \/ RunsOf(r)' = RunsOf(r) + 1

RejectionEffect(r) == status'[r] = "REJECTED" /\ plan'[r] = plan[r] /\ SameCounts(r)

VerificationEffect(r) == status'[r] \in {"SUCCEEDED", "FAILED"} /\ plan'[r] = plan[r] /\ SameCounts(r)

RollbackEffect(r) ==
  /\ status'[r] = "ROLLED_BACK" /\ plan'[r] = plan[r] /\ ~ Raises(plan[r])
  /\ RunsOf(r)' = RunsOf(r) /\ UndoneOf(r)' = UndoneOf(r) + 1

Effect(op, r) ==
  \/ op = "propose" /\ ProposalEffect(r)
  \/ op \in Runners /\ RunEffect(r)
  \/ op = "reject" /\ RejectionEffect(r)
  \/ op = "verify" /\ VerificationEffect(r)
  \/ op = "rollback" /\ (RollbackEffect(r) \/ Stays(r))

\* A step that writes no row: each session goes on, ends or is let in.
WritesNothing ==
  /\ \A r \in Rem : Stays(r)
  /\ \A u \in Session :
       \/ session'[u] = session[u]
       \/ session'[u].op \in {"idle", "move"}
       \/ session'[u].rem \in Rem /\ Admitted(session'[u].op, session'[u].rem)

\* The commit of a request about an action.
WritesRow(s, o) ==
  /\ Served(s) /\ session[s].rem = o /\ Effect(session[s].op, o)
  /\ \A r \in Rem \ {o} : Stays(r)
  /\ \A u \in Session : (u # s /\ session'[u] = session[u]) \/ session'[u].op = "idle"

LEMMA NatCounts ==
  ASSUME Typed, NEW r \in Rem
  PROVE  RunsOf(r) \in Nat /\ UndoneOf(r) \in Nat
<1>1. ASSUME NEW rows PROVE Cardinality(Places(executions, rows)) \in Nat
  <2>1. Places(executions, rows) \in SUBSET (1 .. Len(executions)) /\ Len(executions) \in Nat
    BY DEF Typed, Places
  <2>2. IsFiniteSet(1 .. Len(executions))
    BY <2>1, FS_Interval
  <2> QED  BY <2>1, <2>2, FS_Subset, FS_CardinalityType
<1> QED  BY <1>1 DEF RunsOf, UndoneOf

LEMMA ReadingWritesNothing ==
  ASSUME IInv, NEW s \in Session, Begin(s)
  PROVE  WritesNothing
<1>1. UNCHANGED <<status, plan, approvals, executions>>
  BY DEF Begin, Propose, Approve, Reject, Verify, Rollback, Drive, Move, Reads, records
<1>2. \A r \in Rem : Stays(r)
  BY <1>1, SameExecutions DEF Stays, SameCounts
<1>3. ASSUME NEW r \in Rem, NEW op, Reads(s, op, r), Admitted(op, r) PROVE WritesNothing
  <2> DEFINE new == [op |-> op, rem |-> r, incident |-> incident, runtime |-> runtime]
  <2>1. session' = [session EXCEPT ![s] = new] /\ new.op = op /\ new.rem = r
    BY <1>3 DEF Reads
  <2> HIDE DEF new
  <2>2. \A u \in Session : session'[u] = IF u = s THEN new ELSE session[u]
    BY <2>1 DEF IInv, Typed
  <2> QED  BY <1>2, <1>3, <2>1, <2>2 DEF WritesNothing
<1>4. ASSUME NEW to, Move(s, to) PROVE WritesNothing
  <2> DEFINE new == [op |-> "move", to |-> to]
  <2>1. session' = [session EXCEPT ![s] = new] /\ new.op = "move"
    BY <1>4 DEF Move
  <2> HIDE DEF new
  <2>2. \A u \in Session : session'[u] = IF u = s THEN new ELSE session[u]
    BY <2>1 DEF IInv, Typed
  <2> QED  BY <1>2, <2>1, <2>2 DEF WritesNothing
<1>5. ASSUME NEW r \in Rem, Propose(s, r) PROVE WritesNothing
  <2>1. Admitted("propose", r)
    BY <1>5 DEF Propose, MayPropose, Admitted, Runners, NotOpen
  <2> QED  BY <1>3, <1>5, <2>1 DEF Propose
<1>6. ASSUME NEW r \in Rem, Approve(s, r) PROVE WritesNothing
  <2>1. Admitted("approve", r)
    BY <1>6 DEF Approve, MayApprove, Admitted, Runners
  <2> QED  BY <1>3, <1>6, <2>1 DEF Approve
<1>7. ASSUME NEW r \in Rem, Drive(s, r) PROVE WritesNothing
  <2>1. Admitted("drive", r)
    BY <1>7 DEF Drive, MayDrive, MayApprove, Admitted, Runners
  <2> QED  BY <1>3, <1>7, <2>1 DEF Drive
<1>8. ASSUME NEW r \in Rem, Reject(s, r) PROVE WritesNothing
  <2>1. Admitted("reject", r)
    BY <1>8 DEF Reject, MayReject, Admitted, Runners
  <2> QED  BY <1>3, <1>8, <2>1 DEF Reject
<1>9. ASSUME NEW r \in Rem, Verify(s, r) PROVE WritesNothing
  <2>1. Admitted("verify", r)
    BY <1>9 DEF Verify, MayVerify, Admitted, Runners
  <2> QED  BY <1>3, <1>9, <2>1 DEF Verify
<1>10. ASSUME NEW r \in Rem, Rollback(s, r) PROVE WritesNothing
  <2>1. Admitted("rollback", r)
    BY <1>10 DEF Rollback, MayRollback, Admitted, Runners, Tried
  <2> QED  BY <1>3, <1>10, <2>1 DEF Rollback
<1> QED  BY <1>4, <1>5, <1>6, <1>7, <1>8, <1>9, <1>10 DEF Begin

\* One action's row is written and the session is done.
LEMMA WritingOne ==
  ASSUME IInv, NEW s \in Session, Done(s), Served(s), NEW o \in Rem, session[s].rem = o, NEW to,
         status' = [status EXCEPT ![o] = to], Effect(session[s].op, o),
         \A r \in Rem \ {o} : SameCounts(r) /\ plan'[r] = plan[r]
  PROVE  WritesRow(s, o)
<1>1. \A u \in Session : session'[u] = IF u = s THEN Idle ELSE session[u]
  BY DEF Done, IInv, Typed
<1>2. \A r \in Rem \ {o} : status'[r] = status[r]
  BY DEF IInv, Typed
<1> QED  BY <1>1, <1>2 DEF WritesRow, Stays, Idle

LEMMA CommitWrites ==
  ASSUME IInv, NEW s \in Session, Commit(s), ~ CommitMove(s)
  PROVE  \E o \in Rem : WritesRow(s, o)
<1>0. Typed /\ (session[s].op \notin {"idle", "move"} => session[s].rem \in Rem)
  BY DEF IInv, Typed
<1>1. CASE CommitProposal(s)
  <2>0. session[s].op = "propose" /\ Served(s) /\ Done(s)
    BY <1>1 DEF CommitProposal, Serving, Served
  <2>1. PICK o \in Rem : o = session[s].rem
    BY <1>0, <2>0
  <2>2. PICK to \in {"APPROVAL_REQUIRED", "PROPOSED"}, p \in Plan :
          status' = [status EXCEPT ![o] = to] /\ plan' = [plan EXCEPT ![o] = p]
    BY <1>1, <2>1 DEF CommitProposal, R
  <2>3. \A r \in Rem : SameCounts(r)
    BY <1>1, SameExecutions DEF CommitProposal, SameCounts
  <2>4. status[o] = "NONE" /\ status'[o] = to /\ \A r \in Rem \ {o} : plan'[r] = plan[r]
    BY <1>0, <1>1, <2>1, <2>2 DEF CommitProposal, R, Typed
  <2>5. Effect(session[s].op, o)
    BY <2>0, <2>2, <2>3, <2>4 DEF Effect, ProposalEffect
  <2> QED  BY <2>0, <2>1, <2>2, <2>3, <2>4, <2>5, WritingOne
<1>2. CASE CommitRun(s)
  <2>0. session[s].op = "approve" /\ Served(s) /\ Done(s) /\ plan' = plan
    BY <1>2 DEF CommitRun, Serving, Served
  <2>1. PICK o \in Rem : o = session[s].rem
    BY <1>0, <2>0
  <2> DEFINE ok == ~ Raises(plan[o])
             to == Outcome(plan[o])
  <2>2. status' = [status EXCEPT ![o] = to] /\ Record(o, "apply", ok) /\ ok \in BOOLEAN /\ to \in Tried
    BY <1>2, <2>1 DEF CommitRun, R, Outcome, Tried
  <2>3. ok \/ Raises(plan[o])
    OBVIOUS
  <2> HIDE DEF ok, to
  <2>4. \A r \in Rem : /\ RunsOf(r) \in Nat
                       /\ RunsOf(r)' = IF r = o /\ ok THEN RunsOf(r) + 1 ELSE RunsOf(r)
                       /\ UndoneOf(r)' = UndoneOf(r)
    BY <1>0, <2>2, Executed
  <2>5. status'[o] = to
    BY <1>0, <2>2 DEF Typed
  <2>6. RunEffect(o)
    BY <2>0, <2>2, <2>3, <2>4, <2>5 DEF RunEffect
  <2>7. Effect(session[s].op, o) /\ \A r \in Rem \ {o} : SameCounts(r)
    BY <2>0, <2>4, <2>6 DEF Effect, Runners, SameCounts
  <2> QED  BY <2>0, <2>1, <2>2, <2>7, WritingOne
<1>3. CASE CommitDrive(s)
  <2>0. session[s].op = "drive" /\ Served(s) /\ Done(s) /\ plan' = plan
    BY <1>3 DEF CommitDrive, Serving, Served
  <2>1. PICK o \in Rem : o = session[s].rem
    BY <1>0, <2>0
  <2>2. Record(o, "apply", TRUE) /\ \E to \in Tried : status' = [status EXCEPT ![o] = to]
    BY <1>3, <2>1 DEF CommitDrive, R, Tried
  <2>3. PICK to \in Tried : status' = [status EXCEPT ![o] = to]
    BY <2>2
  <2>4. \A r \in Rem : /\ RunsOf(r) \in Nat
                       /\ RunsOf(r)' = IF r = o THEN RunsOf(r) + 1 ELSE RunsOf(r)
                       /\ UndoneOf(r)' = UndoneOf(r)
    BY <1>0, <2>2, Executed
  <2>5. status'[o] = to
    BY <1>0, <2>3 DEF Typed
  <2>6. RunEffect(o)
    BY <2>0, <2>3, <2>4, <2>5 DEF RunEffect
  <2>7. Effect(session[s].op, o) /\ \A r \in Rem \ {o} : SameCounts(r)
    BY <2>0, <2>4, <2>6 DEF Effect, Runners, SameCounts
  <2> QED  BY <2>0, <2>1, <2>3, <2>7, WritingOne
<1>4. CASE CommitRejection(s)
  <2>0. /\ session[s].op = "reject" /\ Served(s) /\ Done(s) /\ plan' = plan
        /\ \A r \in Rem : SameCounts(r)
    BY <1>4, SameExecutions DEF CommitRejection, Serving, Served, SameCounts
  <2>1. PICK o \in Rem : o = session[s].rem
    BY <1>0, <2>0
  <2>2. status' = [status EXCEPT ![o] = "REJECTED"] /\ status'[o] = "REJECTED"
    BY <1>0, <1>4, <2>1 DEF CommitRejection, R, Typed
  <2>3. Effect(session[s].op, o)
    BY <2>0, <2>2 DEF Effect, RejectionEffect
  <2> QED  BY <2>0, <2>1, <2>2, <2>3, WritingOne
<1>5. CASE CommitVerification(s)
  <2>0. /\ session[s].op = "verify" /\ Served(s) /\ Done(s) /\ plan' = plan
        /\ \A r \in Rem : SameCounts(r)
    BY <1>5, SameExecutions DEF CommitVerification, records, Serving, Served, SameCounts
  <2>1. PICK o \in Rem : o = session[s].rem
    BY <1>0, <2>0
  <2>2. PICK to \in {"SUCCEEDED", "FAILED"} : status' = [status EXCEPT ![o] = to] /\ status'[o] = to
    BY <1>0, <1>5, <2>1 DEF CommitVerification, R, Typed
  <2>3. Effect(session[s].op, o)
    BY <2>0, <2>2 DEF Effect, VerificationEffect
  <2> QED  BY <2>0, <2>1, <2>2, <2>3, WritingOne
<1>6. CASE CommitRollback(s)
  <2>0. session[s].op = "rollback" /\ Served(s) /\ Done(s) /\ plan' = plan
    BY <1>6 DEF CommitRollback, Serving, Served
  <2>1. PICK o \in Rem : o = session[s].rem
    BY <1>0, <2>0
  <2>2. CASE Raises(plan[o])
    <3>1. Record(o, "rollback", FALSE) /\ status' = status
      BY <1>6, <2>1, <2>2 DEF CommitRollback, RollbackFails, R
    <3>2. \A r \in Rem : SameCounts(r)
      BY <1>0, <3>1, Executed DEF SameCounts
    <3>3. status' = [status EXCEPT ![o] = status[o]]
      BY <1>0, <3>1 DEF Typed
    <3>4. Effect(session[s].op, o)
      BY <2>0, <3>1, <3>2 DEF Effect, Stays
    <3> QED  BY <2>0, <2>1, <3>2, <3>3, <3>4, WritingOne
  <2>3. CASE ~ Raises(plan[o])
    <3>1. Record(o, "rollback", TRUE) /\ status' = [status EXCEPT ![o] = "ROLLED_BACK"]
      BY <1>6, <2>1, <2>3 DEF CommitRollback, RollbackWorks, R
    <3>2. \A r \in Rem : /\ RunsOf(r)' = RunsOf(r)
                         /\ UndoneOf(r)' = IF r = o THEN UndoneOf(r) + 1 ELSE UndoneOf(r)
      BY <1>0, <3>1, Executed
    <3>3. status'[o] = "ROLLED_BACK"
      BY <1>0, <3>1 DEF Typed
    <3>4. Effect(session[s].op, o) /\ \A r \in Rem \ {o} : SameCounts(r)
      BY <2>0, <2>3, <3>2, <3>3 DEF Effect, RollbackEffect, SameCounts
    <3> QED  BY <2>0, <2>1, <3>1, <3>4, WritingOne
  <2> QED  BY <2>2, <2>3
<1> QED  BY <1>1, <1>2, <1>3, <1>4, <1>5, <1>6 DEF Commit

LEMMA Steps ==
  ASSUME IInv, [Next]_vars
  PROVE  WritesNothing \/ \E s \in Session, o \in Rem : WritesRow(s, o)
<1>1. ASSUME UNCHANGED <<status, plan, approvals, executions>>,
             \A u \in Session : session'[u] \in {session[u], Idle}
      PROVE  WritesNothing
  BY <1>1, SameExecutions DEF WritesNothing, Stays, SameCounts, Idle
<1>2. ASSUME NEW s \in Session, RollsBack(s) \/ CommitMove(s) PROVE WritesNothing
  <2>1. Done(s) /\ UNCHANGED <<status, plan, approvals, executions>>
    BY <1>2 DEF RollsBack, CommitMove, records
  <2>2. \A u \in Session : session'[u] \in {session[u], Idle}
    BY <2>1 DEF Done, IInv, Typed
  <2> QED  BY <1>1, <2>1, <2>2
<1>3. CASE UNCHANGED vars
  BY <1>1, <1>3 DEF vars, records
<1> QED  BY <1>2, <1>3, ReadingWritesNothing, CommitWrites DEF Next

-----------------------------------------------------------------------------
(***************************************************************************)
(* Which requests must not be served together, for which theorem           *)
(***************************************************************************)

\* No two requests of these kinds about one action are served together.
NeverTogether(ops, others) ==
  \A s, t \in Session :
    s # t /\ session[s].op \in ops /\ session[t].op \in others => session[s].rem # session[t].rem

\* approve and the demo's drive, which both run the action.
RunsApart == NeverTogether(Runners, Runners)

RollbacksApart == NeverTogether({"rollback"}, {"rollback", "verify"})

RejectionsApart == NeverTogether({"reject"}, Runners)

\* Of the whole incident: a proposal looks at all its actions.
ProposalsApart == \A s, t \in Session : session[s].op = "propose" /\ session[t].op = "propose" => s = t

-----------------------------------------------------------------------------
(***************************************************************************)
(* Runs                                                                    *)
(***************************************************************************)

RanOnce(r) ==
  /\ status[r] \in Waiting \cup Tried \cup {"REJECTED", "ROLLED_BACK"}
  /\ RunsOf(r) <= 1
  /\ UndoneOf(r) > 0 => RunsOf(r) = 1
  /\ status[r] \in Waiting => RunsOf(r) = 0
  /\ status[r] \in Tried => Raises(plan[r]) \/ RunsOf(r) = 1

\* What a request was let in for, of the runs: it lasts until it commits.
KnowsRuns(op, r) ==
  /\ op \in Runners \cup {"reject"} => status[r] # "NONE"
  /\ op \in Runners => RunsOf(r) = 0
  /\ op \in {"verify", "rollback"} => status[r] \notin Waiting /\ (Raises(plan[r]) \/ RunsOf(r) = 1)

RunInv ==
  /\ IInv
  /\ \A r \in Rem : RanOnce(r)
  /\ \A u \in Session : Served(u) => KnowsRuns(session[u].op, session[u].rem)

LEMMA InitRuns == Init => RunInv /\ \A r \in Rem : UndoneOf(r) = 0
<1> SUFFICES ASSUME Init PROVE RunInv /\ \A r \in Rem : UndoneOf(r) = 0
  OBVIOUS
<1>1. IInv
  BY InitIsIInv
<1>2. ASSUME NEW r \in Rem PROVE RunsOf(r) = 0 /\ UndoneOf(r) = 0
  <2>1. Places(executions, {Run(r)}) = {} /\ Places(executions, {Undoing(r)}) = {}
    BY DEF Init, Places
  <2> QED  BY <2>1, FS_EmptySet DEF RunsOf, UndoneOf
<1>3. \A r \in Rem : RanOnce(r)
  BY <1>2 DEF Init, RanOnce, Waiting, Tried
<1>4. \A u \in Session : ~ Served(u)
  BY DEF Init, Served, Idle
<1> QED  BY <1>1, <1>2, <1>3, <1>4 DEF RunInv

\* A request that is let in knows what the row says.
LEMMA LetIn ==
  ASSUME NEW r \in Rem, RanOnce(r), NEW op, Admitted(op, r)
  PROVE  KnowsRuns(op, r)
<1>1. op \in Runners \cup {"reject"} => status[r] # "NONE"
  BY DEF Admitted, _ACTIVE
<1>2. op \in Runners => RunsOf(r) = 0
  BY DEF Admitted, _ACTIVE, RanOnce, Waiting, Tried
<1>3. op = "verify" => status[r] \notin Waiting /\ (Raises(plan[r]) \/ RunsOf(r) = 1)
  BY DEF Admitted, RanOnce, Waiting, Tried
<1>4. op = "rollback" => status[r] \notin Waiting /\ (Raises(plan[r]) \/ RunsOf(r) = 1)
  BY DEF Admitted, RanOnce, Waiting, Tried
<1> QED  BY <1>1, <1>2, <1>3, <1>4 DEF KnowsRuns

\* What a commit does to its own row.
LEMMA RunsRow ==
  ASSUME Typed, NEW o \in Rem, RanOnce(o), NEW op, KnowsRuns(op, o), Effect(op, o)
  PROVE  RanOnce(o)'
<1>0. RunsOf(o) \in Nat /\ UndoneOf(o) \in Nat
  BY NatCounts
<1>1. CASE op = "propose" /\ ProposalEffect(o)
  BY <1>0, <1>1 DEF ProposalEffect, SameCounts, RanOnce, Waiting, Tried
<1>2. CASE op \in Runners /\ RunEffect(o)
  BY <1>0, <1>2 DEF RunEffect, RanOnce, KnowsRuns, Waiting, Tried
<1>3. CASE op = "reject" /\ RejectionEffect(o)
  BY <1>0, <1>3 DEF RejectionEffect, SameCounts, RanOnce, Waiting, Tried
<1>4. CASE op = "verify" /\ VerificationEffect(o)
  BY <1>0, <1>4 DEF VerificationEffect, SameCounts, RanOnce, KnowsRuns, Waiting, Tried
<1>5. CASE op = "rollback" /\ RollbackEffect(o)
  BY <1>0, <1>5 DEF RollbackEffect, RanOnce, KnowsRuns, Waiting, Tried
<1>6. CASE op = "rollback" /\ Stays(o)
  BY <1>6 DEF Stays, SameCounts, RanOnce, Waiting, Tried
<1> QED  BY <1>1, <1>2, <1>3, <1>4, <1>5, <1>6 DEF Effect

\* What a commit leaves another request of the same action, when the two do not both run it.
LEMMA RunsKnown ==
  ASSUME Typed, NEW o \in Rem, NEW op, KnowsRuns(op, o), Effect(op, o),
         NEW other, KnowsRuns(other, o), ~ (op \in Runners /\ other \in Runners)
  PROVE  KnowsRuns(other, o)'
<1>0. RunsOf(o) \in Nat
  BY NatCounts
<1>1. CASE op = "propose" /\ ProposalEffect(o)
  BY <1>1 DEF ProposalEffect, SameCounts, KnowsRuns, Waiting
<1>2. CASE op \in Runners /\ RunEffect(o)
  BY <1>0, <1>2 DEF RunEffect, KnowsRuns, Waiting, Tried
<1>3. CASE op = "reject" /\ RejectionEffect(o)
  BY <1>3 DEF RejectionEffect, SameCounts, KnowsRuns, Waiting
<1>4. CASE op = "verify" /\ VerificationEffect(o)
  BY <1>4 DEF VerificationEffect, SameCounts, KnowsRuns, Waiting
<1>5. CASE op = "rollback" /\ RollbackEffect(o)
  BY <1>5 DEF RollbackEffect, KnowsRuns, Waiting
<1>6. CASE op = "rollback" /\ Stays(o)
  BY <1>6 DEF Stays, SameCounts, KnowsRuns, Waiting
<1> QED  BY <1>1, <1>2, <1>3, <1>4, <1>5, <1>6 DEF Effect

LEMMA RunsStep ==
  ASSUME RunInv, RunsApart, [Next]_vars
  PROVE  RunInv'
<1>0. /\ IInv' /\ Typed
      /\ \A r \in Rem : RanOnce(r)
      /\ \A u \in Session : Served(u) => session[u].rem \in Rem /\ KnowsRuns(session[u].op, session[u].rem)
  BY NextKeepsIInv DEF RunInv, IInv, Typed, Served
<1>1. ASSUME NEW r \in Rem, Stays(r) PROVE RanOnce(r)'
  BY <1>1, <1>0 DEF Stays, SameCounts, RanOnce
<1>2. ASSUME NEW r \in Rem, Stays(r), NEW op, KnowsRuns(op, r) PROVE KnowsRuns(op, r)'
  BY <1>2 DEF Stays, SameCounts, KnowsRuns
<1>3. CASE WritesNothing
  <2>1. ASSUME NEW u \in Session, Served(u)' PROVE KnowsRuns(session[u].op, session[u].rem)'
    <3>1. session'[u].rem \in Rem /\ KnowsRuns(session'[u].op, session'[u].rem)
      <4>1. CASE session'[u] = session[u]
        BY <1>0, <2>1, <4>1 DEF Served
      <4>2. CASE session'[u].rem \in Rem /\ Admitted(session'[u].op, session'[u].rem)
        BY <1>0, <4>2, LetIn
      <4> QED  BY <1>3, <2>1, <4>1, <4>2 DEF WritesNothing, Served
    <3>2. PICK r \in Rem : r = session'[u].rem
      BY <3>1
    <3>3. PICK op : op = session'[u].op
      OBVIOUS
    <3>4. KnowsRuns(op, r)'
      BY <1>2, <1>3, <3>1, <3>2, <3>3 DEF WritesNothing
    <3> QED  BY <3>2, <3>3, <3>4
  <2> QED  BY <1>0, <1>1, <1>3, <2>1 DEF WritesNothing, RunInv
<1>4. ASSUME NEW s \in Session, NEW o \in Rem, WritesRow(s, o) PROVE RunInv'
  <2>1. PICK op : op = session[s].op /\ KnowsRuns(op, o) /\ Effect(op, o)
    BY <1>0, <1>4 DEF WritesRow
  <2>2. \A r \in Rem : RanOnce(r)'
    BY <1>0, <1>1, <1>4, <2>1, RunsRow DEF WritesRow
  <2>3. ASSUME NEW u \in Session, Served(u)' PROVE KnowsRuns(session[u].op, session[u].rem)'
    <3>1. u # s /\ session'[u] = session[u] /\ Served(u)
      BY <1>4, <2>3 DEF WritesRow, Served
    <3>2. PICK r \in Rem : r = session[u].rem /\ KnowsRuns(session[u].op, r)
      BY <1>0, <3>1
    <3>3. PICK other : other = session[u].op
      OBVIOUS
    <3>4. KnowsRuns(other, r)'
      <4>1. CASE r # o
        BY <1>2, <1>4, <3>2, <3>3, <4>1 DEF WritesRow
      <4>2. CASE r = o
        <5>1. ~ (op \in Runners /\ other \in Runners)
          BY <1>4, <2>1, <3>1, <3>2, <3>3, <4>2 DEF RunsApart, NeverTogether, WritesRow
        <5> QED  BY <1>0, <2>1, <3>2, <3>3, <4>2, <5>1, RunsKnown
      <4> QED  BY <4>1, <4>2
    <3> QED  BY <3>1, <3>2, <3>3, <3>4
  <2> QED  BY <1>0, <2>2, <2>3 DEF RunInv
<1> QED  BY <1>3, <1>4, Steps DEF RunInv

LEMMA RunsInvariance == Spec /\ []RunsApart => []RunInv
BY InitRuns, RunsStep, PTL DEF Spec

-----------------------------------------------------------------------------
(***************************************************************************)
(* Rollbacks: no run is undone twice                                       *)
(***************************************************************************)

NotUndone(r) == UndoneOf(r) <= 1 /\ (status[r] \in Tried => UndoneOf(r) = 0)

KnowsUndone(op, r) == op \in {"verify", "rollback"} => UndoneOf(r) = 0

UndoInv ==
  /\ RunInv
  /\ \A r \in Rem : NotUndone(r)
  /\ \A u \in Session : Served(u) => KnowsUndone(session[u].op, session[u].rem)

\* What a commit does to its own row.
LEMMA UndoRow ==
  ASSUME Typed, NEW o \in Rem, RanOnce(o), NotUndone(o), NEW op, KnowsRuns(op, o), KnowsUndone(op, o), Effect(op, o)
  PROVE  NotUndone(o)'
<1>0. RunsOf(o) \in Nat /\ UndoneOf(o) \in Nat
  BY NatCounts
<1>1. CASE op = "propose" /\ ProposalEffect(o)
  BY <1>0, <1>1 DEF ProposalEffect, SameCounts, RanOnce, NotUndone, KnowsRuns, KnowsUndone, Waiting, Tried
<1>2. CASE op \in Runners /\ RunEffect(o)
  BY <1>0, <1>2 DEF RunEffect, RanOnce, NotUndone, KnowsRuns, KnowsUndone, Waiting, Tried, Runners
<1>3. CASE op = "reject" /\ RejectionEffect(o)
  BY <1>0, <1>3 DEF RejectionEffect, SameCounts, RanOnce, NotUndone, KnowsRuns, KnowsUndone, Waiting, Tried
<1>4. CASE op = "verify" /\ VerificationEffect(o)
  BY <1>0, <1>4 DEF VerificationEffect, SameCounts, RanOnce, NotUndone, KnowsRuns, KnowsUndone, Waiting, Tried
<1>5. CASE op = "rollback" /\ RollbackEffect(o)
  BY <1>0, <1>5 DEF RollbackEffect, RanOnce, NotUndone, KnowsRuns, KnowsUndone, Waiting, Tried
<1>6. CASE op = "rollback" /\ Stays(o)
  BY <1>6 DEF Stays, SameCounts, RanOnce, NotUndone, KnowsRuns, KnowsUndone
<1> QED  BY <1>1, <1>2, <1>3, <1>4, <1>5, <1>6 DEF Effect

\* What a commit leaves another request of the same action.
LEMMA UndoKnown ==
  ASSUME Typed, NEW o \in Rem, RanOnce(o), NEW op, KnowsRuns(op, o), KnowsUndone(op, o), Effect(op, o),
         NEW other, KnowsRuns(other, o), KnowsUndone(other, o), ~ (op = "rollback" /\ other \in {"rollback", "verify"})
  PROVE  KnowsUndone(other, o)'
<1>0. RunsOf(o) \in Nat /\ UndoneOf(o) \in Nat
  BY NatCounts
<1>1. CASE op = "propose" /\ ProposalEffect(o)
  BY <1>0, <1>1 DEF ProposalEffect, SameCounts, RanOnce, KnowsRuns, KnowsUndone, Waiting, Tried
<1>2. CASE op \in Runners /\ RunEffect(o)
  BY <1>0, <1>2 DEF RunEffect, RanOnce, KnowsRuns, KnowsUndone, Waiting, Tried, Runners
<1>3. CASE op = "reject" /\ RejectionEffect(o)
  BY <1>0, <1>3 DEF RejectionEffect, SameCounts, RanOnce, KnowsRuns, KnowsUndone, Waiting, Tried
<1>4. CASE op = "verify" /\ VerificationEffect(o)
  BY <1>0, <1>4 DEF VerificationEffect, SameCounts, RanOnce, KnowsRuns, KnowsUndone, Waiting, Tried
<1>5. CASE op = "rollback" /\ RollbackEffect(o)
  BY <1>0, <1>5 DEF RollbackEffect, RanOnce, KnowsRuns, KnowsUndone, Waiting, Tried
<1>6. CASE op = "rollback" /\ Stays(o)
  BY <1>6 DEF Stays, SameCounts, RanOnce, KnowsRuns, KnowsUndone
<1> QED  BY <1>1, <1>2, <1>3, <1>4, <1>5, <1>6 DEF Effect

LEMMA UndoStep ==
  ASSUME UndoInv, RollbacksApart, [Next]_vars, RunInv'
  PROVE  UndoInv'
<1>0. /\ Typed /\ \A r \in Rem : RanOnce(r) /\ NotUndone(r)
      /\ \A u \in Session : Served(u) =>
           /\ session[u].rem \in Rem /\ KnowsRuns(session[u].op, session[u].rem)
           /\ KnowsUndone(session[u].op, session[u].rem)
  BY DEF UndoInv, RunInv, IInv, Typed, Served
<1>1. ASSUME NEW r \in Rem, Stays(r) PROVE NotUndone(r)'
  BY <1>1, <1>0 DEF Stays, SameCounts, NotUndone
<1>2. ASSUME NEW r \in Rem, Stays(r), NEW op, KnowsUndone(op, r) PROVE KnowsUndone(op, r)'
  BY <1>2 DEF Stays, SameCounts, KnowsUndone
<1>3. CASE WritesNothing
  <2>1. ASSUME NEW u \in Session, Served(u)' PROVE KnowsUndone(session[u].op, session[u].rem)'
    <3>1. session'[u].rem \in Rem /\ KnowsUndone(session'[u].op, session'[u].rem)
      <4>1. CASE session'[u] = session[u]
        BY <1>0, <2>1, <4>1 DEF Served
      <4>2. CASE session'[u].rem \in Rem /\ Admitted(session'[u].op, session'[u].rem)
        BY <1>0, <4>2 DEF Admitted, NotUndone, KnowsUndone, Tried, Waiting, RanOnce
      <4> QED  BY <1>3, <2>1, <4>1, <4>2 DEF WritesNothing, Served
    <3>2. PICK r \in Rem : r = session'[u].rem
      BY <3>1
    <3>3. PICK op : op = session'[u].op
      OBVIOUS
    <3>4. KnowsUndone(op, r)'
      BY <1>2, <1>3, <3>1, <3>2, <3>3 DEF WritesNothing
    <3> QED  BY <3>2, <3>3, <3>4
  <2> QED  BY <1>0, <1>1, <1>3, <2>1 DEF WritesNothing, UndoInv
<1>4. ASSUME NEW s \in Session, NEW o \in Rem, WritesRow(s, o) PROVE UndoInv'
  <2>1. PICK op : op = session[s].op /\ KnowsRuns(op, o) /\ KnowsUndone(op, o) /\ Effect(op, o)
    BY <1>0, <1>4 DEF WritesRow
  <2>2. \A r \in Rem : NotUndone(r)'
    BY <1>0, <1>1, <1>4, <2>1, UndoRow DEF WritesRow
  <2>3. ASSUME NEW u \in Session, Served(u)' PROVE KnowsUndone(session[u].op, session[u].rem)'
    <3>1. u # s /\ session'[u] = session[u] /\ Served(u)
      BY <1>4, <2>3 DEF WritesRow, Served
    <3>2. PICK r \in Rem : r = session[u].rem /\ KnowsRuns(session[u].op, r) /\ KnowsUndone(session[u].op, r)
      BY <1>0, <3>1
    <3>3. PICK other : other = session[u].op
      OBVIOUS
    <3>4. KnowsUndone(other, r)'
      <4>1. CASE r # o
        BY <1>2, <1>4, <3>2, <3>3, <4>1 DEF WritesRow
      <4>2. CASE r = o
        <5>1. ~ (op = "rollback" /\ other \in {"rollback", "verify"})
          BY <1>4, <2>1, <3>1, <3>2, <3>3, <4>2 DEF RollbacksApart, NeverTogether, WritesRow
        <5> QED  BY <1>0, <2>1, <3>2, <3>3, <4>2, <5>1, UndoKnown
      <4> QED  BY <4>1, <4>2
    <3> QED  BY <3>1, <3>2, <3>3, <3>4
  <2> QED  BY <2>2, <2>3 DEF UndoInv
<1> QED  BY <1>3, <1>4, Steps DEF UndoInv, RunInv

\* An action changes the service once, and only a change that was made is undone: for any
\* number of actions and sessions, with force and without it, as long as no two requests that
\* run an action overlap, and no rollback of it with another or with its verification.
\* Approvals, rejections, proposals and verifications may overlap (executor.py:60, 132, 185).
THEOREM ActionsApplyOnce == Spec /\ []RunsApart /\ []RollbacksApart => []AppliedOnce
<1>1. Init => UndoInv
  BY InitRuns DEF UndoInv, NotUndone, Init, Served, Idle
<1>2. UndoInv /\ [Next]_vars /\ RunsApart /\ RollbacksApart => UndoInv'
  BY RunsStep, UndoStep DEF UndoInv
<1>3. UndoInv => AppliedOnce
  <2> SUFFICES ASSUME UndoInv, NEW r \in Rem PROVE Undone(r) <= Runs(r) /\ Runs(r) <= 1
    BY DEF AppliedOnce
  <2>1. RunsOf(r) \in Nat /\ UndoneOf(r) \in Nat /\ RanOnce(r) /\ NotUndone(r) /\ Typed
    BY NatCounts DEF UndoInv, RunInv, IInv
  <2>2. UndoneOf(r) <= RunsOf(r) /\ RunsOf(r) <= 1
    BY <2>1 DEF RanOnce, NotUndone
  <2> QED  BY <2>1, <2>2, Counts
<1> QED  BY <1>1, <1>2, <1>3, PTL DEF Spec

-----------------------------------------------------------------------------
(***************************************************************************)
(* Rejections: what runs is not rejected                                   *)
(***************************************************************************)

NotRejected(r) == status[r] = "REJECTED" => RunsOf(r) = 0

KnowsRejected(op, r) == op = "reject" => RunsOf(r) = 0

StandInv ==
  /\ RunInv
  /\ \A r \in Rem : NotRejected(r)
  /\ \A u \in Session : Served(u) => KnowsRejected(session[u].op, session[u].rem)

\* What a commit does to its own row.
LEMMA StandRow ==
  ASSUME Typed, NEW o \in Rem, RanOnce(o), NotRejected(o), NEW op, KnowsRuns(op, o), KnowsRejected(op, o), Effect(op, o)
  PROVE  NotRejected(o)'
<1>0. RunsOf(o) \in Nat /\ UndoneOf(o) \in Nat
  BY NatCounts
<1>1. CASE op = "propose" /\ ProposalEffect(o)
  BY <1>0, <1>1 DEF ProposalEffect, SameCounts, RanOnce, NotRejected, KnowsRuns, KnowsRejected, Waiting, Tried
<1>2. CASE op \in Runners /\ RunEffect(o)
  BY <1>0, <1>2 DEF RunEffect, RanOnce, NotRejected, KnowsRuns, KnowsRejected, Waiting, Tried, Runners
<1>3. CASE op = "reject" /\ RejectionEffect(o)
  BY <1>0, <1>3 DEF RejectionEffect, SameCounts, RanOnce, NotRejected, KnowsRuns, KnowsRejected, Waiting, Tried
<1>4. CASE op = "verify" /\ VerificationEffect(o)
  BY <1>0, <1>4 DEF VerificationEffect, SameCounts, RanOnce, NotRejected, KnowsRuns, KnowsRejected, Waiting, Tried
<1>5. CASE op = "rollback" /\ RollbackEffect(o)
  BY <1>0, <1>5 DEF RollbackEffect, RanOnce, NotRejected, KnowsRuns, KnowsRejected, Waiting, Tried
<1>6. CASE op = "rollback" /\ Stays(o)
  BY <1>6 DEF Stays, SameCounts, RanOnce, NotRejected, KnowsRuns, KnowsRejected
<1> QED  BY <1>1, <1>2, <1>3, <1>4, <1>5, <1>6 DEF Effect

\* What a commit leaves another request of the same action.
LEMMA StandKnown ==
  ASSUME Typed, NEW o \in Rem, RanOnce(o), NEW op, KnowsRuns(op, o), KnowsRejected(op, o), Effect(op, o),
         NEW other, KnowsRuns(other, o), KnowsRejected(other, o), ~ (op \in Runners /\ other = "reject")
  PROVE  KnowsRejected(other, o)'
<1>0. RunsOf(o) \in Nat /\ UndoneOf(o) \in Nat
  BY NatCounts
<1>1. CASE op = "propose" /\ ProposalEffect(o)
  BY <1>0, <1>1 DEF ProposalEffect, SameCounts, RanOnce, KnowsRuns, KnowsRejected, Waiting, Tried
<1>2. CASE op \in Runners /\ RunEffect(o)
  BY <1>0, <1>2 DEF RunEffect, RanOnce, KnowsRuns, KnowsRejected, Waiting, Tried, Runners
<1>3. CASE op = "reject" /\ RejectionEffect(o)
  BY <1>0, <1>3 DEF RejectionEffect, SameCounts, RanOnce, KnowsRuns, KnowsRejected, Waiting, Tried
<1>4. CASE op = "verify" /\ VerificationEffect(o)
  BY <1>0, <1>4 DEF VerificationEffect, SameCounts, RanOnce, KnowsRuns, KnowsRejected, Waiting, Tried
<1>5. CASE op = "rollback" /\ RollbackEffect(o)
  BY <1>0, <1>5 DEF RollbackEffect, RanOnce, KnowsRuns, KnowsRejected, Waiting, Tried
<1>6. CASE op = "rollback" /\ Stays(o)
  BY <1>6 DEF Stays, SameCounts, RanOnce, KnowsRuns, KnowsRejected
<1> QED  BY <1>1, <1>2, <1>3, <1>4, <1>5, <1>6 DEF Effect

LEMMA StandStep ==
  ASSUME StandInv, RejectionsApart, [Next]_vars, RunInv'
  PROVE  StandInv'
<1>0. /\ Typed /\ \A r \in Rem : RanOnce(r) /\ NotRejected(r)
      /\ \A u \in Session : Served(u) =>
           /\ session[u].rem \in Rem /\ KnowsRuns(session[u].op, session[u].rem)
           /\ KnowsRejected(session[u].op, session[u].rem)
  BY DEF StandInv, RunInv, IInv, Typed, Served
<1>1. ASSUME NEW r \in Rem, Stays(r) PROVE NotRejected(r)'
  BY <1>1, <1>0 DEF Stays, SameCounts, NotRejected
<1>2. ASSUME NEW r \in Rem, Stays(r), NEW op, KnowsRejected(op, r) PROVE KnowsRejected(op, r)'
  BY <1>2 DEF Stays, SameCounts, KnowsRejected
<1>3. CASE WritesNothing
  <2>1. ASSUME NEW u \in Session, Served(u)' PROVE KnowsRejected(session[u].op, session[u].rem)'
    <3>1. session'[u].rem \in Rem /\ KnowsRejected(session'[u].op, session'[u].rem)
      <4>1. CASE session'[u] = session[u]
        BY <1>0, <2>1, <4>1 DEF Served
      <4>2. CASE session'[u].rem \in Rem /\ Admitted(session'[u].op, session'[u].rem)
        BY <1>0, <4>2 DEF Admitted, NotRejected, KnowsRejected, Waiting, RanOnce, _ACTIVE, Tried
      <4> QED  BY <1>3, <2>1, <4>1, <4>2 DEF WritesNothing, Served
    <3>2. PICK r \in Rem : r = session'[u].rem
      BY <3>1
    <3>3. PICK op : op = session'[u].op
      OBVIOUS
    <3>4. KnowsRejected(op, r)'
      BY <1>2, <1>3, <3>1, <3>2, <3>3 DEF WritesNothing
    <3> QED  BY <3>2, <3>3, <3>4
  <2> QED  BY <1>0, <1>1, <1>3, <2>1 DEF WritesNothing, StandInv
<1>4. ASSUME NEW s \in Session, NEW o \in Rem, WritesRow(s, o) PROVE StandInv'
  <2>1. PICK op : op = session[s].op /\ KnowsRuns(op, o) /\ KnowsRejected(op, o) /\ Effect(op, o)
    BY <1>0, <1>4 DEF WritesRow
  <2>2. \A r \in Rem : NotRejected(r)'
    BY <1>0, <1>1, <1>4, <2>1, StandRow DEF WritesRow
  <2>3. ASSUME NEW u \in Session, Served(u)' PROVE KnowsRejected(session[u].op, session[u].rem)'
    <3>1. u # s /\ session'[u] = session[u] /\ Served(u)
      BY <1>4, <2>3 DEF WritesRow, Served
    <3>2. PICK r \in Rem : r = session[u].rem /\ KnowsRuns(session[u].op, r) /\ KnowsRejected(session[u].op, r)
      BY <1>0, <3>1
    <3>3. PICK other : other = session[u].op
      OBVIOUS
    <3>4. KnowsRejected(other, r)'
      <4>1. CASE r # o
        BY <1>2, <1>4, <3>2, <3>3, <4>1 DEF WritesRow
      <4>2. CASE r = o
        <5>1. ~ (op \in Runners /\ other = "reject")
          BY <1>4, <2>1, <3>1, <3>2, <3>3, <4>2 DEF RejectionsApart, NeverTogether, WritesRow
        <5> QED  BY <1>0, <2>1, <3>2, <3>3, <4>2, <5>1, StandKnown
      <4> QED  BY <4>1, <4>2
    <3> QED  BY <3>1, <3>2, <3>3, <3>4
  <2> QED  BY <2>2, <2>3 DEF StandInv
<1> QED  BY <1>3, <1>4, Steps DEF StandInv, RunInv

\* A reversible change that is in effect can be rolled back: for any number of actions and
\* sessions, with force and without it, as long as no request that runs an action overlaps
\* with another or with a rejection of it.  Rollbacks and verifications may overlap.
THEOREM LiveChangesAreUndoable ==
  Spec /\ []RunsApart /\ []RejectionsApart => []LiveChangesCanBeUndone
<1>1. Init => StandInv
  BY InitRuns DEF StandInv, NotRejected, Init, Served, Idle
<1>2. StandInv /\ [Next]_vars /\ RunsApart /\ RejectionsApart => StandInv'
  BY RunsStep, StandStep DEF StandInv
<1>3. StandInv => LiveChangesCanBeUndone
  <2> SUFFICES ASSUME StandInv, NEW r \in Rem, Runs(r) > Undone(r), REGISTRY[plan[r].name].reversible
               PROVE  MayRollback(r)
    BY DEF LiveChangesCanBeUndone
  <2>1. /\ RunsOf(r) \in Nat /\ UndoneOf(r) \in Nat /\ RanOnce(r) /\ NotRejected(r)
        /\ Typed /\ RowIsRecorded(r)
    BY NatCounts DEF StandInv, RunInv, IInv, Recorded
  <2>2. RunsOf(r) > UndoneOf(r)
    BY <2>1, Counts
  <2>3. status[r] \in Tried
    BY <2>1, <2>2 DEF RanOnce, NotRejected, RowIsRecorded
  <2> QED  BY <2>3 DEF MayRollback, Tried
<1> QED  BY <1>1, <1>2, <1>3, PTL DEF Spec

-----------------------------------------------------------------------------
(***************************************************************************)
(* Proposals: one is open                                                  *)
(***************************************************************************)

NoneOpen == \A r \in Rem : NotOpen(r)

\* What a run or a proposal was let in for, of what is open.
KnowsOpen(op, r) ==
  /\ op \in Runners => status[r] \in {"APPROVAL_REQUIRED", "PROPOSED"}
  /\ op = "propose" => NoneOpen

OpenInv ==
  /\ RunInv
  /\ OneOpenRemediation
  /\ \A u \in Session : Served(u) => KnowsOpen(session[u].op, session[u].rem)

\* A commit leaves its own action open at most, and only if it was open or none was.
LEMMA LeftOpen ==
  ASSUME NEW o \in Rem, NEW op, KnowsRuns(op, o), KnowsOpen(op, o), Effect(op, o)
  PROVE  /\ NotOpen(o)' \/ ~ NotOpen(o) \/ NoneOpen
         /\ op # "propose" /\ NotOpen(o) => NotOpen(o)'
<1>1. CASE op = "propose" /\ ProposalEffect(o)
  BY <1>1 DEF KnowsOpen
<1>2. CASE op \in Runners /\ RunEffect(o)
  BY <1>2 DEF KnowsOpen, NotOpen, OpenStatuses, _ACTIVE
<1>3. CASE op = "reject" /\ RejectionEffect(o)
  BY <1>3 DEF RejectionEffect, NotOpen, OpenStatuses, _ACTIVE
<1>4. CASE op = "verify" /\ VerificationEffect(o)
  BY <1>4 DEF VerificationEffect, NotOpen, OpenStatuses, _ACTIVE
<1>5. CASE op = "rollback" /\ RollbackEffect(o)
  BY <1>5 DEF RollbackEffect, NotOpen, OpenStatuses, _ACTIVE
<1>6. CASE op = "rollback" /\ Stays(o)
  BY <1>6 DEF Stays, NotOpen, OpenStatuses, _ACTIVE
<1> QED  BY <1>1, <1>2, <1>3, <1>4, <1>5, <1>6 DEF Effect

\* Only runs and rejections disturb a run that waits for its commit.
LEMMA RunnerDisturbed ==
  ASSUME NEW o \in Rem, NEW op, KnowsRuns(op, o), Effect(op, o), NEW other \in Runners, KnowsOpen(other, o)
  PROVE  op \in Runners \cup {"reject"}
<1>1. status[o] \in Waiting /\ status[o] # "NONE"
  BY DEF KnowsOpen, Waiting
<1> QED  BY <1>1 DEF Effect, ProposalEffect, KnowsRuns

LEMMA OpenStep ==
  ASSUME OpenInv, Forced = FALSE, RunsApart, RejectionsApart, ProposalsApart, [Next]_vars, RunInv'
  PROVE  OpenInv'
<1>0. /\ OneOpenRemediation /\ \A r \in Rem : RanOnce(r)
      /\ \A u \in Session : Served(u) =>
           /\ session[u].rem \in Rem /\ KnowsRuns(session[u].op, session[u].rem)
           /\ KnowsOpen(session[u].op, session[u].rem)
  BY DEF OpenInv, RunInv, IInv, Typed, Served
<1>1. CASE WritesNothing
  <2>1. \A r \in Rem : status'[r] = status[r]
    BY <1>1 DEF WritesNothing, Stays
  <2>2. OneOpenRemediation' /\ (NoneOpen => NoneOpen')
    BY <1>0, <2>1 DEF OneOpenRemediation, NoneOpen, NotOpen, OpenStatuses, _ACTIVE
  <2>3. ASSUME NEW u \in Session, Served(u)' PROVE KnowsOpen(session[u].op, session[u].rem)'
    <3>1. session'[u].rem \in Rem /\ KnowsOpen(session'[u].op, session'[u].rem)
      <4>1. CASE session'[u] = session[u]
        BY <1>0, <2>3, <4>1 DEF Served
      <4>2. CASE session'[u].rem \in Rem /\ Admitted(session'[u].op, session'[u].rem)
        BY <1>0, <4>2 DEF Admitted, KnowsOpen, NoneOpen, RanOnce, _ACTIVE, Waiting, Tried
      <4> QED  BY <1>1, <2>3, <4>1, <4>2 DEF WritesNothing, Served
    <3> QED  BY <2>1, <2>2, <3>1 DEF KnowsOpen
  <2> QED  BY <2>2, <2>3 DEF OpenInv
<1>2. ASSUME NEW s \in Session, NEW o \in Rem, WritesRow(s, o) PROVE OpenInv'
  <2>1. PICK op : op = session[s].op /\ KnowsRuns(op, o) /\ KnowsOpen(op, o) /\ Effect(op, o)
    BY <1>0, <1>2 DEF WritesRow
  <2>2. \A r \in Rem \ {o} : status'[r] = status[r]
    BY <1>2 DEF WritesRow, Stays
  <2>3. OneOpenRemediation'
    <3>1. \A r \in Rem : NotOpen(r) => r = o \/ NotOpen(r)'
      BY <2>2 DEF NotOpen, OpenStatuses, _ACTIVE
    <3>2. \A r, q \in Rem : ~ NotOpen(r) /\ ~ NotOpen(q) => r = q
      BY <1>0 DEF OneOpenRemediation, NotOpen
    <3>3. \A r, q \in Rem : ~ NotOpen(r)' /\ ~ NotOpen(q)' => r = q
      BY <2>1, <3>1, <3>2, LeftOpen DEF NoneOpen
    <3> QED  BY <3>3 DEF OneOpenRemediation, NotOpen
  <2>4. ASSUME NEW u \in Session, Served(u)' PROVE KnowsOpen(session[u].op, session[u].rem)'
    <3>1. u # s /\ session'[u] = session[u] /\ Served(u)
      BY <1>2, <2>4 DEF WritesRow, Served
    <3>2. PICK r \in Rem : r = session[u].rem /\ KnowsOpen(session[u].op, r)
      BY <1>0, <3>1
    <3>3. PICK other : other = session[u].op
      OBVIOUS
    <3>4. ASSUME other \in Runners PROVE status'[r] \in {"APPROVAL_REQUIRED", "PROPOSED"}
      <4>1. CASE r # o
        BY <2>2, <3>2, <3>3, <3>4, <4>1 DEF KnowsOpen
      <4>2. CASE r = o
        <5>1. op \in Runners \cup {"reject"}
          BY <2>1, <3>2, <3>3, <3>4, <4>2, RunnerDisturbed
        <5>2. session[s].rem = o /\ session[u].rem = o
          BY <1>2, <3>2, <4>2 DEF WritesRow
        <5> QED  BY <2>1, <3>1, <3>3, <3>4, <5>1, <5>2 DEF RunsApart, RejectionsApart, NeverTogether
      <4> QED  BY <4>1, <4>2
    <3>5. ASSUME other = "propose" PROVE NoneOpen'
      <4>1. op # "propose" /\ NoneOpen
        BY <2>1, <3>1, <3>2, <3>3, <3>5 DEF ProposalsApart, KnowsOpen
      <4>2. NotOpen(o)'
        BY <2>1, <4>1, LeftOpen DEF NoneOpen
      <4> QED  BY <2>2, <4>1, <4>2 DEF NoneOpen, NotOpen, OpenStatuses, _ACTIVE
    <3> QED  BY <3>1, <3>2, <3>3, <3>4, <3>5 DEF KnowsOpen
  <2> QED  BY <2>3, <2>4 DEF OpenInv
<1> QED  BY <1>1, <1>2, Steps DEF OpenInv, RunInv

\* Without force an incident has one open remediation at most: for any number of actions and
\* sessions, as long as no two proposals overlap, and no request that runs an action overlaps
\* with another or with a rejection of it.  A stale run would otherwise open an action again
\* that a proposal has found closed (agent.py:101, executor.py:60).
THEOREM OneIsOpen ==
  ASSUME Forced = FALSE
  PROVE  Spec /\ []RunsApart /\ []RejectionsApart /\ []ProposalsApart => []OneOpenRemediation
<1>1. Init => OpenInv
  BY InitRuns DEF OpenInv, Init, Served, Idle, OneOpenRemediation, OpenStatuses, _ACTIVE
<1>2. OpenInv /\ [Next]_vars /\ RunsApart /\ RejectionsApart /\ ProposalsApart => OpenInv'
  BY RunsStep, OpenStep DEF OpenInv
<1>3. OpenInv => OneOpenRemediation
  BY DEF OpenInv
<1> QED  BY <1>1, <1>2, <1>3, PTL DEF Spec

-----------------------------------------------------------------------------
(***************************************************************************)
(* The clamps of the scaling (remediation/registry.py:131-141)             *)
(***************************************************************************)

\* What a scaling asks for leaves the service above both clamps.
ClearOfClamps(a, rt) ==
  rt.replicas + a.replicas_delta >= 1 /\ rt.connection_pool + a.connection_pool_delta >= 5

\* A revert takes back exactly what its apply did if, and only if, the apply met no clamp:
\* for every service at or above the clamps and every scaling, out or in, whatever the model
\* asks for.  A scaling that meets a clamp leaves more than there was when it is reverted.
THEOREM RevertIsExact ==
  ASSUME NEW n \in Int, n >= 1, NEW c \in Int, c >= 5, NEW d \in Int, NEW e \in Int, NEW a,
         a.name = "scale_demo_service", a.replicas_delta = d, a.connection_pool_delta = e,
         NEW flags, NEW version, NEW tags,
         NEW rt, rt = [replicas |-> n, connection_pool |-> c, disabled |-> flags,
                       rolled_back |-> version, suppressed_faults |-> tags]
  PROVE  LET back == Revert(a, Apply(a, rt))
         IN  /\ back.replicas >= n /\ back.connection_pool >= c
             /\ ClearOfClamps(a, rt) <=> back.replicas = n /\ back.connection_pool = c
<1> DEFINE there == Apply(a, rt)
           back == Revert(a, there)
<1>1. rt.replicas = n /\ rt.connection_pool = c
  OBVIOUS
<1>2. there.replicas = AtLeast(1, n + d) /\ there.connection_pool = AtLeast(5, c + e)
  BY DEF Apply, Change
<1>3. back.replicas = AtLeast(1, AtLeast(1, n + d) - d) /\ back.connection_pool = AtLeast(5, AtLeast(5, c + e) - e)
  BY DEF Apply, Change, Revert, ChangeBack
<1> HIDE DEF there, back
<1>4. /\ AtLeast(1, AtLeast(1, n + d) - d) >= n
      /\ n + d >= 1 <=> AtLeast(1, AtLeast(1, n + d) - d) = n
  BY DEF AtLeast
<1>5. /\ AtLeast(5, AtLeast(5, c + e) - e) >= c
      /\ c + e >= 5 <=> AtLeast(5, AtLeast(5, c + e) - e) = c
  BY DEF AtLeast
<1> QED  BY <1>1, <1>3, <1>4, <1>5 DEF ClearOfClamps, there, back
=============================================================================
