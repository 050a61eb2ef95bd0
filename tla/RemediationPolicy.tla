------------------------- MODULE RemediationPolicy -------------------------
(***************************************************************************)
(* The policy engine (remediation/policy.py, evaluate) as an operator on   *)
(* what it looks at: the action, whether its parameters are accepted and   *)
(* its service is found, the incident's status, the risk the plan states,  *)
(* the confidence of the root cause and the mode.  With it, the table of   *)
(* registered actions it reads (remediation/registry.py).                  *)
(***************************************************************************)
EXTENDS Integers

Modes == {"OBSERVE", "RECOMMEND", "APPROVAL_REQUIRED", "AUTONOMOUS"}

Rank == [VIEWER |-> 0, ENGINEER |-> 1, INCIDENT_COMMANDER |-> 2, ADMIN |-> 3]

RiskRank == [LOW |-> 0, MEDIUM |-> 1, HIGH |-> 2]

\* What the registry says of an action.
REGISTRY ==
  [rollback_demo_deployment  |-> [reversible |-> TRUE,  requires_role |-> "INCIDENT_COMMANDER"],
   scale_demo_service        |-> [reversible |-> TRUE,  requires_role |-> "ENGINEER"],
   restart_demo_service      |-> [reversible |-> FALSE, requires_role |-> "ENGINEER"],
   disable_demo_feature_flag |-> [reversible |-> TRUE,  requires_role |-> "ENGINEER"],
   clear_demo_cache          |-> [reversible |-> FALSE, requires_role |-> "ENGINEER"]]

NoConfidence == -1        \* the incident has no root cause yet

\* What evaluate() is called with.  Confidence is in per cent.
Request(actions, statuses, risks, confidences) ==
  [action : actions, valid : BOOLEAN, found : BOOLEAN, status : statuses,
   risk : risks, confidence : confidences, mode : Modes]

\* The first two checks end the evaluation when they fail.
Unusable(q) == q.action \notin DOMAIN REGISTRY \/ ~ q.valid \/ ~ q.found

Blocked(q) ==
  \/ Unusable(q)
  \/ q.status \in {"RESOLVED", "CLOSED"}
  \/ q.mode = "OBSERVE"

\* An unknown risk counts as MEDIUM.
Risk(q) == IF q.risk \in DOMAIN RiskRank THEN q.risk ELSE "MEDIUM"

\* No confidence counts as none at all.
AutonomousOk(q) ==
  /\ RiskRank[Risk(q)] = 0
  /\ REGISTRY[q.action].reversible
  /\ q.confidence >= 80

NeedsApproval(q) == q.mode # "AUTONOMOUS" \/ ~ AutonomousOk(q) \/ Risk(q) = "HIGH"

\* The role that may approve: the higher of the commander and the registry's role
\* unless the action is autonomous.
MinRole(q) ==
  LET registered == REGISTRY[q.action].requires_role
      floor == IF NeedsApproval(q) \/ RiskRank[Risk(q)] >= 1
               THEN "INCIDENT_COMMANDER" ELSE registered
  IN  IF RiskRank[Risk(q)] >= 1 /\ Rank[registered] > Rank[floor] THEN registered ELSE floor

\* evaluate().
Evaluate(q) ==
  IF Unusable(q)
  THEN [blocked |-> TRUE, allowed_now |-> FALSE, requires_approval |-> TRUE, min_role |-> "ADMIN"]
  ELSE [blocked |-> Blocked(q),
        allowed_now |-> ~ Blocked(q) /\ ~ NeedsApproval(q),
        requires_approval |-> ~ Blocked(q) /\ NeedsApproval(q),
        min_role |-> MinRole(q)]
=============================================================================
