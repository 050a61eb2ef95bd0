--------------------------- MODULE MCRemediation ---------------------------
\* Instances of Remediation for TLC: plans of the planner, by what they may do.
EXTENDS Remediation

Scale(n, ok) ==
  [name |-> "scale_demo_service", replicas_delta |-> n, connection_pool_delta |-> 20,
   numeric |-> ok, risk |-> "LOW"]
Restart == [name |-> "restart_demo_service", risk |-> "MEDIUM"]
RollBack == [name |-> "rollback_demo_deployment", from_version |-> TRUE, risk |-> "MEDIUM"]
Disable == [name |-> "disable_demo_feature_flag", flag |-> "require-postgresql", risk |-> "LOW"]

ScalePlans == {Scale(2, TRUE), Scale(3, FALSE)}
MixedPlans == {Scale(2, TRUE), Scale(3, FALSE), Restart, RollBack, Disable}
ScaleIn == {Scale(-3, TRUE)}
=============================================================================
