------------------------ MODULE RemediationRegistry ------------------------
(***************************************************************************)
(* What the registered actions do to a service (remediation/registry.py):  *)
(* typed apply and revert functions on Service.attributes, here a record   *)
(* of what they set.  A flag that is absent or TRUE is enabled; the        *)
(* version is told apart only as the one before the rollback or not.       *)
(* last_restart, cache_generation and the timestamps are left out: nothing *)
(* reads them back.                                                        *)
(***************************************************************************)
EXTENDS Integers

Tags ==
  {"deployment_regression", "database_saturation", "traffic_overload",
   "resource_saturation", "upstream_dependency_failure"}

DEFAULT_RUNTIME ==
  [replicas |-> 3, connection_pool |-> 50, disabled |-> {}, rolled_back |-> FALSE,
   suppressed_faults |-> {}]

\* fault_tags.
FaultTags(name) ==
  CASE name = "rollback_demo_deployment" -> {"deployment_regression", "database_saturation"}
    [] name = "scale_demo_service" -> {"traffic_overload", "database_saturation"}
    [] name = "restart_demo_service" -> {"resource_saturation"}
    [] name = "disable_demo_feature_flag" -> {"upstream_dependency_failure", "deployment_regression"}
    [] name = "clear_demo_cache" -> {}

AtLeast(low, n) == IF n < low THEN low ELSE n

\* Parameters are checked by name only: a delta that is no number raises when it is
\* used, in apply and in revert alike.
Raises(a) == a.name = "scale_demo_service" /\ ~ a.numeric

Change(a, rt) ==
  CASE a.name = "rollback_demo_deployment" -> [rt EXCEPT !.rolled_back = TRUE]
    [] a.name = "scale_demo_service" ->
         [rt EXCEPT !.replicas = AtLeast(1, @ + a.replicas_delta),
                    !.connection_pool = AtLeast(5, @ + a.connection_pool_delta)]
    [] a.name = "disable_demo_feature_flag" -> [rt EXCEPT !.disabled = @ \cup {a.flag}]
    [] OTHER -> rt

\* Deviation: the size of the change is not looked up.
ChangeBack_ByOne(a, rt) ==
  IF a.name = "scale_demo_service" THEN [rt EXCEPT !.replicas = AtLeast(1, @ - 1)] ELSE rt

\* The version goes back when the plan names it (from_version).
ChangeBack(a, rt) ==
  CASE a.name = "rollback_demo_deployment" -> [rt EXCEPT !.rolled_back = @ /\ ~ a.from_version]
    [] a.name = "scale_demo_service" ->
         [rt EXCEPT !.replicas = AtLeast(1, @ - a.replicas_delta),
                    !.connection_pool = AtLeast(5, @ - a.connection_pool_delta)]
    [] a.name = "disable_demo_feature_flag" -> [rt EXCEPT !.disabled = @ \ {a.flag}]
    [] OTHER -> rt

Apply(a, rt) == [Change(a, rt) EXCEPT !.suppressed_faults = @ \cup FaultTags(a.name)]

Revert(a, rt) == [ChangeBack(a, rt) EXCEPT !.suppressed_faults = @ \ FaultTags(a.name)]
=============================================================================
