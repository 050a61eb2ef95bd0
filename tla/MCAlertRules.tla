---------------------------- MODULE MCAlertRules ----------------------------
\* Two workers and a rule for every service of the environment, which are two.
EXTENDS AlertRules

MCRules == <<"everywhere">>
MCTargets == [everywhere |-> <<"orders", "search">>]
OneSignal == [everywhere |-> "errors"]
Unrelated == {}
=============================================================================
