------------------------- MODULE MCIncidentSeverity -------------------------
\* A service of tier 2, readings on both sides of every threshold.
EXTENDS IncidentSeverity

MCImpacted == 0 .. 2
MCNext ==
  \E a \in Alert, e \in {None, 2, 3, 10}, l \in {None, 1, 2, 5}, n \in MCImpacted :
    LET h == [error |-> e, latency |-> l, impacted |-> n] IN OpenIncident(a, h) \/ Attach(a, h)
MCSpec == Init /\ [][MCNext]_vars
=============================================================================
