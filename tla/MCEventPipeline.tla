-------------------------- MODULE MCEventPipeline --------------------------
\* Instances of EventPipeline for TLC: the faults of each run.
EXTENDS EventPipeline

NoFaults == {}
OnlyCrash == {"crash"}
OnlyStops == {"redis stops"}
EveryFault == AllFaults
=============================================================================
