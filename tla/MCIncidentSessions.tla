------------------------- MODULE MCIncidentSessions -------------------------
(* Three overlapping sessions are enough for one to spoil what another has    *)
(* done with what a third had read; three alerts let two workers attach one   *)
(* each to an incident opened by the first, and two write the same two alerts *)
(* in opposite orders.                                                        *)
EXTENDS IncidentSessions

MCAllOps == AllOps
MCSessions == 1..3
MCTwoSessions == 1..2
MCAlerts == 1..3
=============================================================================
