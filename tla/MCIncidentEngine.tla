-------------------------- MODULE MCIncidentEngine --------------------------
(* Three services in a chain, payments - orders - search, of which the ends  *)
(* are not neighbours, and a fingerprint on each but two on the middle one.  *)
EXTENDS IncidentEngine

MCService == {"payments", "orders", "search"}
MCFingerprint == {"payments:latency", "orders:errors", "search:errors"}
MCServiceOf ==
  [f \in MCFingerprint |->
     CASE f = "payments:latency" -> "payments"
       [] f = "orders:errors" -> "orders"
       [] f = "search:errors" -> "search"]
MCNeighbours ==
  [s \in MCService |->
     CASE s = "payments" -> {"orders"}
       [] s = "orders" -> {"payments", "search"}
       [] s = "search" -> {"orders"}]
=============================================================================
