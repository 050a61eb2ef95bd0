---------------------------- MODULE MCSdkClient -----------------------------
(* Two requests at once and the main thread, which dies of an uncaught          *)
(* exception, while two clients are opened and closed.                          *)
EXTENDS SdkClient

\* Requests begin alike and know nothing of each other.
Symmetry == Permutations(Requests)
=============================================================================
