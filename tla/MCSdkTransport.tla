--------------------------- MODULE MCSdkTransport ---------------------------
(* Two threads and three events, one of which cannot be serialised, and a      *)
(* queue of one: both threads may be refused at the same time, and a batch of  *)
(* two is filled while they put.                                               *)
EXTENDS SdkTransport
=============================================================================
