----------------------------- MODULE MCRilEvent -----------------------------
(* Instance of RilEvent for TLC: threads and timers are model values. *)
EXTENDS RilEvent

AllFaults == {"pthread_create", "pipe", "select", "signal"}
=============================================================================
