---------------------------- MODULE MCGateMachine ----------------------------
(* One or two tasks, few spec texts, and the events a run is about.          *)
EXTENDS GateMachine

CONSTANTS t1, t2

=============================================================================
