---------------------------- MODULE MCTaskState ----------------------------
(* Small instances of TaskState.                                           *)
EXTENDS TaskState

CONSTANTS m1, m2, c1, c2, b1
=============================================================================
