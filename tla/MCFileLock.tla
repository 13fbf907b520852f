----------------------------- MODULE MCFileLock -----------------------------
(* Small instances of FileLock.                                            *)
EXTENDS FileLock

CONSTANTS p1, p2, p3
=============================================================================
