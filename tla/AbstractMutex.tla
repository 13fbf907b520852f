--------------------------- MODULE AbstractMutex ---------------------------
(***************************************************************************)
(* What callers of withFileLock rely on: between a successful acquisition  *)
(* and the release the caller is alone.  External to the code: it is the   *)
(* contract, not a part of it.                                             *)
(***************************************************************************)
CONSTANT Proc
VARIABLE holders   \* the callers between acquisition and release

Init == holders = {}

Acquire(p) == holders = {} /\ holders' = {p}

Release(p) == holders = {p} /\ holders' = {}

Next == \E p \in Proc : Acquire(p) \/ Release(p)

Spec == Init /\ [][Next]_holders
=============================================================================
