------------------------- MODULE AbstractTaskStore -------------------------
(***************************************************************************)
(* The contract of the mutation API of task.json: a call takes effect      *)
(* atomically and at most once, every effect bumps the version by one and  *)
(* none is ever undone, and the answer tells the caller which happened.    *)
(* External to the code: it is what callers rely on.                       *)
(***************************************************************************)
EXTENDS Integers

CONSTANT Writer          \* the calls
VARIABLES
  version,               \* stateVersion of the document
  applied,               \* the calls whose update is in the document
  answer                 \* what each call was told

vars == <<version, applied, answer>>

Init ==
  /\ version = 0
  /\ applied = {}
  /\ answer = [w \in Writer |-> "pending"]

Commit(w) ==
  /\ answer[w] = "pending"
  /\ w \notin applied
  /\ applied' = applied \cup {w}
  /\ version' = version + 1
  /\ UNCHANGED answer

Answer(w) ==
  /\ answer[w] = "pending"
  /\ answer' = [answer EXCEPT ![w] = IF w \in applied THEN "written" ELSE "notWritten"]
  /\ UNCHANGED <<version, applied>>

Next == \E w \in Writer : Commit(w) \/ Answer(w)

Spec == Init /\ [][Next]_vars
=============================================================================
