-------------------------- MODULE DependencyGates --------------------------
(***************************************************************************)
(* The dependency gates of parallel workstreams (gates.json), set by the   *)
(* workers through gatectl under a file lock, and the join condition read  *)
(* from them.                                                              *)
(*                                                                         *)
(* Abstracted: a gates.json is a function from gates to statuses, a gate   *)
(* never set being pending; the lock excludes (FileLock shows when).  A    *)
(* gates.json that cannot be read is taken for an empty one, as the code   *)
(* does; one whose text is corrupt ends the setter.                        *)
(***************************************************************************)
EXTENDS Integers, FiniteSets

CONSTANTS
  Setters,           \* runs of gatectl dependency set
  Nobody             \* the lock is free

ASSUME SettersAssumption == Nobody \notin Setters

DEP_GATES == {"backend-unit-pass", "backend-ready", "frontend-unit-pass", "all-tests-pass"}
VALID_STATUSES == {"pending", "pass", "fail", "skipped"}
DEP_GATE_PREREQUISITES ==
  [g \in DEP_GATES |->
     CASE g = "backend-ready" -> {"backend-unit-pass"}
       [] g = "all-tests-pass" -> DEP_GATES \ {"all-tests-pass"}
       [] OTHER -> {}]

VARIABLES
  gates,       \* gates.json
  violations,  \* gate-violations.jsonl: the gates forced, in no order
  depLock,     \* who holds gates.json.lock
  setter,      \* of each setter: where it is, what it sets, what it has read
  answered,    \* history: the status last reported set for each gate
  forgotten,   \* history: the gates left out since by a setter that could not read
  ahead        \* history: the gates passed ahead of a prerequisite, and whether forced

depVars == <<gates, violations, depLock, setter, answered, forgotten, ahead>>

Untouched == [g \in DEP_GATES |-> "pending"]
checkPrerequisites(g, gs) == {p \in DEP_GATE_PREREQUISITES[g] : gs[p] # "pass"}

\* checkJoinCondition.
JoinMet == gates["backend-unit-pass"] = "pass" /\ gates["frontend-unit-pass"] = "pass"

\* A setter that sets nothing, now or any more.
Setter(at) == [at |-> at, gate |-> "backend-ready", status |-> "pending",
               force |-> FALSE, read |-> Untouched, readable |-> TRUE]

DepInit ==
  /\ gates = Untouched /\ answered = Untouched
  /\ violations = {} /\ depLock = Nobody /\ forgotten = {} /\ ahead = {}
  /\ setter = [s \in Setters |-> Setter("idle")]

---------------------------------------------------------------------------
\* Mutant: the lock of a setter about to write passes for an abandoned one.
TakesWritersLock(s, g, status, force, readable) ==
  /\ setter[s].at = "idle"
  /\ \A h \in Setters : depLock = h => setter[h].at = "write"
  /\ depLock' = s
  /\ setter' = [setter EXCEPT ![s] =
       [at |-> "read", gate |-> g, status |-> status, force |-> force,
        read |-> IF readable THEN gates ELSE Untouched, readable |-> readable]]
  /\ UNCHANGED <<gates, violations, answered, forgotten, ahead>>

\* setDependencyGate: the lock, then the file, {} when it cannot be read.
AcquireLock(s, g, status, force, readable) ==
  /\ setter[s].at = "idle" /\ depLock = Nobody
  /\ depLock' = s
  /\ setter' = [setter EXCEPT ![s] =
       [at |-> "read", gate |-> g, status |-> status, force |-> force,
        read |-> IF readable THEN gates ELSE Untouched, readable |-> readable]]
  /\ UNCHANGED <<gates, violations, answered, forgotten, ahead>>

\* The lock was not had, for its timeout or its error: nothing is written.
LockFails(s) ==
  /\ setter[s].at = "idle"
  /\ setter' = [setter EXCEPT ![s] = Setter("over")]
  /\ UNCHANGED <<gates, violations, depLock, answered, forgotten, ahead>>

Missing(s) ==
  IF setter[s].status = "pass" THEN checkPrerequisites(setter[s].gate, setter[s].read) ELSE {}

RefuseOrder(s) ==
  /\ setter[s].at = "read" /\ Missing(s) # {} /\ ~setter[s].force
  /\ setter' = [setter EXCEPT ![s] = Setter("over")]
  /\ depLock' = Nobody
  /\ UNCHANGED <<gates, violations, answered, forgotten, ahead>>

\* A violation is on record before the gate it lets through is.
appendViolation(s) ==
  /\ setter[s].at = "read"
  /\ Missing(s) = {} \/ setter[s].force
  /\ violations' = IF Missing(s) = {} THEN violations ELSE violations \cup {setter[s].gate}
  /\ setter' = [setter EXCEPT ![s].at = "write"]
  /\ UNCHANGED <<gates, depLock, answered, forgotten, ahead>>

writeGates(s) ==
  /\ setter[s].at = "write"
  /\ gates' = [setter[s].read EXCEPT ![setter[s].gate] = setter[s].status]
  /\ answered' = [answered EXCEPT ![setter[s].gate] = setter[s].status]
  /\ forgotten' = (IF setter[s].readable THEN forgotten ELSE DEP_GATES) \ {setter[s].gate}
  /\ ahead' = IF setter[s].status = "pass" /\ checkPrerequisites(setter[s].gate, answered) # {}
              THEN ahead \cup {[gate |-> setter[s].gate, forced |-> setter[s].force]} ELSE ahead
  /\ setter' = [setter EXCEPT ![s] = Setter("over")]
  /\ depLock' = Nobody
  /\ UNCHANGED <<violations>>

\* A setter throws, or dies with the lock and the next one finds it abandoned.
SetterDies(s) ==
  /\ setter[s].at \in {"read", "write"}
  /\ setter' = [setter EXCEPT ![s] = Setter("over")]
  /\ depLock' = Nobody
  /\ UNCHANGED <<gates, violations, answered, forgotten, ahead>>

\* --force is looked at for a pass only.
DepNext ==
  \E s \in Setters :
    \/ \E g \in DEP_GATES, status \in VALID_STATUSES, force, readable \in BOOLEAN :
         (force => status = "pass") /\ AcquireLock(s, g, status, force, readable)
    \/ LockFails(s) \/ RefuseOrder(s) \/ appendViolation(s) \/ writeGates(s) \/ SetterDies(s)

DepSpec == DepInit /\ [][DepNext]_depVars

---------------------------------------------------------------------------
DepTypeOK ==
  /\ gates \in [DEP_GATES -> VALID_STATUSES]
  /\ violations \subseteq DEP_GATES
  /\ depLock \in Setters \cup {Nobody}
  /\ \A s \in Setters : setter[s].at \in {"idle", "read", "write", "over"}

(***************************************************************************)
(* Every status a worker was told is set stands until another is: none is  *)
(* lost to a concurrent set, and what a setter that could not read         *)
(* gates.json left out is pending, never another status.  So the join is   *)
(* told only for what was reported to pass, and always then but for what   *)
(* was left out.  A gate that a setter passed before a prerequisite was    *)
(* reported to pass was forced, and is on record.                          *)
(***************************************************************************)
NoStatusLost ==
  /\ \A g \in DEP_GATES : gates[g] = IF g \in forgotten THEN "pending" ELSE answered[g]
  /\ LET reported == \A g \in {"backend-unit-pass", "frontend-unit-pass"} : answered[g] = "pass"
     IN  (JoinMet => reported) /\ (reported => JoinMet \/ forgotten # {})
  /\ \A a \in ahead : a.forced /\ a.gate \in violations

=============================================================================
