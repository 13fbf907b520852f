----------------------------- MODULE EditGuard -----------------------------
(***************************************************************************)
(* The pre-tool-use guard: scripts/gate-guard.mjs around evaluateGuard.    *)
(* Each edit call runs one hook process: it reads the disk, counts the     *)
(* attempt in task.json (tddGuard), and answers.  Hooks of parallel        *)
(* sub-agents overlap, with one another, with the human's approve no-tdd   *)
(* and with whoever moves the gate.                                        *)
(*                                                                         *)
(* A call may name several files (apply_patch, edit_files, multi_replace): *)
(* the hook counts and judges the first, the others pass with it.          *)
(*                                                                         *)
(* Abstracted: a target is the kind of file it names and where it lies;    *)
(* the configuration, the scope contract, the budget marker and task.json  *)
(* itself may be sound or not whenever they are read; calls that are no    *)
(* edit and the messages are left out.  So is the number of test-less      *)
(* writes, which no decision reads: an attempt that would only change it   *)
(* rewrites the guard as it was read.                                      *)
(***************************************************************************)
EXTENDS GateTables, Sequences

CONSTANTS
  Calls,            \* edit calls
  Targets,          \* what they may name
  Named,            \* the targets one call names, in its order
  Gates,            \* the gates the task moves through
  HumanGates,       \* those a human gate may move it to
  None              \* unreadable task.json; no reading

ASSUME GatesAssumption == Gates \subseteq VALID_GATES /\ HumanGates \subseteq Gates
ASSUME TargetsAssumption ==
  Targets \subseteq [kind : {"test", "source", "other"},
                     place : {"inScope", "outside", "artifact", "terminal"}]
ASSUME NamedAssumption == Named \subseteq Seq(Targets) \ {<<>>}

VARIABLES
  task,      \* task.json: the gate and tddGuard
  pc,        \* where each call is
  named,     \* what it names
  snap,      \* what its hook has read
  human,     \* the document a human gate has read, or None
  hist       \* tried: a test edit has been attempted; granted: the human has
             \* waived; since: the calls whose hook read task.json after that;
             \* completed: complete-task has gone through

vars == <<task, pc, named, snap, human, hist>>

Guards == [testFileWritten : BOOLEAN, overrideGranted : BOOLEAN]
INITIAL_TDD_GUARD == [testFileWritten |-> FALSE, overrideGranted |-> FALSE]

Documents == [gate : Gates, tddGuard : Guards]
Readings == [task : Documents \cup {None}, config : BOOLEAN, scope : BOOLEAN]
Answers == {"allow", "deny", "testFirst"}

ASSUME NoneAssumption == None \notin Documents /\ None \notin Readings

TypeOK ==
  /\ task \in Documents
  /\ pc \in [Calls -> {"new", "read", "counted"} \cup Answers]
  /\ named \in [Calls -> Named]
  /\ snap \in [Calls -> Readings \cup {None}]
  /\ \A e \in Calls : pc[e] # "new" => snap[e] \in Readings
  /\ human \in Documents \cup {None}
  /\ hist \in [tried : BOOLEAN, granted : BOOLEAN, since : SUBSET Calls, completed : BOOLEAN]

Init ==
  /\ task \in [gate : Gates, tddGuard : {INITIAL_TDD_GUARD}]
  /\ pc = [e \in Calls |-> "new"]
  /\ named \in [Calls -> Named]
  /\ snap = [e \in Calls |-> None]
  /\ human = None
  /\ hist = [tried |-> FALSE, granted |-> FALSE, since |-> {}, completed |-> FALSE]

-----------------------------------------------------------------------------
(* lib/gate-guard-core.mjs, and lib/hooks/tool-input.mjs for its argument. *)

\* The one a call is judged by.
firstToolInputPath(paths) == Head(paths)

IMPL_GATES == {"impl-started", "verification-passed", "pr-ready", "done"}
isEditAllowedAtGate(gate) == gate \in IMPL_GATES

evaluateTddPreCondition(t, guard) ==
  guard.overrideGranted \/ t.kind # "source" \/ guard.testFileWritten

\* Mutant: any attempt at code counts as a test.
applyAnyAttempt(prev, t) ==
  IF t.kind = "other" THEN prev ELSE [prev EXCEPT !.testFileWritten = TRUE]

applyTddGuardTransition(prev, t) ==
  IF t.kind = "test" THEN [prev EXCEPT !.testFileWritten = TRUE] ELSE prev

\* Whether it returns a new guard.  Its third branch, which resets the counter
\* once a test is on record, never finds anything to reset.
Rewrites(prev, t) == t.kind = "test" \/ (t.kind = "source" /\ ~prev.testFileWritten)

\* Only the declared writer of a session artifact may write it; the identity
\* comes from the roster (SubagentRoster!resolveActiveAgent).
ArtifactAllowed(t, isWriter) == t.place = "artifact" /\ isWriter

\* Rules 1 to 6: everything but the test.
Permitted(t, isWriter, r, critical) ==
  /\ r.config
  /\ r.task # None /\ critical => t.place = "artifact"
  /\ \/ ArtifactAllowed(t, isWriter)
     \/ /\ r.task # None
        /\ isEditAllowedAtGate(r.task.gate)
        /\ t.place = "inScope"
        /\ r.scope

\* Rule 7; a session artifact was let through before it.
TestOwed(t, r) ==
  /\ t.place # "artifact"
  /\ r.task.gate = "impl-started"
  /\ ~evaluateTddPreCondition(t, r.task.tddGuard)

evaluateGuard(t, isWriter, r, critical) ==
  IF ~Permitted(t, isWriter, r, critical) THEN "deny"
  ELSE IF TestOwed(t, r) THEN "testFirst" ELSE "allow"

-----------------------------------------------------------------------------
(* One run of the hook.                                                    *)

\* task.json, the configuration, and the scope contract, which is the task's.
Read(e, seen, config, scope) ==
  /\ pc[e] = "new"
  /\ seen = None => ~scope
  /\ snap' = [snap EXCEPT ![e] = [task |-> seen, config |-> config, scope |-> scope]]
  /\ pc' = [pc EXCEPT ![e] = "read"]
  /\ hist' = IF hist.granted THEN [hist EXCEPT !.since = @ \cup {e}] ELSE hist
  /\ UNCHANGED <<task, named, human>>

Judged(e) == firstToolInputPath(named[e])

Counts(e) ==
  /\ snap[e].task # None
  /\ snap[e].config
  /\ snap[e].task.gate = "impl-started"
  /\ Judged(e).place # "terminal"
  /\ Rewrites(snap[e].task.tddGuard, Judged(e))

CountNothing(e) ==
  /\ pc[e] = "read"
  /\ ~Counts(e)
  /\ pc' = [pc EXCEPT ![e] = "counted"]
  /\ UNCHANGED <<task, named, snap, human, hist>>

\* The next guard goes whole onto the fresh document, before the decision; when
\* the mutation fails the hook goes on with its own copy.
Count(e) ==
  LET next == applyTddGuardTransition(snap[e].task.tddGuard, Judged(e))
  IN  /\ pc[e] = "read"
      /\ Counts(e)
      /\ task' \in {task, [task EXCEPT !.tddGuard = next]}
      /\ snap' = [snap EXCEPT ![e].task.tddGuard = next]
      /\ pc' = [pc EXCEPT ![e] = "counted"]
      /\ hist' = [hist EXCEPT !.tried = @ \/ Judged(e).kind = "test"]
      /\ UNCHANGED <<named, human>>

\* The budget marker is read last.
Decide(e, isWriter, critical) ==
  /\ pc[e] = "counted"
  /\ pc' = [pc EXCEPT ![e] = evaluateGuard(Judged(e), isWriter, snap[e], critical)]
  /\ UNCHANGED <<task, named, snap, human, hist>>

-----------------------------------------------------------------------------
(* The others.                                                             *)

\* Mutant: approve no-tdd starts the guard afresh.
GrantAfresh ==
  /\ task' = [task EXCEPT !.tddGuard = [INITIAL_TDD_GUARD EXCEPT !.overrideGranted = TRUE]]
  /\ hist' = [hist EXCEPT !.granted = TRUE]
  /\ UNCHANGED <<pc, named, snap, human>>

\* approve no-tdd, merged onto the fresh document.
persistTddOverride ==
  /\ task' = [task EXCEPT !.tddGuard.overrideGranted = TRUE]
  /\ hist' = [hist EXCEPT !.granted = TRUE]
  /\ UNCHANGED <<pc, named, snap, human>>

\* A gate moved under the lock or a version pin.
MoveGate(gate) ==
  /\ task' = [task EXCEPT !.gate = gate]
  /\ UNCHANGED <<pc, named, snap, human, hist>>

\* A human gate reads the document and writes it back with the gate moved.
HumanReads ==
  /\ HumanGates # {}
  /\ human' = task
  /\ UNCHANGED <<task, pc, named, snap, hist>>

HumanWrites(gate) ==
  /\ human # None
  /\ task' = [human EXCEPT !.gate = gate]
  /\ human' = None
  /\ UNCHANGED <<pc, named, snap, hist>>

\* complete-task, under implementation or verified: it asks the guard what the
\* hooks ask it, and the test files are verified; what it then promotes and logs
\* is not taken back.
CompleteTask ==
  /\ task.gate \in {"impl-started", "verification-passed"}
  /\ task.tddGuard.testFileWritten \/ task.tddGuard.overrideGranted
  /\ hist' = [hist EXCEPT !.completed = TRUE]
  /\ UNCHANGED <<task, pc, named, snap, human>>

-----------------------------------------------------------------------------
Next ==
  \/ \E e \in Calls :
       \/ \E seen \in {task, None}, config, scope \in BOOLEAN : Read(e, seen, config, scope)
       \/ CountNothing(e) \/ Count(e)
       \/ \E isWriter, critical \in BOOLEAN : Decide(e, isWriter, critical)
  \/ persistTddOverride
  \/ \E g \in Gates : MoveGate(g)
  \/ HumanReads
  \/ \E g \in HumanGates : HumanWrites(g)
  \/ CompleteTask

Spec == Init /\ [][Next]_vars

-----------------------------------------------------------------------------
(* Properties.                                                             *)

\* However hooks overlap, and whatever older state they write back, production
\* code is let through under implementation, and its completion recorded, only
\* after somebody has tried to write a test or the human has waived it (rule 7,
\* complete-task's write-first gate): code a call names first, and code it names
\* behind a test.  Behind a file of neither kind it is not judged.
TestOrWaiverFirst ==
  /\ \A e \in Calls :
       /\ pc[e] = "allow"
       /\ Judged(e).place = "inScope" /\ Judged(e).kind \in {"test", "source"}
       /\ snap[e].task.gate = "impl-started"
       => hist.tried \/ hist.granted
  /\ hist.completed => hist.tried \/ hist.granted

\* A waiver or a test on record is lost only to a writer that read task.json
\* before it was recorded: hooks that run one after another lose none.
LossOverlaps ==
  \A f \in {"testFileWritten", "overrideGranted"} :
    task.tddGuard[f] /\ ~task'.tddGuard[f] =>
      \/ human # None /\ ~human.tddGuard[f]
      \/ \E e \in Calls : pc[e] = "read" /\ Counts(e) /\ ~snap[e].task.tddGuard[f]

\* Counting an attempt never undoes a gate move, however old the hook's reading
\* is (#112: "a concurrent gate advance is no longer clobbered").
GateKept == \A e \in Calls : pc[e] = "read" /\ pc'[e] # "read" => task'.gate = task.gate

\* What an edit's hook writes long after reading it costs no more than that.
OverlapsLoseNoMore == [][LossOverlaps /\ GateKept]_vars

\* "the gate-guard PreToolUse rule sees tddGuard.overrideGranted = true on the
\* next tool call": who asks after the waiver is not sent back for a test.
WaiverSeen == \A e \in hist.since : pc[e] # "testFirst"
=============================================================================
