----------------------------- MODULE VerifyLoop -----------------------------
(***************************************************************************)
(* verify-step: run a command, once more when it fails, log each attempt   *)
(* in the task's loop trace, let the loop guard judge, and leave           *)
(* verify-result.json for the verification-passed gate.  Runs overlap: the *)
(* agent decides when to verify, and the task may change meanwhile.        *)
(*                                                                         *)
(* Abstracted: an output is its digest; the count of changed files is      *)
(* whether it reaches the limit; tiers, token estimates and times are left *)
(* out, and so is the cost cap, which verify-step never sets.  Of the two  *)
(* stamps of the evidence the owner is kept, the spec's digest is not.     *)
(***************************************************************************)
EXTENDS Integers, Sequences, Functions

CONSTANTS
  Runs,              \* runs of verify-step
  Attempts,          \* the attempt ids the agent gives them
  Digests,           \* of outputs
  LoopTasks,         \* how many tasks come one after another
  NoOne              \* no evidence; no digest; no run; no owner

ASSUME LoopAssumption ==
  /\ LoopTasks \in Nat \ {0}
  /\ NoOne \notin Runs \cup Attempts \cup Digests

VARIABLES
  loopTrace,   \* of each task: attempts and halts
  evidence,    \* verify-result.json
  current,     \* the index of the task in task.json
  runner,      \* of each run: where it is, its arguments and its first digest
  switched     \* history: the runs during which the task changed

loopVars == <<loopTrace, evidence, current, runner, switched>>

\* How a command ends: its exit code, or the timeout, which is no exit code 0.
Outcomes == [ok : BOOLEAN, timedOut : BOOLEAN, digest : Digests]
CommandOutcomes == {o \in Outcomes : o.timedOut => ~o.ok}

Idle == [at |-> "idle", task |-> 1, attempt |-> NoOne, digest |-> NoOne, verdict |-> "none"]

LoopInit ==
  /\ loopTrace = [t \in 1..LoopTasks |-> <<>>]
  /\ evidence = NoOne
  /\ current = 1
  /\ runner = [r \in Runs |-> Idle]
  /\ switched = {}

Log(t, event) == loopTrace' = [loopTrace EXCEPT ![t] = Append(@, event)]

\* The id of a rerun is drawn fresh: NoOne is never one the agent gives.
loop_attempt(r, attempt, o) ==
  [type |-> "loop_attempt", attempt |-> attempt, digest |-> o.digest, ok |-> o.ok, run |-> r]
loop_halt(r, reason) ==
  [type |-> "loop_halt", attempt |-> runner[r].attempt, digest |-> reason, ok |-> FALSE, run |-> r]

---------------------------------------------------------------------------
StartVerify(r, attempt) ==
  /\ runner[r].at = "idle"
  /\ runner' = [runner EXCEPT ![r] = [Idle EXCEPT !.at = "first", !.task = current,
                                                  !.attempt = attempt]]
  /\ UNCHANGED <<loopTrace, evidence, current, switched>>

\* A command that cannot be started takes verify-step with it.
CommandMissing(r) ==
  /\ runner[r].at \in {"first", "rerun"}
  /\ runner' = [runner EXCEPT ![r].at = "done"]
  /\ UNCHANGED <<loopTrace, evidence, current, switched>>

FirstRun(r) ==
  /\ runner[r].at = "first"
  /\ \E o \in CommandOutcomes :
       /\ Log(runner[r].task, loop_attempt(r, runner[r].attempt, o))
       /\ runner' = [runner EXCEPT ![r] =
            [@ EXCEPT !.digest = o.digest,
                      !.at = IF o.ok \/ o.timedOut THEN "guard" ELSE "rerun",
                      !.verdict = IF o.ok THEN "passed" ELSE "failed"]]
  /\ UNCHANGED <<evidence, current, switched>>

Rerun(r) ==
  /\ runner[r].at = "rerun"
  /\ \E o \in CommandOutcomes :
       /\ Log(runner[r].task, loop_attempt(r, NoOne, o))
       /\ runner' = [runner EXCEPT ![r] =
            [@ EXCEPT !.at = "guard",
                      !.verdict = IF o.ok THEN "flaky"
                                  ELSE IF o.digest = runner[r].digest THEN "stable_fail"
                                  ELSE "failed"]]
  /\ UNCHANGED <<evidence, current, switched>>

\* The attempts logged under another id.
detectNoProgress(r) ==
  \E e \in Range(loopTrace[runner[r].task]) :
    /\ e.type = "loop_attempt"
    /\ e.attempt # runner[r].attempt \/ e.attempt = NoOne
    /\ e.digest = runner[r].digest

\* countChangedFiles, to the limit; a git that fails or is not there throws.
countChangedFiles == {"few", "tooMany", "uncounted"}

\* Mutant: a halt leaves the verdict as it was.
HaltKeepsVerdict(r, files) ==
  /\ runner[r].at = "guard"
  /\ IF files = "tooMany" \/ detectNoProgress(r)
     THEN Log(runner[r].task,
              loop_halt(r, IF files = "tooMany" THEN "MAX_FILES" ELSE "NO_PROGRESS"))
     ELSE UNCHANGED loopTrace
  /\ runner' = [runner EXCEPT ![r].at = "persist"]
  /\ UNCHANGED <<evidence, current, switched>>

\* runLoopGuard; a git that cannot count the files ends the run.
Guard(r, files) ==
  /\ runner[r].at = "guard"
  /\ IF files = "uncounted"
     THEN runner' = [runner EXCEPT ![r].at = "done"] /\ UNCHANGED loopTrace
     ELSE IF files = "tooMany" \/ detectNoProgress(r)
     THEN /\ Log(runner[r].task,
                 loop_halt(r, IF files = "tooMany" THEN "MAX_FILES" ELSE "NO_PROGRESS"))
          /\ runner' = [runner EXCEPT ![r].at = "persist", ![r].verdict = "failed"]
     ELSE runner' = [runner EXCEPT ![r].at = "persist"] /\ UNCHANGED loopTrace
  /\ UNCHANGED <<evidence, current, switched>>

\* persistVerifyResult reads the owner now, not from the run's arguments, and names
\* none when task.json cannot be read; the evidence is not written when it fails.
persistVerifyResult(r) ==
  /\ runner[r].at = "persist"
  /\ \/ \E owner \in {current, NoOne} :
          evidence' = [passed |-> runner[r].verdict \in {"passed", "flaky"},
                       digest |-> runner[r].digest, task |-> owner, run |-> r]
     \/ UNCHANGED evidence
  /\ runner' = [runner EXCEPT ![r].at = "done"]
  /\ UNCHANGED <<loopTrace, current, switched>>

\* The next task is started: neither the trace nor the evidence is touched.
SwitchTask ==
  /\ current < LoopTasks
  /\ current' = current + 1
  /\ switched' = switched \cup {r \in Runs : runner[r].at \notin {"idle", "done"}}
  /\ UNCHANGED <<loopTrace, evidence, runner>>

LoopNext ==
  \/ SwitchTask
  \/ \E r \in Runs :
       \/ \E a \in Attempts : StartVerify(r, a)
       \/ CommandMissing(r) \/ FirstRun(r) \/ Rerun(r)
       \/ \E files \in countChangedFiles : Guard(r, files)
       \/ persistVerifyResult(r)

LoopSpec == LoopInit /\ [][LoopNext]_loopVars

---------------------------------------------------------------------------
LoopTypeOK ==
  /\ current \in 1..LoopTasks /\ switched \subseteq Runs
  /\ \A r \in Runs :
       /\ runner[r].at \in {"idle", "first", "rerun", "guard", "persist", "done"}
       /\ runner[r].verdict \in {"none", "passed", "flaky", "failed", "stable_fail"}
       /\ runner[r].task \in 1..LoopTasks
  /\ evidence # NoOne => evidence.passed \in BOOLEAN /\ evidence.run \in Runs

Before(t, i) == {loopTrace[t][j] : j \in 1..(i - 1)}

(***************************************************************************)
(* Passing evidence was earned by its own run: an attempt of that run      *)
(* exited 0 under the run's task, no halt of that run is logged, and no    *)
(* attempt logged before the run's first one had printed the same output   *)
(* under another id.  It names the task the run verified, or none when     *)
(* task.json could not be read, unless the task changed while the run was  *)
(* under way.                                                              *)
(***************************************************************************)
EvidenceIsEarned ==
  (evidence # NoOne /\ evidence.passed) =>
    LET r == evidence.run
        t == runner[r].task
        log == loopTrace[t]
        mine == {i \in DOMAIN log : log[i].run = r}
    IN  /\ \E i \in mine : log[i].ok
        /\ \A i \in mine : log[i].type # "loop_halt"
        /\ \A i \in mine : log[i].attempt = runner[r].attempt =>
             \A e \in Before(t, i) :
               e.type = "loop_attempt" /\ e.digest = evidence.digest =>
                 e.attempt = runner[r].attempt
        /\ evidence.task \in {t, NoOne} \/ r \in switched

(***************************************************************************)
(* What no-progress.mjs:14 says of detectNoProgress, "a first-ever failure *)
(* (no prior entries) always returns { noProgress: false }": the first run *)
(* logged in a task's trace is not halted for want of progress.            *)
(***************************************************************************)
FirstFailureGoesOn ==
  \A t \in 1..LoopTasks : \A i \in DOMAIN loopTrace[t] :
    LET e == loopTrace[t][i]
    IN  e.digest = "NO_PROGRESS" => \E b \in Before(t, i) : b.run # e.run

=============================================================================
