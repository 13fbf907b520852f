# Devmate in TLA+

Devmate drives an AI coding assistant through a gated workflow. Nothing of it stays
resident: every hook, script and CLI call is a short Node process that reads files under
`.devmate/`, decides, writes, and exits. Several of them run at once (a host fires hooks of
parallel sub-agents side by side, and a human may be in the editor or in a terminal), any of
them may be killed, and what a later one believes is what an earlier one left on disk. That is
what this project models: the lock, the one document everything hinges on, the gates a task
goes through and the human's part in them, the sub-agents with what they are sent and what they
bring back, and the files that keep a session's context, memory, progress and evidence.

Source paths below are relative to `src/`. `PROJECT.json` maps every definition to its lines.

## Inventory

| part | state | operations | what makes it correct |
|---|---|---|---|
| **file lock** `lib/file-lock.mjs` | one lock file per resource: owner pid, timestamp, boot token | `withFileLock`: create with `wx`, wait, judge stale, rename away, release | one process at a time inside; a live owner keeps its lock; an orphan is reclaimed; every call ends |
| **task state store** `lib/task-state.mjs`, `lib/json-io.mjs`, `lib/state-transition-log.mjs` | `task.json` (with `stateVersion`), its `.tmp`, the transition log | read, blind `writeTaskState`, `mutateTaskStateUnderLock` (with or without `expectedVersion`), `mutateTaskStateWithRetry` | no update lost, versions name documents, the answer is honest, the log is in order |
| **session bootstrap** `lib/workflow/bootstrap-task-state.mjs`, `scripts/session-start.mjs`, `init-task-state.mjs` | `task.json`, the session directory | first task, next task, reset of a corrupt state | a live task stays; a task begins without what an earlier one left |
| **gate tables** `lib/gate-transitions.mjs`, part of `lib/task-state.mjs` | none | per-lane edges, steering, flattened table, per-lane validity | no way round a human gate, no dead end |
| **gate preconditions** `lib/gate-preconditions.mjs` | none; read the artifacts | what must be on disk to enter a gate | evidence is the task's own, fresh, and about the recorded spec |
| **gate-advance hook** `hooks/gate-advance.mjs`, `lib/workflow/gate-advance.mjs` | the worker artifacts, `specDigest`, gate | persist a worker's return, stamp the digest, walk the lane, commit under a version pin | advances exactly as far as the evidence goes; an approved digest is not restamped |
| **approval listener** `hooks/approval-listener.mjs` | gate, lane, notes, overrides | the human's phrases | the only source of sign-off |
| **gatectl** `lib/gatectl.mjs` | gate, audit trail | `workflow set`, `workflow approve` | cannot reach a human gate without the human's message |
| **lanes** `lib/workflow/lanes` | gate, lane, scope | continuations, steering, escalation, exceptions | the lane's own edges only |
| **spec integrity guard** `hooks/spec-integrity-guard.mjs` | gate, `specDigest` | roll back an edited approved spec | implementation never starts on a text nobody approved |
| **gate consistency doctor** `lib/gate-consistency.mjs`, `scripts/devmate-doctor.mjs` | gate | compare gate, evidence and trace; `--fix` | rolls back, never forward |
| **scope contract** `lib/workflow/scope.mjs`, `scope-writer.mjs` | `scope.md`, `plan.json`, `diagnosis.json` | derive the contract from a return; judge an edit | edits stay within what a worker named for this task |
| **PR review** `lib/workflow/pr-review.mjs` and two preconditions | review context and verdict | gather the context, check verdict and acceptance criteria | `pr-ready` rests on the task's own review and trace |
| **sub-agent budget guard** `hooks/subagent-budget-guard.mjs`, `lib/resume/reconcile-subagents.mjs` | `activeSubagents`, `activeAgents` in `task.json` | start, stop, session-start reset; read by gate-guard for the caller's name | the count and the roster are what runs |
| **pre-tool-use guard, TDD gate** `scripts/gate-guard.mjs`, `lib/gate-guard-core.mjs`, `scripts/complete-task.mjs` | `tddGuard` in `task.json` | allow or deny an edit, count attempts, note test evidence | production code, and completion, only after a test or an override |
| **dispatch gates** `lib/workflow/dispatch-gate.mjs`, `dispatch-sequencing.mjs`, `orchestrator.mjs` | read the task, its artifacts and its trace | which worker may be dispatched now; is its result to be believed | workers in lane order; no result without a dispatch; no lock-out |
| **post-tool-use hook** `hooks/post-tool-use.mjs` | session mark, task budget | judge a worker's return against its persona's territory and the TDD rule | a worker answers for its own files |
| **discovery** `lib/discovery`, `lib/orchestrator/fanout.mjs`, `lib/workflow/agents/discovery.mjs`, `lib/hooks/subagent-index.mjs` | scan report, worker returns, agent index, merged artifact | fan out, time out, rank, partition; attribute and merge returns | only whole searches count; every worker's voice is in the merge |
| **memory** `lib/memory` | task and repository ledgers, archive, `MEMORY.md`, their locks | append facts, stale marks, compact, promote, render | the last fact of a source survives |
| **trace, resume, handoff** `lib/trace`, `lib/spec-progress.mjs`, `lib/resume`, `lib/handoff`, `scripts/complete-ac.mjs` | `<taskId>.jsonl`, the boxes of `spec.md` | append, tick, read back into a plan | the boxes follow the trace; a resume repeats nothing |
| **context budget and compaction** `lib/context` | meter, session markdown, critical marker, briefs | meter results, measure, reclaim, compact, pack evidence | an undisturbed session is never blocked; budgets are kept |
| **loop guard, verification** `lib/loop`, `scripts/verify-step.mjs` | loop trace, `verify-result.json` | run, rerun a flake, halt, persist the verdict | passing evidence was earned |
| **dependency gates** `lib/dependency-gates.mjs` | `gates.json`, violations | set a gate after its prerequisites | no status lost |
| **worktrees, rollback** `lib/worktree`, `lib/workflow/rollback.mjs` | git worktrees, branches, the stash | isolate a run; reset to before the implementation | no work lost |
| **text and one-shot parts** routing, skills, metadata, contracts, configuration, init, lint scripts | files they generate | scoring, validation, generation | not stateful, or not concurrent |

How they interact. Everything of the workflow meets in `task.json`. `gate-advance`,
`subagent-budget-guard`, `gate-guard`, `spec-integrity-guard`, `approval-listener`, `gatectl`,
`post-tool-use` and session start read and write it from processes of their own. Some mutate the
fresh document under the lock, some commit a document computed from a snapshot under a version
pin, some write back what they had read, one (the budget class) writes under no lock at all. The
artifacts (`spec.md`, `verify-result.json`, `grill-me-result.json`, ...) are flat files that
outlive their task; the gates trust them because they carry a task id or a digest, where they do.
The trace is append-only and per task; resume, compaction, the dispatch checks and the doctor read
it back. What a worker does reaches the rest through its reply, which post-tool-use and
gate-advance file, judge and project. The host delivers hooks at its own discretion.

The hard behaviours, each listed with its line under `hazards` in `PROJECT.json`: two waiters
reclaiming one orphan; deaths between two writes; three kinds of writers of one document; evidence
left by earlier tasks; gates reached by a sequence of legal calls nobody intended; approvals against
integrity rollbacks; hooks lost, repeated, late or failing; read-modify-write files without a lock
(the meter, the agent index, the merge, `spec.md`, the ledgers after a timed-out lock); a stash
named by its position while somebody stashes; a lane in which nothing leads out of a gate.

## The modules

| module | models |
|---|---|
| `AbstractMutex` | the contract of `withFileLock` |
| `FileLock`, `FileLockProofs` | `withFileLock`, one action per system call; theorems |
| `AbstractTaskStore` | the contract of the mutation API of `task.json` |
| `TaskState`, `TaskStateProofs` | the three kinds of writers, one action per read, lock, write, rename, append; theorems |
| `GateTables` | lanes, edges, steering, flattened table, chains, per-lane validity |
| `GateMachine`, `GateMachineProofs` | the task, the artifacts, and every operation that moves the gate; theorems |
| `Approvals` | the human gates read by read and write by write, and the doctor |
| `PrReview`, `PrGate` | the gathering of a review; the two configured checks before the last gates |
| `ScopeContract` | `scope.md` from a worker's return to a judged edit |
| `SubagentRoster` | starts, stops, gate-advance, human gates and session start on one document |
| `EditGuard`, `EditGuardProofs` | overlapping pre-tool-use hooks on edits, the TDD gate, the waiver, completion; theorems |
| `Dispatch` | the checks on a dispatch and on its result |
| `GlobMatch`, `ReturnHook` | the glob matcher; the judging of a worker's return |
| `DiscoveryScan`, `DiscoveryReturns` | the fan-out of searches; the index, the returns and their merge |
| `Memory` | ledgers, archive, promotion, rendering |
| `TaskLifecycle` | which task `task.json` holds, from one session start to the next |
| `TaskProgress`, `CompactionBrief` | the trace, the boxes of `spec.md`, the resume plan; the briefs of compactions |
| `ContextBudget`, `EvidencePacking` | meter, marker and reclaiming; which evidence is loaded |
| `VerifyLoop` | verify-step, the loop guard, the persisted verdict |
| `DependencyGates` | `gates.json` and the workstreams that set it |
| `Worktrees`, `Rollback` | isolated runs; the reset |
| `Ranking` | a finite set in order, as `Array.prototype.sort` leaves it; used by the rankings of `DiscoveryScan`, `DiscoveryReturns` and `EvidencePacking` |
| `MCSession`, `MCOrchestration` | sums of the small components, for one run each |
| `FoldLemmas` | lemmas on bounded sets, folds and orders |
| `SessionProofs` | theorems on `SubagentRoster`, `VerifyLoop`, `ContextBudget`, `Memory` |
| `RecordProofs` | theorems on `TaskLifecycle`, `TaskProgress`, `CompactionBrief`, `EvidencePacking`, `GlobMatch`, `ReturnHook`, and on the sum `MCSession` |
| `OrchestrationProofs` | theorems on `DependencyGates`, `Worktrees`, `Rollback`, `Dispatch`, `DiscoveryScan`, `DiscoveryReturns`, `Approvals`, `PrReview`, `PrGate`, `ScopeContract`, and on the sum `MCOrchestration` |
| `MC*` | names for the model values of the runs |

The modules stand on each other as the code does. `FileLock` implements `AbstractMutex`;
`TaskState` takes its lock from `AbstractMutex` and implements `AbstractTaskStore`;
`SubagentRoster` and `Approvals` take a mutation under the lock as one step, because `TaskState`
shows it may; `GateMachine` takes a whole operation as one step, and `Approvals` opens the ones of
the human up again. `GateMachine`, `EditGuard`, `Dispatch` and `Approvals` extend `GateTables`,
`ReturnHook` extends `GlobMatch`, `PrGate` extends `PrReview`.

The two sums exist to check many small components together: a variable `moving` is chosen
at the start and names the component that moves for the whole behaviour, so each is explored in
its interleavings and none multiplies another. Three of them are explored in parts, which
`MCOrchestration` states and the section on the runs justifies; the theorems are of the whole next-state
relations. The sums compose nothing: the components they join
share no file with one another, or share it in a way one of them already models. That a behaviour of a
sum is one of each of its parts is a theorem (`SessionMovesParts`, `OrchestrationMovesParts`).

### FileLock

`lockFile` is the file at `lockPath` (absent, empty, or an owner's record); `pc` is where each
process is in `withFileLock`; `seen` is the record a waiter has read; `waits` the sleeps left;
`boot` the boot session. A process is a pid: `Crash` kills it anywhere, `Spawn` puts another
process under the same pid, `Reboot` ends all and changes the boot token. The wall clock appears
twice: `Age` says that the recorded timestamp has passed `staleReclaimMs`, and a call sleeps at
most `MaxWaits` times. Every check of the code reads what the code reads: `Probe` judges the
record seen, not the file; `Steal` renames whatever has the name by then; `WriteMetadata` and
`Release` go by name. Every call that can throw has a failing twin: `OpenFails`,
`WriteMetadataFails`, `ReadLockInfoFails` (the record cannot be read, and counts as none),
`StealFails` (the rename fails with the file still there, and the call goes round), `ReleaseFails`.

`ShortHolds` forbids `Age` while the owner is inside: every hold is shorter than
`staleReclaimMs`. `MayLeaveLock` permits a holder to die or to fail to unlink. They are constants
because the code is a mutex under the one setting and not under the other.

### TaskState

A `Writer` is one call, of one of three kinds: `Mutators` (`mutateTaskStateUnderLock` with a
merging mutator), `CasWriters` (`mutateTaskStateWithRetry`: snapshot, candidate, pinned commit,
at most `Attempts` times), `BlindWriters` (read, compute, `writeTaskState`). The document is its
version and the set of calls whose update it contains, which is what lost updates and honest
answers are about. The commit is open, fill, rename, then append to the log, and each of them may
fail or be the last thing a process does. A document written by `writeTaskState` keeps the version
it was read with, because the code stamps none there.

### GateMachine

`task` is the id, lane, gate and recorded digest of `task.json`; `files` is the disk; `hist` is a ghost
(what was signed off, produced, parked, verified for the current task), read by properties only. Actions:
`GateAdvance`, `WorkerReturns` and `RouterReturns` are the gate-advance hook on any tool call, on a
worker's return and on the router's; each includes the stamp, the whole walk and `validateTaskState` (in
`Persist`). `ApproveSpec`, `ApprovePlan`, `ApprovePr`, `SteeringPhrase`, `EscalateChore` and `ApproveNoTdd`
are the phrases, `GatectlSet` and `GatectlApprove` the CLI, `CompleteAc` the restamp of complete-ac,
`EditSpec` whoever writes `spec.md`, `RunVerify` and `VerifyAges` the evidence and its age, `NewSession`
the bootstrap over a finished task.

Complete-ac is an action beside all the `Others`, so that `DigestLocked` can speak of who takes a
step and not of what the step looks like. Evidence may name no task (`Nobody`): `PreStamp` are the
artifacts an earlier version left without a stamp, and with `ReadsFail` the verification may fail to
read `task.json` and then stamps neither task nor digest. `requireArtifact` and the verification's
check refuse a wrong owner only, so evidence of nobody counts for everybody; `EvidenceIsOwn` says
just that.

Abstracted: a spec text is a number and its digest is that number; an artifact is whose it is.
The checks that configuration turns on (delegation floor, AC coverage, PR review) are off, the
default; `PrGate` and `Dispatch` have them on. An operation is one step: the locked ones are, and
what happens between the read and the write of the blind ones is the subject of `Approvals`.

Constants choose what the environment does: `RouterLanes`, `RouterGates` (where a router may
answer: the dispatch gate keeps it at `no-lane`, the hook does not), `MalformedReturns`,
`ReturningSessions`, `FreshPointers` (the orchestrator writes the resume pointer before every
park, as its instructions say; the code checks only that there is one of this task),
`PhraseEvents`, `CliEvents`.

### Approvals

A feature task from its plan on, each operation cut where it reads and writes. A phrase asks
(`ApproveSpecAsks`, `ApprovePrAsks`), reads (`HumanGateChecks`), writes blindly
(`HumanGateWrites`), appends its audit (`appendGateTransitionEvent`, which may fail) and, for the
spec, goes on into the implementation from the state it had (`continueApprovedFeature`,
`ContinuationWrites`, `persistContinuationError`). Beside it: the integrity guard's snapshot and
its rollback of the fresh state, complete-ac's tick and its restamp, gate-advance's pinned commit,
steering, the verification, edits of the spec. `stateVersion` is kept as whether it moved since
gate-advance read it. `approved` is the history of the digests a human went by.
`runGateConsistency` is the doctor with `--fix`, which may come anywhere and ends the behaviour.

### PrReview and PrGate

`PrReview` gathers a review's context call by call (`GatherArtifacts`, `TakeDiff`, `ListAndWrite`;
`NoWorkTree` without git, `WriteLost` for the write whose failure is ignored) while `EditBranch` edits the
tree: tracked, renamed and untracked files, lists cut at `MAX_LIST`, the signals per lane. A git command
that fails or is killed leaves part of its output, which is recorded like a whole one (`CutShort`; a ghost,
`cut`, notes which was), and a rename is listed by its new name only (`parseNameStatus`). `Tells` says what
a context then tells, and what it does not. The diff is since the base that was found; which base that is,
is not modelled. `PrGate` adds the policy (off, warn, block per check), the criteria of `spec.md`, what the
trace has of them, the verdict on disk, and an entry into `verification-passed` or `pr-ready` in its steps
(`StartEntry`, `acCoveragePrecondition`, `prReviewPrecondition`, `CommitEntry`), overtaken by edits, by
reviews and by a change of task. A verdict is given on a context (`Review`), and the ghost `endorsed` keeps
which: whose it was, of what lane, and whether it told its change. The check of the code compares task and
lane with the verdict's own; that the verdict is an approval given on a context of this task that told its
change is what `PrReadyIsBacked` adds.

### ScopeContract

`PlanReturns`, `PlanWritten`, `ScopeRefused`, `ScopeOpened`, `ScopeWritten` are a gate-advance hook that
projects a return into `plan.json` and `scope.md`, two of them side by side, `HookDies` a death in between.
`EditAsked` and `EditJudged` are gate-guard's reading of the contract, which may fall between the
truncation and the filling of the file. An edit names up to `MaxNamed` files and is judged by the first
(`JudgedPath`), as the guard does; the property is about that one. The configuration, whose test globs are
added to every contract, may become unreadable and readable again.

### SubagentRoster

`doc` is the version, the count and the roster of `task.json`; `pc` where each dispatch is; `snap`
what a writer outside the lock has read; `host` the session. `Admit`, `Deny`, `Stop` are the hooks'
mutations; `StartFails`, `StartAgain`, `StopLost`, `ReconcileFails` what the host and the disk do
to them; `GateCommit` is the pinned commit of gate-advance, `BlindWrite` a human gate; `SessionEnds`,
`SessionStarts`, `Reconcile` the session. `faults` is a ghost naming what went wrong since the last
reset: the properties are about the time before the first fault, the actions go on after it, and a
session start must bring the exact state back. `NoIds` are the dispatches whose payload has no
`agent_id`; the roster then goes by name.

Hooks end with their host (they are its child processes); only a human gate, a terminal process,
outlives it. The lane's own dispatch gate is the nondeterministic `Deny`.

### EditGuard

One hook process per edit call: `Read` takes `task.json`, the configuration and the scope contract;
`Count` (or `CountNothing`) is the attempt counter, which puts a `tddGuard` computed from that
reading over the fresh document before anything is decided; `Decide` reads the budget marker and is
`evaluateGuard`. `persistTddOverride` is the human's approve no-tdd, `MoveGate` whoever moves the
gate under the lock, `HumanReads` and `HumanWrites` a human gate, which writes back what it read.
`snap` is what each hook has read (and, after `Count`, its own copy of the guard), `human` the same
for a human gate. `CompleteTask` is complete-task's own look at the flags. `hist` is a ghost: whether a
test was ever attempted, whether the human has waived, who read `task.json` after that, and whether
the task was completed.

A call names a list of targets (`Named`), and the counter and every rule look at the first
(`firstToolInputPath`, `Judged`). What it names behind that one is judged by nothing, so
`TestOrWaiverFirst` covers production code that is named first and, since a test on record is what
it asks for, production code behind a test; code behind a document passes, as the code has it.

Abstracted: a target is its kind (test, source, other) and its place (in scope, outside, a session
artifact, the terminal); whether configuration, scope and marker are sound, whether `task.json` can
be read, and whether the caller is the artifact's writer (`resolveActiveAgent`, which is
`SubagentRoster`'s subject) are chosen at each reading. The number of test-less writes is left out:
no decision reads it. Not covered: calls that are no edit, how a shell command's targets are found,
sessions that run without a marker, a hook that dies or times out, a change of task.

### Dispatch

A dispatch passes the PreToolUse check (`PreToolUse`: sequencing, the implementation gate), the
SubagentStart check (`SubagentStart`), and leaves a start in the trace (`TraceStart`), while the
gate moves along the lane's edges (`MoveGate`, `SetLane`) and the lane's evidence comes and goes
(`FileChanges`). Names are as the orchestrator may write them: aliases and a prefix. The result
guard, `assertDispatchResultBacked`, and the floors are operators over that state.

### GlobMatch and ReturnHook

`matchSegment` and `matchGlob` are the matcher of `gate-guard-core.mjs` (`*`, `?`, `**`) as recursive
functions; `PathCovered` says what a match is, without an algorithm, by cutting the path up.
`ReturnHook` has the territories built on it, two workers editing and returning side by side with
replies that lack a name, a persona or a list of files, and what they share: the ledger in which
every edit is a fact (`DiscoveryCites`, `LedgerPromoted`) and the session's mark (`MarkReaped`).

### DiscoveryScan and DiscoveryReturns

`DiscoveryScan`: each strategy searches file by file, stores and returns, raced against
`withTimeout`; a strategy told to stop may still store what it has. `runDiscoveryScan` merges, ranks,
caps and partitions. `DiscoveryReturns`: the start hook's unlocked rewrite of the index
(`ReadIndex`, `recordSubagentStart`), a reply and the name it goes by (`Return`), the filing of it
under its dispatch's id by gate-advance (`persistWorkerReturn`, `ReturnWritten`, `PersistFails`) and
by post-tool-use (`CopyReturn`, `CopyWritten`, `CopyFails`), which write one file in place, and the
merge of all of them (`MergeRead`, `MergeWrite`), each in steps that overlap, fail or die. Abstracted:
the two hooks of a return name it alike, which they would not if the index lost its dispatch in between.

### Memory

Each caller makes one call: an edit's fact (`StartEdit`, `markStale`, `writeFact`), a merge's facts
(`StartMerge`, `StalePrior`, `writeDiscoveryFacts`), a compaction (`appendArchive`, `compactLedger`)
or a capture (`captureMemory`, `promoteLedger`, `UnlinkLedger`, `renderMemory`, `WriteMemoryMd`). The
lock files belong to who made them; nobody recovers one, so after a death `AcquireTimesOut` and its
line without the lock are all that is left. A ledger is the set of its lines, a fact its key and
the millisecond it was written in.

### TaskLifecycle

Session starts, init-task-state, a reset and the hooks' commits, at the grain of lock, open, fill
and rename of the one `task.json.tmp`, and `persistBudget`, which takes no lock. `holdings` is what
lies on disk under a task's id; `crowded` remembers that a creation met another call.

### TaskProgress and CompactionBrief

`TaskProgress`: `Start`, `AppendAc`, `ReadSpec`, `WriteSpec`, `RecordDigest` are one call of
complete-ac, beside edits of the spec, other events and malformed lines; `Resume`, `captureHandoff`
and `appendStrategyChange` read the trace back. `CompactionBrief`: a compaction reads
`task.json` (`CompactionBegins`), then that task's trace (`buildCompactionArtifact`), writes a
`.tmp` named for task and millisecond and renames it; `loadCompactionArtifact` is what a resume
then finds. `told` remembers the step that was complete when the last finished compaction began.

### ContextBudget and EvidencePacking

`ContextBudget`: the PostToolUse hook meters a result, measures, reports, archives, zeroes the
meter, unmarks, measures again and marks, each a step, beside another such hook and a run of
compact-session; `disturbed` remembers an overlap, a failure or a death. `EvidencePacking`:
`packEvidence` in both modes as operators; one step packs any small set of pointers under any
budget. `packEvidence` has no caller but its tests today.

### VerifyLoop

`FirstRun` and `Rerun` run the command, `Guard` is the no-progress check and the loop guard on the
task's trace, `persistVerifyResult` writes the evidence for the task that is current then, or for
none if `task.json` cannot be read; `SwitchTask` may come anywhere. The count of changed files, which the
loop guard asks git for, is few, too many or not to be had (`countChangedFiles`).

### DependencyGates, Worktrees, Rollback

`gates.json` under its lock, with the four statuses (a gate never set is pending), prerequisites, which
are asked for a pass only, forced passes, deaths, and a file that cannot be read and is taken for an
empty one: the ghost `forgotten` has the gates such a setter left out, `answered` what each was last
reported set to, `ahead` the gates passed before a prerequisite. A run of worktree-exec
from the create to the teardown, any git command failing, arguments shared or not with
another run. The rollback script from the plan to the pop, beside a developer who edits, commits,
stashes and drops.

## The runs

| run | instance | shows |
|---|---|---|
| `lock_short` | 3 processes, 1 sleep, 1 reboot, deaths outside the lock | mutual exclusion, only the holder removes the file, `FileLock` implements `AbstractMutex` |
| `lock_reclaim` | 2 processes, holders may die, hold long, fail to unlink, renames may fail; fair | every call ends whose renames do not keep failing; a lock of a dead owner or another boot is reclaimed |
| `lock_steal` | 3 processes, a holder may die | *violation*: two waiters are both inside |
| `state_api` | one mutator, two CAS callers, 2 attempts; crashes, failing writes | the pin, the log's order, a conflict is somebody's progress, `TaskState` implements `AbstractTaskStore` |
| `state_mixed` | one of each kind; fair | a mutator merges even beside a blind writer; every call ends |
| `gate_one_task` | one task, two texts, every phrase, event and CLI call | sign-off, verification and recorded spec before the late gates (`LateGatesAreBacked`), resume, a signed digest changed by complete-ac only |
| `gate_two_tasks` | two tasks, unstamped artifacts left over, reads that fail, malformed returns, a router that answers again | evidence of the task's own or of nobody, finished tasks stay |
| `gate_live` | one task of any lane; fair | the task gets done |
| `edit_guard` | 2 overlapping hooks, 6 targets, calls of one or two of them, 2 gates, a human gate | judged production code and completion only after a test attempt or a waiver; what is lost is lost to an overlap only, and a count undoes no gate move (`OverlapsLoseNoMore`) |
| `session` | the sum `MCSession`, see below | the files a session keeps beside the gate |
| `orchestration` | the sum `MCOrchestration`, see below | what the orchestrator runs around the gates |
| `doctor_fix` | `Approvals` as in `orchestration` | *violation*: `--fix` moves a gate forward |

What `session` explores, each part alone, and the property that is about it:

| part | instance | property |
|---|---|---|
| roster | 3 dispatches (1 with an id), ceiling 2, gate-advance, a human gate, all faults | `RosterExact`, `IdentityHonest`, `StopsOnlyItself`: count and roster are what runs, the caller's name is honest, an agent leaves by its own stop |
| budget, packing | 2 results, a compaction, thresholds 1 and 2; up to 3 of 5 pointers, budgets from below zero to enough | `ContextInBounds`: an undisturbed session is never blocked, and its meter is exact; a pack keeps both its budgets, its order, and drops only what does not fit |
| loop | 2 runs, 2 outputs, a change of task | `EvidenceIsEarned`: a passing verdict has a passing attempt of its own run, of the task it is stamped with if it is with any |
| memory | 3 callers, 2 files, 2 milliseconds | `MemoryKeepsLast`: the last fact of each file is active, archived or promoted |
| progress, brief | 2 criteria, 2 calls, 3 lines; 2 tasks, 2 compactions | `ProgressIsTold`: no box without its record, a call alone leaves all ticked; the brief a resume takes is not older than the last finished compaction of its task |
| life | 2 sessions, 2 processes | `TaskLifeKept`: no live task goes back or makes way; a reset leaves no namespace behind |
| returns | 2 workers, 2 personas, 4 files, 3 configurations | `AnswersForItsOwn`: a return is a violation exactly if its own files stray |

What `orchestration` explores:

| part | instance | property |
|---|---|---|
| dispatch | every name, lane and gate, both checks blocking | `DispatchChecksHold`: an accepted result had a licensed start; a floor that holds a task back can be cleared |
| scan | 2 strategies, 4 files, one outside, cap 2, 2 partitions | `ReportCountsWholeSearches`: nothing of an interrupted search is in the report; every candidate goes to one worker |
| returns | 2 dispatches, replies of up to 3 claims, two hooks filing each, index of 1, cap 1 | `ReturnsJoined`: every claim is in the merge or named as dropped; a return is filed under what was dispatched |
| dependencies | 3 setters, 4 statuses, a file that cannot be read | `NoStatusLost`: a reported status stands, or is pending where a setter that could not read left it out; a gate passes after its prerequisites or the breach is recorded |
| worktrees | 2 runs, 2 branches, 2 paths | `IsolatedRunKeepsWork`: what was committed before the signal is in the diff |
| rollback | 2 edits, 2 commits, 3 stashes | `ResetIsRecoverable`: the tree is reset only when clean, and the stash is there to pop |
| approvals | 2 texts | `ApprovedDigestOnly`: past the approval, the recorded digest is one a human went by |
| review, pr | 3 files, cap 2, failing git; 2 tasks, 1 criterion, 3 policies | `PrReadyIsBacked`: an entry that nothing overtook is backed by the task's own trace and by an approval given on a context of this task that told its change, or its breach recorded; every context tells as much as it can |
| scope | 3 files, one outside, one test; edits of up to 2; 2 hooks, 2 tasks | `ScopeIsHonoured`: the file an edit let through is judged by was named for this task or is a test; an undisturbed contract is the plan |

Why the bounds are enough. A lock needs two waiters and a holder to go wrong (`lock_steal` uses exactly
three); one sleep separates giving up from trying again, one reboot a recycled pid from an original. In
`state_api` a CAS caller can lose to each of the other two callers and run out of attempts. The gates of
one task depend on the text only through "the recorded one or another", hence two texts; on earlier tasks
only through "mine or not", hence two tasks. Three dispatches exceed the ceiling by one and have two of a
name without ids. Wherever two processes share a file without a lock, two are one that overlaps and one
that is overlapped; where there is a lock, the memory's, a third is one that holds it. The targets of
`edit_guard` are one of each outcome of `evaluateGuard`, those that are not production code with production
code behind them. Every cap (`MAX_LIST`, `MAX_ENTRIES`, `MaxClaims`, `MaxSources`, `TargetEntries`) is
below what comes. What is proved below holds for every size; that is every safety and action property of
the passing runs.

What is explored in parts. `review` has the gatherings, out of every branch there is, until a first
context is written: a gathering reads no earlier context, so another finds nothing new. `pr` has the
entries, with gatherings of one branch by a git that works between them: an entry reads no context but
by way of a review, and what contexts can be is `review`'s part. Of what else happens, only the task's
own moves come into a gathering of `pr`. `returns` has the second writer for returns of one claim, since
what it tears is a file whatever is in it, and all the replies without it. `PrReadyIsBackedHolds` and
`ReturnsJoinedHolds` are proved of the whole of `PrNext` and `ReturnsNext`.

Deadlock is checked in the `lock` runs. In the others every call or task ends and then nothing is
left to do, so it is switched off there; that nothing stops early is `CallsEnd` and `NoDeadEnd`.

### Fairness, and what justifies it

* `FileLock!FairSpec`: weak fairness of each process's steps (the operating system runs live
  processes) and of `Age` (time passes); strong fairness of the `open` and of the reading of the
  record, which a caller repeats in a loop while the file comes and goes and a read may fail now and
  then. Deaths, spawns, reboots and failures are never owed. A rename that goes on failing is not
  assumed away: `CallEnds` and `OrphanRecovered` name it as the case in which they promise nothing.
* `TaskState!FairSpec`: live processes step; a dead owner's lock is reclaimed, which is
  `OrphanRecovered` of `FileLock`. Crashes and failures are not owed.
* `GateMachine!FairSpec`: whoever the lane waits for answers at last (workers soundly, the router
  confidently, the human, the verification, `complete`), and the gate-advance hook runs on every
  tool call, the one that verified included, hence strong fairness against evidence that comes and
  expires. Not every read of `task.json` fails: weak fairness of a verdict recorded for the task and the
  digest there are. `NoDeadEnd` excepts the run in which every verification expires before its hook: the
  code promises nothing then. Park, abandon, malformed returns, steering and integrity rollbacks
  are not owed.

The modules of the two sums state safety only: whether an agent verifies, approves or gathers again is
up to the agent.

### Violations, and what they say of the code

* `lock_steal`: `lib/file-lock.mjs:294-296` says only one process can rename a given inode, so the
  loser's rename fails. The rename goes by name: the second waiter's moves the *new* lock file.
* `doctor_fix`: `scripts/devmate-doctor.mjs:71-72` says the gate is rolled back to the last
  evidence-backed gate. The target is compared with the gate for equality only. After a revise scope or
  an integrity rollback the trace is ahead of the gate, the audit of the earlier approval still counts,
  and `--fix` moves the gate forward past the approval.

## Other divergences

Met while modelling and visible in the models. Where a property is named, it is stated in the module and
not among the checked ones: TLC finds it violated.

* A blind writer reuses the version it read, so an equal version does not mean an equal document:
  `lib/task-state.mjs:664-666` says the pin guarantees fresh === snapshot. With a blind writer in
  `TaskState`, `PinGuaranteesSnapshot` fails.
* Evidence that names no task proves the gate of any (`lib/gate-preconditions.mjs:143-156`, `:662-674`). It
  is meant for artifacts that predate the stamp (`:148-149`, `:667-668`), but a verification that cannot
  read `task.json` leaves the stamp out as well (`lib/loop/verify-step.mjs:77-79`). `EvidenceIsOwn`
  excepts such evidence.
* A session that returns after another (A, B, A) re-mints its task id, and its earlier artifacts
  count: `lib/workflow/bootstrap-task-state.mjs:126-133` says they must not. With
  `ReturningSessions = TRUE`, `EvidenceIsOwn` fails.
* `lib/types.mjs:298` says of `testFileWritten` "True if a test file has been written". It is set
  before the decision (`scripts/gate-guard.mjs:280`), so a denied attempt at a test sets it too.
  `TestOrWaiverFirst` speaks of attempts for that reason.
* An empty lock file is never stale (`lib/file-lock.mjs:225`), so a process that dies between the
  create and the metadata write blocks the resource; lines 250-251 say a lock left by a dead process
  no longer wedges the workflow. `OrphanRecovered` speaks of locks with a record.
* `lib/file-lock.mjs:294-296` says a reclaimer whose rename fails has lost and re-loops, and `:304` that
  another moved the file or it vanished. A rename that fails for another reason, with the file still there,
  re-loops as well (`:300-305`), and nothing on that path sleeps or looks at the deadline: while it goes on
  failing the call spins past its `timeoutMs`, "max wait time before giving up" (`lib/types.mjs:488`). This
  is the exception of `CallEnds`, which fails without it.
* `parked` accepts any pointer of the task (`lib/gate-preconditions.mjs:732`), also one of an earlier
  park; `lib/types.mjs:441-446` says resume returns to the gate parked from. With
  `FreshPointers = FALSE`, `ResumeReturnsToParkedGate` and `ImplNeedsSignOff` fail.
* A chore can be approved to `pr-ready` by `gatectl workflow approve` (`lib/gatectl.mjs:197`), since
  the flattened table has the pair; `lib/gate-preconditions.mjs:710` says a chore never enters it.
* `spec.md` has no owner: the previous task's spec passes `spec-draft` (`lib/gate-preconditions.mjs:503`).
* Verification evidence may predate the implementation (`lib/gate-preconditions.mjs:654`):
  `lib/workflow/gate-advance.mjs:105-107` says the event cannot fire until implementation is done.
* An approval signs the digest last stamped, not that of the text on disk (`lib/gatectl.mjs:215`).
* A discovery return is written before it is validated, and a merge of malformed returns is a valid
  artifact (`lib/workflow/gate-advance.mjs:316`). `EvidenceIsOwn` leaves `discovery-done` out.
* A second router answer flips the lane mid-flight (`hooks/gate-advance.mjs:393`); only
  `validateTaskState` stands in the way. `gate_two_tasks` allows it, the sign-off theorem excludes it.
* An edit of several files is judged by its first path (`lib/hooks/tool-input.mjs:102-104`,
  `scripts/gate-guard.mjs:141-142`); scope, workspace and test rules see none of the others.
  `lib/hooks/tool-input.mjs:94-97` says the edit cannot smuggle a path past the gate, since the
  persona's check vets every changed file on completion. That check sees what a sub-agent's return lists,
  and knows territories of personas, not the scope of the task or the TDD rule.
* `lib/workflow/scope.mjs:18-21` says an absent `scope.md` is never a denial, and `:251-252` speaks of
  failing open. Its only caller fails closed: an edit of a source file without a contract is denied
  (`lib/gate-guard-core.mjs:1395-1403`), and that is what `ScopeContract` has.
* A `gates.json` that cannot be read is taken for an empty one (`lib/dependency-gates.mjs:149-151`), and the
  setter then writes the file with its own gate alone: what others had reported is lost, without a word.
  `NoStatusLost` says exactly which statuses.
* `hooks/gate-advance.mjs:356-360` says that writing a return twice is a no-op, the bytes being the same.
  Both hooks write in place (`lib/workflow/persist-worker-return.mjs:55`), so the second truncates a
  whole return, and a merge that reads it then leaves that worker out. See `ArtifactReflectsEveryWorker`.
* `recordSubagentStart` rewrites the index without a lock (`lib/hooks/subagent-index.mjs:93-104`): of
  two parallel starts one is lost, although the header says every return's identity is derivable.
* Session start writes its reset with the version it read (`scripts/session-start.mjs:368`).
* A router result left by the previous task satisfies `lane-set`, and the next task walks its
  placeholder lane: `hooks/gate-advance.mjs:390-392` says it must not be walked.
  `NoAdvanceBeforeRouter` in `GateMachine` fails.
* `hooks/approval-listener.mjs:296-297` says the guard sees the override on the next tool call. The
  counter of a hook that read before the approval takes it away (`scripts/gate-guard.mjs:290`).
  `WaiverSeen` in `EditGuard` fails.
* Two hooks that merge at once leave the older merge, although
  `lib/workflow/gate-advance.mjs:306-308` says the artifact always reflects every worker that has
  come back; so does one hook that merges while post-tool-use rewrites the same return.
  `ArtifactReflectsEveryWorker` in `DiscoveryReturns` fails.
* A stale mark names a fact by its time (`lib/memory/active-facts.mjs:14`), so an edit fact of the
  same millisecond goes with a discovery fact; `lib/memory/discovery-facts.mjs:173` says edit facts
  are never touched. `EditFactsUntouched` in `Memory` fails.
* A create that fails because the path is in use removes the worktree there by force;
  `lib/worktree/isolation.mjs:55` says it removes a half-created one. `CreateRemovesOnlyItsOwn` in
  `Worktrees` fails.
* A failing command's rerun is logged under an id of its own, so when it prints the same the very
  first failure is halted for want of progress; `lib/loop/no-progress.mjs:14` says a first-ever
  failure never is. `FirstFailureGoesOn` in `VerifyLoop` fails.
* A resume plan names the next criterion only once every step of the trace is complete, and the step
  of a `gate_transition` never is (`lib/resume/plan.mjs:146-152`, `docs/resume.md:37-46`).
  `ResumeNamesNextAc` in `TaskProgress` fails.
* A reset "starts genuinely clean" (`lib/workflow/bootstrap-task-state.mjs:225-231`) but for the
  flat artifacts of the same id. `ResetStartsClean` in `TaskLifecycle` fails.
* `lib/context/compaction.mjs:292-310` takes "the most recent" brief "by their timestamp suffix".
  The whole name is sorted, and it begins with the task id; `lib/resume/plan.mjs:56-62` never
  compares the id. A resume may take up another task's brief. `BriefIsOwn` in `CompactionBrief`
  fails.
* A plan that names nothing inside the workspace leaves an earlier `scope.md` in place, though the
  alert says it is absent. `RefusalLeavesNone` in `ScopeContract` fails. With a readable
  configuration the test globs make the plan never empty, although
  `lib/workflow/gate-advance.mjs:398-401` says an empty one is declined.
* `scripts/compact-session.mjs:105-108` says the bounded pointers are re-derived from the current
  pack. They are the snapshot's, so evidence added in between is dropped. (Nothing adds any today.)
* `contextDigest` "binds this verdict to that diff" (`skills/devmate-pr-review/refs/output-format.md:47`);
  no code compares it with anything (`lib/gate-preconditions.mjs:358-447`), so an edit after the review
  is not noticed. Outside git the digest is empty, which the verdict's validation refuses, so a blocking
  review can never pass there. A failed write of the context is not noticed
  (`lib/workflow/pr-review.mjs:505`). Untracked files are in no signal.
* The review's git commands are read by their output alone (`lib/workflow/pr-review.mjs:402`, `:412-415`):
  one that fails or is killed leaves a short list that is recorded as the whole change, and a renamed
  file is in no list by its old name (`:100-111`), so a rename out of the plan goes unmarked.
* In warn mode the AC coverage violation is appended again by every hook that looks, whether or not
  a gate is entered.
* complete-ac records the digest of whatever text it finds (`scripts/complete-ac.mjs:219`), so an
  edit nobody approved is blessed by ticking a box; `ApprovedDigestOnly` counts its digests as gone
  by.
* `scripts/chore-continue.mjs` moves a chore into the implementation without writing `scope.md`,
  which gate-advance's own continuation does.
* `docs/gate-guard.md` says a reply that declares no persona fails closed. A reply that is empty or
  prose, or that lists no changed files, skips the check (`hooks/post-tool-use.mjs:203`, `:248`);
  the TDD tripwire accepts a test cited by an earlier dispatch (`:277`).
* `lib/workflow/bootstrap-task-state.mjs:20-23` says init-task-state writes `plan-approved`; it
  writes `no-lane` (`scripts/init-task-state.mjs:99`), over a live task if there is one.
* A trace with a malformed line makes a resume ask even when all is complete
  (`lib/resume/plan.mjs:122`), and a strategy change never clears the step that was blocked.

## What is proved

Each theorem holds for every value of the constants that the named assumptions of its module allow, and
all of them together state every safety and action property of the passing runs. No theorem has a
hypothesis beyond the ones named below.

* **The lock** (`FileLockProofs`). Under `NoOrphans == ShortHolds /\ ~MayLeaveLock`:
  `MutualExclusionHolds`, `LiveOwnerKeepsLockHolds`, `ImplementsMutexHolds`. Mutual exclusion is not
  inductive: `Steal` must be ruled out. `LockInv` adds that the file exists exactly while somebody
  holds the lock, that it names the holder, that a waiter's reading is never of an aged record, so
  that nobody ever reaches the rename. Without `NoOrphans` the property is false (`lock_steal`).
* **The store** (`TaskStateProofs`). With `BlindWriters = {}`: `ApiInvHolds`, `PinHolds`,
  `LogOrderedHolds`, `ImplementsStoreHolds`. `ApiInv` joins typing, the bound on attempts, that
  `.tmp` belongs to the holder, that what was read under the lock is still on disk, that a version
  names one document (the heart of the pin), that the outcome of a call agrees with the document, and
  that the log is behind the file. With blind writers the version lemma fails, and with it the pin.
  `ConflictMeansProgressHolds` counts on top of it: the version is the number of commits, so each
  attempt after the first starts at least one commit later than the one before (`AttemptsCost`).
  `MutatorsMergeHolds` has blind writers too, and rests on the part of `ApiInv` that survives them: `.tmp`
  is the holder's, and the document does not change between a read under the lock and the rename.
* **The gates** (`GateMachineProofs`). `TypeOKHolds` without any condition: lane and gate always
  agree. `ImplNeedsSignOffHolds` under `Disciplined` (a pointer written for every park, a router that
  answers at `no-lane` only): the invariant speaks of the *effective* gate, that of a parked task
  being the one it will resume to, and says that the pointer names it. `Edges`, `HumanEdges` and
  their like are the facts about the tables it rests on; a walk of any length is covered by one
  lemma on a single turn.
* **The record of the gates** (`GateMachineProofs` too). `LateGatesAreBackedHolds` and `ResumeReturnsHolds`
  under `Disciplined`; `TerminalStaysHolds` where the router answers at no terminal gate;
  `EvidenceIsOwnHolds` where no session comes back after another's, of evidence that names a task;
  `DigestLockedHolds`, of every step but complete-ac's, and `RecordInvHolds` without any condition. The
  proofs share one description of a step (`EveryStep`): it starts a task, moves the gate along an edge of
  the tables with the precondition that edge has, or keeps gate and lane; so each theorem is argued over
  three cases and not over some twenty handlers. `RecordInv` again speaks of the effective gate,
  `EvidenceInv` says of every artifact on disk that it is of this task, produced by its worker, or of an
  earlier task, or names none. The conditions are needed: TLC refutes each property without its own,
  `LateGatesAreBacked` without either half of `Disciplined`. For a resume only `FreshPointers` is known to
  be needed: without the other half TLC finds no violation on the instance of `gate_one_task`.
* **The edit guard** (`EditGuardProofs`): `EditInvHolds`, `TestOrWaiverFirstHolds` and
  `OverlapsLoseNoMoreHolds`. A decision uses a hook's own copy, and an old copy may be written back by a
  hook or by a human gate, so the invariant says of every copy there is, that on disk, the human's and
  each hook's, that a flag in it is backed by an attempt or by a waiver (`CopiesBacked`). A call may name
  any sequence of targets; what is shown is of the one it is judged by.

What a session keeps (`SessionProofs`, `RecordProofs`), with no condition but the assumptions on the constants:

* **The roster**: `RosterExactHolds`, `NoOverAdmissionHolds`, `IdentityHonestHolds`,
  `StopsOnlyItselfHolds`. `RosterInv` adds that nothing is in flight between sessions, that a reset
  works on what was read, and that a version names one document until an old one is written back;
  the count is then the cardinality of the roster, and the ceiling on the count is one on the agents.
* **The verdict**: `EvidenceIsEarnedHolds`. `LoopInv` says of every run what the trace of its task has
  shown of it by each of its stages (`Earning`); the traces only grow, so what a verdict was earned
  with stays visible after the task has changed. A verdict is stamped with the task it is of, or with none.
* **The memory**: `MemoryKeepsLastHolds`. `MemoryInv` is `spoiled \/ MemoryGood`: until a failure, an
  overlapping promotion or two facts of one millisecond, times name facts (`TimesTell`), a call under the
  lock has read what is there, and the fact it is to write is the only one missing (`OwnPart`).
* **The meter**: `UndisturbedNeverBlocksHolds`, by `BudgetInv == ~disturbed => Orderly`: one process
  at a time, and each accounts for the difference between the meter and what is owed (`Accounts`).
* **Evidence packing**: `PackKeepsBudgetHolds`, for any pointers and budgets. That the ranking is one
  is a lemma on orders (`FoldLemmas`); each turn of the fold keeps what was picked in order, within
  budget, and has a reason for each pointer left out. With the meter: `ContextInBoundsHolds`.
* **The life of a task**: `TaskLifeKeptHolds`. `LifeInv == LifeShaped /\ (~crowded => Calm)`: until
  a creation meets another call, what each call is to write is what may replace what is there.
* **Boxes and briefs**: `BoxesFollowTraceHolds`, `BriefIsLatestHolds`, together `ProgressIsToldHolds`.
  For the boxes, what a call has in hand is in the trace, and is all of it when the call is alone
  (`TickPart`). For the briefs, what a compaction has learnt is not behind what was complete when it began,
  and no earlier brief of its task sorts after it (`Learnt`, `LatestTells`).
* **The matcher**: `MatchSegmentCovers` and `MatchGlobCovers`, for every glob and path of any length.
  The matcher's table solves equations that have one solution, since two would differ at a last place,
  and the places at which cuts can end solve them. On top of it `AnswersForItsOwnHolds`, for any personas,
  globs and paths.

What is sent out and comes back (`OrchestrationProofs`), again with no further condition:

* **Dependency gates**: `NoStatusLostHolds`, for any number of setters that wait, give up, die and cannot
  read. Whoever is between its read and its write holds the lock and has read what is on disk, or nothing
  (`HolderIsFresh`), and a pass about to be written had its prerequisites or is on record
  (`OrderWasChecked`). The file shows what was reported or pending (`FileKept`), so a prerequisite found
  passed in it was reported so.
* **Isolated runs**: `IsolatedRunKeepsWorkHolds`. Every worktree has an owner with its arguments
  (`TreesHaveOwners`), and what a run alone on them was promised is on the branch until it is in the
  diff (`KeptSoFar`).
* **Rollback**: `ResetIsRecoverableHolds`. While the list of stashes is untouched the recorded one is on
  it and the plan's target is its commit (`PlanIsOfTheStash`); and a script that goes on to the reset had
  found nothing in the tree (`ResetWasClean`).
* **Dispatch**: `DispatchChecksHoldAlways`, in every mode of the sequencing and of the floor.
* **Discovery**: `ReportCountsWholeSearchesHolds` and `ReturnsJoinedHolds`. The folds (partition, merge)
  are taken as traces: a fold goes through its steps one at a time (`FoldLemmas`), and each step keeps what
  is to be shown of the end. For the partition that every file dealt so far is in one place; for the merge
  that every claim taken so far is behind a cluster of its file. The ranking is a bijection because
  `Outranks` and `Ranks` are strict orders that leave nothing undecided. `IndexExact` and `MergeExact` say
  what the overlapping hooks keep until two of them meet, or a merge meets a second writer.
* **Approvals**: `ApprovedDigestOnlyHolds`, up to the doctor's first move. What a human's call will write
  later is approved already (`CallsAreApproved`), and a pinned commit that will not conflict is based on
  what is on disk (`PinnedIsFresh`).
* **The entry into the last gates**: `PrReadyIsBackedHolds`, for any tasks, criteria, policies and cap. A
  call nothing overtook is about the task there is, and each check behind it has left what its policy
  says (`EntryIsCurrent`, `Settled`); a context on disk was cut from the diff it tells (`GatheringInv`);
  the
  verdict on disk is what its task's latest review said, and was given on a context that told its change
  (`VerdictIsTheLatest`).
* **The scope contract**: `ScopeIsHonouredHolds`, for any tasks, plans and hooks, which overlap and die. A
  contract, written or on its way, holds nothing but tests and what the workers of its task named
  (`OnlyReturned`), so nor is the file an edit let through is judged by anything else; a hook that has run
  alone is the only one on its task, and past its first write the plan on disk is its own (`AloneIsAlone`),
  so what it leaves in `scope.md` is the plan.

The sums. `SessionMovesParts` and `OrchestrationMovesParts` show that a behaviour of a sum is a behaviour
of each of its parts, so every theorem above holds of the sums the runs check. `SessionTypeOKHolds` and
`OrchestrationTypeOKHolds` are the type invariants of all parts at once, with the bounds the guards name.

What the proofs assume of the constants is what the code or the host gives: the absent value of a file is
not one of its contents (`TreesAssumption`, `LifeAssumption`, `BriefAssumption`, `ReturnsAssumption`,
`ApprovalAssumption`, `LoopAssumption`), limits are numbers, positive where the configuration's schema or
the code says so (`PackingAssumption`, `ReturnsAssumption`, `BudgetAssumption`, `ScanAssumption`), globs
and paths are sequences of segments (`ReturnAssumption`), there is a task and a policy to speak of
(`PrAssumption`), a model's step names are no criteria (`ProgressAssumption`). TLC evaluates each on a
passing run. Where something is counted there are finitely many of it (agents, dispatches, strategies, the
files of a review); nothing bounds how many processes, calls, tasks, files or messages there are.

Only model-checked: liveness (`CallEnds`, `OrphanRecovered`, `CallsEnd`, `NoDeadEnd`). Fairness and
`ENABLED` are out of the prover's reach. No module declares a recursive operator: recursion is in functions
(`GlobMatch`) and in the folds of the community modules. `ApiInv` and `NoOverAdmission` are proved and
not run.

## Not modelled, and why

* **Which calls are edits.** The analysis of shell commands and of tool names in
  `lib/gate-guard-core.mjs` is text work; `EditGuard` takes a call's target as its input.
* **What a configuration turns on and is off by default** in `GateMachine`: `PrGate` and
  `Dispatch` have the checks on, without the machine around them.
* **backend-ready** (`lib/workflow/backend-ready.mjs`): its stale mark is never cleared (`:161`), and
  `assertBackendReadyBeforeTier5` has no caller but tests, so nothing of the running system depends on it.
* **The map-reduce of an evidence pack and evidence slices.** `addPointer` refuses beyond the cap, so an
  over-full pack, which is what the reduction is for, does not arise.
* **Workstream partitioning and dispatch texts** (`lib/workflow/lanes/feature.mjs`,
  `build-dispatch-payload.mjs`): derived text and tables without state.
* **Handoff files and telemetry reports**: what is written is modelled where something reads it back.
* **`migrateTaskState`, contract shape checks, configuration loading**: their verdicts are inputs.
* **Routing, skills, metadata, init, lint scripts, evaluations**: one-shot or stateless.

What would come next: that `Approvals` refines the part of `GateMachine` it opens up, and the roster's
dispatches composed with `Dispatch`, so that a theorem of one component can be cited of the other.

Hazards without a property, visible in the models or in the code: an empty lock file is never stale
(`lib/file-lock.mjs:282`); the artifacts without an owner (`lib/gate-preconditions.mjs:503`);
verification recorded before the implementation (`:654`); a malformed discovery return kept before it is
validated (`lib/workflow/gate-advance.mjs:316`); `gates.json` is not of one task; a ledger's lock nobody
recovers (`lib/memory/jsonl-lock.mjs:65`); a failed chunk of a git grep counts as no match
(`lib/discovery/scan.mjs`); a human gate that was entered and whose audit record fails is reported as not
entered (`lib/gatectl.mjs:227`); a roster entry left over by a lost stop speaks for another agent's
artifact (`lib/gate-guard-core.mjs:331`); the later files of an edit (`scripts/gate-guard.mjs:141`); a
review older than the branch it opens the gate for (`lib/workflow/pr-review.mjs:505`).
