---------------------------- MODULE GateMachine ----------------------------
(***************************************************************************)
(* One task's way through the workflow gates: transitionGate and its       *)
(* artifact preconditions, the evidence-driven gate-advance hook, the      *)
(* human phrases of approval-listener, spec-integrity-guard and the        *)
(* gatectl CLI.  Every operation is one step; the files they read are what *)
(* workers, agents and earlier tasks have left on disk.                    *)
(*                                                                         *)
(* Abstracted: the content of an artifact, except whose it says it is and  *)
(* which spec it speaks of; config-gated checks (delegation floor, AC coverage,  *)
(* PR review) are off, as by default; currentStep.                         *)
(***************************************************************************)
EXTENDS GateTables

CONSTANTS
  Tasks, FirstTask,    \* task ids, one per session
  RouterLanes,         \* the lanes the router may answer with
  RouterGates,         \* the gates at which the router returns
  MaxSpec,             \* BOUND: texts of spec.md
  FreshPointers,       \* whether the resume pointer is rewritten for every park
  ReturningSessions,   \* whether an earlier session may come back
  MalformedReturns,    \* whether a worker may return something its contract rejects
  PhraseEvents,        \* the steering phrases the human uses
  CliEvents,           \* the events given to gatectl workflow set
  PreStamp,            \* the artifacts an earlier version left, which name no task
  ReadsFail,           \* whether persistVerifyResult may fail to read task.json
  None,                \* an absent file or value
  Nobody               \* the owner of an artifact that names no task

ASSUME TasksAssumption == FirstTask \in Tasks /\ None \notin Tasks
ASSUME RouterAssumption == RouterLanes \subseteq Lanes /\ RouterGates \subseteq VALID_GATES
ASSUME SpecAssumption == MaxSpec \in Nat
ASSUME NoneAssumption == None \notin 1 .. MaxSpec
ASSUME NobodyAssumption == Nobody \notin Tasks \cup {None}
ASSUME FlagAssumption ==
  {FreshPointers, ReturningSessions, MalformedReturns, ReadsFail} \subseteq BOOLEAN
ASSUME EventsAssumption ==
  PhraseEvents \subseteq {"revise-scope", "re-plan"} /\ CliEvents \subseteq Events

Workers == {"discovery", "grill", "critique"}

ASSUME PreStampAssumption == PreStamp \subseteq Workers

VARIABLES
  task,     \* task.json: taskId, lane, gate, and the recorded specDigest
  files,    \* the artifacts under .devmate
  hist      \* what happened to the current task, for the properties

vars == <<task, files, hist>>

Digests == 1 .. MaxSpec
TaskStates == [taskId : Tasks, lane : Lanes, gate : VALID_GATES, specDigest : Digests \cup {None}]
RouterResults == [confident : BOOLEAN]
Owners == Tasks \cup {Nobody}
VerifyResults == [taskId : Owners, passed : BOOLEAN, fresh : BOOLEAN, specDigest : Digests \cup {None}]
ASSUME AbsentAssumption == None \notin VerifyResults
Specs == [text : Digests]
ResumePointers == [taskId : Tasks, gate : VALID_GATES]
Files ==
  [router : RouterResults \cup {None}, verify : VerifyResults \cup {None},
   spec : Specs \cup {None}, pointer : ResumePointers \cup {None},
   note : Tasks \cup {None}, discovery : Owners \cup {None},
   grill : Owners \cup {None}, critique : Owners \cup {None}]

Histories ==
  [signedOff : Digests \cup {None}, parkedAt : VALID_GATES \cup {None},
   produced : SUBSET (Workers \cup {"router", "verify"}), cleared : BOOLEAN,
   past : SUBSET Tasks]

\* task.json is always a state validateTaskState accepts.
Valid(s) == s.gate \in gatesValidForLane(s.lane)

TypeOK ==
  /\ task \in TaskStates
  /\ Valid(task)
  /\ files \in Files
  /\ hist \in Histories

FreshTask(t) == [taskId |-> t, lane |-> "feature", gate |-> "no-lane", specDigest |-> None]
FreshHist(past) ==
  [signedOff |-> None, parkedAt |-> None, produced |-> {}, cleared |-> FALSE, past |-> past]

\* What an upgrade finds of an artifact.
LeftOver(a) == IF a \in PreStamp THEN Nobody ELSE None

Init ==
  /\ task = FreshTask(FirstTask)
  /\ files = [router |-> None, verify |-> None, spec |-> None, pointer |-> None, note |-> None,
              discovery |-> LeftOver("discovery"), grill |-> LeftOver("grill"),
              critique |-> LeftOver("critique")]
  /\ hist = FreshHist({})

-----------------------------------------------------------------------------
(* The ghost history.                                                      *)

\* Gates before the human has signed the spec off.
DraftGates ==
  {"no-lane", "lane-set", "discovery-done", "grill-done", "plan-done", "plan-approved",
   "spec-draft", "spec-invalidated"}

\* signedOff: the text the human approved and that has not gone back to draft.
\* parkedAt: the gate last parked from.  cleared: verification-passed was
\* reached since implementation last started.
\* produced: who returned a sound result to this task.  past: the earlier tasks.
Moved(s, h) ==
  [h EXCEPT !.signedOff = IF s.gate \in DraftGates THEN None ELSE @,
            !.parkedAt = IF s.gate = "parked" THEN task.gate ELSE @,
            !.cleared = \/ s.gate = "verification-passed" /\ task.gate # "parked"
                        \/ @ /\ s.gate \notin DraftGates \cup {"impl-started"}]

\* writeTaskState refuses a state that is not valid.
Persist(s, h) ==
  IF Valid(s) THEN /\ task' = s
                   /\ hist' = IF s.gate = task.gate THEN h ELSE Moved(s, h)
  ELSE UNCHANGED task /\ hist' = h

-----------------------------------------------------------------------------
(* lib/gate-preconditions.mjs: what must be on disk to enter a gate.  f is *)
(* the disk, s the state asking; two checks read task.json itself.         *)

\* Mutant: existence and shape, never ownership.
AnyEvidence(a, s, f) == f[a] # None

\* requireArtifact refuses another task's artifact, and takes one that names none.
OwnEvidence(a, s, f) == f[a] \in {s.taskId, Nobody}

VerifyEvidence(s, f) ==
  /\ f.verify # None
  /\ f.verify.taskId \in {s.taskId, Nobody}
  /\ f.verify.passed
  /\ f.verify.fresh
  /\ f.verify.specDigest = task.specDigest

\* readResumePointer, and whose it is.
OwnPointer(s, f) == f.pointer # None /\ f.pointer.taskId = s.taskId

GatePrecondition(gate, s, f) ==
  CASE gate = "lane-set" -> f.router # None /\ f.router.confident
    [] gate = "discovery-done" -> OwnEvidence("discovery", s, f)
    [] gate = "grill-done" -> OwnEvidence("grill", s, f)
    [] gate = "plan-done" -> OwnEvidence("critique", s, f)
    [] gate \in {"spec-draft", "spec-approved"} -> f.spec # None
    [] gate = "impl-started" -> s.lane = "feature" => task.specDigest # None
    [] gate = "verification-passed" -> VerifyEvidence(s, f)
    [] gate = "parked" -> OwnPointer(s, f)
    [] OTHER -> TRUE

\* Of the event, whatever the gate: a scope change is captured first.
EventPrecondition(event, s, f) == event = "revise-scope" => f.note = s.taskId

Precondition(gate, event, s, f) ==
  GatePrecondition(gate, s, f) /\ EventPrecondition(event, s, f)

-----------------------------------------------------------------------------
(* transitionGate.                                                         *)

\* Mutant: resume may return to any gate one can park from (#20).
ResumeGatesAnywhere(s, f) == PARKABLE_GATES

\* resume returns to the gate the pointer names.
ResumeGates(s, f) ==
  IF OwnPointer(s, f) /\ f.pointer.gate \in PARKABLE_GATES THEN {f.pointer.gate} ELSE {}

NextGates(s, event, f) ==
  IF s.gate = "parked" /\ event = "resume" THEN ResumeGates(s, f)
  ELSE { e.to : e \in {x \in TRANSITIONS[s.lane] \cup STEERING :
                         x.from = s.gate /\ x.event = event} }

\* The states event may lead to: none when it is illegal or unproven.
transitionGate(s, event, f) ==
  { [s EXCEPT !.gate = g] : g \in {x \in NextGates(s, event, f) : Precondition(x, event, s, f)} }

-----------------------------------------------------------------------------
(* The gate-advance hook.                                                  *)

DIGEST_STAMPABLE_GATES == DraftGates

\* Mutant: the digest of an approved spec is restamped.
stampSpecDigestAlways(s, f) ==
  IF f.spec # None THEN [s EXCEPT !.specDigest = f.spec.text] ELSE s

stampSpecDigest(s, f) ==
  IF s.gate \in DIGEST_STAMPABLE_GATES /\ f.spec # None
  THEN [s EXCEPT !.specDigest = f.spec.text] ELSE s

\* One turn of the walk: the lane's chain event at this gate, when proven.
AdvanceOnce(s, f) ==
  LET next == UNION { transitionGate(s, e.event, f) :
                        e \in {x \in TRANSITIONS[s.lane] :
                                 x.from = s.gate /\ x.event \in LANE_CHAINS[s.lane]} }
  IN  IF next = {} THEN {s} ELSE next

\* The walk is bounded by the chain's length, at most six; where it stops, it
\* stays.
advanceAlongLane(s, f) ==
  LET Turn(S) == UNION { AdvanceOnce(x, f) : x \in S }
  IN  Turn(Turn(Turn(Turn(Turn(Turn({s}))))))

\* The hook's commit: the lane a router return resolved, the digest stamp, the
\* walk.
AdvanceFrom(s, f, h) ==
  \E n \in advanceAlongLane(stampSpecDigest(s, f), f) : Persist(n, h)

\* Any tool call runs the hook.
GateAdvance ==
  /\ AdvanceFrom(task, files, hist)
  /\ UNCHANGED files

\* A return its contract rejects is not written.  Discovery's artifact is the
\* merge of every return on disk, and a merge of rejected returns is valid.
Projects(a, sound) == sound \/ a = "discovery"

\* A return of discovery, grill or critique, stamped with the task's id.
WorkerReturns(a, sound) ==
  LET f == IF Projects(a, sound) THEN [files EXCEPT ![a] = task.taskId] ELSE files
      h == IF sound THEN [hist EXCEPT !.produced = @ \cup {a}] ELSE hist
  IN  /\ sound \/ MalformedReturns
      /\ files' = f
      /\ AdvanceFrom(task, f, h)

\* The router's return makes the lane known.
RouterReturns(lane, confident) ==
  LET f == [files EXCEPT !.router = [confident |-> confident]]
      h == [hist EXCEPT !.produced = @ \cup {"router"}]
  IN  /\ task.gate \in RouterGates
      /\ files' = f
      /\ AdvanceFrom([task EXCEPT !.lane = lane], f, h)

-----------------------------------------------------------------------------
(* Who writes spec.md.                                                     *)

NextText == IF files.spec = None THEN 1 ELSE files.spec.text + 1

\* The spec-writer agent, or a human in the editor.
EditSpec ==
  /\ NextText \in Digests
  /\ files' = [files EXCEPT !.spec = [text |-> NextText]]
  /\ UNCHANGED <<task, hist>>

\* approve no-tdd appends its note to spec.md.
ApproveNoTdd ==
  /\ files.spec # None
  /\ NextText \in Digests
  /\ files' = [files EXCEPT !.spec.text = NextText]
  /\ UNCHANGED <<task, hist>>

\* complete-ac ticks the boxes of the criteria the trace has complete, and records
\* the digest of the text it leaves, whoever else has edited it since the approval.
CompleteAc ==
  /\ files.spec # None
  /\ \/ /\ NextText \in Digests
        /\ files' = [files EXCEPT !.spec = [text |-> NextText]]
        /\ task' = [task EXCEPT !.specDigest = NextText]
     \/ /\ task' = [task EXCEPT !.specDigest = files.spec.text]
        /\ UNCHANGED files
  /\ UNCHANGED hist

\* spec-integrity-guard: an edit of the spec at spec-approved rolls it back.
SpecIntegrityGuard ==
  /\ task.gate = "spec-approved"
  /\ files.spec # None
  /\ files.spec.text # task.specDigest
  /\ Persist([task EXCEPT !.gate = "spec-draft", !.specDigest = files.spec.text], hist)
  /\ UNCHANGED files

-----------------------------------------------------------------------------
(* The human: the phrases of approval-listener.                            *)

\* Mutant: the fan-out of parked doubles as approval edges (#20).
HumanGateOpenParked(gate) ==
  /\ <<task.gate, gate>> \in LEGAL_TRANSITIONS
  /\ Precondition(gate, None, task, files)

\* advanceHumanGate: a legal edge of the flattened table, never out of parked,
\* with the target's precondition checked.
HumanGateOpen(gate) ==
  /\ task.gate # "parked"
  /\ <<task.gate, gate>> \in LEGAL_TRANSITIONS
  /\ Precondition(gate, None, task, files)

\* What the human says yes to is the spec on disk.
SignedOff == [hist EXCEPT !.signedOff = files.spec.text]

\* continueApprovedFeature: from spec-approved, with the metadata recorded.
Continued(s) ==
  IF s.gate = "spec-approved" /\ s.specDigest # None
  THEN transitionGate(s, "start-impl", files) ELSE {}

\* approve spec: the human gate, then the continuation, which may fail for
\* other reasons (no file list, no config) and is retried by the same phrase.
ApproveSpec ==
  LET approved == [task EXCEPT !.gate = "spec-approved"]
  IN  /\ task.gate # "impl-started"
      /\ \/ /\ task.gate # "spec-approved"
            /\ HumanGateOpen("spec-approved")
            /\ \E s \in {approved} \cup Continued(approved) : Persist(s, SignedOff)
         \/ /\ task.gate = "spec-approved"
            /\ \E s \in Continued(task) : Persist(s, hist)
      /\ UNCHANGED files

\* Mutant: approve plan takes the flattened table (advanceGate).
ApprovePlanFlattened ==
  /\ <<task.gate, "impl-started">> \in LEGAL_TRANSITIONS
  /\ Persist([task EXCEPT !.gate = "impl-started"], hist)
  /\ UNCHANGED files

ApprovePlan ==
  /\ \E s \in transitionGate(task, "start-impl", files) : Persist(s, hist)
  /\ UNCHANGED files

ApprovePr ==
  /\ task.gate # "pr-ready"
  /\ ~(task.gate = "verification-passed" /\ task.lane = "chore")
  /\ HumanGateOpen("pr-ready")
  /\ Persist([task EXCEPT !.gate = "pr-ready"], hist)
  /\ UNCHANGED files

\* revise scope: and re-plan:, feature lane and impl-started only.  The phrase
\* itself is the scope-change note.
SteeringPhrase(event) ==
  LET f == IF event = "revise-scope" THEN [files EXCEPT !.note = task.taskId] ELSE files
  IN  /\ event \in PhraseEvents
      /\ task.lane = "feature"
      /\ task.gate = "impl-started"
      /\ files' = f
      /\ \/ \E s \in transitionGate(task, event, f) : Persist(s, hist)
         \/ transitionGate(task, event, f) = {} /\ UNCHANGED <<task, hist>>

\* escalate chore to feature:.
EscalateChore ==
  /\ task.lane = "chore"
  /\ task.gate \in {"lane-set", "plan-approved", "impl-started", "verification-passed"}
  /\ Persist([task EXCEPT !.lane = "feature", !.gate = "plan-approved"], hist)
  /\ UNCHANGED files

-----------------------------------------------------------------------------
(* The gatectl CLI, run by the orchestrator.                               *)

\* workflow set <event>; an audit pair goes with an event into a human gate.
GatectlSet(event) ==
  /\ event \in CliEvents
  /\ event = "park" /\ FreshPointers =>
       files.pointer = [taskId |-> task.taskId, gate |-> task.gate]
  /\ \E s \in transitionGate(task, event, files) : Persist(s, hist)
  /\ UNCHANGED files

\* workflow approve <gate> carries the human's verbatim message.
GatectlApprove(gate) ==
  /\ HumanGateOpen(gate)
  /\ Persist([task EXCEPT !.gate = gate],
             IF gate = "spec-approved" THEN SignedOff ELSE hist)
  /\ UNCHANGED files

-----------------------------------------------------------------------------
(* Verification, the agents' own files, and the next session.              *)

\* persistVerifyResult: the verdict, an owner and a digest.
RecordVerdict(passed, owner, digest) ==
  /\ files' = [files EXCEPT !.verify = [taskId |-> owner, passed |-> passed,
                                        fresh |-> TRUE, specDigest |-> digest]]
  /\ hist' = [hist EXCEPT !.produced = @ \cup {"verify"}]
  /\ UNCHANGED task

\* Owner and digest are those of task.json, each read on its own; a read that fails
\* leaves it out.
Reads(value, absent) == IF ReadsFail THEN {value, absent} ELSE {value}

RunVerify(passed) ==
  \E owner \in Reads(task.taskId, Nobody), digest \in Reads(task.specDigest, None) :
    RecordVerdict(passed, owner, digest)

\* MAX_VERIFY_AGE_MS passes.
VerifyAges ==
  /\ files.verify # None
  /\ files.verify.fresh
  /\ files' = [files EXCEPT !.verify.fresh = FALSE]
  /\ UNCHANGED <<task, hist>>

\* The orchestrator persists the resume pointer before it parks.
WriteResumePointer ==
  /\ "park" \in CliEvents
  /\ task.gate \in PARKABLE_GATES
  /\ files' = [files EXCEPT !.pointer = [taskId |-> task.taskId, gate |-> task.gate]]
  /\ UNCHANGED <<task, hist>>

\* Mutant: a new session replaces whatever it finds.
NewSessionAlways(t) ==
  /\ task' = FreshTask(t)
  /\ hist' = FreshHist(hist.past \cup {task.taskId})
  /\ UNCHANGED files

\* bootstrapTaskState: a new session replaces a finished task; no file goes.
NewSession(t) ==
  /\ task.gate \in TERMINAL_GATES
  /\ t # task.taskId
  /\ ReturningSessions \/ t \notin hist.past
  /\ task' = FreshTask(t)
  /\ hist' = FreshHist(hist.past \cup {task.taskId})
  /\ UNCHANGED files

-----------------------------------------------------------------------------
Hooks ==
  \/ GateAdvance \/ SpecIntegrityGuard
  \/ \E a \in Workers, sound \in BOOLEAN : WorkerReturns(a, sound)
  \/ \E l \in RouterLanes, c \in BOOLEAN : RouterReturns(l, c)

Human ==
  \/ ApproveSpec \/ ApprovePlan \/ ApprovePr \/ ApproveNoTdd \/ EscalateChore
  \/ \E e \in PhraseEvents : SteeringPhrase(e)

Cli ==
  \/ \E e \in CliEvents : GatectlSet(e)
  \/ \E g \in HUMAN_APPROVAL_GATES : GatectlApprove(g)

Environment ==
  \/ EditSpec \/ VerifyAges \/ WriteResumePointer
  \/ \E p \in BOOLEAN : RunVerify(p)
  \/ \E t \in Tasks : NewSession(t)

\* All there is but complete-ac.
Others == Hooks \/ Human \/ Cli \/ Environment

Next == Others \/ CompleteAc

Spec == Init /\ [][Next]_vars

-----------------------------------------------------------------------------
(* Fairness: whoever the lane waits for eventually answers, soundly; every *)
(* tool call runs the hook, the verification's own call included; not every *)
(* read of task.json fails.                                                *)

Fairness ==
  /\ SF_vars(GateAdvance)
  /\ \A a \in Workers : WF_vars(WorkerReturns(a, TRUE))
  /\ \A l \in RouterLanes : WF_vars(RouterReturns(l, TRUE))
  /\ WF_vars(EditSpec) /\ WF_vars(ApproveSpec) /\ WF_vars(ApprovePlan) /\ WF_vars(ApprovePr)
  /\ WF_vars(RecordVerdict(TRUE, task.taskId, task.specDigest))
  /\ WF_vars(GatectlSet("complete"))

FairSpec == Spec /\ Fairness

-----------------------------------------------------------------------------
(* Properties.                                                             *)

\* Gates past the human's sign-off.
SignedGates == {"spec-approved", "impl-started", "verification-passed", "pr-ready", "done"}

\* A feature is never past the spec gate without a human having signed its
\* spec off since it was last in draft, by whatever phrases, events, parks,
\* resumes, escalations and hooks it got there (HITL-2, #58/#59).
ImplNeedsSignOff ==
  task.lane = "feature" /\ task.gate \in SignedGates => hist.signedOff # None

\* The worker whose result a gate is the proof of.
EvidenceFor(gate) ==
  CASE gate = "grill-done" -> {"grill"}
    [] gate = "plan-done" -> {"critique"}
    [] gate = "verification-passed" -> {"verify"}
    [] OTHER -> {}

\* The owner the result of a worker names.
OwnerNamed(w, f) == IF w # "verify" THEN f[w] ELSE IF f.verify = None THEN None ELSE f.verify.taskId

\* The gate an artifact proves is entered on this task's own, sound result, or on one
\* that names no task, which anybody's may be: what an earlier task left under its own
\* name in the same flat files never counts (requireArtifact).
EvidenceIsOwn ==
  \A w \in EvidenceFor(task.gate) : w \in hist.produced \/ OwnerNamed(w, files) = Nobody

\* No lane reaches the PR gate or done around verification-passed: not by an
\* approval at another gate, not through park and resume (#20).
NoSkippedVerification == task.gate \in {"pr-ready", "done"} => hist.cleared

\* A finished task is finished: no phrase, event, hook, script or session of its
\* own moves it (TERMINAL_GATES; bootstrapTaskState).
TerminalStays ==
  [][ task.gate \in TERMINAL_GATES
        => task'.taskId # task.taskId \/ (task'.gate = task.gate /\ task'.lane = task.lane) ]_vars

\* Some lane's task always gets done: no lane has a gate nothing leads out of
\* (#91, #168), unless its verification keeps going stale before the hook sees it.
NoDeadEnd == <>(task.gate = "done") \/ []<><<VerifyAges>>_vars

\* resume returns a task to the gate it was parked from (ResumePointer).
ResumeReturnsToParkedGate ==
  [][ task.gate = "parked" /\ task'.gate \notin {"parked", "abandoned"}
        => task'.gate = hist.parkedAt ]_vars

\* No gate is passed before this task's router has spoken: until then the lane
\* is a placeholder (the gate-advance hook).
NoAdvanceBeforeRouter == task.gate \notin {"no-lane", "abandoned"} => "router" \in hist.produced

\* From sign-off until the spec goes back to draft the recorded digest is a locked
\* contract: no hook, phrase, CLI event, park or resume restamps it, in place or with a
\* move of the gate (DIGEST_STAMPABLE_GATES); complete-ac alone does.
DigestLocked ==
  [][ task.lane = "feature" /\ hist.signedOff # None /\ hist'.signedOff # None
        => task'.specDigest = task.specDigest \/ ~Others ]_vars

\* Implementation of a feature is never under way without a recorded spec (the
\* impl-started precondition, HITL-2).
FeatureImplHasSpec ==
  task.lane = "feature" /\ task.gate \in {"impl-started", "verification-passed"}
    => task.specDigest # None

\* What the last gates stand on is there: the verification gate was passed, and
\* a feature is implemented on a recorded spec.
LateGatesAreBacked == NoSkippedVerification /\ FeatureImplHasSpec
=============================================================================
