---------------------------- MODULE TaskProgress ----------------------------
(***************************************************************************)
(* The progress of an implementation: the acceptance criteria complete-ac  *)
(* records in the task's trace and ticks in spec.md, the plan resume and   *)
(* session start make of the trace, and the handoff left at a stop.        *)
(*                                                                         *)
(* The trace is the record and the boxes follow it.  Appends are whole     *)
(* lines (the append lock orders one process's own); spec.md is read and   *)
(* written whole, under no lock.                                           *)
(***************************************************************************)
EXTENDS Naturals, Sequences

CONSTANTS
  MaxAc,         \* the acceptance criteria are 1 .. MaxAc
  MaxEvents,     \* BOUND: lines of the trace
  MaxEdits,      \* BOUND: edits of spec.md
  Ticks,         \* calls of complete-ac
  GateStep,      \* the step of gate_transition and the other hooks' events
  WorkStep,      \* a step of the work outside the criteria, which may halt
  FreshStep,     \* the random step of a strategy change
  NoStep         \* nothing yet

ASSUME ProgressAssumption ==
  /\ MaxAc \in Nat /\ MaxEdits \in Nat /\ MaxEvents \in Nat \ {0}
  /\ {GateStep, WorkStep, FreshStep, NoStep} \cap (1 .. MaxAc) = {}

VARIABLES
  events,     \* the well-formed lines of <taskId>.jsonl
  malformed,  \* some other line is not
  text,       \* spec.md: its edits and its ticked boxes
  recorded,   \* the spec digest in task.json
  tick,       \* the complete-ac calls
  settled,    \* a call went through alone and nothing has happened since
  report      \* the resume plan or the handoff made of the trace as it is

progressVars == <<events, malformed, text, recorded, tick, settled, report>>

Acs == 1 .. MaxAc
ProgressSteps == Acs \cup {GateStep, WorkStep, FreshStep}
TraceEvents == [step : ProgressSteps, type : {"step_complete", "loop_halt", "other"}]
SpecTexts == [edits : 0 .. MaxEdits, ticked : SUBSET Acs]
Reports ==
  [action : {"blocked_halt", "already_complete", "confirm_needed", "proceed", "handoff"},
   next : ProgressSteps \cup {NoStep}, nextAc : Acs \cup {NoStep}]
TickCalls ==
  [at : {"append", "spec", "write", "digest", "over"},
   acs : SUBSET Acs, already : SUBSET Acs, seen : SpecTexts, alone : BOOLEAN]

ProgressTypeOK ==
  /\ events \in Seq(TraceEvents) /\ Len(events) <= MaxEvents
  /\ malformed \in BOOLEAN /\ settled \in BOOLEAN
  /\ text \in SpecTexts /\ recorded \in SpecTexts
  /\ \A c \in Ticks : tick[c] = NoStep \/ tick[c] \in TickCalls
  /\ report \in Reports \cup {NoStep}

Blank == [edits |-> 0, ticked |-> {}]

\* At impl-started: the gate's transitions are in the trace.
ProgressInit ==
  /\ events = << [step |-> GateStep, type |-> "other"] >>
  /\ malformed = FALSE
  /\ text = Blank /\ recorded = Blank
  /\ tick = [c \in Ticks |-> NoStep]
  /\ settled = FALSE
  /\ report = NoStep

-----------------------------------------------------------------------------
(* lib/trace/read-trace.mjs and lib/spec-progress.mjs.                     *)

Append1(step, type) ==
  /\ Len(events) < MaxEvents
  /\ events' = Append(events, [step |-> step, type |-> type])

Where(step, type) == { i \in DOMAIN events : events[i] = [step |-> step, type |-> type] }
Completed(step) == Where(step, "step_complete") # {}
Incomplete == { i \in DOMAIN events : ~Completed(events[i].step) }

\* Halted, and not completed since or before: the one with the latest event.
Halts == { i \in Incomplete : Where(events[i].step, "loop_halt") # {} }
currentBlocked ==
  IF Halts = {} THEN NoStep ELSE events[CHOOSE i \in Halts : \A j \in Halts : j <= i].step

firstIncompleteStep ==
  IF Incomplete = {} THEN NoStep
  ELSE events[CHOOSE i \in Incomplete : \A j \in Incomplete : i <= j].step

completedAcNumbers == { n \in Acs : Completed(n) }

nextAcNumber ==
  LET missing == Acs \ completedAcNumbers
  IN  IF missing = {} THEN NoStep
      ELSE CHOOSE n \in missing : \A m \in missing : n <= m

\* A box is ticked for a criterion complete in the trace, and none is unticked.
renderCheckedSpec(doc, done) == [doc EXCEPT !.ticked = @ \cup done]

-----------------------------------------------------------------------------
(* scripts/complete-ac.mjs.                                                *)

Over == [at |-> "over", acs |-> {}, already |-> {}, seen |-> Blank, alone |-> FALSE]
TickRunning(c) == tick[c] \notin {NoStep, Over}
Disturbed ==
  [c \in Ticks |-> IF TickRunning(c) THEN [tick[c] EXCEPT !.alone = FALSE] ELSE tick[c]]
Unreported == report' = NoStep

Start(c) ==
  /\ tick[c] = NoStep
  /\ \E acs \in SUBSET Acs \ {{}} :
       tick' = [Disturbed EXCEPT ![c] = [at |-> "append", acs |-> acs, already |-> completedAcNumbers,
                                         seen |-> Blank, alone |-> ~\E d \in Ticks : TickRunning(d)]]
  /\ settled' = FALSE
  /\ UNCHANGED <<events, malformed, text, recorded>> /\ Unreported

\* One event per criterion not yet there; the first that fails ends the call,
\* those before it recorded and no box ticked.
AppendAc(c) ==
  /\ TickRunning(c) /\ tick[c].at = "append"
  /\ LET left == tick[c].acs \ tick[c].already
     IN  \/ /\ left = {}
            /\ tick' = [tick EXCEPT ![c].at = "spec"]
            /\ UNCHANGED events
         \/ \E n \in left :
              /\ Append1(n, "step_complete")
              /\ tick' = [tick EXCEPT ![c].already = @ \cup {n}]
         \/ /\ left # {}
            /\ tick' = [tick EXCEPT ![c] = Over]
            /\ UNCHANGED events
  /\ UNCHANGED <<malformed, text, recorded, settled>> /\ Unreported

ReadSpec(c) ==
  /\ TickRunning(c) /\ tick[c].at = "spec"
  /\ tick' = [tick EXCEPT ![c].seen = text, ![c].at = "write"]
  /\ UNCHANGED <<events, malformed, text, recorded, settled>> /\ Unreported

\* The whole text as it was read, the boxes of all that is complete ticked.
WriteSpec(c) ==
  /\ TickRunning(c) /\ tick[c].at = "write"
  /\ LET next == renderCheckedSpec(tick[c].seen, tick[c].already)
     IN  /\ text' = IF next = tick[c].seen THEN text ELSE next
         /\ tick' = [tick EXCEPT ![c].seen = next, ![c].at = "digest"]
  /\ UNCHANGED <<events, malformed, recorded, settled>> /\ Unreported

RecordDigest(c) ==
  /\ TickRunning(c) /\ tick[c].at = "digest"
  /\ recorded' = tick[c].seen
  /\ tick' = [tick EXCEPT ![c] = Over]
  /\ settled' = tick[c].alone
  /\ UNCHANGED <<events, malformed, text>> /\ Unreported

\* A process that dies, anywhere.
TickDies(c) ==
  /\ TickRunning(c)
  /\ tick' = [tick EXCEPT ![c] = Over]
  /\ UNCHANGED <<events, malformed, text, recorded, settled>> /\ Unreported

EditSpec ==
  /\ text.edits < MaxEdits
  /\ text' = [text EXCEPT !.edits = @ + 1]
  /\ tick' = Disturbed
  /\ settled' = FALSE
  /\ UNCHANGED <<events, malformed, recorded>> /\ Unreported

-----------------------------------------------------------------------------
(* The other writers of the trace.                                         *)

\* A hook's event, a halt of a step, a step done.
TraceOther ==
  /\ \/ Append1(WorkStep, "other") \/ Append1(WorkStep, "step_complete")
     \/ Append1(WorkStep, "loop_halt")
  /\ UNCHANGED <<malformed, text, recorded, tick, settled>> /\ Unreported

\* A line cut short, or one of the loop guard's, which have no stepId.
TraceMalformed ==
  /\ ~malformed /\ malformed' = TRUE
  /\ UNCHANGED <<events, text, recorded, tick, settled>> /\ Unreported

-----------------------------------------------------------------------------
(* lib/resume/plan.mjs, by resume and by session start.                    *)

\* With the criteria of task.json, when it has them.
buildResumePlan(declared) ==
  LET nextAc == IF declared THEN nextAcNumber ELSE NoStep
      done == Incomplete = {}
      corrected == done /\ currentBlocked = NoStep /\ nextAc # NoStep
  IN  [action |-> IF currentBlocked # NoStep THEN "blocked_halt"
                 ELSE IF corrected THEN "proceed"
                 ELSE IF done THEN "already_complete"
                 ELSE IF malformed THEN "confirm_needed"
                 ELSE "proceed",
       next |-> IF currentBlocked # NoStep THEN currentBlocked
                ELSE IF corrected THEN nextAc ELSE firstIncompleteStep,
       nextAc |-> nextAc]

Resume ==
  /\ \E declared \in BOOLEAN : report' = buildResumePlan(declared)
  /\ UNCHANGED <<events, malformed, text, recorded, tick, settled>>

\* --strategy-change on a halted step: an event of a step of its own.
appendStrategyChange ==
  /\ currentBlocked # NoStep
  /\ Append1(FreshStep, "step_complete")
  /\ UNCHANGED <<malformed, text, recorded, tick, settled>> /\ Unreported

\* captureHandoff at a stop: the blocked step of the trace.
captureHandoff ==
  /\ report' = [action |-> "handoff", next |-> currentBlocked, nextAc |-> NoStep]
  /\ UNCHANGED <<events, malformed, text, recorded, tick, settled>>

ProgressNext ==
  \/ \E c \in Ticks :
       Start(c) \/ AppendAc(c) \/ ReadSpec(c) \/ WriteSpec(c) \/ RecordDigest(c) \/ TickDies(c)
  \/ EditSpec \/ TraceOther \/ TraceMalformed
  \/ Resume \/ appendStrategyChange \/ captureHandoff

ProgressSpec == ProgressInit /\ [][ProgressNext]_progressVars

-----------------------------------------------------------------------------

(***************************************************************************)
(* complete-ac: the boxes follow the trace.  Whatever calls overlap, fail  *)
(* or die, no box is ticked for a criterion the trace has not got          *)
(* complete; and a call that met no other and no edit leaves every         *)
(* recorded criterion ticked, those of a call that failed before its boxes *)
(* too, and the recorded digest that of the text on disk.  (Two calls that *)
(* overlap may lose a tick, until the next.)                               *)
(***************************************************************************)
BoxesFollowTrace ==
  /\ text.ticked \subseteq completedAcNumbers
  /\ settled => text.ticked = completedAcNumbers /\ recorded = text

(***************************************************************************)
(* lib/resume/plan.mjs: "if acceptance criteria remain ... point resume at *)
(* the next criterion".  A plan that neither halts nor asks names the      *)
(* first criterion missing.  The code does not (the README's divergences):    *)
(* the correction waits for every step of the trace to be complete, and    *)
(* the step of a gate_transition never is.                                 *)
(***************************************************************************)
ResumeNamesNextAc ==
  report # NoStep /\ report.action \in {"proceed", "already_complete"} /\ report.nextAc # NoStep
    => report.next = report.nextAc
=============================================================================
