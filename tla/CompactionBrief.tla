-------------------------- MODULE CompactionBrief --------------------------
(***************************************************************************)
(* The brief a compaction leaves of the task, and the one a later session  *)
(* takes up.  A compaction reads task.json, then the task's trace, and     *)
(* writes a file of its own, named for the task and the millisecond; a     *)
(* resume takes the file whose name sorts last.  No lock is held, so       *)
(* compactions overlap each other, the work and a change of task.          *)
(*                                                                         *)
(* Abstracted: a trace is its steps completed and its other events, the    *)
(* decisions and halts a brief lists the same way; goal, constraints and   *)
(* pointers, which are of task.json as it was read, and the markdown copy, *)
(* are left out.  A task's id is a number, in the order of the names.  The *)
(* clock does not go back.                                                 *)
(***************************************************************************)
EXTENDS Naturals, Sequences

CONSTANTS
  BriefTasks,     \* the tasks, numbers in the order of their ids
  Compactions,    \* runs of compact-session, or of a breach's compaction
  MaxTrace,       \* BOUND: events of a task's trace
  MaxNow,         \* BOUND: milliseconds
  NoBrief         \* none

ASSUME BriefAssumption ==
  /\ BriefTasks \subseteq Nat /\ MaxTrace \in Nat /\ MaxNow \in Nat
  /\ NoBrief \notin [taskId : Nat, stamp : Nat, nextAction : Nat]

VARIABLES
  ongoing,      \* the id in task.json
  gone,         \* the tasks before
  traceOf,      \* each task's trace
  now,          \* Date.now()
  compaction,   \* the compactions
  halfway,      \* the .tmp files of briefs
  briefs,       \* the briefs in .devmate/state/compaction
  told,         \* history: the step completed when the last finished one began
  crossed       \* history: the tasks of which two compactions overlapped

briefVars == <<ongoing, gone, traceOf, now, compaction, halfway, briefs, told, crossed>>
briefFiles == <<halfway, briefs>>

TracedKinds == {"step_complete", "other"}
Briefs == [taskId : BriefTasks, stamp : 0 .. MaxNow, nextAction : 0 .. MaxTrace]

BriefTypeOK ==
  /\ ongoing \in BriefTasks /\ gone \subseteq BriefTasks \ {ongoing}
  /\ \A t \in BriefTasks : traceOf[t] \in Seq(TracedKinds) /\ Len(traceOf[t]) <= MaxTrace
  /\ now \in 0 .. MaxNow
  /\ \A p \in Compactions :
       /\ compaction[p].at \in {"idle", "trace", "write", "rename", "over"}
       /\ compaction[p].brief \in Briefs \cup {NoBrief}
       /\ compaction[p].begun \in 0 .. MaxTrace
  /\ halfway \subseteq Briefs /\ briefs \subseteq Briefs
  /\ told \in [BriefTasks -> 0 .. MaxTrace] /\ crossed \subseteq BriefTasks

Resting == [at |-> "idle", brief |-> NoBrief, begun |-> 0]
Finished == [Resting EXCEPT !.at = "over"]

BriefInit ==
  /\ ongoing \in BriefTasks
  /\ gone = {}
  /\ traceOf = [t \in BriefTasks |-> << >>]
  /\ now = 0
  /\ compaction = [p \in Compactions |-> Resting]
  /\ halfway = {} /\ briefs = {}
  /\ told = [t \in BriefTasks |-> 0] /\ crossed = {}

-----------------------------------------------------------------------------
(* The work goes on.                                                       *)

Traced ==
  /\ Len(traceOf[ongoing]) < MaxTrace
  /\ \E kind \in TracedKinds : traceOf' = [traceOf EXCEPT ![ongoing] = Append(@, kind)]
  /\ UNCHANGED <<ongoing, gone, now, compaction, briefFiles, told, crossed>>

NextTask ==
  /\ ongoing' \in BriefTasks \ (gone \cup {ongoing})
  /\ gone' = gone \cup {ongoing}
  /\ UNCHANGED <<traceOf, now, compaction, briefFiles, told, crossed>>

Later ==
  /\ now < MaxNow
  /\ now' = now + 1
  /\ UNCHANGED <<ongoing, gone, traceOf, compaction, briefFiles, told, crossed>>

-----------------------------------------------------------------------------
(* lib/context/compaction.mjs.                                             *)

\* The step last completed; 0, with none, is the default next action.
NextAction(trace) ==
  LET steps == { i \in DOMAIN trace : trace[i] = "step_complete" }
  IN  IF steps = {} THEN 0 ELSE CHOOSE i \in steps : \A j \in steps : j <= i

OfTask(t) ==
  { p \in Compactions : compaction[p].brief # NoBrief /\ compaction[p].brief.taskId = t }

\* buildCompactionArtifact reads task.json ...
CompactionBegins(p) ==
  /\ compaction[p].at = "idle"
  /\ compaction' = [compaction EXCEPT ![p] =
       [at |-> "trace", begun |-> NextAction(traceOf[ongoing]),
        brief |-> [taskId |-> ongoing, stamp |-> 0, nextAction |-> 0]]]
  /\ crossed' = IF OfTask(ongoing) = {} THEN crossed ELSE crossed \cup {ongoing}
  /\ UNCHANGED <<ongoing, gone, traceOf, now, briefFiles, told>>

\* ... and then the trace of the task it has found there.
buildCompactionArtifact(p) ==
  /\ compaction[p].at = "trace"
  /\ LET trace == traceOf[compaction[p].brief.taskId]
     IN  compaction' = [compaction EXCEPT ![p].at = "write",
                                          ![p].brief.nextAction = NextAction(trace)]
  /\ UNCHANGED <<ongoing, gone, traceOf, now, briefFiles, told, crossed>>

SameName(b, c) == b.taskId = c.taskId /\ b.stamp = c.stamp
Replaced(files, b) == { c \in files : ~SameName(b, c) } \cup {b}

\* writeCompactionArtifact: named for now, written beside, and renamed.  Two
\* of one task and millisecond share the names.
WriteTmpBrief(p) ==
  /\ compaction[p].at = "write"
  /\ LET b == [compaction[p].brief EXCEPT !.stamp = now]
     IN  /\ halfway' = Replaced(halfway, b)
         /\ compaction' = [compaction EXCEPT ![p].at = "rename", ![p].brief = b]
  /\ UNCHANGED <<ongoing, gone, traceOf, now, briefs, told, crossed>>

writeCompactionArtifact(p) ==
  /\ compaction[p].at = "rename"
  /\ \E b \in halfway :
       /\ SameName(b, compaction[p].brief)
       /\ halfway' = halfway \ {b}
       /\ briefs' = Replaced(briefs, b)
       /\ told' = [told EXCEPT ![b.taskId] = compaction[p].begun]
  /\ compaction' = [compaction EXCEPT ![p] = Finished]
  /\ UNCHANGED <<ongoing, gone, traceOf, now, crossed>>

\* A write that fails (the rename of a name another took away, too), or the
\* end of the process.
CompactionFails(p) ==
  /\ compaction[p].at \in {"trace", "write", "rename"}
  /\ compaction' = [compaction EXCEPT ![p] = Finished]
  /\ UNCHANGED <<ongoing, gone, traceOf, now, briefFiles, told, crossed>>

BriefNext ==
  \/ Traced \/ NextTask \/ Later
  \/ \E p \in Compactions :
       CompactionBegins(p) \/ buildCompactionArtifact(p) \/ WriteTmpBrief(p)
         \/ writeCompactionArtifact(p) \/ CompactionFails(p)

BriefSpec == BriefInit /\ [][BriefNext]_briefVars

-----------------------------------------------------------------------------
(* The resume, of scripts/resume.mjs and session start, changes nothing:   *)
(* it is the brief it finds.                                               *)

\* The order of the names: compaction-<taskId>-<stamp>.json.
SortsAfter(b, c) ==
  \/ b.taskId > c.taskId
  \/ b.taskId = c.taskId /\ b.stamp >= c.stamp

\* Mutant: the first of the sorted names is taken.
loadsFirst == CHOOSE b \in briefs : \A c \in briefs : SortsAfter(c, b)

loadCompactionArtifact == CHOOSE b \in briefs : \A c \in briefs : SortsAfter(b, c)

(***************************************************************************)
(* lib/context/compaction.mjs, lib/resume/plan.mjs: a resume that takes a  *)
(* brief of a task learns of every step completed before the task's last   *)
(* finished compaction began, whatever died on the way, unless two         *)
(* compactions of the task overlapped; and it takes one of its own task    *)
(* when there is one and no task of a later name has left any.             *)
(***************************************************************************)
BriefIsLatest ==
  briefs # {} =>
    LET b == loadCompactionArtifact
    IN  /\ b.taskId \notin crossed => b.nextAction >= told[b.taskId]
        /\ (\E c \in briefs : c.taskId = ongoing) => b.taskId >= ongoing

(***************************************************************************)
(* compaction.mjs:296 takes "the most recent" brief "by their timestamp    *)
(* suffix", and plan.mjs offers it as the brief of the task it resumes.    *)
(* The code does not (the README's divergences): the name begins with the  *)
(* task.                                                                   *)
(***************************************************************************)
BriefIsOwn == briefs # {} => loadCompactionArtifact.taskId = ongoing
=============================================================================
