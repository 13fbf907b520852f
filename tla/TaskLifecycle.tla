--------------------------- MODULE TaskLifecycle ---------------------------
(***************************************************************************)
(* Which task .devmate/state/task.json holds: a session start bootstraps   *)
(* one when there is none or a finished one, init-task-state one on        *)
(* request, `reset task` one in place of a file nobody can read.  Between  *)
(* them the hooks of the task commit to it.                                *)
(*                                                                         *)
(* writeTaskState and the hooks' commits take task.json's lock;            *)
(* persistBudget, which every creation ends with, does not, and all go     *)
(* through the one task.json.tmp.  (TaskState has the calls under the      *)
(* lock; the budget class, which changes no behaviour here, is left out.)  *)
(***************************************************************************)
EXTENDS Naturals, FiniteSets

CONSTANTS
  Sessions,     \* of the host; a session's id names its task (deriveTaskId)
  Calls,        \* processes
  NoTask,       \* no file; no session; no owner
  Torn          \* content that does not parse

VARIABLES
  taskFile,     \* task.json
  tmpFile,      \* task.json.tmp
  owner,        \* who holds task.json.lock
  call,
  holdings,     \* what is on disk under a task's id
  crowded       \* a creation has met another call

lifeVars == <<taskFile, tmpFile, owner, call, holdings, crowded>>

Gates == <<"no-lane", "live", "done">>      \* live: any gate in between
rank(gate) == CHOOSE i \in 1 .. 3 : Gates[i] = gate

\* pack: evidencePack has the pointer to the one file there is to read.
TaskDocs == [task : Sessions, gate : {"no-lane", "live", "done"}, pack : BOOLEAN]
IsDoc(content) == content \in TaskDocs

ASSUME LifeAssumption ==
  /\ NoTask \notin Sessions \cup Calls \cup TaskDocs
  /\ Torn \notin TaskDocs \cup {NoTask}
Creating == {"start", "init", "reset"}

LifeCalls ==
  [at : {"idle", "lock", "open", "fill", "rename", "budget", "quarantine", "move", "bootstrap"},
   kind : Creating \cup {"hook"}, session : Sessions \cup {NoTask},
   doc : TaskDocs \cup {NoTask}, kept : BOOLEAN, into : {"tmp", "file", "gone"}]

AtRest == [at |-> "idle", kind |-> "hook", session |-> NoTask, doc |-> NoTask,
         kept |-> FALSE, into |-> "tmp"]

LifeTypeOK ==
  /\ taskFile \in TaskDocs \cup {NoTask, Torn} /\ tmpFile \in TaskDocs \cup {NoTask, Torn}
  /\ owner \in Calls \cup {NoTask}
  /\ call \in [Calls -> LifeCalls]
  /\ holdings \in [Sessions -> SUBSET {"namespace", "flat"}]
  /\ crowded \in BOOLEAN

LifeInit ==
  /\ taskFile = NoTask /\ tmpFile = NoTask /\ owner = NoTask
  /\ call = [c \in Calls |-> AtRest]
  /\ holdings = [s \in Sessions |-> {}]
  /\ crowded = FALSE

FreshTask(s) == [task |-> s, gate |-> "no-lane", pack |-> FALSE]
Becomes(c, record) == call' = [call EXCEPT ![c] = record]
GoesTo(c, label) == call' = [call EXCEPT ![c].at = label]

-----------------------------------------------------------------------------
(* Who creates a task.                                                     *)

\* Mutant: a finished task is replaced by one under its own id.
BootstrapsSame(s) == taskFile = NoTask \/ (IsDoc(taskFile) /\ taskFile.gate = "done")

\* A live task, one of the same session and a file that does not parse are kept.
Bootstraps(s) ==
  \/ taskFile = NoTask
  \/ IsDoc(taskFile) /\ taskFile.gate = "done" /\ taskFile.task # s

\* The file is read before the lock; writeTaskState does not read it again.
bootstrapTaskState(c, kind, s) ==
  /\ Bootstraps(s)
  /\ Becomes(c, [call[c] EXCEPT !.at = "lock", !.kind = kind, !.session = NoTask,
                                !.doc = FreshTask(s)])
  /\ UNCHANGED <<taskFile, tmpFile, owner, holdings>>

SessionStart(c) == /\ call[c].at = "idle"
                   /\ \E s \in Sessions : bootstrapTaskState(c, "start", s)

\* init-task-state replaces whatever there is.
InitTaskState(c) ==
  /\ call[c].at = "idle"
  /\ \E s \in Sessions :
       Becomes(c, [AtRest EXCEPT !.at = "lock", !.kind = "init", !.doc = FreshTask(s)])
  /\ UNCHANGED <<taskFile, tmpFile, owner, holdings>>

\* reset task, of a session or without an id: only for a file that does not parse.
ResetTask(c) ==
  /\ call[c].at = "idle" /\ taskFile = Torn
  /\ \E s \in Sessions \cup {NoTask} :
       Becomes(c, [AtRest EXCEPT !.at = "quarantine", !.kind = "reset", !.session = s])
  /\ UNCHANGED <<taskFile, tmpFile, owner, holdings>>

\* Moves aside whatever is there by now; with nothing there it gives up.
Quarantine(c) ==
  /\ call[c].at = "quarantine"
  /\ IF taskFile = NoTask THEN Becomes(c, AtRest) ELSE GoesTo(c, "move")
  /\ taskFile' = NoTask
  /\ UNCHANGED <<tmpFile, owner, holdings>>

\* The session directory, the trace and the ledger of the reused id go too, each
\* as far as it can; the flat artifacts, though stamped with the id, stay.
moveAsideIfExists(c) ==
  /\ call[c].at = "move"
  /\ LET s == call[c].session
     IN  IF s = NoTask THEN Becomes(c, AtRest) /\ UNCHANGED holdings
         ELSE \E moved \in BOOLEAN :
                /\ Becomes(c, [call[c] EXCEPT !.at = "bootstrap", !.kept = ~moved])
                /\ holdings' = IF moved THEN [holdings EXCEPT ![s] = @ \ {"namespace"}] ELSE holdings
  /\ UNCHANGED <<taskFile, tmpFile, owner>>

ResetBootstraps(c) ==
  /\ call[c].at = "bootstrap"
  /\ \/ bootstrapTaskState(c, "reset", call[c].session)
     \/ /\ ~Bootstraps(call[c].session) /\ Becomes(c, AtRest)
        /\ UNCHANGED <<taskFile, tmpFile, owner, holdings>>

-----------------------------------------------------------------------------
(* A write: the lock, .tmp opened, filled and renamed.                     *)

HookBegins(c) ==
  /\ call[c].at = "idle" /\ IsDoc(taskFile)
  /\ Becomes(c, [AtRest EXCEPT !.at = "lock"])
  /\ UNCHANGED <<taskFile, tmpFile, owner, holdings>>

\* A gate moves on evidence; a read pointer is added unless the pack has it.
Commits(doc) ==
  {new \in TaskDocs :
     /\ new.task = doc.task
     /\ \/ /\ new.pack = doc.pack /\ doc.gate # "done" /\ holdings[doc.task] # {}
           /\ rank(new.gate) = rank(doc.gate) + 1
        \/ new.gate = doc.gate /\ new.pack /\ ~doc.pack}

\* A hook computes from what it reads under the lock; nothing to write ends it.
Acquire1(c) ==
  /\ call[c].at = "lock" /\ owner = NoTask
  /\ IF call[c].kind # "hook" THEN owner' = c /\ GoesTo(c, "open")
     ELSE IF IsDoc(taskFile) /\ Commits(taskFile) # {}
          THEN /\ owner' = c
               /\ \E new \in Commits(taskFile) : Becomes(c, [call[c] EXCEPT !.at = "open", !.doc = new])
          ELSE UNCHANGED owner /\ Becomes(c, AtRest)
  /\ UNCHANGED <<taskFile, tmpFile, holdings>>

\* Opening truncates; the file may be renamed under the writer's feet.
OpenTmp1(c) ==
  /\ call[c].at = "open"
  /\ tmpFile' = Torn
  /\ Becomes(c, [call[c] EXCEPT !.at = "fill", !.into = "tmp"])
  /\ UNCHANGED <<taskFile, owner, holdings>>

\* Two texts written to one file may mix.
FillTmp1(c) ==
  LET into == call[c].into
      shared == \E d \in Calls \ {c} : call[d].at \in {"fill", "rename"} /\ call[d].into = into
      written == {call[c].doc} \cup IF shared THEN {Torn} ELSE {}
  IN  /\ call[c].at = "fill"
      /\ tmpFile' \in IF into = "tmp" THEN written ELSE {tmpFile}
      /\ taskFile' \in IF into = "file" THEN written ELSE {taskFile}
      /\ GoesTo(c, "rename")
      /\ UNCHANGED <<owner, holdings>>

\* Fails when another's rename took .tmp.  After the state of a new task comes its
\* contract, without the lock.
Rename1(c) ==
  LET locked == owner = c
      lands == tmpFile # NoTask
      ends == IF lands /\ locked /\ call[c].kind # "hook"
              THEN [AtRest EXCEPT !.at = "budget", !.kind = "start"] ELSE AtRest
      follows(d) ==
        CASE lands /\ call[d].into = "tmp" /\ call[d].at \in {"fill", "rename"} ->
               [call[d] EXCEPT !.into = "file"]
          [] lands /\ call[d].into = "file" -> [call[d] EXCEPT !.into = "gone"]
          [] OTHER -> call[d]
  IN  /\ call[c].at = "rename"
      /\ taskFile' = IF lands THEN tmpFile ELSE taskFile
      /\ tmpFile' = NoTask
      /\ owner' = IF locked THEN NoTask ELSE owner
      /\ call' = [d \in Calls |-> IF d = c THEN ends ELSE follows(d)]
      /\ UNCHANGED holdings

\* persistBudget reads, without the lock, and writes back what it read.
persistBudget(c) ==
  /\ call[c].at = "budget"
  /\ Becomes(c, IF IsDoc(taskFile) THEN [call[c] EXCEPT !.at = "open", !.doc = taskFile] ELSE AtRest)
  /\ UNCHANGED <<taskFile, tmpFile, owner, holdings>>

\* Killed, or without the lock in time.  A dead owner's lock is reclaimed; what it
\* leaves in .tmp counts only while another call writes there.
CallDies(c) ==
  /\ call[c].at # "idle"
  /\ Becomes(c, AtRest)
  /\ owner' = IF owner = c THEN NoTask ELSE owner
  /\ tmpFile' = IF \E d \in Calls \ {c} : call[d].at \in {"fill", "rename"} THEN tmpFile ELSE NoTask
  /\ UNCHANGED <<taskFile, holdings>>

-----------------------------------------------------------------------------
(* The session's work, and an edit of task.json by hand.                   *)

Work ==
  /\ IsDoc(taskFile) /\ taskFile.gate # "done"
  /\ holdings' = [holdings EXCEPT ![taskFile.task] = {"namespace", "flat"}]
  /\ UNCHANGED <<taskFile, tmpFile, owner, call>>

HandEdit ==
  /\ IsDoc(taskFile)
  /\ taskFile' = Torn
  /\ UNCHANGED <<tmpFile, owner, call, holdings>>

Busy1(c) == call[c].at # "idle"
Meets == \E c, d \in Calls : c # d /\ Busy1(c) /\ Busy1(d) /\ call[c].kind \in Creating
Crowd == crowded' = ((\E c \in Calls : Busy1(c)') /\ (crowded \/ Meets'))

LifeNext ==
  /\ \/ \E c \in Calls :
          \/ SessionStart(c) \/ InitTaskState(c) \/ ResetTask(c) \/ HookBegins(c)
          \/ Quarantine(c) \/ moveAsideIfExists(c) \/ ResetBootstraps(c)
          \/ Acquire1(c) \/ OpenTmp1(c) \/ FillTmp1(c) \/ Rename1(c) \/ persistBudget(c)
          \/ CallDies(c)
     \/ Work \/ HandEdit
  /\ Crowd

LifeSpec == LifeInit /\ [][LifeNext]_lifeVars

-----------------------------------------------------------------------------
Requested == \E c \in Calls : call[c].kind = "init" /\ call[c].at = "rename" /\ owner = c

(***************************************************************************)
(* bootstrapTaskState: "a live task keeps its gate and its progress", and  *)
(* a finished one is not begun anew under its own id.  But for             *)
(* init-task-state and an edit by hand, whatever starts, commits, fails or *)
(* dies, no task goes back and only a finished one makes way to another,   *)
(* as long as no creation meets another call.                              *)
(***************************************************************************)
NoTaskGoesBack ==
  [][ IsDoc(taskFile) /\ ~crowded =>
        \/ HandEdit \/ Requested
        \/ /\ IsDoc(taskFile')
           /\ taskFile'.task # taskFile.task => taskFile.gate = "done"
           /\ taskFile'.task = taskFile.task => /\ rank(taskFile'.gate) >= rank(taskFile.gate)
                                                /\ taskFile.pack => taskFile'.pack ]_lifeVars

\* recoverCorruptState: the task a reset makes finds no session directory, trace
\* or ledger under its id, unless they could not be moved.
ResetLeavesNamespace ==
  [][ \A c \in Calls : ~crowded /\ owner = c /\ Rename1(c) /\ call[c].kind = "reset" /\ ~call[c].kept
        => "namespace" \notin holdings[call[c].doc.task] ]_lifeVars

\* A task's life: it goes forward, and begins without what an earlier one left.
TaskLifeKept == NoTaskGoesBack /\ ResetLeavesNamespace

\* "so the fresh task starts genuinely clean" (bootstrap-task-state.mjs:230): the
\* flat artifacts of the same id stay, and the ownership checks accept them.
ResetStartsClean ==
  [][ \A c \in Calls : ~crowded /\ owner = c /\ Rename1(c) /\ call[c].kind = "reset" /\ ~call[c].kept
        => holdings[call[c].doc.task] = {} ]_lifeVars
=============================================================================
