--------------------------- MODULE ScopeContract ---------------------------
(***************************************************************************)
(* The contract that bounds a task's edits, scope.md: the gate-advance     *)
(* hook derives it from the plan (or diagnosis) a worker returned, beside  *)
(* the plan itself, and gate-guard asks it about every edit.  Hooks run in *)
(* processes of their own: two returns are projected side by side, a hook  *)
(* dies between its two writes, an edit is judged while they write.  An    *)
(* edit of several files is judged by the first it names.                  *)
(*                                                                         *)
(* Abstracted: paths and globs to the files they cover; the tests the      *)
(* configuration covers are added to every contract that is written while  *)
(* it is readable; which lane a contract names, which only its message     *)
(* tells; the other rules of gate-guard (EditGuard has them).              *)
(***************************************************************************)
EXTENDS Naturals, FiniteSets, Sequences

CONSTANTS
  Owners,        \* tasks, one after the other
  SourceFiles,   \* files a plan may name or an edit go to
  OutsideFiles,  \* those of them that resolve outside the workspace
  TestFloor,     \* those the test globs cover, wherever they resolve to
  Plans,         \* the sets of files a return may name
  Projectors,    \* gate-advance hooks that may run side by side
  MaxReturns,    \* bound: returns of workers in a behaviour
  MaxNamed,      \* bound: files one edit names
  NoContract,    \* a task has no scope.md
  Blank          \* its scope.md is open for writing: it reads as empty

ASSUME ScopeAssumption ==
  /\ OutsideFiles \subseteq SourceFiles /\ TestFloor \subseteq SourceFiles
  /\ Plans \subseteq SUBSET SourceFiles /\ MaxReturns \in Nat
  /\ MaxNamed \in Nat \ {0}
  /\ Owners # {} /\ \A files \in SUBSET SourceFiles : files \notin {NoContract, Blank}

VARIABLES
  owner,      \* task.json: the task, and whether its gate allows edits
  readable,   \* devmate.config.json loads
  planOf,     \* per task, the files of the plan.json or diagnosis.json last written
              \* for it
  scopeOf,    \* per task, the files scope.md covers
  projecting, \* per hook: the return it projects and how far it is
  edit,       \* the edit gate-guard judges
  plans,      \* how many returns there were
  returned,   \* history: per task, the files its workers named
  settled     \* history: per task, no hook died between its two writes and no
              \* two overlapped since one that ran alone wrote scope.md

scopeVars == <<owner, readable, planOf, scopeOf, projecting, edit, plans, returned,
               settled>>

NoEdit == [at |-> "idle"]
Resting == [at |-> "idle"]
FirstOwner == CHOOSE t \in Owners : TRUE

ScopeInit ==
  /\ owner = [id |-> FirstOwner, edits |-> FALSE]
  /\ readable = TRUE
  /\ planOf = [t \in Owners |-> NoContract] /\ scopeOf = [t \in Owners |-> NoContract]
  /\ projecting = [h \in Projectors |-> Resting]
  /\ edit = NoEdit
  /\ plans = 0
  /\ returned = [t \in Owners |-> {}]
  /\ settled = [t \in Owners |-> TRUE]

---------------------------------------------------------------------------
(* Projecting a plan                                                       *)

filterWorkspacePaths(files) == files \ OutsideFiles

Projecting(t, h) == projecting[h].at # "idle" /\ projecting[h].task = t
AtWorkOn(t) == \E h \in Projectors : Projecting(t, h)
Goes(h, where) == projecting' = [projecting EXCEPT ![h].at = where]
Rest(h) == projecting' = [projecting EXCEPT ![h] = Resting]

\* A planner's or a diagnose's return: task.json and the configuration are read.
PlanReturns(h) ==
  /\ projecting[h].at = "idle" /\ plans < MaxReturns
  /\ plans' = plans + 1
  /\ \E files \in Plans :
       /\ projecting' = [g \in Projectors |->
            IF g = h THEN [at |-> "plan", task |-> owner.id, files |-> files,
                           floor |-> IF readable THEN TestFloor ELSE {},
                           alone |-> ~AtWorkOn(owner.id)]
            ELSE IF Projecting(owner.id, g) THEN [projecting[g] EXCEPT !.alone = FALSE]
            ELSE projecting[g]]
       /\ returned' = [returned EXCEPT ![owner.id] = @ \cup files]
  /\ settled' = [settled EXCEPT ![owner.id] = @ /\ ~AtWorkOn(owner.id)]
  /\ UNCHANGED <<owner, readable, planOf, scopeOf, edit>>

PlanWritten(h) ==
  /\ projecting[h].at = "plan"
  /\ planOf' = [planOf EXCEPT ![projecting[h].task] = projecting[h].files]
  /\ Goes(h, "scope")
  /\ UNCHANGED <<owner, readable, scopeOf, edit, plans, returned, settled>>

\* What writeTaskScope hands to writeScope, and what is left of it.
Contract(h) == filterWorkspacePaths(projecting[h].files) \cup projecting[h].floor

\* writeScope refuses an empty contract, and the earlier one stays.
ScopeRefused(h) ==
  /\ projecting[h].at = "scope" /\ Contract(h) = {}
  /\ Rest(h)
  /\ UNCHANGED <<owner, readable, planOf, scopeOf, edit, plans, returned, settled>>

\* It is written in place: opened, then filled.
ScopeOpened(h) ==
  /\ projecting[h].at = "scope" /\ Contract(h) # {}
  /\ scopeOf' = [scopeOf EXCEPT ![projecting[h].task] = Blank]
  /\ Goes(h, "fill")
  /\ UNCHANGED <<owner, readable, planOf, edit, plans, returned, settled>>

ScopeWritten(h) ==
  /\ projecting[h].at = "fill"
  /\ scopeOf' = [scopeOf EXCEPT ![projecting[h].task] = Contract(h)]
  /\ Rest(h)
  /\ settled' = [settled EXCEPT ![projecting[h].task] = @ \/ projecting[h].alone]
  /\ UNCHANGED <<owner, readable, planOf, edit, plans, returned>>

HookDies(h) ==
  /\ projecting[h].at # "idle"
  /\ Rest(h)
  /\ settled' = [settled EXCEPT ![projecting[h].task] = FALSE]
  /\ UNCHANGED <<owner, readable, planOf, scopeOf, edit, plans, returned>>

---------------------------------------------------------------------------
(* Judging an edit                                                         *)

\* toolInputPaths: the files an edit names, in its order.
toolInputPaths == UNION {[1..n -> SourceFiles] : n \in 1..MaxNamed}

\* task.json is read; at a gate that allows no edit of a source file none is let
\* through (EditGuard).
EditAsked ==
  /\ edit = NoEdit /\ owner.edits
  /\ \E files \in toolInputPaths :
       edit' = [at |-> "asked", files |-> files, task |-> owner.id]
  /\ UNCHANGED <<owner, readable, planOf, scopeOf, projecting, plans, returned, settled>>

\* The file an edit is judged by, of all those its tool names.
firstToolInputPath(files) == files[1]
JudgedPath(e) == firstToolInputPath(e.files)

\* Rule 6: at a gate that allows edits, one that leaves the workspace is denied
\* first; then one without a contract, which a blank one is; then one the
\* contract does not cover.
editEscapesWorkspace(f) == f \in OutsideFiles
readScopeForTask(t) == IF scopeOf[t] = Blank THEN NoContract ELSE scopeOf[t]

\* Mutant: no contract, no check (#92).
LetsPassUnbound(e, contract) ==
  ~editEscapesWorkspace(JudgedPath(e)) /\ (contract = NoContract \/ JudgedPath(e) \in contract)

LetsPass(e, contract) ==
  /\ ~editEscapesWorkspace(JudgedPath(e))
  /\ contract # NoContract
  /\ JudgedPath(e) \in contract

EditJudged ==
  /\ edit.at = "asked"
  /\ edit' = IF LetsPass(edit, readScopeForTask(edit.task)) THEN [edit EXCEPT !.at = "allowed"]
             ELSE NoEdit
  /\ UNCHANGED <<owner, readable, planOf, scopeOf, projecting, plans, returned, settled>>

EditMade ==
  /\ edit.at = "allowed" /\ edit' = NoEdit
  /\ UNCHANGED <<owner, readable, planOf, scopeOf, projecting, plans, returned, settled>>

---------------------------------------------------------------------------
(* The task goes on, or the next one starts; the user edits the            *)
(* configuration.                                                          *)
ImplStarts ==
  /\ ~owner.edits
  /\ owner' = [owner EXCEPT !.edits = TRUE]
  /\ UNCHANGED <<readable, planOf, scopeOf, projecting, edit, plans, returned, settled>>

NextOwner ==
  /\ \E t \in Owners \ {FirstOwner, owner.id} : owner' = [id |-> t, edits |-> FALSE]
  /\ UNCHANGED <<readable, planOf, scopeOf, projecting, edit, plans, returned, settled>>

ConfigEdited ==
  /\ readable' = ~readable
  /\ UNCHANGED <<owner, planOf, scopeOf, projecting, edit, plans, returned, settled>>

ScopeNext ==
  \/ \E h \in Projectors :
       \/ PlanReturns(h) \/ PlanWritten(h) \/ ScopeRefused(h) \/ ScopeOpened(h)
       \/ ScopeWritten(h) \/ HookDies(h)
  \/ EditAsked \/ EditJudged \/ EditMade
  \/ ImplStarts \/ NextOwner \/ ConfigEdited

ScopeSpec == ScopeInit /\ [][ScopeNext]_scopeVars

---------------------------------------------------------------------------
Inside == SourceFiles \ OutsideFiles

ScopeTypeOK ==
  /\ owner \in [id : Owners, edits : BOOLEAN] /\ readable \in BOOLEAN
  /\ \A t \in Owners : /\ planOf[t] = NoContract \/ planOf[t] \subseteq SourceFiles
                       /\ scopeOf[t] \in {NoContract, Blank} \/ scopeOf[t] \subseteq SourceFiles
  /\ \A h \in Projectors : projecting[h].at \in {"idle", "plan", "scope", "fill"}
  /\ plans \in 0..MaxReturns
  /\ edit.at \in {"idle", "asked", "allowed"}

\* The file an edit let through names first is of the workspace, and a test or one
\* that a worker named for this very task, whatever is written while it is judged.
\* So an edit of one file stays in bounds; of the others it names none is judged.
EditsAreBounded ==
  edit.at = "allowed" => JudgedPath(edit) \in Inside \cap (TestFloor \cup returned[edit.task])

\* Where hooks neither overlapped nor died, the contract is the plan: once no
\* hook is at work on a task, its scope.md covers those of the latest plan's
\* files that lie in the workspace and beside them at most tests, so an edit the
\* plan names is let through and one it dropped is not; unless the plan named
\* nothing to bound.
ContractIsThePlan ==
  \A t \in Owners :
    settled[t] /\ ~AtWorkOn(t) /\ planOf[t] # NoContract
      => \/ planOf[t] \cap Inside = {}
         \/ /\ scopeOf[t] \notin {NoContract, Blank}
            /\ planOf[t] \cap Inside \subseteq scopeOf[t]
            /\ scopeOf[t] \subseteq (planOf[t] \cap Inside) \cup TestFloor

\* What a worker returned is what bounds the edits of its task.
ScopeIsHonoured == EditsAreBounded /\ ContractIsThePlan

\* "the file is absent": a plan that names nothing leaves no contract behind.
RefusalLeavesNone ==
  \A t \in Owners :
    settled[t] /\ ~AtWorkOn(t) /\ planOf[t] # NoContract
         /\ planOf[t] \cap Inside = {}
      => scopeOf[t] = NoContract
=============================================================================
