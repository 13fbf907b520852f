------------------------------ MODULE Rollback ------------------------------
(***************************************************************************)
(* The rollback script: plan from the stash recorded before the            *)
(* implementation, then reset the tree to the commit it was made on and    *)
(* pop it.  The developer works in the same repository meanwhile.          *)
(*                                                                         *)
(* Abstracted: a commit is its number; uncommitted changes, and what a     *)
(* stash holds, are sets of pieces of work.  No code of the plugin makes   *)
(* the stash, whose ref is a position in the list: it is there at first.   *)
(***************************************************************************)
EXTENDS Integers, Sequences, SequencesExt

CONSTANTS
  Edits,             \* pieces of work the developer does
  PreWork,           \* what the recorded stash holds
  MaxCommits,        \* bound: commits made meanwhile
  MaxStash           \* bound: entries of the stash list

ASSUME RollbackAssumption == MaxCommits \in Nat /\ MaxStash \in Nat \ {0} /\ PreWork \notin Edits

VARIABLES
  head,        \* the commit checked out
  stash,       \* the stash list, newest first
  tree,        \* uncommitted work
  rollback,    \* where the script is, its plan and its outcome
  kept,        \* history: what was uncommitted when the tree was looked at
  drifted      \* history: the stash list has changed

rollbackVars == <<head, stash, tree, rollback, kept, drifted>>

preImplStash == 1
Entry == [base |-> 0, work |-> {PreWork}]
NoTarget == -1

RollbackInit ==
  /\ head = 0 /\ tree = {} /\ stash = <<Entry>>
  /\ rollback = [at |-> "idle", target |-> NoTarget, dirty |-> {}, success |-> FALSE]
  /\ kept = {} /\ drifted = FALSE

exists == preImplStash <= Len(stash)

---------------------------------------------------------------------------
\* The developer.
Edit(w) ==
  /\ w \notin tree
  /\ tree' = tree \cup {w}
  /\ UNCHANGED <<head, stash, rollback, kept, drifted>>

CommitWork ==
  /\ tree # {} /\ head < MaxCommits
  /\ head' = head + 1 /\ tree' = {}
  /\ UNCHANGED <<stash, rollback, kept, drifted>>

StashPush ==
  /\ tree # {} /\ Len(stash) < MaxStash
  /\ stash' = <<[base |-> head, work |-> tree]>> \o stash
  /\ tree' = {} /\ drifted' = TRUE
  /\ UNCHANGED <<head, rollback, kept>>

StashDrop ==
  /\ stash # <<>>
  /\ stash' = Tail(stash) /\ drifted' = TRUE
  /\ UNCHANGED <<head, tree, rollback, kept>>

---------------------------------------------------------------------------
\* buildRollbackPlan: a git status that fails counts as clean, a rev-parse
\* that fails leaves no target.
buildRollbackPlan(statusOk, revOk) ==
  /\ rollback.at = "idle"
  /\ rollback' = [rollback EXCEPT !.at = "planned",
                                  !.dirty = IF statusOk THEN tree ELSE {},
                                  !.target = IF revOk /\ exists THEN stash[preImplStash].base
                                             ELSE NoTarget]
  /\ kept' = IF statusOk THEN tree ELSE {}
  /\ UNCHANGED <<head, stash, tree, drifted>>

Finish(success) == rollback' = [rollback EXCEPT !.at = "done", !.success = success]

\* Without --confirm, or with --dry-run, only the plan is shown.
ShowPlan ==
  /\ rollback.at = "planned"
  /\ Finish(FALSE)
  /\ UNCHANGED <<head, stash, tree, kept, drifted>>

\* Mutant: a dirty tree is not looked at.
ConfirmDirty ==
  /\ rollback.at = "planned"
  /\ IF ~exists THEN Finish(FALSE) ELSE rollback' = [rollback EXCEPT !.at = "reset"]
  /\ UNCHANGED <<head, stash, tree, kept, drifted>>

\* applyRollback up to the reset: the plan's dirty files, the stash again.
Confirm ==
  /\ rollback.at = "planned"
  /\ IF rollback.dirty # {} \/ ~exists THEN Finish(FALSE)
     ELSE rollback' = [rollback EXCEPT !.at = "reset"]
  /\ UNCHANGED <<head, stash, tree, kept, drifted>>

ResetHard ==
  /\ rollback.at = "reset" /\ rollback.target # NoTarget
  /\ head' = rollback.target /\ tree' = {}
  /\ rollback' = [rollback EXCEPT !.at = "pop"]
  /\ UNCHANGED <<stash, kept, drifted>>

\* git fails, and there was no target to reset to, or no such entry, or both.
GitFails ==
  /\ rollback.at \in {"reset", "pop"}
  /\ Finish(FALSE)
  /\ UNCHANGED <<head, stash, tree, kept, drifted>>

StashPop ==
  /\ rollback.at = "pop" /\ exists
  /\ tree' = tree \cup stash[preImplStash].work
  /\ stash' = RemoveAt(stash, preImplStash)
  /\ Finish(TRUE)
  /\ UNCHANGED <<head, kept, drifted>>

RollbackNext ==
  \/ \E w \in Edits : Edit(w)
  \/ CommitWork \/ StashPush \/ StashDrop
  \/ \E statusOk, revOk \in BOOLEAN : buildRollbackPlan(statusOk, revOk)
  \/ ShowPlan \/ Confirm \/ ResetHard \/ GitFails \/ StashPop

RollbackSpec == RollbackInit /\ [][RollbackNext]_rollbackVars

---------------------------------------------------------------------------
RollbackTypeOK ==
  /\ head \in 0..MaxCommits /\ tree \subseteq Edits \cup {PreWork}
  /\ Len(stash) <= MaxStash
  /\ rollback.at \in {"idle", "planned", "reset", "pop", "done"}
  /\ drifted \in BOOLEAN

(***************************************************************************)
(* The tree is only ever reset when nothing uncommitted was seen while the *)
(* plan was made, and, unless the stash list has changed, only to the      *)
(* commit the recorded stash was made on, with that stash still to pop.    *)
(***************************************************************************)
ResetIsRecoverable ==
  [][rollback.at = "reset" /\ rollback'.at = "pop" =>
       /\ kept = {}
       /\ ~drifted => head' = Entry.base /\ Contains(stash', Entry)]_rollbackVars

=============================================================================
