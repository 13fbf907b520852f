----------------------------- MODULE Worktrees -----------------------------
(***************************************************************************)
(* worktree-exec: create a git worktree on a throwaway branch, wait for    *)
(* the worker in it to leave the sentinel file, save the branch's diff,    *)
(* and remove worktree and branch.  Runs overlap, their arguments are the  *)
(* caller's, and any git command may fail.                                 *)
(*                                                                         *)
(* Abstracted: a commit is the piece of work it records, and a diff the    *)
(* work it shows; that HEAD..branch also shows the commits made to the     *)
(* main branch since, undone, is left out.                                 *)
(***************************************************************************)
EXTENDS Integers

CONSTANTS
  Execs,             \* runs of worktree-exec
  Branches, Paths,   \* their arguments
  Work,              \* pieces of work a worker can do
  NoTree             \* nothing at a path; no such branch; no diff

ASSUME TreesAssumption == NoTree \notin Branches \cup Paths

VARIABLES
  trees,      \* the worktree at each path
  branches,   \* what each branch holds beyond the commit it was made from
  diffs,      \* evals/worktrees: the diff saved of each branch
  exec,       \* where each run is, its arguments and its exit code
  promised,   \* history: the work a run's worker had committed when it signalled
  mishap      \* history: the runs a git command failed for

treeVars == <<trees, branches, diffs, exec, promised, mishap>>

NewExec == [at |-> "idle", branch |-> NoTree, path |-> NoTree, code |-> 0]
NewTree(x) == [branch |-> exec[x].branch, owner |-> x, dirty |-> {}, sentinel |-> FALSE]

TreesInit ==
  /\ trees = [p \in Paths |-> NoTree]
  /\ branches = [b \in Branches |-> NoTree]
  /\ diffs = [b \in Branches |-> NoTree]
  /\ exec = [x \in Execs |-> NewExec]
  /\ promised = [x \in Execs |-> {}]
  /\ mishap = {}

To(x, at) == exec' = [exec EXCEPT ![x].at = at]
Exit(x, at, code) == exec' = [exec EXCEPT ![x].at = at, ![x].code = code]

---------------------------------------------------------------------------
StartExec(x, b, p) ==
  /\ exec[x].at = "idle"
  /\ exec' = [exec EXCEPT ![x] = [at |-> "create", branch |-> b, path |-> p, code |-> 0]]
  /\ UNCHANGED <<trees, branches, diffs, promised, mishap>>

\* git worktree add -b refuses a path or a branch that is there.
Addable(x) == trees[exec[x].path] = NoTree /\ branches[exec[x].branch] = NoTree

createIsolatedWorktree(x) ==
  /\ exec[x].at = "create" /\ Addable(x)
  /\ trees' = [trees EXCEPT ![exec[x].path] = NewTree(x)]
  /\ branches' = [branches EXCEPT ![exec[x].branch] = {}]
  /\ To(x, "wait")
  /\ UNCHANGED <<diffs, promised, mishap>>

\* It may fail for another reason too, with the branch already made.  What is
\* at the path is removed by force, whose ever it is; then the run ends.
CreateFails(x) ==
  /\ exec[x].at = "create"
  /\ trees' = [trees EXCEPT ![exec[x].path] = NoTree]
  /\ \/ UNCHANGED branches
     \/ Addable(x) /\ branches' = [branches EXCEPT ![exec[x].branch] = {}]
  /\ Exit(x, "done", 1)
  /\ mishap' = mishap \cup {x}
  /\ UNCHANGED <<diffs, promised>>

---------------------------------------------------------------------------
\* The worker, in the worktree made for it.
AtWork(x) == exec[x].path # NoTree /\ trees[exec[x].path] # NoTree /\ trees[exec[x].path].owner = x

EditFile(x, w) ==
  /\ AtWork(x)
  /\ w \notin trees[exec[x].path].dirty \cup branches[exec[x].branch]
  /\ trees' = [trees EXCEPT ![exec[x].path].dirty = @ \cup {w}]
  /\ UNCHANGED <<branches, diffs, exec, promised, mishap>>

Commit(x) ==
  /\ AtWork(x)
  /\ LET t == trees[exec[x].path]
     IN  /\ t.dirty # {} /\ branches[t.branch] # NoTree
         /\ branches' = [branches EXCEPT ![t.branch] = @ \cup t.dirty]
         /\ trees' = [trees EXCEPT ![exec[x].path].dirty = {}]
  /\ UNCHANGED <<diffs, exec, promised, mishap>>

Signal(x) ==
  /\ AtWork(x) /\ ~trees[exec[x].path].sentinel
  /\ trees' = [trees EXCEPT ![exec[x].path].sentinel = TRUE]
  /\ promised' = [promised EXCEPT ![x] = branches[exec[x].branch]]
  /\ UNCHANGED <<branches, diffs, exec, mishap>>

---------------------------------------------------------------------------
\* The sentinel is looked for once more at the deadline; either way a diff
\* is taken.
waitForCompletionSignal(x) ==
  /\ exec[x].at = "wait"
  /\ Exit(x, "diff", IF trees[exec[x].path] # NoTree /\ trees[exec[x].path].sentinel
                     THEN 0 ELSE 2)
  /\ UNCHANGED <<trees, branches, diffs, promised, mishap>>

\* Mutant: no diff is taken of a run that signalled while it was not clean.
ExtractCleanOnly(x) ==
  /\ exec[x].at = "diff"
  /\ LET b == exec[x].branch
     IN  /\ branches[b] # NoTree
         /\ diffs' = IF trees[exec[x].path] # NoTree /\ trees[exec[x].path].dirty = {}
                     THEN [diffs EXCEPT ![b] = branches[b]] ELSE diffs
  /\ To(x, "remove")
  /\ UNCHANGED <<trees, branches, promised, mishap>>

\* The branch is resolved now; one that is gone is an error.
extractDiff(x) ==
  /\ exec[x].at = "diff"
  /\ LET b == exec[x].branch
     IN  /\ branches[b] # NoTree
         /\ diffs' = [diffs EXCEPT ![b] = branches[b]]
  /\ To(x, "remove")
  /\ UNCHANGED <<trees, branches, promised, mishap>>

DiffFails(x) ==
  /\ exec[x].at = "diff"
  /\ Exit(x, "remove", 1)
  /\ mishap' = mishap \cup {x}
  /\ UNCHANGED <<trees, branches, diffs, promised>>

\* teardownWorktree: each of its two commands may fail, and it goes on.
RemoveTree(x) ==
  /\ exec[x].at = "remove"
  /\ \/ trees' = [trees EXCEPT ![exec[x].path] = NoTree] /\ UNCHANGED mishap
     \/ mishap' = mishap \cup {x} /\ UNCHANGED trees
  /\ To(x, "delete")
  /\ UNCHANGED <<branches, diffs, promised>>

\* git keeps a branch that is checked out in some worktree.
CheckedOut(b) == \E p \in Paths : trees[p] # NoTree /\ trees[p].branch = b

DeleteBranch(x) ==
  /\ exec[x].at = "delete"
  /\ \/ /\ ~CheckedOut(exec[x].branch)
        /\ branches' = [branches EXCEPT ![exec[x].branch] = NoTree]
        /\ UNCHANGED mishap
     \/ mishap' = mishap \cup {x} /\ UNCHANGED branches
  /\ To(x, "done")
  /\ UNCHANGED <<trees, diffs, promised>>

TreesNext ==
  \E x \in Execs :
       \/ \E b \in Branches, p \in Paths : StartExec(x, b, p)
       \/ createIsolatedWorktree(x) \/ CreateFails(x)
       \/ \E w \in Work : EditFile(x, w)
       \/ Commit(x) \/ Signal(x)
       \/ waitForCompletionSignal(x) \/ extractDiff(x) \/ DiffFails(x)
       \/ RemoveTree(x) \/ DeleteBranch(x)

TreesSpec == TreesInit /\ [][TreesNext]_treeVars

---------------------------------------------------------------------------
TreesTypeOK ==
  /\ \A p \in Paths : trees[p] # NoTree =>
       trees[p].owner \in Execs /\ trees[p].branch \in Branches /\ trees[p].dirty \subseteq Work
  /\ \A b \in Branches : branches[b] # NoTree => branches[b] \subseteq Work
  /\ \A x \in Execs :
       exec[x].at \in {"idle", "create", "wait", "diff", "remove", "delete", "done"}
  /\ mishap \subseteq Execs

Alone(x) ==
  \A y \in Execs \ {x} : exec[y].branch # exec[x].branch /\ exec[y].path # exec[x].path

(***************************************************************************)
(* A run whose branch and path are no other run's loses no work its worker *)
(* had committed when it signalled: once the run exits 0 all of it is in   *)
(* the saved diff.  Whatever its exit code, when no command failed it      *)
(* leaves neither worktree nor branch behind.                              *)
(***************************************************************************)
IsolatedRunKeepsWork ==
  \A x \in Execs : (exec[x].at = "done" /\ Alone(x)) =>
    /\ exec[x].code = 0 =>
         /\ diffs[exec[x].branch] # NoTree
         /\ promised[x] \subseteq diffs[exec[x].branch]
    /\ x \notin mishap => trees[exec[x].path] = NoTree /\ branches[exec[x].branch] = NoTree

(***************************************************************************)
(* What isolation.mjs:55 says of a failing create: it removes "a           *)
(* half-created worktree", that is never one a worker is at work in.       *)
(***************************************************************************)
CreateRemovesOnlyItsOwn ==
  [][\A x \in Execs : (exec[x].at = "create" /\ exec'[x].at = "done") =>
       trees[exec[x].path] = NoTree]_treeVars

=============================================================================
