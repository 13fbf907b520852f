------------------------------ MODULE PrReview ------------------------------
(***************************************************************************)
(* What pr-review gathers for the reviewer: the task's artifacts, the diff *)
(* of the branch, the list of changed files, and from those the signals of *)
(* how the change keeps to its plan (a feature) or its scope (a bug fix).  *)
(* Lists are cut to a cap, and the tree may be edited meanwhile.  Of a git *)
(* command that fails or times out only the output is looked at.           *)
(*                                                                         *)
(* Abstracted: a file is a number, git listing them in that order; a diff  *)
(* is the set of tracked files it touches, those renamed apart, since the  *)
(* base that was found (the context names it; without one, it is the empty *)
(* tree); artifacts that drive no signal are left out.                     *)
(***************************************************************************)
EXTENDS Naturals, FiniteSets

CONSTANTS
  PrFiles,        \* the files of the repository, numbers
  PlannedFiles,   \* those the plan or the scope names
  TestFiles,      \* those a TEST_GLOB matches
  MAX_LIST,       \* where a list is cut
  NoContext       \* no context was written

ASSUME PrReviewAssumption ==
  /\ PrFiles \subseteq Nat /\ IsFiniteSet(PrFiles)
  /\ PlannedFiles \subseteq PrFiles /\ TestFiles \subseteq PrFiles
  /\ MAX_LIST \in Nat \ {0}

VARIABLES
  branch,     \* the branch: whether the plan or scope of its task is on disk,
              \* its diff, the files untracked
  gather,     \* the gathering under way
  context     \* pr-review-context.json

reviewVars == <<branch, gather, context>>

NotGathering == [at |-> "idle"]

NoDiff == [edited |-> {}, renamed |-> {}]

\* A branch with work on it, every file edited.
ReviewInit ==
  /\ branch = [listed |-> FALSE, diff |-> [NoDiff EXCEPT !.edited = PrFiles], untracked |-> {}]
  /\ gather = NotGathering
  /\ context = NoContext

---------------------------------------------------------------------------
\* Every file a diff touches, and those --name-status is parsed to: a renamed
\* file goes by its new name.
Touched(diff) == diff.edited \cup UNION { {r[1], r[2]} : r \in diff.renamed }

parseNameStatus(diff) == diff.edited \cup { r[2] : r \in diff.renamed }

\* What may be read of a list from a command that fails or is killed.
CutShort(files) == {files} \cup { { f \in files : f < n } : n \in PrFiles }

capList(files) == {f \in files : Cardinality({g \in files : g < f}) < MAX_LIST}

alignmentSignals(lane, listed, changed) ==
  [ outOfScopeFiles |-> IF lane = "bug" /\ listed THEN capList(changed \ PlannedFiles) ELSE {},
    unlistedFiles |-> IF lane = "feature"
                      THEN capList(changed \ (IF listed THEN PlannedFiles ELSE {})) ELSE {},
    regressionTestPresent |-> changed \cap TestFiles # {} ]

\* finalize: what is written.
Finalized(available, diff, cut, changed, untracked) ==
  [ id |-> gather.id, lane |-> gather.lane, listed |-> gather.listed,
    available |-> available, diff |-> diff,
    changedFiles |-> capList(changed), untrackedFiles |-> capList(untracked),
    truncated |-> capList(changed) # changed \/ capList(untracked) # untracked,
    signals |-> alignmentSignals(gather.lane, gather.listed, changed),
    met |-> gather.met, cut |-> cut ]

\* The task and its artifacts are read.
GatherArtifacts(id, lane) ==
  /\ gather = NotGathering
  /\ gather' = [at |-> "repo", id |-> id, lane |-> lane, listed |-> branch.listed, met |-> FALSE]
  /\ UNCHANGED <<branch, context>>

\* Outside a work tree, or if git does not say it is inside one, there is
\* nothing to diff: the artifacts are written.
NoWorkTree ==
  /\ gather.at = "repo"
  /\ context' = Finalized(FALSE, NoDiff, {}, {}, {})
  /\ gather' = NotGathering
  /\ UNCHANGED branch

\* The diff, or what git put out of it until it failed: nobody asks which.
TakeDiff ==
  /\ gather.at = "repo"
  /\ LET Takes(diff, cut) ==
           gather' = [at |-> "names", id |-> gather.id, lane |-> gather.lane, listed |-> gather.listed,
                      met |-> gather.met, diff |-> diff, cut |-> cut]
     IN \/ Takes(branch.diff, {})
        \/ \E diff \in [edited : CutShort(branch.diff.edited), renamed : SUBSET branch.diff.renamed] :
             Takes(diff, {"diff"})
  /\ UNCHANGED <<branch, context>>

\* The changed files are listed anew, and with the untracked ones written: all
\* there are, or as many as a command that failed put out.
ListAndWrite ==
  /\ gather.at = "names"
  /\ LET names == parseNameStatus(branch.diff)
     IN \/ context' = Finalized(TRUE, gather.diff, gather.cut, names, branch.untracked)
        \/ \E changed \in CutShort(names) :
             context' = Finalized(TRUE, gather.diff, gather.cut \cup {"names"}, changed, branch.untracked)
        \/ \E untracked \in CutShort(branch.untracked) :
             context' = Finalized(TRUE, gather.diff, gather.cut, names, untracked)
  /\ gather' = NotGathering
  /\ UNCHANGED branch

\* A context that cannot be written leaves the one that was there.
WriteLost ==
  /\ gather.at \in {"repo", "names"}
  /\ gather' = NotGathering
  /\ UNCHANGED <<branch, context>>

GatherNext == NoWorkTree \/ TakeDiff \/ ListAndWrite \/ WriteLost

\* The user or an agent edits the branch; a gathering under way met it.
Edited(b) ==
  /\ branch' = b
  /\ gather' = IF gather = NotGathering THEN gather ELSE [gather EXCEPT !.met = TRUE]
  /\ UNCHANGED context

\* An edit of a renamed file may leave git nothing to tell the rename by.
EditBranch ==
  \/ \E f \in PrFiles \ branch.untracked :
       f \notin UNION { {r[1], r[2]} : r \in branch.diff.renamed }
         /\ Edited([branch EXCEPT !.diff.edited = IF f \in @ THEN @ \ {f} ELSE @ \cup {f}])
  \/ \E f, g \in PrFiles \ (Touched(branch.diff) \cup branch.untracked) :           \* git mv
       f # g /\ Edited([branch EXCEPT !.diff.renamed = @ \cup {<<f, g>>}])
  \/ \E r \in branch.diff.renamed :
       Edited([branch EXCEPT !.diff = [edited |-> @.edited \cup {r[1], r[2]},
                                       renamed |-> @.renamed \ {r}]])
  \/ \E f \in PrFiles \ (Touched(branch.diff) \cup branch.untracked) :
       Edited([branch EXCEPT !.untracked = @ \cup {f}])
  \/ \E f \in branch.untracked :                                                    \* git add
       Edited([branch EXCEPT !.untracked = @ \ {f}, !.diff.edited = @ \cup {f}])
  \/ ~branch.listed /\ Edited([branch EXCEPT !.listed = TRUE])

---------------------------------------------------------------------------
Signals == [ outOfScopeFiles : SUBSET PrFiles, unlistedFiles : SUBSET PrFiles,
             regressionTestPresent : BOOLEAN ]

Diffs == [edited : SUBSET PrFiles, renamed : SUBSET (PrFiles \X PrFiles)]

ReviewTypeOK ==
  /\ branch \in [listed : BOOLEAN, diff : Diffs, untracked : SUBSET PrFiles]
  /\ gather.at \in {"idle", "repo", "names"}
  /\ context = NoContext \/ context.signals \in Signals

\* A context whose gathering met no edit, and whose diff git gave whole, shows
\* the reviewer the change it is of, but for the old names of renamed files,
\* which it never lists.  It lists nothing else; and unless the listing was cut
\* short by a failing git, it names a file outside the plan (the scope, for a
\* bug fix that has one) exactly if there is one, however many were capped, it
\* tells whether there is a test, and lists all if it does not say truncated.
Tells(c) ==
  c.available /\ ~c.met /\ "diff" \notin c.cut =>
    LET names == parseNameStatus(c.diff)
        stray == c.signals.outOfScopeFiles \cup c.signals.unlistedFiles
        allowed == IF c.listed THEN PlannedFiles
                   ELSE IF c.lane = "bug" THEN PrFiles ELSE {}
    IN /\ c.changedFiles \subseteq names
       /\ stray \subseteq names \ allowed
       /\ c.signals.regressionTestPresent => names \cap TestFiles # {}
       /\ "names" \notin c.cut =>
            /\ (stray = {}) <=> (names \subseteq allowed)
            /\ c.signals.regressionTestPresent <=> (names \cap TestFiles # {})
            /\ ~c.truncated => c.changedFiles = names /\ stray = names \ allowed

ContextTellsTheDiff == context # NoContext => Tells(context)
=============================================================================
