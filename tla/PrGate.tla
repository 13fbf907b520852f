------------------------------- MODULE PrGate -------------------------------
(***************************************************************************)
(* The last two gates of a task and the configured checks on them: that    *)
(* every acceptance criterion of spec.md is done according to the trace    *)
(* (entering verification-passed and pr-ready), and that a review of the   *)
(* task's own branch approved it (entering pr-ready).  A check is off,     *)
(* warns, which records what it found in the trace, or blocks.  The        *)
(* gate-advance hook enters the first and commits with a version pin, the  *)
(* human's "approve pr" the second and writes blindly; each check reads    *)
(* the configuration, the spec, the trace and the verdict on its own.  The *)
(* verdict is given on the context pr-review gathered (PrReview), of which *)
(* it takes task, lane and digest.  The check compares task and lane; that *)
(* the digest is of the tree there is now nothing looks at.                *)
(*                                                                         *)
(* Abstracted: the verification evidence (GateMachine has it); what a      *)
(* review says, to whether it approves; the record of a violation, to the  *)
(* call that made it.                                                      *)
(***************************************************************************)
EXTENDS PrReview

CONSTANTS
  PrTasks,       \* tasks, one after the other
  Criteria,      \* numbers of the acceptance criteria a spec may have
  Policies,      \* the configurations there are: a mode for each check
  NoVerdict,     \* pr-review-result.json is not there
  Unparseable    \* it is there and does not validate

\* What a review approved on: a context of a task and lane, and whether it told
\* the change.
Endorsements == [id : PrTasks, lane : {"feature", "bug"}, told : BOOLEAN]

ASSUME PrAssumption ==
  /\ PrTasks # {} /\ Policies # {}
  /\ NoVerdict \notin Endorsements

VARIABLES
  pr,          \* task.json: id, lane and gate
  policy,      \* devmate.config.json: mode of "ac" and "review"; an unreadable
               \* one is both "off"
  criteria,    \* those that parse from spec.md
  done,        \* per task, those its trace has completed
  verdict,     \* pr-review-result.json
  entering,    \* the call that enters a gate
  endorsed     \* history: per task, what its latest review approved on

prVars == <<pr, policy, criteria, done, verdict, entering, endorsed>>

NotEntering == [by |-> "nobody"]

FirstTask == CHOOSE t \in PrTasks : TRUE

PrInit ==
  /\ pr = [id |-> FirstTask, lane |-> "feature", gate |-> "no-lane"]
  /\ policy = CHOOSE p \in Policies : TRUE
  /\ criteria = {} /\ done = [t \in PrTasks |-> {}]
  /\ verdict = NoVerdict
  /\ entering = NotEntering
  /\ endorsed = [t \in PrTasks |-> NoVerdict]

---------------------------------------------------------------------------
(* What goes on around a call; one under way notices nothing, and the      *)
(* history notes that it was overtaken.                                    *)
Overtakes ==
  entering' = IF entering = NotEntering THEN entering ELSE [entering EXCEPT !.overtaken = TRUE]

EditConfig ==
  /\ \E p \in Policies \ {policy} : policy' = p
  /\ Overtakes
  /\ UNCHANGED <<pr, criteria, done, verdict, endorsed>>

EditSpec ==
  /\ \E c \in SUBSET Criteria : c # criteria /\ criteria' = c
  /\ Overtakes
  /\ UNCHANGED <<pr, policy, done, verdict, endorsed>>

CompleteCriterion ==
  /\ \E n \in criteria \ done[pr.id] : done' = [done EXCEPT ![pr.id] = @ \cup {n}]
  /\ Overtakes
  /\ UNCHANGED <<pr, policy, criteria, verdict, endorsed>>

\* The router's lane, and on to implementation (GateMachine has the way).
Implement ==
  /\ pr.gate = "no-lane"
  /\ \E lane \in {"feature", "bug"} : pr' = [pr EXCEPT !.lane = lane, !.gate = "impl-started"]
  /\ Overtakes
  /\ UNCHANGED <<policy, criteria, done, verdict, endorsed>>

\* The next session's task; the spec, the context and the verdict stay.
NextTask ==
  /\ pr.gate # "no-lane"
  /\ \E t \in PrTasks \ {FirstTask, pr.id} :
       pr' = [id |-> t, lane |-> "feature", gate |-> "no-lane"]
  /\ Overtakes
  /\ UNCHANGED <<policy, criteria, done, verdict, endorsed>>

Approved(c) == [id |-> c.id, lane |-> c.lane, told |-> c.available /\ Tells(c)]

\* The skill: the reviewer copies task, lane and digest from the context.  It
\* may write what does not validate, and must when the context has no diff: a
\* verdict without a digest is refused.
Review ==
  /\ context # NoContext
  /\ \/ /\ context.available
        /\ \E ok \in BOOLEAN :
             /\ verdict' = [id |-> context.id, lane |-> context.lane, approve |-> ok]
             /\ endorsed' = [endorsed EXCEPT ![context.id] = IF ok THEN Approved(context) ELSE NoVerdict]
     \/ verdict' = Unparseable /\ UNCHANGED endorsed
  /\ Overtakes
  /\ UNCHANGED <<pr, policy, criteria, done>>

---------------------------------------------------------------------------
(* Entering a gate                                                         *)
Entries == [hook |-> "verification-passed", human |-> "pr-ready"]

StartEntry ==
  /\ entering = NotEntering
  /\ \E by \in DOMAIN Entries :
       /\ pr.gate = IF by = "hook" THEN "impl-started" ELSE "verification-passed"
       /\ entering' = [by |-> by, base |-> pr, at |-> "ac", found |-> {}, recorded |-> {},
                       overtaken |-> FALSE, lost |-> FALSE]
  /\ UNCHANGED <<pr, policy, criteria, done, verdict, endorsed>>

\* The hook passes the task it read; advanceHumanGate passes none, so that
\* each check reads task.json again.
CheckedTask == IF entering.by = "hook" THEN entering.base.id ELSE pr.id

Uncovered ==
  IF criteria = {} THEN entering.base.lane = "feature" ELSE ~(criteria \subseteq done[CheckedTask])

\* Mutant: the verdict may be another task's.
AnyTasksVerdict ==
  \/ verdict \in {NoVerdict, Unparseable}
  \/ verdict.lane # entering.base.lane \/ ~verdict.approve

Unreviewed ==
  \/ verdict \in {NoVerdict, Unparseable}
  \/ verdict.id # CheckedTask
  \/ verdict.lane # entering.base.lane
  \/ ~verdict.approve

\* A failing check refuses, or warns: what it found goes to the trace, or is
\* lost with the append.
Checked(check, failing, next) ==
  IF ~failing \/ policy[check] = "off"
  THEN entering' = [entering EXCEPT !.at = next]
  ELSE \/ /\ policy[check] = "block"
          /\ entering' = [entering EXCEPT !.at = next, !.found = @ \cup {check}]
       \/ /\ policy[check] = "warn"
          /\ \/ entering' = [entering EXCEPT !.at = next, !.recorded = @ \cup {check}]
             \/ entering' = [entering EXCEPT !.at = next, !.lost = TRUE]

acCoveragePrecondition ==
  /\ entering # NotEntering /\ entering.at = "ac"
  /\ Checked("ac", Uncovered, IF entering.by = "hook" THEN "commit" ELSE "review")
  /\ UNCHANGED <<pr, policy, criteria, done, verdict, endorsed>>

prReviewPrecondition ==
  /\ entering # NotEntering /\ entering.at = "review"
  /\ Checked("review", Unreviewed, "commit")
  /\ UNCHANGED <<pr, policy, criteria, done, verdict, endorsed>>

\* A refusal, or the write: the hook's only on the version it read (it starts
\* over otherwise), the human's whatever happened since.
CommitEntry ==
  /\ entering # NotEntering /\ entering.at = "commit"
  /\ \/ /\ entering.found # {} /\ entering' = NotEntering /\ UNCHANGED pr
     \/ /\ entering.found = {}
        /\ IF entering.by = "hook" /\ pr # entering.base
           THEN /\ UNCHANGED pr
                /\ entering' = NotEntering
           ELSE /\ pr' = [entering.base EXCEPT !.gate = Entries[entering.by]]
                /\ entering' = NotEntering
  /\ UNCHANGED <<policy, criteria, done, verdict, endorsed>>

\* What the checks read changes, and a task comes to its last gates.
Surroundings == EditConfig \/ EditSpec \/ CompleteCriterion

EntryNext ==
  \/ Implement \/ NextTask \/ Review
  \/ StartEntry \/ acCoveragePrecondition \/ prReviewPrecondition \/ CommitEntry

\* scripts/pr-review, for the task there is when it starts.
ReviewNext == GatherArtifacts(pr.id, pr.lane) \/ GatherNext

PrNext ==
  \/ (Surroundings \/ EntryNext) /\ UNCHANGED reviewVars
  \/ (ReviewNext \/ EditBranch) /\ UNCHANGED prVars

PrSpec == PrInit /\ ReviewInit /\ [][PrNext]_<<prVars, reviewVars>>

---------------------------------------------------------------------------
Owned == [id : PrTasks, lane : {"feature", "bug"}, approve : BOOLEAN]

PrTypeOK ==
  /\ pr \in [ id : PrTasks, lane : {"feature", "bug"},
              gate : {"no-lane", "impl-started", "verification-passed", "pr-ready"} ]
  /\ policy \in Policies /\ criteria \subseteq Criteria
  /\ \A t \in PrTasks : done[t] \subseteq Criteria
  /\ verdict \in {NoVerdict, Unparseable} \cup Owned
  /\ \A t \in PrTasks : endorsed[t] \in {NoVerdict} \cup Endorsements

\* Whether the task at hand has each of what the two checks ask for.
Holds(check) ==
  IF check = "ac"
  THEN criteria \subseteq done[pr.id] /\ (pr.lane = "feature" => criteria # {})
  ELSE /\ verdict \notin {NoVerdict, Unparseable} /\ verdict.id = pr.id
       /\ endorsed[pr.id] = [id |-> pr.id, lane |-> pr.lane, told |-> TRUE]

\* The step that ends a call nothing overtook, and enters its gate.
Enters == /\ entering # NotEntering /\ entering' = NotEntering /\ ~entering.overtaken
          /\ pr' # pr

\* A call nothing overtook enters its gate on what the checks ask for: the
\* criteria of the spec done by this very task, and at pr-ready its own latest
\* review an approval, given on a context gathered for this task in this lane
\* that told the reviewer what the change touched (Tells has when it does, and
\* what it leaves out).  What is not there was let pass by a check that is off,
\* or that warned and left the violation in the trace unless the append failed;
\* and nothing is recorded of a check that holds.  Nothing is said of edits
\* after the context was gathered.
EntryIsBacked ==
  Enters =>
    \A check \in {"ac"} \cup (IF pr'.gate = "pr-ready" THEN {"review"} ELSE {}) :
      IF Holds(check) THEN check \notin entering.recorded
      ELSE \/ policy[check] = "off"
           \/ policy[check] = "warn" /\ (check \in entering.recorded \/ entering.lost)

\* Entering pr-ready under a blocking check means the task is done by its own
\* record, and its verdict is an approval given on its own context; and every
\* context pr-review writes tells its change as far as Tells says.
PrReadyIsBacked == [][EntryIsBacked /\ ContextTellsTheDiff']_<<prVars, reviewVars>>
=============================================================================
