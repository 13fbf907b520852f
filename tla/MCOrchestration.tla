-------------------------- MODULE MCOrchestration --------------------------
(***************************************************************************)
(* What the orchestrator runs besides the gates: dispatches and the checks *)
(* on them, the discovery fan-out and what its workers return, the gates   *)
(* workstreams wait on, isolated worktrees and rollback, the approvals,    *)
(* the checks and the review before pr-ready, and the contract edits keep  *)
(* to.  They share no state, so each is explored on its own: the one that  *)
(* moves is chosen at the start.                                           *)
(***************************************************************************)
EXTENDS Dispatch, DiscoveryScan, DiscoveryReturns, DependencyGates, Worktrees, Rollback,
        Approvals, PrGate, ScopeContract

CONSTANTS
  Components,                            \* those explored
  n1, n2,                                \* strategies
  q1, q2,                                \* tasks that come to pr-ready
  o1, o2, h1, h2,                        \* tasks with a contract, hooks that write it
  g1, g2, g3,                            \* setters of a dependency gate
  x1, x2, b1, b2, p1, p2, w1, w2         \* worktree runs, branches, paths, work

VARIABLE moving

Claim(file, anchor, fact, conf) == [file |-> file, anchor |-> anchor, fact |-> fact, conf |-> conf]

\* One claim; an anchored and an unanchored one; two that a third is near to.
MCArtifacts ==
  { << Claim("f1", 1, 1, "low") >>,
    << Claim("f1", 0, 2, "low"), Claim("f2", 0, 1, "low") >>,
    << Claim("f1", 2, 3, "low"), Claim("f1", 0, 1, "high") >>,
    << Claim("f2", 1, 2, "high"), Claim("f1", 2, 1, "low"), Claim("f1", 1, 2, "low") >> }

\* Two policies that differ in both checks, and one that differs from each.
MCPolicies == { [ac |-> "block", review |-> "block"], [ac |-> "warn", review |-> "block"],
                [ac |-> "off", review |-> "warn"] }

\* A source file, one outside the workspace, a test and one outside.
MCPlans == { {1}, {3}, {2, 3} }

OrchestrationInit ==
  /\ moving \in Components
  /\ DispatchInit /\ ScanInit /\ ReturnsInit /\ DepInit /\ TreesInit /\ RollbackInit
  /\ ApprovalInit /\ ReviewInit /\ PrInit /\ ScopeInit

searchVars == <<scanVars, returnsVars>>
workVars == <<dispatchVars, depVars, treeVars, rollbackVars>>
gateVars == <<approvalVars, reviewVars, prVars, scopeVars>>

\* PrNext is explored in two parts.  A gathering, which reads no context, out
\* of every branch there is, edits meeting it and git failing, until one is
\* written:
ReviewExplored ==
  /\ context = NoContext
  /\ \/ (ReviewNext \/ EditBranch) /\ UNCHANGED prVars
     \/ Implement /\ UNCHANGED reviewVars

\* and the entries, with gatherings of the one branch by a git that works.
\* These come between entries, which read no context but by way of a review,
\* and of what else happens only the task's own moves come into them.
PrExplored ==
  \/ /\ Surroundings \/ EntryNext
     /\ gather = NotGathering \/ pr' # pr
     /\ UNCHANGED reviewVars
  \/ /\ entering = NotEntering
     /\ ReviewNext /\ UNCHANGED prVars
     /\ context' # context => context'.available /\ context'.cut = {}

\* ReturnsNext is explored without post-tool-use's copies, and with them for
\* returns of a single claim: what a copy tears is a file, whatever is in it.
ReturnsExplored ==
  /\ ReturnsNext
  /\ \/ \A d \in Dispatched : copy'[d] = "due"
     \/ \A d \in Dispatched : hook'[d].reply # NoReturn =>
          hook'[d].reply.artifact # NoReturn /\ Len(hook'[d].reply.artifact) = 1

OrchestrationNext ==
  /\ UNCHANGED moving
  /\ \/ /\ UNCHANGED <<workVars, gateVars>>
        /\ \/ moving = "scan" /\ ScanNext /\ UNCHANGED returnsVars
           \/ moving = "returns" /\ ReturnsExplored /\ UNCHANGED scanVars
     \/ /\ UNCHANGED <<searchVars, gateVars>>
        /\ \/ moving = "dispatch" /\ DispatchNext /\ UNCHANGED <<depVars, treeVars, rollbackVars>>
           \/ moving = "dependencies" /\ DepNext /\ UNCHANGED <<dispatchVars, treeVars, rollbackVars>>
           \/ moving = "worktrees" /\ TreesNext /\ UNCHANGED <<dispatchVars, depVars, rollbackVars>>
           \/ moving = "rollback" /\ RollbackNext /\ UNCHANGED <<dispatchVars, depVars, treeVars>>
     \/ /\ UNCHANGED <<searchVars, workVars>>
        /\ \/ moving = "approvals" /\ ApprovalNext /\ UNCHANGED <<reviewVars, prVars, scopeVars>>
           \/ moving = "review" /\ ReviewExplored /\ UNCHANGED <<approvalVars, scopeVars>>
           \/ moving = "pr" /\ PrExplored /\ UNCHANGED <<approvalVars, scopeVars>>
           \/ moving = "scope" /\ ScopeNext /\ UNCHANGED <<approvalVars, reviewVars, prVars>>

OrchestrationSpec ==
  OrchestrationInit /\ [][OrchestrationNext]_<<moving, searchVars, workVars, gateVars>>

OrchestrationTypeOK ==
  /\ moving = "dispatch"     => DispatchTypeOK
  /\ moving = "scan"         => ScanTypeOK
  /\ moving = "returns"      => ReturnsTypeOK
  /\ moving = "dependencies" => DepTypeOK
  /\ moving = "worktrees"    => TreesTypeOK
  /\ moving = "rollback"     => RollbackTypeOK
  /\ moving = "approvals"    => ApprovalTypeOK
  /\ moving = "review"       => ReviewTypeOK
  /\ moving = "pr"           => PrTypeOK
  /\ moving = "scope"        => ScopeTypeOK
=============================================================================
