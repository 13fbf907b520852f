----------------------------- MODULE MCSession -----------------------------
(***************************************************************************)
(* What the hooks and scripts of a session keep beside the gate: the       *)
(* subagent roster, the context budget and the evidence that is packed for *)
(* it, the verify loop, the memory, the task's progress, the briefs left   *)
(* of it and its life in task.json, and the judging of a worker's return.  *)
(* They share no state, so each is explored on its own: the one that moves *)
(* is chosen at the start.                                                 *)
(***************************************************************************)
EXTENDS SubagentRoster, ContextBudget, VerifyLoop, Memory, TaskProgress, TaskLifecycle,
        ReturnHook, CompactionBrief, EvidencePacking, TLC

CONSTANTS
  Components,                            \* those explored
  k1, k2, k3, g1, b1,                    \* dispatches and their writers
  h1, h2,                                \* tool results
  r1, r2, a1, a2, o1, o2,                \* runs, attempts and outputs
  c1, c2, c3, s1, s2,                    \* memory calls and their sources
  q1, q2,                                \* calls of complete-ac
  p1, p2,                                \* compactions
  A, B, l1, l2,                          \* sessions and their processes
  w1, w2, api, web                       \* workers and personas

VARIABLE moving

\* A spec-writer with an id, two fullstack workers without.
MCNameOf == [d \in Dispatches |-> IF d \in NoIds THEN "fullstack" ELSE "spec-writer"]

\* Source of two parts, a shared file, a test.
MCFiles == { <<<<"s">>, <<"a">>, <<"x">>>>, <<<<"s">>, <<"w">>, <<"x">>>>,
             <<<<"s">>, <<"a">>>>, <<<<"t">>, <<"a", "t">>>> }

\* Territories side by side; one below its repository; overlapping ones.
MCConfigs ==
  LET Globs(editable, offLimits, tests, root) ==
        [editableGlobs |-> editable, offLimitsGlobs |-> offLimits, testGlobs |-> tests, repo |-> root]
      SourceOf(part) == <<<<"s">>, <<part>>, Deep>>
      AnyTest == <<Deep, <<Star, "t">>>>
  IN  { api :> Globs({SourceOf("a")}, {}, {AnyTest}, <<>>)
          @@ web :> Globs({SourceOf("w")}, {AnyTest}, {}, <<>>),
        api :> Globs({<<<<"s">>, Deep>>}, {SourceOf("w")}, {AnyTest}, <<>>)
          @@ web :> Globs({<<<<One>>, <<Star, "x">>>>}, {}, {}, <<<<"s">>>>),
        api :> Globs({<<Deep, <<Star>>, <<"x">>>>}, {<<Deep, Deep, <<"a">>, <<Star>>>>}, {}, <<>>)
          @@ web :> Globs({<<Deep>>}, {<<<<Star, "s", Star>>, <<Star, "a">>>>}, {<<Deep, <<One, "t">>>>}, <<>>) }

\* A pointer of each kind: some lines, a whole file, a reversed range, and less
\* than the summary.
MCPointers ==
  LET Pointer(confidence, freshness, reason, path, lines, summary) ==
        [confidence |-> confidence, freshness |-> freshness, reason |-> reason,
         path |-> path, lines |-> lines, summary |-> summary]
  IN  { Pointer(1, 2, TRUE, 1, 2, 1), Pointer(1, 0, TRUE, 2, WholeFile, 2),
        Pointer(0, 1, TRUE, 1, -1, 3), Pointer(1, 1, FALSE, 2, 3, 1),
        Pointer(0, 0, FALSE, 3, 1, 3) }

MCBudgets ==
  [maxTokens : {-1, 0, 3, 5, 10}, maxSources : {0, 1, 3}, mode : {"additive", "subtractive"}]

SessionInit ==
  /\ moving \in Components
  /\ RosterInit /\ BudgetInit /\ LoopInit /\ MemoryInit /\ ProgressInit
  /\ LifeInit /\ ReturnInit /\ BriefInit /\ PackingInit
  /\ moving # "returns" => config = (CHOOSE c \in Configs : TRUE) /\ mode = "off"
  /\ moving # "brief" => ongoing = (CHOOSE t \in BriefTasks : TRUE)

SessionNext ==
  /\ UNCHANGED moving
  /\ \/ /\ moving = "roster" /\ RosterNext
        /\ UNCHANGED <<budgetVars, loopVars, memoryVars, progressVars, lifeVars,
                       returnVars, briefVars, plan>>
     \/ /\ moving = "budget" /\ BudgetNext
        /\ UNCHANGED <<rosterVars, loopVars, memoryVars, progressVars, lifeVars,
                       returnVars, briefVars, plan>>
     \/ /\ moving = "loop" /\ LoopNext
        /\ UNCHANGED <<rosterVars, budgetVars, memoryVars, progressVars, lifeVars,
                       returnVars, briefVars, plan>>
     \/ /\ moving = "memory" /\ MemoryNext
        /\ UNCHANGED <<rosterVars, budgetVars, loopVars, progressVars, lifeVars,
                       returnVars, briefVars, plan>>
     \/ /\ moving = "progress" /\ ProgressNext
        /\ UNCHANGED <<rosterVars, budgetVars, loopVars, memoryVars, lifeVars,
                       returnVars, briefVars, plan>>
     \/ /\ moving = "life" /\ LifeNext
        /\ UNCHANGED <<rosterVars, budgetVars, loopVars, memoryVars, progressVars,
                       returnVars, briefVars, plan>>
     \/ /\ moving = "returns" /\ ReturnNext
        /\ UNCHANGED <<rosterVars, budgetVars, loopVars, memoryVars, progressVars,
                       lifeVars, briefVars, plan>>
     \/ /\ moving = "brief" /\ BriefNext
        /\ UNCHANGED <<rosterVars, budgetVars, loopVars, memoryVars, progressVars,
                       lifeVars, returnVars, plan>>
     \/ /\ moving = "packing" /\ PackEvidence
        /\ UNCHANGED <<rosterVars, budgetVars, loopVars, memoryVars, progressVars,
                       lifeVars, returnVars, briefVars>>

SessionSpec ==
  SessionInit
    /\ [][SessionNext]_<<moving, rosterVars, budgetVars, loopVars, memoryVars, progressVars, lifeVars,
                         returnVars, briefVars, plan>>

SessionTypeOK ==
  /\ moving = "roster"   => RosterTypeOK
  /\ moving = "budget"   => BudgetTypeOK
  /\ moving = "loop"     => LoopTypeOK
  /\ moving = "memory"   => MemoryTypeOK
  /\ moving = "progress" => ProgressTypeOK
  /\ moving = "life"     => LifeTypeOK
  /\ moving = "returns"  => ReturnTypeOK
  /\ moving = "brief"    => BriefTypeOK
  /\ moving = "packing"  => PackingTypeOK

(***************************************************************************)
(* What the context keeps of the evidence, and of the size it has: the     *)
(* edits of a session nobody disturbed are not blocked, and the evidence   *)
(* loaded keeps to its budget (lib/context/context-meter.mjs,              *)
(* scripts/check-session-budget.mjs, lib/context/evidence-pack.mjs).       *)
(***************************************************************************)
ContextInBounds == UndisturbedNeverBlocks /\ PackKeepsBudget

(***************************************************************************)
(* What a later session is told of the work: the boxes of spec.md follow   *)
(* the trace, and the brief it takes is the latest of its task             *)
(* (scripts/complete-ac.mjs, lib/context/compaction.mjs,                   *)
(* lib/resume/plan.mjs).                                                   *)
(***************************************************************************)
ProgressIsTold == BoxesFollowTrace /\ BriefIsLatest
=============================================================================
