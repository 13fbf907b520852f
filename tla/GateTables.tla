----------------------------- MODULE GateTables -----------------------------
(***************************************************************************)
(* The gate tables: lib/gate-transitions.mjs, the per-lane validity sets   *)
(* of lib/task-state.mjs, the auto-advance chains of                       *)
(* lib/workflow/gate-advance.mjs and the human gates of lib/gatectl.mjs.   *)
(***************************************************************************)
EXTENDS Integers, FiniteSets

Lanes == {"feature", "bug", "chore"}

VALID_GATES ==
  {"no-lane", "lane-set", "discovery-done", "grill-done", "plan-done", "plan-approved",
   "spec-draft", "spec-approved", "spec-invalidated", "impl-started",
   "verification-passed", "pr-ready", "done", "parked", "abandoned"}

Edge(from, event, to) == [from |-> from, event |-> event, to |-> to]

\* The implementation tail the feature and bug lanes share.
PrTail ==
  { Edge("impl-started", "pass-verification", "verification-passed"),
    Edge("verification-passed", "mark-pr-ready", "pr-ready"),
    Edge("pr-ready", "complete", "done") }

\* The edges each lane owns.
TRANSITIONS ==
  [feature |->
     { Edge("no-lane", "set-lane", "lane-set"),
       Edge("lane-set", "finish-discovery", "discovery-done"),
       Edge("discovery-done", "finish-grill", "grill-done"),
       Edge("grill-done", "finish-plan", "plan-done"),
       Edge("plan-done", "draft-spec", "spec-draft"),
       Edge("plan-approved", "draft-spec", "spec-draft"),
       Edge("spec-approved", "start-impl", "impl-started") } \cup PrTail,
   bug |->
     { Edge("no-lane", "set-lane", "lane-set"),
       Edge("lane-set", "finish-grill", "grill-done"),
       Edge("grill-done", "present-plan", "plan-approved"),
       Edge("plan-approved", "start-impl", "impl-started") } \cup PrTail,
   chore |->
     { Edge("no-lane", "set-lane", "lane-set"),
       Edge("lane-set", "present-plan", "plan-approved"),
       Edge("plan-approved", "start-impl", "impl-started"),
       Edge("impl-started", "pass-verification", "verification-passed"),
       Edge("verification-passed", "complete", "done"),
       Edge("pr-ready", "complete", "done") }]

\* Gates with a park edge.
PARKABLE_GATES == VALID_GATES \ {"no-lane", "done", "parked", "abandoned"}

\* The lane-agnostic steering edges.
STEERING ==
  { Edge(g, "park", "parked") : g \in PARKABLE_GATES }
  \cup { Edge(g, "abandon", "abandoned") : g \in PARKABLE_GATES \cup {"parked"} }
  \cup { Edge("spec-draft", "new-requirements", "grill-done"),
         Edge("impl-started", "revise-scope", "spec-draft"),
         Edge("impl-started", "re-plan", "plan-done") }

\* The lane-agnostic spine, as <<gate, successor>>.
LINEAR_SPINE ==
  { <<"no-lane", "lane-set">>, <<"lane-set", "discovery-done">>,
    <<"discovery-done", "grill-done">>, <<"grill-done", "plan-done">>,
    <<"plan-done", "spec-draft">>, <<"spec-draft", "spec-approved">>,
    <<"spec-draft", "spec-draft">>, <<"spec-approved", "spec-draft">>,
    <<"spec-invalidated", "spec-draft">> }

\* Every legal pair of any lane, the table advanceGate consults.
LEGAL_TRANSITIONS ==
  LINEAR_SPINE
  \cup { <<e.from, e.to>> : e \in (UNION {TRANSITIONS[l] : l \in Lanes}) \cup STEERING }
  \cup { <<"parked", g>> : g \in PARKABLE_GATES }

\* A lane's rows and targets, and the four gates every lane has.
LANE_AGNOSTIC_GATES == {"no-lane", "done", "parked", "abandoned"}

gatesValidForLane(lane) ==
  LANE_AGNOSTIC_GATES \cup UNION {{e.from, e.to} : e \in TRANSITIONS[lane]}

\* Mutant: pass-verification is in no chain, as before #168.
LANE_CHAINSNoVerification ==
  [feature |-> {"set-lane", "finish-discovery", "finish-grill", "finish-plan", "draft-spec"},
   bug     |-> {"set-lane", "finish-grill", "present-plan"},
   chore   |-> {"set-lane", "present-plan", "start-impl"}]

\* The events gate-advance may fire without a human.
LANE_CHAINS ==
  [feature |-> {"set-lane", "finish-discovery", "finish-grill", "finish-plan", "draft-spec",
                "pass-verification"},
   bug     |-> {"set-lane", "finish-grill", "present-plan", "pass-verification"},
   chore   |-> {"set-lane", "present-plan", "start-impl", "pass-verification"}]

HUMAN_APPROVAL_GATES == {"spec-approved", "pr-ready"}

TERMINAL_GATES == {"done", "abandoned"}

Events ==
  { e.event : e \in (UNION {TRANSITIONS[l] : l \in Lanes}) \cup STEERING } \cup {"resume"}
=============================================================================
