------------------------------ MODULE Dispatch ------------------------------
(***************************************************************************)
(* Which subagent may start when: the PreToolUse check of gate-guard and   *)
(* the SubagentStart check of subagent-budget-guard on an implementation   *)
(* dispatch, the order of analysis dispatches, the dispatch floors, and    *)
(* the guard on the result the orchestrator hands in.                      *)
(*                                                                         *)
(* Abstracted: the gate moves as the transition table and the lane allow   *)
(* (GateMachine has who moves it and on what); the trace is the set of     *)
(* agents it has a start of, since only that is ever asked; a result is    *)
(* its status and which of its parts are there.                            *)
(***************************************************************************)
EXTENDS GateTables

CONSTANTS
  SequencingMode,    \* dispatchSequencing: "off", "warn" or "block"
  FloorBlocks,       \* whether a missing floor dispatch blocks impl-started
  NoDispatch         \* nobody is being dispatched

ASSUME DispatchModeAssumption ==
  SequencingMode \in {"off", "warn", "block"} /\ FloorBlocks \in BOOLEAN

\* Names as the orchestrator may write them; "@backend" is one with a prefix.
Specialists == {"discovery", "tech-design", "rubber-duck", "planner", "spec-writer", "diagnose"}
IMPLEMENTATION_AGENTS == {"fullstack", "backend", "frontend", "editor"}
AgentNames == Specialists \cup IMPLEMENTATION_AGENTS \cup {"@backend"}

PERSONAS == {"frontend", "backend", "editor"}
resolvePersona(name) == IF name \in PERSONAS THEN "fullstack" ELSE name

\* Mutant: a prefix is kept.
AgentAsWritten(name) == resolvePersona(name)

normalizeDispatchedAgent(name) ==
  resolvePersona(IF name = "@backend" THEN "backend" ELSE name)
isImplementationDispatch(name) == normalizeDispatchedAgent(name) = "fullstack"

VARIABLES
  flow,        \* the task's lane and gate
  artifacts,   \* which of "spec" (its hash), "scope" and "diagnosis" are valid
  started,     \* the agents with a subagent_start in the task's trace
  dispatch,    \* the dispatch under way: its name and how far it is
  licensed     \* history: an implementation agent was let start, twice checked

dispatchVars == <<flow, artifacts, started, dispatch, licensed>>

NotDispatching == [name |-> NoDispatch, at |-> "idle"]

DispatchInit ==
  /\ flow = [lane |-> "feature", gate |-> "no-lane"]
  /\ artifacts = {} /\ started = {}
  /\ dispatch = NotDispatching
  /\ licensed = FALSE

---------------------------------------------------------------------------
LANE_IMPL_REQUIREMENTS ==
  [feature |-> {"spec", "scope"}, bug |-> {"diagnosis", "scope"}, chore |-> {"scope"}]

evaluateImplementationDispatch ==
  flow.gate = "impl-started" /\ LANE_IMPL_REQUIREMENTS[flow.lane] \subseteq artifacts

\* The lane's spine, a gate off which has no position.
LANE_GATE_ORDER ==
  [feature |-> <<"no-lane", "lane-set", "discovery-done", "grill-done", "plan-done", "spec-draft",
                 "spec-approved", "impl-started", "verification-passed", "pr-ready", "done">>,
   bug     |-> <<"no-lane", "lane-set", "grill-done", "plan-approved", "impl-started",
                 "verification-passed", "pr-ready", "done">>,
   chore   |-> <<"no-lane", "lane-set", "plan-approved", "impl-started",
                 "verification-passed", "done">>]

ANALYSIS_MIN_GATE ==
  { <<"rubber-duck", "discovery-done">>, <<"planner", "grill-done">>,
    <<"spec-writer", "plan-done">> }

Positions(lane, gate) ==
  {i \in DOMAIN LANE_GATE_ORDER[lane] : LANE_GATE_ORDER[lane][i] = gate}
gateAtLeast(lane, gate, required) ==
  \A i \in Positions(lane, gate), j \in Positions(lane, required) : i >= j

evaluateDispatchSequencing(name, lane, gate) ==
  lane = "feature" =>
    \A m \in ANALYSIS_MIN_GATE :
      m[1] = normalizeDispatchedAgent(name) => gateAtLeast(lane, gate, m[2])

\* What is refused before it starts.
Refused(name) ==
  IF isImplementationDispatch(name) THEN ~evaluateImplementationDispatch
  ELSE SequencingMode = "block" /\ ~evaluateDispatchSequencing(name, flow.lane, flow.gate)

---------------------------------------------------------------------------
GATE_DISPATCH_FLOOR ==
  [g \in {"discovery-done", "grill-done", "plan-done"} |->
     CASE g = "discovery-done" -> {"discovery", "tech-design"}
       [] g = "grill-done" -> {"rubber-duck"}
       [] g = "plan-done" -> {"planner"}]

assertDispatchFloor(gate) ==
  gate \in DOMAIN GATE_DISPATCH_FLOOR => GATE_DISPATCH_FLOOR[gate] \cap started # {}

LANE_DISPATCH_REQUIREMENTS ==
  [feature |-> {{"discovery", "tech-design"}, {"rubber-duck"}, {"planner"}},
   bug |-> {{"diagnose"}, {"rubber-duck"}},
   chore |-> {}]

missingLaneDispatches == {g \in LANE_DISPATCH_REQUIREMENTS[flow.lane] : g \cap started = {}}

\* A move of the lane: an event of its own, steering, the approval of its spec,
\* a resume; and it must be over its floor.
LegalMoves ==
  [lane \in Lanes |->
     { m \in { <<e.from, e.to>> : e \in TRANSITIONS[lane] \cup STEERING }
             \cup {<<"spec-draft", "spec-approved">>} \cup ({"parked"} \X PARKABLE_GATES) :
         m[2] \in gatesValidForLane(lane) }]
Legal(to) == <<flow.gate, to>> \in LegalMoves[flow.lane]
OverFloor(to) ==
  /\ assertDispatchFloor(to)
  /\ to = "impl-started" /\ FloorBlocks => missingLaneDispatches = {}

MoveGate(to) ==
  /\ to # flow.gate /\ Legal(to) /\ OverFloor(to)
  /\ flow' = [flow EXCEPT !.gate = to]
  /\ artifacts' = IF to = "spec-approved" THEN artifacts \cup {"spec"} ELSE artifacts
  /\ UNCHANGED <<started, dispatch, licensed>>

\* The lane is set once; the two files come and go.
SetLane(lane) ==
  /\ flow.gate = "no-lane"
  /\ flow' = [lane |-> lane, gate |-> "lane-set"]
  /\ UNCHANGED <<artifacts, started, dispatch, licensed>>

FileChanges(f) ==
  /\ artifacts' = IF f \in artifacts THEN artifacts \ {f} ELSE artifacts \cup {f}
  /\ UNCHANGED <<flow, started, dispatch, licensed>>

---------------------------------------------------------------------------
\* PreToolUse: a refused dispatch leaves no state behind.
PreToolUse(name) ==
  /\ dispatch = NotDispatching /\ ~Refused(name)
  /\ dispatch' = [name |-> name, at |-> "starting"]
  /\ UNCHANGED <<flow, artifacts, started, licensed>>

\* SubagentStart checks an implementation agent again, on the state by now.
SubagentStart ==
  /\ dispatch.at = "starting"
  /\ LET impl == isImplementationDispatch(dispatch.name)
     IN  IF impl /\ ~evaluateImplementationDispatch
         THEN dispatch' = NotDispatching /\ UNCHANGED licensed
         ELSE dispatch' = [dispatch EXCEPT !.at = "tracing"] /\ licensed' = (licensed \/ impl)
  /\ UNCHANGED <<flow, artifacts, started>>

\* The start goes on the trace once the roster is written, or does not: the
\* ceiling refused it, the roster write failed, or the hook ended.
TraceStart ==
  /\ dispatch.at = "tracing"
  /\ \/ started' = started \cup {normalizeDispatchedAgent(dispatch.name)}
     \/ UNCHANGED started
  /\ dispatch' = NotDispatching
  /\ UNCHANGED <<flow, artifacts, licensed>>

DispatchNext ==
  \/ \E to \in VALID_GATES : MoveGate(to)
  \/ \E lane \in Lanes : SetLane(lane)
  \/ \E f \in {"scope", "diagnosis"} : FileChanges(f)
  \/ \E name \in AgentNames : PreToolUse(name)
  \/ SubagentStart \/ TraceStart

DispatchSpec == DispatchInit /\ [][DispatchNext]_dispatchVars

---------------------------------------------------------------------------
\* The result guard.  A result: its status, and whether it names another agent,
\* has a pointer or payload, has a reason, and lacks the ids it was to report.
DispatchResults ==
  [status : {"ok", "blocked"}, misnamed : BOOLEAN, proof : BOOLEAN, reason : BOOLEAN,
   idsMissing : BOOLEAN]

ImplementationNames == {name \in AgentNames : isImplementationDispatch(name)}
OkResults == {r \in DispatchResults : r.status = "ok"}

assertDispatchResult(name, r) ==
  /\ resolvePersona(name) \in Specialists \cup {"fullstack"}
  /\ ~r.misnamed
  /\ IF r.status # "ok" THEN r.reason
     ELSE /\ resolvePersona(name) = "fullstack" => ~r.idsMissing
          /\ r.proof

\* Mutant: the aliases of fullstack are forgotten.
BackedByNameOnly(name) == name = "fullstack"

isTraceBackedResultAgent(name) == resolvePersona(name) = "fullstack"

assertDispatchResultBacked(name, r) ==
  /\ assertDispatchResult(name, r)
  /\ isTraceBackedResultAgent(name) /\ r.status = "ok" => resolvePersona(name) \in started

---------------------------------------------------------------------------
DispatchTypeOK ==
  /\ flow \in [lane : Lanes, gate : VALID_GATES]
  /\ artifacts \subseteq {"spec", "scope", "diagnosis"}
  /\ started \subseteq Specialists \cup {"fullstack"}
  /\ dispatch.at \in {"idle", "starting", "tracing"}
  /\ licensed \in BOOLEAN

(***************************************************************************)
(* An ok result of an implementation agent, under whatever name, is only   *)
(* accepted in a task in which one was let start at impl-started with the  *)
(* evidence of its lane: writing the result by hand is not enough.         *)
(***************************************************************************)
OkResultIsLicensed ==
  ~licensed =>
    \A name \in ImplementationNames, r \in OkResults : ~assertDispatchResultBacked(name, r)

(***************************************************************************)
(* The two checks never lock a task out together: when a floor holds back  *)
(* a move the lane allows, an agent that would clear it may be dispatched  *)
(* at the gate the task is at, however the task came there.                *)
(***************************************************************************)
FloorCanBeCleared ==
  \A to \in DOMAIN GATE_DISPATCH_FLOOR \cup {"impl-started"} : Legal(to) =>
    /\ ~assertDispatchFloor(to) =>
         \E name \in GATE_DISPATCH_FLOOR[to] : ~Refused(name)
    /\ (to = "impl-started" /\ FloorBlocks) =>
         \A g \in missingLaneDispatches : \E name \in g : ~Refused(name)

\* Starting, and accepting, implementation work: dispatch checks that hold
\* together.
DispatchChecksHold == OkResultIsLicensed /\ FloorCanBeCleared
=============================================================================
