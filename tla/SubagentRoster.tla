--------------------------- MODULE SubagentRoster ---------------------------
(***************************************************************************)
(* The sub-agents in flight: the count and the roster that                 *)
(* subagent-budget-guard keeps in task.json, session start's reset of      *)
(* both, and the identity gate-guard reads from the roster.                *)
(*                                                                         *)
(* A mutation under the lock is one step (TaskState shows it may be).      *)
(* Beside the guard, gate-advance commits whole documents under a version  *)
(* pin and the human gates write whole documents without one.  A host may  *)
(* repeat a start, lose a stop and die; a hook may fail to persist.        *)
(*                                                                         *)
(* Abstracted: an entry of the roster is the dispatch it names.            *)
(***************************************************************************)
EXTENDS Integers, FiniteSets

CONSTANTS
  Dispatches,           \* sub-agent dispatches of the host
  Names, NameOf,        \* agent names, and the name of each dispatch
  NoIds,                \* dispatches whose payload carries no agent_id
  maxConcurrentAgents,
  CasWriters,           \* one run of gate-advance each
  BlindWriters,         \* one human-gate or CLI write each
  FaultsMayHappen,      \* whether starts repeat, stops get lost, hooks fail
  None, Done            \* no reading yet, and a writer that has run

ASSUME NameAssumption == NameOf \in [Dispatches -> Names] /\ None \notin Names
ASSUME DispatchAssumption == IsFiniteSet(Dispatches)
ASSUME MaxAssumption == maxConcurrentAgents \in Nat \ {0}
ASSUME FaultAssumption == FaultsMayHappen \in BOOLEAN
ASSUME WriterAssumption ==
  CasWriters \cap BlindWriters = {} /\ "reconcile" \notin CasWriters \cup BlindWriters

\* A host that leaves the id out leaves it out for every dispatch of the agent.
ASSUME IdAssumption ==
  /\ NoIds \subseteq Dispatches
  /\ \A d \in NoIds, e \in Dispatches \ NoIds : NameOf[d] # NameOf[e]

VARIABLES
  doc,       \* task.json: version, activeSubagents, activeAgents
  pc,        \* where each dispatch is
  snap,      \* what each other writer has read, or None
  host,      \* the session: up, down, or in its SessionStart hook
  faults     \* what went wrong since the last reset, for the properties

rosterVars == <<doc, pc, snap, host, faults>>

Writers == CasWriters \cup BlindWriters \cup {"reconcile"}
Documents ==
  [stateVersion : Nat, activeSubagents : 0 .. maxConcurrentAgents, activeAgents : SUBSET Dispatches]

ASSUME SnapAssumption == None \notin Documents /\ Done \notin Documents /\ None # Done

RosterTypeOK ==
  /\ doc \in Documents
  /\ pc \in [Dispatches -> {"new", "starting", "running", "stopping", "over"}]
  /\ snap \in [Writers -> Documents \cup {None, Done}]
  /\ host \in {"up", "down", "starting"}
  /\ faults \subseteq {"lifecycle", "overwrite"}

RosterInit ==
  /\ doc = [stateVersion |-> 0, activeSubagents |-> 0, activeAgents |-> {}]
  /\ pc = [d \in Dispatches |-> "new"]
  /\ snap = [w \in Writers |-> None]
  /\ host = "up"
  /\ faults = {}

\* mutateTaskStateUnderLock: the mutator's result, under the next version.
Mutated(count, roster) ==
  [stateVersion |-> doc.stateVersion + 1, activeSubagents |-> count, activeAgents |-> roster]

-----------------------------------------------------------------------------
(* The roster.                                                             *)

\* A repeated id replaces its entry.
addActiveAgent(roster, d) == roster \cup {d}

\* Mutant: a stop without an entry of its own takes the first one.
removeFirst(roster, d) ==
  IF d \in roster \/ roster = {} THEN roster \ {d} ELSE roster \ {CHOOSE r \in roster : TRUE}

\* The dispatch's own entry; without an id, one of the same name.
removeActiveAgent(roster, d) ==
  IF d \in roster \/ d \notin NoIds THEN roster \ {d}
  ELSE roster \ {CHOOSE r \in Dispatches :
                   \/ r \in roster /\ NameOf[r] = NameOf[d]
                   \/ r = d /\ \A q \in roster : NameOf[q] # NameOf[d]}

\* Mutant: the first agent in flight speaks for all.
resolveAny(roster) ==
  IF roster = {} THEN None ELSE NameOf[CHOOSE d \in roster : TRUE]

\* The one name in flight; None when there is none or the set is mixed.
resolveActiveAgent(roster) ==
  IF \E d \in roster : \A e \in roster : NameOf[e] = NameOf[d]
  THEN NameOf[CHOOSE d \in roster : TRUE] ELSE None

-----------------------------------------------------------------------------
(* subagent-budget-guard.                                                  *)

Call(d) ==
  /\ host = "up"
  /\ pc[d] = "new"
  /\ pc' = [pc EXCEPT ![d] = "starting"]
  /\ UNCHANGED <<doc, snap, host, faults>>

AtCeiling == doc.activeSubagents >= maxConcurrentAgents

\* Check and increment are one mutation on the fresh document.
Admit(d) ==
  /\ pc[d] = "starting"
  /\ ~AtCeiling
  /\ doc' = Mutated(doc.activeSubagents + 1, addActiveAgent(doc.activeAgents, d))
  /\ pc' = [pc EXCEPT ![d] = "running"]
  /\ UNCHANGED <<snap, host, faults>>

\* The ceiling, or the lane's dispatch gate; the host blocks the dispatch.
Deny(d) ==
  /\ pc[d] = "starting"
  /\ pc' = [pc EXCEPT ![d] = "over"]
  /\ UNCHANGED <<doc, snap, host, faults>>

\* The write fails, or the host stops waiting for the hook: the start is
\* allowed and counted nowhere.
StartFails(d) ==
  /\ FaultsMayHappen
  /\ pc[d] = "starting"
  /\ pc' = [pc EXCEPT ![d] = "running"]
  /\ faults' = faults \cup {"lifecycle"}
  /\ UNCHANGED <<doc, snap, host>>

\* The start of a running dispatch is delivered again.
StartAgain(d) ==
  /\ FaultsMayHappen
  /\ pc[d] = "running"
  /\ ~AtCeiling
  /\ doc' = Mutated(doc.activeSubagents + 1, addActiveAgent(doc.activeAgents, d))
  /\ faults' = faults \cup {"lifecycle"}
  /\ UNCHANGED <<pc, snap, host>>

Finish(d) ==
  /\ pc[d] = "running"
  /\ pc' = [pc EXCEPT ![d] = "stopping"]
  /\ UNCHANGED <<doc, snap, host, faults>>

Stop(d) ==
  /\ pc[d] = "stopping"
  /\ doc' = Mutated(IF doc.activeSubagents > 0 THEN doc.activeSubagents - 1 ELSE 0,
                    removeActiveAgent(doc.activeAgents, d))
  /\ pc' = [pc EXCEPT ![d] = "over"]
  /\ UNCHANGED <<snap, host, faults>>

\* No stop arrives, or its write fails.
StopLost(d) ==
  /\ FaultsMayHappen
  /\ pc[d] = "stopping"
  /\ pc' = [pc EXCEPT ![d] = "over"]
  /\ faults' = faults \cup {"lifecycle"}
  /\ UNCHANGED <<doc, snap, host>>

-----------------------------------------------------------------------------
(* The other writers of task.json.                                         *)

Read(w) ==
  /\ host = "up"
  /\ snap[w] = None
  /\ snap' = [snap EXCEPT ![w] = doc]
  /\ UNCHANGED <<doc, pc, host, faults>>

\* gate-advance: what it read, with its own fields changed, if nobody wrote
\* since; else it reads again.
GateCommit(w) ==
  /\ snap[w] \in Documents
  /\ \/ /\ doc.stateVersion = snap[w].stateVersion
        /\ doc' = [snap[w] EXCEPT !.stateVersion = @ + 1]
        /\ snap' = [snap EXCEPT ![w] = Done]
     \/ /\ doc.stateVersion # snap[w].stateVersion
        /\ snap' = [snap EXCEPT ![w] = None]
        /\ UNCHANGED doc
  /\ UNCHANGED <<pc, host, faults>>

\* A human gate: what it read, with its own fields changed.
BlindWrite(w) ==
  /\ snap[w] \in Documents
  /\ doc' = snap[w]
  /\ snap' = [snap EXCEPT ![w] = Done]
  /\ faults' = IF snap[w] = doc THEN faults ELSE faults \cup {"overwrite"}
  /\ UNCHANGED <<pc, host>>

-----------------------------------------------------------------------------
(* The session.                                                            *)

Live == { d \in Dispatches : pc[d] \in {"running", "stopping"} }

\* The host dies or is closed; sub-agents and hooks do not outlive it, a CLI may.
SessionEnds ==
  /\ host = "up"
  /\ host' = "down"
  /\ pc' = [d \in Dispatches |-> IF pc[d] = "new" THEN "new" ELSE "over"]
  /\ snap' = [w \in Writers |-> IF w \in CasWriters /\ snap[w] # None THEN Done ELSE snap[w]]
  /\ faults' = IF Live = {} THEN faults ELSE faults \cup {"lifecycle"}
  /\ UNCHANGED doc

\* reconcileActiveSubagents, on what SessionStart reads.
SessionStarts ==
  /\ host = "down"
  /\ \/ /\ doc.activeSubagents > 0 \/ doc.activeAgents # {}
        /\ host' = "starting"
        /\ snap' = [snap EXCEPT !["reconcile"] = doc]
        /\ UNCHANGED faults
     \/ /\ doc.activeSubagents = 0 /\ doc.activeAgents = {}
        /\ host' = "up"
        /\ faults' = {}
        /\ UNCHANGED snap
  /\ UNCHANGED <<doc, pc>>

\* Mutant: the count is reset, the roster left.
ReconcileCountOnly ==
  /\ host = "starting"
  /\ doc' = [snap["reconcile"] EXCEPT !.activeSubagents = 0]
  /\ snap' = [snap EXCEPT !["reconcile"] = None]
  /\ host' = "up"
  /\ faults' = {}
  /\ UNCHANGED pc

Reconcile ==
  /\ host = "starting"
  /\ doc' = [snap["reconcile"] EXCEPT !.activeSubagents = 0, !.activeAgents = {}]
  /\ snap' = [snap EXCEPT !["reconcile"] = None]
  /\ host' = "up"
  /\ faults' = {}
  /\ UNCHANGED pc

\* The write fails; session start goes on.
ReconcileFails ==
  /\ FaultsMayHappen
  /\ host = "starting"
  /\ snap' = [snap EXCEPT !["reconcile"] = None]
  /\ host' = "up"
  /\ UNCHANGED <<doc, pc, faults>>

-----------------------------------------------------------------------------
RosterNext ==
  \/ \E d \in Dispatches :
       \/ Call(d) \/ Admit(d) \/ Deny(d) \/ StartFails(d) \/ StartAgain(d)
       \/ Finish(d) \/ Stop(d) \/ StopLost(d)
  \/ \E w \in CasWriters : Read(w) \/ GateCommit(w)
  \/ \E w \in BlindWriters : Read(w) \/ BlindWrite(w)
  \/ SessionEnds \/ SessionStarts \/ Reconcile \/ ReconcileFails

RosterSpec == RosterInit /\ [][RosterNext]_rosterVars

-----------------------------------------------------------------------------
(* Properties.                                                             *)

\* While no start or stop went missing or came twice, and no human gate wrote back
\* an older document, the count and the roster are exactly the sub-agents in
\* flight, whatever gate-advance writes beside them (#189, #198); a session start
\* makes them exact again (DN-6, #93).
RosterExact ==
  faults = {} => /\ doc.activeAgents = Live
              /\ doc.activeSubagents = Cardinality(Live)

\* Then no more run than maxConcurrentAgents, however the starts interleave.
NoOverAdmission == faults = {} => Cardinality(Live) <= maxConcurrentAgents

\* Then the name gate-guard attributes a tool call to is the caller's: whoever
\* is running has that name (resolveActiveAgent, Rule 4).
IdentityHonest ==
  faults = {} =>
    \A d \in Live : resolveActiveAgent(doc.activeAgents) \in {NameOf[d], None}

\* Even with starts and stops lost and repeated, an agent is struck off the
\* roster by its own stop or a session start only: "one stop removes one of them".
StopsOnlyItself ==
  [][ \A d \in Dispatches \ NoIds :
        d \in doc.activeAgents /\ d \notin doc'.activeAgents
          => pc[d] = "stopping" \/ host = "starting" \/ "overwrite" \in faults' ]_rosterVars
=============================================================================
