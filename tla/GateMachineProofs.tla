-------------------------- MODULE GateMachineProofs --------------------------
(***************************************************************************)
(* Type correctness of the gate machine, and that no feature is past the   *)
(* spec gate without the human's sign-off.                                 *)
(***************************************************************************)
EXTENDS GateMachine, TLAPS

\* The resume pointer is rewritten for every park, and the router answers only
\* at no-lane.
Disciplined == FreshPointers /\ RouterGates \subseteq {"no-lane"}

\* The gate a task is at, or will resume to.
EffectiveGate == IF task.gate = "parked" THEN hist.parkedAt ELSE task.gate

SignedInv == task.lane = "feature" /\ EffectiveGate \in SignedGates => hist.signedOff # None

ParkedInv ==
  task.gate = "parked" => files.pointer = [taskId |-> task.taskId, gate |-> hist.parkedAt]

\* The inductive invariant.
GateInv == TypeOK /\ (Disciplined => SignedInv /\ ParkedInv)

\* What a state must be backed by to be persisted with history h.
Backed(s, h) == s.lane = "feature" /\ s.gate \in SignedGates => h.signedOff # None

-----------------------------------------------------------------------------
(* The tables.                                                             *)

\* An edge of a feature leads past the spec gate only from past it; nothing
\* but park leads to parked, nothing but abandon leads out.
LEMMA Edges ==
  ASSUME NEW lane \in Lanes, NEW e \in TRANSITIONS[lane] \cup STEERING
  PROVE  /\ e.from \in VALID_GATES /\ e.to \in VALID_GATES
         /\ lane = "feature" /\ e.to \in SignedGates => e.from \in SignedGates
         /\ e.to = "parked" => e.event = "park" /\ e.from # "parked"
         /\ e.from = "parked" => e.to = "abandoned"
  <1>1. CASE e \in STEERING
    BY <1>1 DEF STEERING, PARKABLE_GATES, VALID_GATES, Edge, SignedGates
  <1>2. CASE e \in TRANSITIONS[lane]
    <2>1. CASE lane = "feature"
      BY <1>2, <2>1 DEF TRANSITIONS, PrTail, VALID_GATES, Edge, SignedGates
    <2>2. CASE lane = "bug"
      BY <1>2, <2>2 DEF TRANSITIONS, PrTail, VALID_GATES, Edge, SignedGates
    <2>3. CASE lane = "chore"
      BY <1>2, <2>3 DEF TRANSITIONS, PrTail, VALID_GATES, Edge, SignedGates
    <2> QED BY <2>1, <2>2, <2>3 DEF Lanes
  <1> QED BY <1>1, <1>2

\* What the flattened table lets into a human gate.
LEMMA HumanEdges ==
  ASSUME NEW g \in VALID_GATES, g # "parked"
  PROVE  <<g, "pr-ready">> \in LEGAL_TRANSITIONS => g = "verification-passed"
  <1>1. \A e \in (UNION {TRANSITIONS[l] : l \in Lanes}) \cup STEERING :
           e.to = "pr-ready" => e.from = "verification-passed"
    <2>1. \A e \in STEERING : e.to # "pr-ready"
      BY DEF STEERING, Edge
    <2>2. \A e \in TRANSITIONS["feature"] : e.to = "pr-ready" => e.from = "verification-passed"
      BY DEF TRANSITIONS, PrTail, Edge
    <2>3. \A e \in TRANSITIONS["bug"] : e.to = "pr-ready" => e.from = "verification-passed"
      BY DEF TRANSITIONS, PrTail, Edge
    <2>4. \A e \in TRANSITIONS["chore"] : e.to = "pr-ready" => e.from = "verification-passed"
      BY DEF TRANSITIONS, PrTail, Edge
    <2> QED BY <2>1, <2>2, <2>3, <2>4 DEF Lanes
  <1>2. <<g, "pr-ready">> \notin LINEAR_SPINE
    BY DEF LINEAR_SPINE
  <1>3. <<g, "pr-ready">> \notin {<<"parked", x>> : x \in PARKABLE_GATES}
    OBVIOUS
  <1>4. ASSUME <<g, "pr-ready">> \in
                 {<<e.from, e.to>> : e \in (UNION {TRANSITIONS[l] : l \in Lanes}) \cup STEERING}
        PROVE  g = "verification-passed"
    BY <1>1, <1>4
  <1> QED BY <1>2, <1>3, <1>4 DEF LEGAL_TRANSITIONS

-----------------------------------------------------------------------------
(* transitionGate and the walk.                                            *)

\* A transition changes the gate alone, to one of the next gates.
LEMMA TransitionShape ==
  ASSUME NEW s \in TaskStates, NEW event, NEW f \in Files, NEW n \in transitionGate(s, event, f)
  PROVE  /\ n \in TaskStates
         /\ n = [s EXCEPT !.gate = n.gate]
         /\ n.gate \in NextGates(s, event, f)
  <1>1. PICK g \in NextGates(s, event, f) : n = [s EXCEPT !.gate = g]
    BY DEF transitionGate
  <1>2. s.lane \in Lanes /\ PARKABLE_GATES \subseteq VALID_GATES
    BY DEF TaskStates, PARKABLE_GATES
  <1>3. g \in VALID_GATES
    BY <1>2, Edges DEF NextGates, ResumeGates
  <1> QED BY <1>1, <1>3 DEF TaskStates

\* What the walk may do to a state.
Ahead(s, n) ==
  /\ n \in TaskStates
  /\ n.taskId = s.taskId /\ n.lane = s.lane
  /\ s.lane = "feature" /\ n.gate \in SignedGates => s.gate \in SignedGates
  /\ n.gate = "parked" => s.gate = "parked"

LEMMA NoChainParks ==
  ASSUME NEW lane \in Lanes, NEW e \in TRANSITIONS[lane]
  PROVE  e.to # "parked" /\ e.from # "parked" /\ e.event # "park"
  <1>1. CASE lane = "feature" BY <1>1 DEF TRANSITIONS, PrTail, Edge
  <1>2. CASE lane = "bug" BY <1>2 DEF TRANSITIONS, PrTail, Edge
  <1>3. CASE lane = "chore" BY <1>3 DEF TRANSITIONS, PrTail, Edge
  <1> QED BY <1>1, <1>2, <1>3 DEF Lanes

LEMMA AdvanceOnceAhead ==
  ASSUME NEW s \in TaskStates, NEW f \in Files, NEW n \in AdvanceOnce(s, f)
  PROVE  Ahead(s, n)
  <1>1. CASE n = s
    BY <1>1 DEF Ahead
  <1>2. CASE \E e \in TRANSITIONS[s.lane] : e.from = s.gate /\ n \in transitionGate(s, e.event, f)
    <2>1. PICK e \in TRANSITIONS[s.lane] : e.from = s.gate /\ n \in transitionGate(s, e.event, f)
      BY <1>2
    <2>2. s.lane \in Lanes /\ s.gate # "parked"
      BY <2>1, NoChainParks DEF TaskStates
    <2>3. n \in TaskStates /\ n = [s EXCEPT !.gate = n.gate] /\ n.gate \in NextGates(s, e.event, f)
      BY <2>1, TransitionShape
    <2>4. PICK d \in TRANSITIONS[s.lane] \cup STEERING :
            d.from = s.gate /\ d.event = e.event /\ d.to = n.gate
      BY <2>2, <2>3 DEF NextGates
    <2>5. s.lane = "feature" /\ n.gate \in SignedGates => s.gate \in SignedGates
      BY <2>2, <2>4, Edges
    <2>6. e.event # "park"
      BY <2>1, <2>2, NoChainParks
    <2>7. n.gate # "parked"
      BY <2>2, <2>4, <2>6, Edges
    <2> QED BY <2>3, <2>5, <2>7 DEF Ahead, TaskStates
  <1> QED BY <1>1, <1>2 DEF AdvanceOnce

LEMMA WalkAhead ==
  ASSUME NEW s \in TaskStates, NEW f \in Files, NEW n \in advanceAlongLane(s, f)
  PROVE  Ahead(s, n)
  <1> DEFINE Turn(S) == UNION { AdvanceOnce(x, f) : x \in S }
             Good(S) == \A x \in S : Ahead(s, x)
  <1>1. ASSUME NEW S, Good(S) PROVE Good(Turn(S))
    <2>1. SUFFICES ASSUME NEW x \in S, NEW y \in AdvanceOnce(x, f) PROVE Ahead(s, y)
      OBVIOUS
    <2>2. Ahead(s, x) /\ Ahead(x, y)
      BY <1>1, <2>1, AdvanceOnceAhead DEF Ahead
    <2> QED BY <2>2 DEF Ahead
  <1>2. Good({s})
    BY DEF Ahead
  <1>3. n \in Turn(Turn(Turn(Turn(Turn(Turn({s}))))))
    BY DEF advanceAlongLane
  <1> HIDE DEF Turn, Good
  <1>4. Good(Turn(Turn(Turn(Turn(Turn(Turn({s})))))))
    BY <1>1, <1>2
  <1> QED BY <1>3, <1>4 DEF Good

LEMMA StampShape ==
  ASSUME NEW s \in TaskStates, NEW f \in Files
  PROVE  /\ stampSpecDigest(s, f) \in TaskStates
         /\ stampSpecDigest(s, f).taskId = s.taskId
         /\ stampSpecDigest(s, f).lane = s.lane
         /\ stampSpecDigest(s, f).gate = s.gate
  BY DEF stampSpecDigest, TaskStates, Files, Specs

-----------------------------------------------------------------------------
(* Persisting a state.                                                     *)

\* What a step writes next to task.json: the history keeps a sign-off it had,
\* and the pointer stays.
KeepsRecord(h) ==
  /\ h \in Histories
  /\ hist.signedOff # None => h.signedOff # None
  /\ h.parkedAt = hist.parkedAt
  /\ files' \in Files
  /\ files'.pointer = files.pointer

\* What a state must be for the task to move there.
Sound(s, h) ==
  /\ s \in TaskStates
  /\ s.taskId = task.taskId
  /\ Disciplined => /\ Backed(s, h)
                    /\ s.gate = "parked" => s.lane = task.lane
                    /\ s.gate = "parked" /\ task.gate # "parked" =>
                         files.pointer = [taskId |-> task.taskId, gate |-> task.gate]

LEMMA MovedShape ==
  ASSUME TypeOK, NEW s \in TaskStates, NEW h \in Histories
  PROVE  /\ Moved(s, h) \in Histories
         /\ Moved(s, h).parkedAt = IF s.gate = "parked" THEN task.gate ELSE h.parkedAt
         /\ s.gate \notin DraftGates => Moved(s, h).signedOff = h.signedOff
  BY DEF Moved, Histories, TypeOK, TaskStates

LEMMA PersistStep ==
  ASSUME GateInv, NEW s, NEW h, KeepsRecord(h), Sound(s, h), Persist(s, h)
  PROVE  GateInv'
  <1> USE DEF GateInv
  <1>1. CASE ~Valid(s)
    <2>1. task' = task /\ hist' = h
      BY <1>1 DEF Persist
    <2>2. TypeOK'
      BY <2>1 DEF TypeOK, KeepsRecord, Valid
    <2>3. Disciplined => (SignedInv /\ ParkedInv)'
      BY <2>1 DEF KeepsRecord, SignedInv, ParkedInv, EffectiveGate
    <2> QED BY <2>2, <2>3 DEF Disciplined
  <1>2. CASE Valid(s) /\ s.gate = task.gate
    <2>1. task' = s /\ hist' = h
      BY <1>2 DEF Persist
    <2>2. TypeOK'
      BY <1>2, <2>1 DEF TypeOK, KeepsRecord, Sound, Valid
    <2>3. Disciplined => (SignedInv /\ ParkedInv)'
      BY <1>2, <2>1 DEF KeepsRecord, Sound, Backed, SignedInv, ParkedInv, EffectiveGate
    <2> QED BY <2>2, <2>3 DEF Disciplined
  <1>3. CASE Valid(s) /\ s.gate # task.gate
    <2>1. task' = s /\ hist' = Moved(s, h)
      BY <1>3 DEF Persist
    <2>2. hist' \in Histories
      BY <2>1, MovedShape DEF KeepsRecord, Sound
    <2>3. TypeOK'
      BY <1>3, <2>1, <2>2 DEF TypeOK, KeepsRecord, Sound, Valid
    <2>4. ASSUME Disciplined PROVE ParkedInv'
      BY <1>3, <2>1, <2>4, MovedShape DEF KeepsRecord, Sound, ParkedInv
    <2>5. ASSUME Disciplined, task'.lane = "feature", EffectiveGate' \in SignedGates
          PROVE  hist'.signedOff # None
      <3>1. CASE s.gate = "parked"
        <4>1. hist'.parkedAt = task.gate /\ task.gate # "parked" /\ s.lane = task.lane
          BY <1>3, <2>1, <2>5, <3>1, MovedShape DEF KeepsRecord, Sound
        <4>2. hist.signedOff # None
          BY <2>1, <2>5, <3>1, <4>1 DEF SignedInv, EffectiveGate
        <4>3. hist'.signedOff = h.signedOff
          BY <2>1, <3>1, MovedShape DEF KeepsRecord, Sound, DraftGates
        <4> QED BY <4>2, <4>3 DEF KeepsRecord
      <3>2. CASE s.gate # "parked"
        <4>1. s.gate \in SignedGates
          BY <2>1, <2>5, <3>2 DEF EffectiveGate
        <4>2. hist'.signedOff = h.signedOff
          BY <2>1, <4>1, MovedShape DEF KeepsRecord, Sound, DraftGates, SignedGates
        <4> QED BY <2>1, <2>5, <4>1, <4>2 DEF Sound, Backed
      <3> QED BY <3>1, <3>2
    <2> QED BY <2>3, <2>4, <2>5 DEF Disciplined, SignedInv
  <1> QED BY <1>1, <1>2, <1>3

\* A step that leaves task.json alone.
LEMMA KeptStep ==
  ASSUME GateInv, task' = task, KeepsRecord(hist')
  PROVE  GateInv'
  <1>1. TypeOK'
    BY DEF GateInv, TypeOK, KeepsRecord, Valid
  <1>2. Disciplined => (SignedInv /\ ParkedInv)'
    BY DEF GateInv, KeepsRecord, SignedInv, ParkedInv, EffectiveGate
  <1> QED BY <1>1, <1>2 DEF GateInv, Disciplined

\* Nothing but park leads to parked.
LEMMA NotParked ==
  ASSUME NEW s \in TaskStates, NEW event, event # "park", NEW f \in Files,
         NEW n \in transitionGate(s, event, f)
  PROVE  n.gate # "parked"
  <1>1. n.gate \in NextGates(s, event, f) /\ s.lane \in Lanes
    BY TransitionShape DEF TaskStates
  <1>2. CASE n.gate \in ResumeGates(s, f)
    BY <1>2 DEF ResumeGates, PARKABLE_GATES
  <1>3. CASE \E e \in TRANSITIONS[s.lane] \cup STEERING : e.event = event /\ e.to = n.gate
    BY <1>1, <1>3, Edges
  <1> QED BY <1>1, <1>2, <1>3 DEF NextGates

\* A transition of the task itself is backed by the sign-off it already had.
LEMMA TransitionBacked ==
  ASSUME GateInv, Disciplined, NEW event, NEW f \in Files, f.pointer = files.pointer,
         NEW n \in transitionGate(task, event, f)
  PROVE  Backed(n, hist)
  <1>1. n \in TaskStates /\ n = [task EXCEPT !.gate = n.gate] /\ n.gate \in NextGates(task, event, f)
    BY TransitionShape DEF GateInv, TypeOK
  <1>2. n.lane = task.lane /\ task.lane \in Lanes /\ task \in TaskStates
    BY <1>1 DEF GateInv, TypeOK, TaskStates
  <1>3. CASE task.gate = "parked" /\ event = "resume"
    <2>1. n.gate = hist.parkedAt
      BY <1>1, <1>3 DEF NextGates, ResumeGates, GateInv, ParkedInv
    <2> QED BY <1>2, <1>3, <2>1 DEF GateInv, SignedInv, EffectiveGate, Backed
  <1>4. CASE ~(task.gate = "parked" /\ event = "resume")
    <2>1. PICK e \in TRANSITIONS[task.lane] \cup STEERING : e.from = task.gate /\ e.to = n.gate
      BY <1>1, <1>4 DEF NextGates
    <2>2. CASE task.gate = "parked"
      BY <1>2, <2>1, <2>2, Edges DEF Backed, SignedGates
    <2>3. CASE task.gate # "parked"
      BY <1>2, <2>1, <2>3, Edges DEF GateInv, SignedInv, EffectiveGate, Backed
    <2> QED BY <2>2, <2>3
  <1> QED BY <1>3, <1>4

LEMMA TransitionStep ==
  ASSUME GateInv, KeepsRecord(hist), NEW event, NEW f \in Files, f.pointer = files.pointer,
         event = "park" /\ FreshPointers =>
           files.pointer = [taskId |-> task.taskId, gate |-> task.gate],
         NEW n \in transitionGate(task, event, f), Persist(n, hist)
  PROVE  GateInv'
  <1>1. n \in TaskStates /\ n = [task EXCEPT !.gate = n.gate]
    BY TransitionShape DEF GateInv, TypeOK
  <1>2. n.taskId = task.taskId /\ n.lane = task.lane
    BY <1>1 DEF GateInv, TypeOK, TaskStates
  <1>3. n.gate = "parked" => event = "park"
    BY NotParked DEF GateInv, TypeOK
  <1>4. Disciplined => Backed(n, hist)
    BY TransitionBacked
  <1>5. Sound(n, hist)
    BY <1>1, <1>2, <1>3, <1>4 DEF Sound, Disciplined
  <1> QED BY <1>5, PersistStep

\* The hook's walk, from the task as read but for the lane a router resolved.
LEMMA AdvanceFromStep ==
  ASSUME GateInv, NEW s \in TaskStates, NEW f, NEW h, files' = f, KeepsRecord(h),
         s.taskId = task.taskId, s.gate = task.gate,
         s.lane = task.lane \/ (Disciplined => task.gate = "no-lane"),
         AdvanceFrom(s, f, h)
  PROVE  GateInv'
  <1> DEFINE stamped == stampSpecDigest(s, f)
  <1>1. f \in Files
    BY DEF KeepsRecord
  <1>2. PICK n \in advanceAlongLane(stamped, f) : Persist(n, h)
    BY DEF AdvanceFrom
  <1>3. /\ stamped \in TaskStates /\ stamped.taskId = s.taskId
        /\ stamped.lane = s.lane /\ stamped.gate = s.gate
    BY <1>1, StampShape
  <1>4. Ahead(stamped, n)
    BY <1>1, <1>2, <1>3, WalkAhead
  <1>5. ASSUME Disciplined PROVE Backed(n, h)
    <2>1. SUFFICES ASSUME n.lane = "feature", n.gate \in SignedGates PROVE h.signedOff # None
      BY DEF Backed
    <2>2. task.gate \in SignedGates
      BY <1>3, <1>4, <2>1 DEF Ahead
    <2>3. task.lane = "feature"
      BY <1>3, <1>4, <1>5, <2>1, <2>2 DEF Ahead, SignedGates
    <2> QED BY <1>5, <2>2, <2>3 DEF GateInv, SignedInv, EffectiveGate, SignedGates, KeepsRecord
  <1>6. n.gate = "parked" => task.gate = "parked"
    BY <1>3, <1>4 DEF Ahead
  <1>7. Sound(n, h)
    BY <1>3, <1>4, <1>5, <1>6 DEF Ahead, Sound
  <1> QED BY <1>2, <1>7, PersistStep

-----------------------------------------------------------------------------
(* The steps.                                                              *)

\* Files the record keeps when a step writes other artifacts than the pointer.
LEMMA RecordKept ==
  ASSUME GateInv, files' \in Files, files'.pointer = files.pointer
  PROVE  KeepsRecord(hist)
  BY DEF GateInv, TypeOK, KeepsRecord

LEMMA HookSteps == GateInv /\ Hooks => GateInv'
  <1> SUFFICES ASSUME GateInv, Hooks PROVE GateInv'
    OBVIOUS
  <1>0. task \in TaskStates /\ files \in Files /\ hist \in Histories
    BY DEF GateInv, TypeOK
  <1>1. CASE GateAdvance
    <2>1. KeepsRecord(hist)
      BY <1>0, <1>1, RecordKept DEF GateAdvance
    <2> QED BY <1>0, <1>1, <2>1, AdvanceFromStep DEF GateAdvance
  <1>2. CASE SpecIntegrityGuard
    <2> DEFINE s == [task EXCEPT !.gate = "spec-draft", !.specDigest = files.spec.text]
    <2>1. Persist(s, hist) /\ files' = files /\ files.spec # None
      BY <1>2 DEF SpecIntegrityGuard
    <2>2. s \in TaskStates /\ s.gate = "spec-draft" /\ s.taskId = task.taskId
      BY <1>0, <2>1 DEF TaskStates, Files, Specs, VALID_GATES
    <2>3. Sound(s, hist)
      BY <2>2 DEF Sound, Backed, SignedGates
    <2>4. KeepsRecord(hist)
      BY <1>0, <2>1, RecordKept
    <2> HIDE DEF s
    <2> QED BY <2>1, <2>3, <2>4, PersistStep
  <1>3. ASSUME NEW a \in Workers, NEW sound \in BOOLEAN, WorkerReturns(a, sound)
        PROVE  GateInv'
    <2> DEFINE f == IF Projects(a, sound) THEN [files EXCEPT ![a] = task.taskId] ELSE files
               h == IF sound THEN [hist EXCEPT !.produced = @ \cup {a}] ELSE hist
    <2>1. files' = f /\ AdvanceFrom(task, f, h)
      BY <1>3 DEF WorkerReturns
    <2>2. task.taskId \in Tasks
      BY <1>0 DEF TaskStates
    <2>3. f \in Files /\ f.pointer = files.pointer
      BY <1>0, <2>2 DEF Files, Workers, Owners
    <2>4. h \in Histories /\ h.signedOff = hist.signedOff /\ h.parkedAt = hist.parkedAt
      BY <1>0 DEF Histories, Workers
    <2>5. KeepsRecord(h)
      BY <2>1, <2>3, <2>4 DEF KeepsRecord
    <2> HIDE DEF f, h
    <2> QED BY <1>0, <2>1, <2>5, AdvanceFromStep
  <1>4. ASSUME NEW l \in RouterLanes, NEW c \in BOOLEAN, RouterReturns(l, c)
        PROVE  GateInv'
    <2> DEFINE f == [files EXCEPT !.router = [confident |-> c]]
               h == [hist EXCEPT !.produced = @ \cup {"router"}]
               s == [task EXCEPT !.lane = l]
    <2>1. files' = f /\ AdvanceFrom(s, f, h) /\ task.gate \in RouterGates
      BY <1>4 DEF RouterReturns
    <2>2. f \in Files /\ f.pointer = files.pointer
      BY <1>0 DEF Files, RouterResults
    <2>3. h \in Histories /\ h.signedOff = hist.signedOff /\ h.parkedAt = hist.parkedAt
      BY <1>0 DEF Histories
    <2>4. KeepsRecord(h)
      BY <2>1, <2>2, <2>3 DEF KeepsRecord
    <2>5. s \in TaskStates /\ s.taskId = task.taskId /\ s.gate = task.gate
      BY <1>0, RouterAssumption DEF TaskStates
    <2>6. Disciplined => task.gate = "no-lane"
      BY <2>1 DEF Disciplined
    <2> HIDE DEF f, h, s
    <2> QED BY <2>1, <2>4, <2>5, <2>6, AdvanceFromStep
  <1> QED BY <1>1, <1>2, <1>3, <1>4 DEF Hooks

\* Entering spec-approved needs a spec to sign.
LEMMA ApprovalHasSpec ==
  ASSUME HumanGateOpen("spec-approved")
  PROVE  files.spec # None
  BY DEF HumanGateOpen, Precondition, GatePrecondition

LEMMA SignOffKept ==
  ASSUME GateInv, files' = files, files.spec # None
  PROVE  KeepsRecord(SignedOff) /\ SignedOff.signedOff # None
  <1>1. files.spec.text \in Digests /\ files \in Files /\ hist \in Histories
    BY DEF GateInv, TypeOK, Files, Specs
  <1>2. SignedOff \in Histories /\ SignedOff.signedOff = files.spec.text
        /\ SignedOff.parkedAt = hist.parkedAt
    BY <1>1 DEF SignedOff, Histories
  <1> QED BY <1>1, <1>2, NoneAssumption DEF KeepsRecord, Digests

\* The human's approval of a gate, by phrase or by gatectl.
LEMMA HumanGateStep ==
  ASSUME GateInv, files' = files, NEW gate \in HUMAN_APPROVAL_GATES, HumanGateOpen(gate),
         Persist([task EXCEPT !.gate = gate], IF gate = "spec-approved" THEN SignedOff ELSE hist)
  PROVE  GateInv'
  <1> DEFINE s == [task EXCEPT !.gate = gate]
             h == IF gate = "spec-approved" THEN SignedOff ELSE hist
  <1>0. task \in TaskStates /\ files \in Files /\ hist \in Histories
    BY DEF GateInv, TypeOK
  <1>1. s \in TaskStates /\ s.taskId = task.taskId /\ s.gate = gate /\ gate # "parked"
        /\ s.lane = task.lane
    BY <1>0 DEF TaskStates, HUMAN_APPROVAL_GATES, VALID_GATES
  <1>2. KeepsRecord(h)
    BY <1>0, ApprovalHasSpec, SignOffKept, RecordKept
  <1>3. Disciplined => Backed(s, h)
    <2>1. CASE gate = "spec-approved"
      BY <2>1, ApprovalHasSpec, SignOffKept DEF Backed
    <2>2. CASE gate = "pr-ready"
      <3>1. task.gate = "verification-passed"
        BY <1>0, <2>2, HumanEdges DEF HumanGateOpen, TaskStates
      <3> QED BY <1>1, <2>2, <3>1 DEF GateInv, SignedInv, EffectiveGate, SignedGates, Backed
    <2> QED BY <2>1, <2>2 DEF HUMAN_APPROVAL_GATES
  <1>4. Sound(s, h)
    BY <1>1, <1>3 DEF Sound
  <1>5. Persist(s, h)
    OBVIOUS
  <1> HIDE DEF s, h
  <1> QED BY <1>2, <1>4, <1>5, PersistStep

LEMMA ApproveSpecStep ==
  ASSUME GateInv, ApproveSpec
  PROVE  GateInv'
  <1> DEFINE approved == [task EXCEPT !.gate = "spec-approved"]
  <1>0. task \in TaskStates /\ files \in Files /\ hist \in Histories /\ files' = files
    BY DEF GateInv, TypeOK, ApproveSpec
  <1>1. CASE HumanGateOpen("spec-approved") /\ Persist(approved, SignedOff)
    BY <1>0, <1>1, HumanGateStep DEF HUMAN_APPROVAL_GATES
  <1>2. ASSUME HumanGateOpen("spec-approved"), NEW s \in Continued(approved),
               Persist(s, SignedOff)
        PROVE  GateInv'
    <2>1. s \in transitionGate(approved, "start-impl", files)
      BY <1>2 DEF Continued
    <2>2. approved \in TaskStates /\ approved.taskId = task.taskId
      BY <1>0 DEF TaskStates, VALID_GATES
    <2> HIDE DEF approved
    <2>3. s \in TaskStates /\ s.taskId = task.taskId
      BY <1>0, <2>1, <2>2, TransitionShape DEF TaskStates
    <2>4. s.gate # "parked"
      BY <1>0, <2>1, <2>2, NotParked
    <2>5. KeepsRecord(SignedOff) /\ SignedOff.signedOff # None
      BY <1>0, <1>2, ApprovalHasSpec, SignOffKept
    <2>6. Sound(s, SignedOff)
      BY <2>3, <2>4, <2>5 DEF Sound, Backed
    <2> QED BY <1>2, <2>5, <2>6, PersistStep
  <1>3. ASSUME NEW s \in Continued(task), Persist(s, hist)
        PROVE  GateInv'
    <2>1. s \in transitionGate(task, "start-impl", files)
      BY <1>3 DEF Continued
    <2> QED BY <1>0, <1>3, <2>1, RecordKept, TransitionStep
  <1> QED BY <1>1, <1>2, <1>3 DEF ApproveSpec

LEMMA HumanSteps == GateInv /\ Human => GateInv'
  <1> SUFFICES ASSUME GateInv, Human PROVE GateInv'
    OBVIOUS
  <1>0. task \in TaskStates /\ files \in Files /\ hist \in Histories
    BY DEF GateInv, TypeOK
  <1>1. CASE ApproveSpec
    BY <1>1, ApproveSpecStep
  <1>2. CASE ApprovePlan
    BY <1>0, <1>2, RecordKept, TransitionStep DEF ApprovePlan
  <1>3. CASE ApprovePr
    BY <1>3, HumanGateStep DEF ApprovePr, HUMAN_APPROVAL_GATES
  <1>4. CASE ApproveNoTdd
    <2>1. files' \in Files /\ files'.pointer = files.pointer /\ task' = task /\ hist' = hist
      BY <1>0, <1>4 DEF ApproveNoTdd, Files, Specs
    <2> QED BY <2>1, RecordKept, KeptStep
  <1>5. CASE EscalateChore
    <2> DEFINE s == [task EXCEPT !.lane = "feature", !.gate = "plan-approved"]
    <2>1. Persist(s, hist) /\ files' = files
      BY <1>5 DEF EscalateChore
    <2>2. s \in TaskStates /\ s.gate = "plan-approved" /\ s.taskId = task.taskId
      BY <1>0 DEF TaskStates, VALID_GATES, Lanes
    <2>3. Sound(s, hist)
      BY <2>2 DEF Sound, Backed, SignedGates
    <2> HIDE DEF s
    <2> QED BY <1>0, <2>1, <2>3, RecordKept, PersistStep
  <1>6. ASSUME NEW e \in PhraseEvents, SteeringPhrase(e)
        PROVE  GateInv'
    <2> DEFINE f == IF e = "revise-scope" THEN [files EXCEPT !.note = task.taskId] ELSE files
    <2>1. files' = f /\ \/ \E s \in transitionGate(task, e, f) : Persist(s, hist)
                        \/ task' = task /\ hist' = hist
      BY <1>6 DEF SteeringPhrase
    <2>2. f \in Files /\ f.pointer = files.pointer
      BY <1>0 DEF Files, TaskStates
    <2>3. KeepsRecord(hist)
      BY <2>1, <2>2, RecordKept
    <2>4. e # "park"
      BY EventsAssumption
    <2> HIDE DEF f
    <2> QED BY <2>1, <2>2, <2>3, <2>4, TransitionStep, KeptStep
  <1> QED BY <1>1, <1>2, <1>3, <1>4, <1>5, <1>6 DEF Human

LEMMA CliSteps == GateInv /\ Cli => GateInv'
  <1> SUFFICES ASSUME GateInv, Cli PROVE GateInv'
    OBVIOUS
  <1>0. task \in TaskStates /\ files \in Files /\ hist \in Histories
    BY DEF GateInv, TypeOK
  <1>1. ASSUME NEW e \in CliEvents, GatectlSet(e) PROVE GateInv'
    BY <1>0, <1>1, RecordKept, TransitionStep DEF GatectlSet
  <1>2. ASSUME NEW g \in HUMAN_APPROVAL_GATES, GatectlApprove(g) PROVE GateInv'
    BY <1>2, HumanGateStep DEF GatectlApprove
  <1> QED BY <1>1, <1>2 DEF Cli

LEMMA FreshStep ==
  ASSUME GateInv, NEW t \in Tasks, NewSession(t)
  PROVE  GateInv'
  <1>1. task' = FreshTask(t) /\ hist' = FreshHist(hist.past \cup {task.taskId}) /\ files' = files
    BY DEF NewSession
  <1>2. hist.past \cup {task.taskId} \subseteq Tasks
    BY DEF GateInv, TypeOK, Histories, TaskStates
  <1>3. TypeOK'
    BY <1>1, <1>2 DEF GateInv, TypeOK, FreshTask, FreshHist, TaskStates, Histories, Lanes,
       VALID_GATES, Valid, gatesValidForLane, LANE_AGNOSTIC_GATES
  <1>4. (SignedInv /\ ParkedInv)'
    BY <1>1 DEF SignedInv, ParkedInv, EffectiveGate, FreshTask, SignedGates
  <1> QED BY <1>3, <1>4 DEF GateInv

LEMMA CompleteAcStep ==
  ASSUME GateInv, CompleteAc
  PROVE  GateInv'
  <1>0. task \in TaskStates /\ files \in Files /\ files.spec \in Specs
    BY DEF GateInv, TypeOK, Files, CompleteAc
  <1>1. PICK d \in Digests : task' = [task EXCEPT !.specDigest = d]
    BY <1>0 DEF CompleteAc, Specs
  <1>2. files' \in Files /\ files'.pointer = files.pointer /\ hist' = hist
    BY <1>0 DEF CompleteAc, Files, Specs
  <1>3. task' \in TaskStates /\ task'.taskId = task.taskId /\ task'.lane = task.lane
        /\ task'.gate = task.gate
    BY <1>0, <1>1 DEF TaskStates
  <1>4. TypeOK'
    BY <1>2, <1>3 DEF GateInv, TypeOK, Valid
  <1> QED BY <1>2, <1>3, <1>4 DEF GateInv, SignedInv, ParkedInv, EffectiveGate, Disciplined

LEMMA EnvironmentSteps == GateInv /\ Environment => GateInv'
  <1> SUFFICES ASSUME GateInv, Environment PROVE GateInv'
    OBVIOUS
  <1>0. task \in TaskStates /\ files \in Files /\ hist \in Histories
    BY DEF GateInv, TypeOK
  <1>1. CASE EditSpec
    <2>1. files' \in Files /\ files'.pointer = files.pointer /\ task' = task /\ hist' = hist
      BY <1>0, <1>1 DEF EditSpec, Files, Specs, TaskStates
    <2> QED BY <2>1, RecordKept, KeptStep
  <1>2. CASE VerifyAges
    <2>1. files' \in Files /\ files'.pointer = files.pointer /\ task' = task /\ hist' = hist
      BY <1>0, <1>2 DEF VerifyAges, Files, VerifyResults
    <2> QED BY <2>1, RecordKept, KeptStep
  <1>3. CASE WriteResumePointer
    <2>1. task.gate # "parked" /\ task' = task /\ hist' = hist
      BY <1>3 DEF WriteResumePointer, PARKABLE_GATES
    <2>2. files' \in Files
      BY <1>0, <1>3 DEF WriteResumePointer, Files, ResumePointers, TaskStates
    <2>3. TypeOK'
      BY <2>1, <2>2 DEF GateInv, TypeOK, Valid
    <2> QED BY <2>1, <2>3 DEF GateInv, SignedInv, ParkedInv, EffectiveGate, Disciplined
  <1>4. ASSUME NEW p \in BOOLEAN, RunVerify(p) PROVE GateInv'
    <2>1. task' = task /\ hist' \in Histories /\ hist'.signedOff = hist.signedOff
          /\ hist'.parkedAt = hist.parkedAt
      BY <1>0, <1>4 DEF RunVerify, RecordVerdict, Histories
    <2>2. PICK owner \in Reads(task.taskId, Nobody), digest \in Reads(task.specDigest, None) :
            RecordVerdict(p, owner, digest)
      BY <1>4 DEF RunVerify
    <2>3. owner \in Owners /\ digest \in Digests \cup {None}
      BY <1>0 DEF Reads, Owners, TaskStates
    <2>4. files' \in Files /\ files'.pointer = files.pointer
      BY <1>0, <2>2, <2>3 DEF RecordVerdict, Files, VerifyResults
    <2> QED BY <2>1, <2>4, KeptStep DEF KeepsRecord
  <1>5. ASSUME NEW t \in Tasks, NewSession(t) PROVE GateInv'
    BY <1>5, FreshStep
  <1> QED BY <1>1, <1>2, <1>3, <1>4, <1>5 DEF Environment

-----------------------------------------------------------------------------
(* The theorems.                                                           *)

LEMMA GateInvInit == Init => GateInv
  <1> SUFFICES ASSUME Init PROVE GateInv
    OBVIOUS
  <1>1. TypeOK
    BY TasksAssumption DEF Init, TypeOK, FreshTask, FreshHist, TaskStates, Files, Histories, Lanes,
       VALID_GATES, Valid, gatesValidForLane, LANE_AGNOSTIC_GATES, LeftOver, Owners
  <1>2. SignedInv /\ ParkedInv
    BY DEF Init, SignedInv, ParkedInv, EffectiveGate, FreshTask, SignedGates
  <1> QED BY <1>1, <1>2 DEF GateInv

\* The invariant holds of every reachable state.
THEOREM GateInvHolds == Spec => []GateInv
  <1>1. GateInv /\ [Next]_vars => GateInv'
    <2> SUFFICES ASSUME GateInv, [Next]_vars PROVE GateInv'
      OBVIOUS
    <2>1. CASE Next
      BY <2>1, HookSteps, HumanSteps, CliSteps, EnvironmentSteps, CompleteAcStep DEF Next, Others
    <2>2. CASE UNCHANGED vars
      BY <2>2 DEF vars, GateInv, TypeOK, Valid, SignedInv, ParkedInv, EffectiveGate, Disciplined
    <2> QED BY <2>1, <2>2
  <1> QED BY <1>1, GateInvInit, PTL DEF Spec

\* Type correctness, task.json's validity for its lane included: whatever the
\* router, the human and the orchestrator do, and for any number of tasks.
THEOREM TypeOKHolds == Spec => []TypeOK
  <1>1. GateInv => TypeOK
    BY DEF GateInv
  <1> QED BY <1>1, GateInvHolds, PTL

\* A feature is never past the spec gate without the human's sign-off, provided
\* the pointer is rewritten for every park and the router answers only at no-lane.
THEOREM ImplNeedsSignOffHolds ==
  ASSUME Disciplined
  PROVE  Spec => []ImplNeedsSignOff
  <1>1. GateInv => ImplNeedsSignOff
    BY DEF GateInv, SignedInv, EffectiveGate, SignedGates, ImplNeedsSignOff
  <1> QED BY <1>1, GateInvHolds, PTL

-----------------------------------------------------------------------------
(***************************************************************************)
(* What the gate machine keeps beside the sign-off: that the late gates    *)
(* are backed, that evidence is the task's own, that a resume returns to   *)
(* where the park was, that a signed digest is locked and that a finished  *)
(* task stays finished. All follow from one description of a step.         *)
(***************************************************************************)

LateGates == {"verification-passed", "pr-ready", "done"}
ImplGates == {"impl-started", "verification-passed"}

\* The artifact a gate is the proof of is there, and is the task's own.
Proven(n, f) ==
  /\ n.gate = "grill-done" => f.grill \in {n.taskId, Nobody}
  /\ n.gate = "plan-done" => f.critique \in {n.taskId, Nobody}
  /\ n.gate = "verification-passed" => f.verify # None /\ f.verify.taskId \in {n.taskId, Nobody}

-----------------------------------------------------------------------------
(* The tables.                                                             *)

LEMMA LateEdges ==
  ASSUME NEW lane \in Lanes, NEW e \in TRANSITIONS[lane] \cup STEERING
  PROVE  /\ e.from \notin TERMINAL_GATES
         /\ e.to \in {"pr-ready", "done"} => e.from \in {"verification-passed", "pr-ready"}
         /\ e.to = "verification-passed" => e.from = "impl-started"
  <1>1. CASE e \in STEERING
    BY <1>1 DEF STEERING, PARKABLE_GATES, VALID_GATES, Edge, TERMINAL_GATES
  <1>2. CASE e \in TRANSITIONS[lane]
    <2>1. CASE lane = "feature"
      BY <1>2, <2>1 DEF TRANSITIONS, PrTail, Edge, TERMINAL_GATES
    <2>2. CASE lane = "bug"
      BY <1>2, <2>2 DEF TRANSITIONS, PrTail, Edge, TERMINAL_GATES
    <2>3. CASE lane = "chore"
      BY <1>2, <2>3 DEF TRANSITIONS, PrTail, Edge, TERMINAL_GATES
    <2> QED BY <2>1, <2>2, <2>3 DEF Lanes
  <1> QED BY <1>1, <1>2

\* The hook reaches no gate beyond verification-passed, and starts no feature.
LEMMA ChainEdges ==
  ASSUME NEW lane \in Lanes, NEW e \in TRANSITIONS[lane], e.event \in LANE_CHAINS[lane]
  PROVE  /\ e.to \notin {"pr-ready", "done"}
         /\ lane = "feature" /\ e.to \in ImplGates => e.from \in ImplGates
  <1>1. CASE lane = "feature"
    BY <1>1 DEF TRANSITIONS, LANE_CHAINS, PrTail, Edge, ImplGates
  <1>2. CASE lane = "bug"
    BY <1>2 DEF TRANSITIONS, LANE_CHAINS, PrTail, Edge
  <1>3. CASE lane = "chore"
    BY <1>3 DEF TRANSITIONS, LANE_CHAINS, Edge
  <1> QED BY <1>1, <1>2, <1>3 DEF Lanes

\* No event of a chain is a steering event.
LEMMA ChainEvents ==
  ASSUME NEW lane \in Lanes, NEW event \in LANE_CHAINS[lane], NEW e \in STEERING
  PROVE  e.event # event
  <1>1. e.event \in {"park", "abandon", "new-requirements", "revise-scope", "re-plan"}
    BY DEF STEERING, Edge
  <1>2. event \notin {"park", "abandon", "new-requirements", "revise-scope", "re-plan"}
    BY DEF LANE_CHAINS, Lanes
  <1> QED BY <1>1, <1>2

\* A spec is approved at spec-draft, which features alone are ever at.
LEMMA SpecApprovalEdges ==
  ASSUME NEW g \in VALID_GATES, g # "parked", <<g, "spec-approved">> \in LEGAL_TRANSITIONS
  PROVE  g = "spec-draft"
  <1>1. \A e \in (UNION {TRANSITIONS[l] : l \in Lanes}) \cup STEERING : e.to # "spec-approved"
    <2>1. \A e \in STEERING : e.to # "spec-approved"
      BY DEF STEERING, Edge
    <2>2. \A e \in TRANSITIONS["feature"] : e.to # "spec-approved"
      BY DEF TRANSITIONS, PrTail, Edge
    <2>3. \A e \in TRANSITIONS["bug"] : e.to # "spec-approved"
      BY DEF TRANSITIONS, PrTail, Edge
    <2>4. \A e \in TRANSITIONS["chore"] : e.to # "spec-approved"
      BY DEF TRANSITIONS, PrTail, Edge
    <2> QED BY <2>1, <2>2, <2>3, <2>4 DEF Lanes
  <1>2. CASE <<g, "spec-approved">> \in LINEAR_SPINE
    BY <1>2 DEF LINEAR_SPINE
  <1>3. <<g, "spec-approved">> \notin {<<"parked", x>> : x \in PARKABLE_GATES}
    OBVIOUS
  <1> QED BY <1>1, <1>2, <1>3 DEF LEGAL_TRANSITIONS

LEMMA NoWayOut ==
  ASSUME NEW g \in TERMINAL_GATES, NEW to
  PROVE  <<g, to>> \notin LEGAL_TRANSITIONS
  <1>1. ASSUME NEW e \in (UNION {TRANSITIONS[l] : l \in Lanes}) \cup STEERING PROVE e.from # g
    <2>1. PICK l \in Lanes : e \in TRANSITIONS[l] \cup STEERING
      BY <1>1 DEF Lanes
    <2> QED BY <2>1, LateEdges
  <1>2. <<g, to>> \notin LINEAR_SPINE /\ g # "parked"
    BY DEF LINEAR_SPINE, TERMINAL_GATES
  <1> QED BY <1>1, <1>2 DEF LEGAL_TRANSITIONS

LEMMA DraftedFeature ==
  ASSUME NEW s \in TaskStates, Valid(s), s.gate = "spec-draft"
  PROVE  /\ s.lane = "feature"
         /\ \A g \in {"spec-approved", "impl-started"} : Valid([s EXCEPT !.gate = g])
  <1>1. "spec-draft" \notin gatesValidForLane("bug") \cup gatesValidForLane("chore")
    BY DEF gatesValidForLane, LANE_AGNOSTIC_GATES, TRANSITIONS, PrTail, Edge
  <1>2. {"spec-approved", "impl-started"} \subseteq gatesValidForLane("feature")
    <2> DEFINE e == Edge("spec-approved", "start-impl", "impl-started")
    <2>1. e \in TRANSITIONS["feature"] /\ {e.from, e.to} = {"spec-approved", "impl-started"}
      BY DEF TRANSITIONS, Edge
    <2> HIDE DEF e
    <2> QED BY <2>1 DEF gatesValidForLane
  <1> QED BY <1>1, <1>2 DEF Valid, TaskStates, Lanes

-----------------------------------------------------------------------------
(* transitionGate and the walk.                                            *)

\* What a transition of s shows of the state n it leads to.
LEMMA TransitionFacts ==
  ASSUME NEW s \in TaskStates, NEW event, NEW f \in Files, NEW n \in transitionGate(s, event, f)
  PROVE  /\ n \in TaskStates /\ n = [s EXCEPT !.gate = n.gate]
         /\ s.gate \notin TERMINAL_GATES
         /\ s.gate = "parked" => n.gate \in {"abandoned"} \cup ResumeGates(s, f)
         /\ s.gate # "parked" =>
              /\ n.gate \in {"pr-ready", "done"} => s.gate \in {"verification-passed", "pr-ready"}
              /\ n.gate = "verification-passed" => s.gate = "impl-started"
         /\ n.lane = "feature" /\ n.gate = "impl-started" => task.specDigest # None
         /\ Proven(n, f)
  <1>1. n \in TaskStates /\ n = [s EXCEPT !.gate = n.gate] /\ n.gate \in NextGates(s, event, f)
    BY TransitionShape
  <1>2. PICK g \in NextGates(s, event, f) : n = [s EXCEPT !.gate = g] /\ Precondition(g, event, s, f)
    BY DEF transitionGate
  <1>3. n.gate = g /\ n.lane = s.lane /\ n.taskId = s.taskId /\ s.lane \in Lanes
    BY <1>2 DEF TaskStates
  <1>4. GatePrecondition(n.gate, s, f)
    BY <1>2, <1>3 DEF Precondition
  <1>5. Proven(n, f)
    BY <1>3, <1>4 DEF GatePrecondition, OwnEvidence, VerifyEvidence, Proven
  <1>6. n.lane = "feature" /\ n.gate = "impl-started" => task.specDigest # None
    BY <1>3, <1>4 DEF GatePrecondition
  <1>7. CASE s.gate = "parked" /\ event = "resume"
    BY <1>1, <1>5, <1>6, <1>7 DEF NextGates, TERMINAL_GATES
  <1>8. CASE ~(s.gate = "parked" /\ event = "resume")
    <2>1. PICK e \in TRANSITIONS[s.lane] \cup STEERING : e.from = s.gate /\ e.to = n.gate
      BY <1>1, <1>8 DEF NextGates
    <2> QED BY <1>1, <1>3, <1>5, <1>6, <2>1, Edges, LateEdges
  <1> QED BY <1>7, <1>8

\* Where the hook's walk may have come from s.
Walked(s, n, f) ==
  /\ n \in TaskStates
  /\ n.taskId = s.taskId /\ n.lane = s.lane /\ n.specDigest = s.specDigest
  /\ s.gate \in TERMINAL_GATES \cup {"parked"} => n.gate = s.gate
  /\ n.gate # s.gate => Proven(n, f) /\ n.gate \notin {"pr-ready", "done"}
  /\ n.lane = "feature" /\ n.gate \in ImplGates => s.gate \in ImplGates

LEMMA OneTurn ==
  ASSUME NEW s \in TaskStates, NEW f \in Files, NEW n \in AdvanceOnce(s, f)
  PROVE  Walked(s, n, f)
  <1>1. CASE n = s
    BY <1>1 DEF Walked
  <1>2. CASE \E e \in TRANSITIONS[s.lane] :
               /\ e.from = s.gate /\ e.event \in LANE_CHAINS[s.lane]
               /\ n \in transitionGate(s, e.event, f)
    <2>1. PICK e \in TRANSITIONS[s.lane] :
            /\ e.from = s.gate /\ e.event \in LANE_CHAINS[s.lane]
            /\ n \in transitionGate(s, e.event, f)
      BY <1>2
    <2>2. s.lane \in Lanes /\ s.gate # "parked"
      BY <2>1, NoChainParks DEF TaskStates
    <2>3. /\ n \in TaskStates /\ n = [s EXCEPT !.gate = n.gate]
          /\ s.gate \notin TERMINAL_GATES /\ Proven(n, f)
      BY <2>1, TransitionFacts
    <2>4. n.gate \in NextGates(s, e.event, f)
      BY <2>1, TransitionShape
    <2>5. PICK d \in TRANSITIONS[s.lane] \cup STEERING :
            d.from = s.gate /\ d.event = e.event /\ d.to = n.gate
      BY <2>2, <2>4 DEF NextGates
    <2>6. d \in TRANSITIONS[s.lane]
      BY <2>1, <2>2, <2>5, ChainEvents
    <2>7. /\ n.gate \notin {"pr-ready", "done"}
          /\ s.lane = "feature" /\ n.gate \in ImplGates => s.gate \in ImplGates
      BY <2>1, <2>2, <2>5, <2>6, ChainEdges
    <2> QED BY <2>2, <2>3, <2>7 DEF Walked, TaskStates
  <1> QED BY <1>1, <1>2 DEF AdvanceOnce

LEMMA WalkFacts ==
  ASSUME NEW s \in TaskStates, NEW f \in Files, NEW n \in advanceAlongLane(s, f)
  PROVE  Walked(s, n, f)
  <1> DEFINE Turn(S) == UNION { AdvanceOnce(x, f) : x \in S }
             Good(S) == \A x \in S : Walked(s, x, f)
  <1>1. ASSUME NEW S, Good(S) PROVE Good(Turn(S))
    <2>1. SUFFICES ASSUME NEW x \in S, NEW y \in AdvanceOnce(x, f) PROVE Walked(s, y, f)
      OBVIOUS
    <2>2. Walked(s, x, f) /\ Walked(x, y, f)
      BY <1>1, <2>1, OneTurn DEF Walked
    <2>3. y.gate # s.gate => Proven(y, f) /\ y.gate \notin {"pr-ready", "done"}
      BY <2>2 DEF Walked, Proven
    <2> QED BY <2>2, <2>3 DEF Walked
  <1>2. Good({s})
    BY DEF Walked
  <1>3. n \in Turn(Turn(Turn(Turn(Turn(Turn({s}))))))
    BY DEF advanceAlongLane
  <1> HIDE DEF Turn, Good
  <1>4. Good(Turn(Turn(Turn(Turn(Turn(Turn({s})))))))
    BY <1>1, <1>2
  <1> QED BY <1>3, <1>4 DEF Good

-----------------------------------------------------------------------------
(* What a step does, seen by task.json and the history.                    *)

\* The history of a step before the gate moves: a sign-off goes with a valid
\* state past the draft.
Recorded(n, h) ==
  /\ h \in Histories
  /\ h.parkedAt = hist.parkedAt /\ h.cleared = hist.cleared
  /\ h.signedOff = hist.signedOff \/ (n.gate \notin DraftGates /\ Valid(n))

\* What holds of a state a step persists.
MoveFacts(n) ==
  /\ n \in TaskStates /\ n.taskId = task.taskId
  /\ n.lane = task.lane \/ n.gate = "plan-approved" \/ task.gate \in RouterGates
  /\ \/ n.specDigest = task.specDigest
     \/ n.specDigest # None /\ DraftGates \cap {task.gate, n.gate} # {}
  /\ task.gate \in TERMINAL_GATES => n.gate = task.gate
  /\ task.gate = "parked" => n.gate \in {"parked", "abandoned"} \cup ResumeGates(task, files)
  /\ n.gate # task.gate => Proven(n, files')
  /\ task.gate # "parked" /\ n.gate # task.gate /\ n.gate \in {"pr-ready", "done"} =>
       task.gate \in {"verification-passed", "pr-ready"}
  /\ task.gate # "parked" /\ n.lane = "feature" /\ n.gate \in ImplGates =>
       n.specDigest # None \/ task.gate \in ImplGates

Moves == \E n, h : MoveFacts(n) /\ Recorded(n, h) /\ Persist(n, h)

\* A step that leaves the task as it is.
Still ==
  /\ task' = task
  /\ hist'.parkedAt = hist.parkedAt /\ hist'.cleared = hist.cleared
  /\ hist'.signedOff = hist.signedOff

\* A step that moves no gate; only complete-ac records another digest.
Keeps ==
  /\ task' = task \/ (CompleteAc /\ \E d \in Digests : task' = [task EXCEPT !.specDigest = d])
  /\ hist'.parkedAt = hist.parkedAt /\ hist'.cleared = hist.cleared
  /\ hist'.signedOff = hist.signedOff

LEMMA SameRecord ==
  ASSUME TypeOK, NEW n
  PROVE  Recorded(n, hist)
  BY DEF TypeOK, Recorded

LEMMA TransitionMoves ==
  ASSUME TypeOK, TypeOK', files'.pointer = files.pointer, NEW event,
         NEW n \in transitionGate(task, event, files')
  PROVE  MoveFacts(n)
  <1>0. task \in TaskStates /\ files' \in Files
    BY DEF TypeOK
  <1>1. /\ n \in TaskStates /\ n = [task EXCEPT !.gate = n.gate]
        /\ task.gate \notin TERMINAL_GATES
        /\ task.gate = "parked" => n.gate \in {"abandoned"} \cup ResumeGates(task, files')
        /\ task.gate # "parked" =>
             /\ n.gate \in {"pr-ready", "done"} => task.gate \in {"verification-passed", "pr-ready"}
             /\ n.gate = "verification-passed" => task.gate = "impl-started"
        /\ n.lane = "feature" /\ n.gate = "impl-started" => task.specDigest # None
        /\ Proven(n, files')
    BY <1>0, TransitionFacts
  <1>2. n.taskId = task.taskId /\ n.lane = task.lane /\ n.specDigest = task.specDigest
    BY <1>0, <1>1 DEF TaskStates
  <1>3. ResumeGates(task, files') = ResumeGates(task, files)
    BY DEF ResumeGates, OwnPointer
  <1> QED BY <1>1, <1>2, <1>3 DEF MoveFacts, ImplGates

LEMMA StampDigest ==
  ASSUME NEW s \in TaskStates, NEW f \in Files
  PROVE  \/ stampSpecDigest(s, f).specDigest = s.specDigest
         \/ stampSpecDigest(s, f).specDigest # None /\ s.gate \in DraftGates
  <1>1. CASE s.gate \in DraftGates /\ f.spec # None
    <2>1. f.spec.text \in Digests
      BY <1>1 DEF Files, Specs
    <2>2. stampSpecDigest(s, f).specDigest = f.spec.text
      BY <1>1 DEF stampSpecDigest, DIGEST_STAMPABLE_GATES, TaskStates
    <2> QED BY <1>1, <2>1, <2>2, NoneAssumption DEF Digests
  <1>2. CASE ~(s.gate \in DraftGates /\ f.spec # None)
    BY <1>2 DEF stampSpecDigest, DIGEST_STAMPABLE_GATES
  <1> QED BY <1>1, <1>2

\* The hook, from the task as read but for the lane a router resolved.
LEMMA AdvanceMoves ==
  ASSUME TypeOK, TypeOK', NEW s \in TaskStates, NEW h,
         \/ s = task
         \/ task.gate \in RouterGates /\ s.taskId = task.taskId /\ s.gate = task.gate
            /\ s.specDigest = task.specDigest,
         h \in Histories, h.parkedAt = hist.parkedAt, h.cleared = hist.cleared,
         h.signedOff = hist.signedOff,
         AdvanceFrom(s, files', h)
  PROVE  Moves
  <1> DEFINE stamped == stampSpecDigest(s, files')
  <1>1. files' \in Files
    BY DEF TypeOK
  <1>2. PICK n \in advanceAlongLane(stamped, files') : Persist(n, h)
    BY DEF AdvanceFrom
  <1>3. /\ stamped \in TaskStates /\ stamped.taskId = s.taskId
        /\ stamped.lane = s.lane /\ stamped.gate = s.gate
    BY <1>1, StampShape
  <1>4. \/ stamped.specDigest = s.specDigest
        \/ stamped.specDigest # None /\ s.gate \in DraftGates
    BY <1>1, StampDigest
  <1> HIDE DEF stamped
  <1>5. Walked(stamped, n, files')
    BY <1>1, <1>2, <1>3, WalkFacts
  <1>6. Recorded(n, h)
    BY DEF Recorded
  <1>7. /\ n \in TaskStates /\ n.taskId = task.taskId
        /\ n.lane = task.lane \/ task.gate \in RouterGates
        /\ task.gate \in TERMINAL_GATES \cup {"parked"} => n.gate = task.gate
    BY <1>3, <1>5 DEF Walked
  <1>8. \/ n.specDigest = task.specDigest
        \/ n.specDigest # None /\ DraftGates \cap {task.gate, n.gate} # {}
    BY <1>3, <1>4, <1>5 DEF Walked
  <1>9. /\ n.gate # task.gate => Proven(n, files') /\ n.gate \notin {"pr-ready", "done"}
        /\ n.lane = "feature" /\ n.gate \in ImplGates => task.gate \in ImplGates
    BY <1>3, <1>5 DEF Walked
  <1>10. MoveFacts(n)
    BY <1>7, <1>8, <1>9 DEF MoveFacts
  <1> QED BY <1>2, <1>6, <1>10 DEF Moves

LEMMA HookMoves == TypeOK /\ TypeOK' /\ Hooks => Moves
  <1> SUFFICES ASSUME TypeOK, TypeOK', Hooks PROVE Moves
    OBVIOUS
  <1>0. task \in TaskStates /\ files \in Files /\ hist \in Histories /\ files' \in Files
    BY DEF TypeOK
  <1>1. CASE GateAdvance
    <2>1. AdvanceFrom(task, files', hist)
      BY <1>1 DEF GateAdvance
    <2> QED BY <1>0, <2>1, AdvanceMoves
  <1>2. CASE SpecIntegrityGuard
    <2> DEFINE s == [task EXCEPT !.gate = "spec-draft", !.specDigest = files.spec.text]
    <2>1. Persist(s, hist) /\ files.spec # None /\ task.gate = "spec-approved"
      BY <1>2 DEF SpecIntegrityGuard
    <2>2. files.spec.text \in Digests
      BY <1>0, <2>1 DEF Files, Specs
    <2>3. /\ s \in TaskStates /\ s.gate = "spec-draft" /\ s.taskId = task.taskId
          /\ s.lane = task.lane /\ s.specDigest # None
      BY <1>0, <2>2, NoneAssumption DEF TaskStates, VALID_GATES, Digests
    <2> HIDE DEF s
    <2>4. MoveFacts(s)
      BY <2>1, <2>3 DEF MoveFacts, DraftGates, TERMINAL_GATES, Proven, ImplGates
    <2> QED BY <2>1, <2>4, SameRecord DEF Moves
  <1>3. ASSUME NEW a \in Workers, NEW sound \in BOOLEAN, WorkerReturns(a, sound)
        PROVE  Moves
    <2> DEFINE h == IF sound THEN [hist EXCEPT !.produced = @ \cup {a}] ELSE hist
    <2>1. AdvanceFrom(task, files', h)
      BY <1>3 DEF WorkerReturns
    <2>2. /\ h \in Histories /\ h.signedOff = hist.signedOff
          /\ h.parkedAt = hist.parkedAt /\ h.cleared = hist.cleared
      BY <1>0 DEF Histories, Workers
    <2> HIDE DEF h
    <2> QED BY <1>0, <2>1, <2>2, AdvanceMoves
  <1>4. ASSUME NEW l \in RouterLanes, NEW c \in BOOLEAN, RouterReturns(l, c)
        PROVE  Moves
    <2> DEFINE h == [hist EXCEPT !.produced = @ \cup {"router"}]
               s == [task EXCEPT !.lane = l]
    <2>1. AdvanceFrom(s, files', h) /\ task.gate \in RouterGates
      BY <1>4 DEF RouterReturns
    <2>2. /\ h \in Histories /\ h.signedOff = hist.signedOff
          /\ h.parkedAt = hist.parkedAt /\ h.cleared = hist.cleared
      BY <1>0 DEF Histories
    <2>3. /\ s \in TaskStates /\ s.taskId = task.taskId /\ s.gate = task.gate
          /\ s.specDigest = task.specDigest
      BY <1>0, RouterAssumption DEF TaskStates
    <2> HIDE DEF h, s
    <2> QED BY <2>1, <2>2, <2>3, AdvanceMoves
  <1> QED BY <1>1, <1>2, <1>3, <1>4 DEF Hooks

\* The human's approval of a gate, by phrase or by gatectl.
LEMMA HumanGateMoves ==
  ASSUME TypeOK, TypeOK', files' = files, NEW gate \in HUMAN_APPROVAL_GATES, HumanGateOpen(gate),
         Persist([task EXCEPT !.gate = gate], IF gate = "spec-approved" THEN SignedOff ELSE hist)
  PROVE  Moves
  <1> DEFINE s == [task EXCEPT !.gate = gate]
             h == IF gate = "spec-approved" THEN SignedOff ELSE hist
  <1>0. task \in TaskStates /\ files \in Files /\ hist \in Histories /\ Valid(task)
    BY DEF TypeOK
  <1>1. /\ s \in TaskStates /\ s.taskId = task.taskId /\ s.gate = gate
        /\ s.lane = task.lane /\ s.specDigest = task.specDigest
    BY <1>0 DEF TaskStates, HUMAN_APPROVAL_GATES, VALID_GATES
  <1>2. task.gate \in VALID_GATES \ (TERMINAL_GATES \cup {"parked"})
    BY <1>0, NoWayOut DEF HumanGateOpen, TaskStates
  <1>3. CASE gate = "spec-approved"
    <2>1. task.gate = "spec-draft" /\ Valid(s)
      BY <1>0, <1>2, <1>3, SpecApprovalEdges, DraftedFeature DEF HumanGateOpen
    <2>2. Recorded(s, h)
      <3>1. /\ SignedOff \in Histories /\ SignedOff.parkedAt = hist.parkedAt
            /\ SignedOff.cleared = hist.cleared
        BY <1>0, <1>3, ApprovalHasSpec DEF SignedOff, Histories, Files, Specs
      <3> QED BY <1>1, <1>3, <2>1, <3>1 DEF Recorded, DraftGates
    <2>3. MoveFacts(s)
      BY <1>1, <1>2, <1>3 DEF MoveFacts, Proven, ImplGates
    <2>4. Persist(s, h)
      OBVIOUS
    <2> HIDE DEF s, h
    <2> QED BY <2>2, <2>3, <2>4 DEF Moves
  <1>4. CASE gate = "pr-ready"
    <2>1. task.gate = "verification-passed"
      BY <1>2, <1>4, HumanEdges DEF HumanGateOpen
    <2>2. MoveFacts(s)
      BY <1>1, <1>2, <1>4, <2>1 DEF MoveFacts, Proven, ImplGates
    <2>3. Persist(s, hist)
      BY <1>4
    <2> HIDE DEF s
    <2> QED BY <2>2, <2>3, SameRecord DEF Moves
  <1> QED BY <1>3, <1>4 DEF HUMAN_APPROVAL_GATES

LEMMA ApproveSpecMoves == TypeOK /\ TypeOK' /\ ApproveSpec => Moves
  <1> SUFFICES ASSUME TypeOK, TypeOK', ApproveSpec PROVE Moves
    OBVIOUS
  <1> DEFINE approved == [task EXCEPT !.gate = "spec-approved"]
  <1>0. task \in TaskStates /\ files \in Files /\ hist \in Histories /\ Valid(task) /\ files' = files
    BY DEF TypeOK, ApproveSpec
  <1>1. CASE HumanGateOpen("spec-approved") /\ Persist(approved, SignedOff)
    BY <1>0, <1>1, HumanGateMoves DEF HUMAN_APPROVAL_GATES
  <1>2. ASSUME HumanGateOpen("spec-approved"), NEW s \in Continued(approved), Persist(s, SignedOff)
        PROVE  Moves
    <2>1. s \in transitionGate(approved, "start-impl", files)
      BY <1>2 DEF Continued
    <2>2. task.gate = "spec-draft"
      BY <1>0, <1>2, SpecApprovalEdges DEF HumanGateOpen, TaskStates
    <2>3. /\ approved \in TaskStates /\ approved.taskId = task.taskId /\ approved.lane = "feature"
          /\ approved.gate = "spec-approved" /\ approved.specDigest = task.specDigest
          /\ task.lane = "feature" /\ Valid([task EXCEPT !.gate = "impl-started"])
      BY <1>0, <2>2, DraftedFeature DEF TaskStates, VALID_GATES
    <2> HIDE DEF approved
    <2>4. s.gate = "impl-started"
      <3>1. s.gate \in NextGates(approved, "start-impl", files)
        BY <1>0, <2>1, <2>3, TransitionShape
      <3>2. PICK e \in TRANSITIONS["feature"] \cup STEERING :
              e.from = "spec-approved" /\ e.event = "start-impl" /\ e.to = s.gate
        BY <2>3, <3>1 DEF NextGates
      <3>3. e \notin STEERING
        BY <3>2 DEF STEERING, Edge
      <3> QED BY <3>2, <3>3 DEF TRANSITIONS, PrTail, Edge
    <2>5. /\ s \in TaskStates /\ s = [approved EXCEPT !.gate = s.gate]
          /\ s.lane = "feature" /\ s.gate = "impl-started" => task.specDigest # None
      BY <1>0, <2>1, <2>3, TransitionFacts
    <2>6. /\ s.taskId = task.taskId /\ s.lane = "feature" /\ s.specDigest = task.specDigest
          /\ s = [task EXCEPT !.gate = "impl-started"]
      BY <1>0, <2>3, <2>4, <2>5 DEF TaskStates, approved
    <2>7. MoveFacts(s)
      BY <2>2, <2>3, <2>4, <2>5, <2>6 DEF MoveFacts, Proven, TERMINAL_GATES
    <2>8. Recorded(s, SignedOff)
      <3>1. /\ SignedOff \in Histories /\ SignedOff.parkedAt = hist.parkedAt
            /\ SignedOff.cleared = hist.cleared
        BY <1>0, <1>2, ApprovalHasSpec DEF SignedOff, Histories, Files, Specs
      <3> QED BY <2>3, <2>4, <2>6, <3>1 DEF Recorded, DraftGates
    <2> QED BY <1>2, <2>7, <2>8 DEF Moves
  <1>3. ASSUME NEW s \in Continued(task), Persist(s, hist)
        PROVE  Moves
    <2>1. s \in transitionGate(task, "start-impl", files')
      BY <1>0, <1>3 DEF Continued
    <2> QED BY <1>0, <1>3, <2>1, TransitionMoves, SameRecord DEF Moves
  <1> QED BY <1>1, <1>2, <1>3 DEF ApproveSpec

LEMMA HumanMoves == TypeOK /\ TypeOK' /\ Human => Moves \/ Still
  <1> SUFFICES ASSUME TypeOK, TypeOK', Human PROVE Moves \/ Still
    OBVIOUS
  <1>0. task \in TaskStates /\ files \in Files /\ hist \in Histories
    BY DEF TypeOK
  <1>1. CASE ApproveSpec
    BY <1>1, ApproveSpecMoves
  <1>2. CASE ApprovePlan
    <2>1. PICK s \in transitionGate(task, "start-impl", files') : Persist(s, hist)
      BY <1>2 DEF ApprovePlan
    <2> QED BY <1>2, <2>1, TransitionMoves, SameRecord DEF Moves, ApprovePlan
  <1>3. CASE ApprovePr
    BY <1>3, HumanGateMoves DEF ApprovePr, HUMAN_APPROVAL_GATES
  <1>4. CASE ApproveNoTdd
    BY <1>4 DEF ApproveNoTdd, Still
  <1>5. CASE EscalateChore
    <2> DEFINE s == [task EXCEPT !.lane = "feature", !.gate = "plan-approved"]
    <2>1. Persist(s, hist) /\ task.gate \notin TERMINAL_GATES \cup {"parked"}
      BY <1>5 DEF EscalateChore, TERMINAL_GATES
    <2>2. /\ s \in TaskStates /\ s.gate = "plan-approved" /\ s.taskId = task.taskId
          /\ s.specDigest = task.specDigest
      BY <1>0 DEF TaskStates, VALID_GATES, Lanes
    <2> HIDE DEF s
    <2>3. MoveFacts(s)
      BY <2>1, <2>2 DEF MoveFacts, Proven, ImplGates
    <2> QED BY <2>1, <2>3, SameRecord DEF Moves
  <1>6. ASSUME NEW e \in PhraseEvents, SteeringPhrase(e)
        PROVE  Moves \/ Still
    <2>1. \/ \E s \in transitionGate(task, e, files') : Persist(s, hist)
          \/ task' = task /\ hist' = hist
      BY <1>6 DEF SteeringPhrase
    <2>2. files'.pointer = files.pointer
      BY <1>0, <1>6 DEF SteeringPhrase, Files
    <2> QED BY <2>1, <2>2, TransitionMoves, SameRecord DEF Moves, Still
  <1> QED BY <1>1, <1>2, <1>3, <1>4, <1>5, <1>6 DEF Human

LEMMA CliMoves == TypeOK /\ TypeOK' /\ Cli => Moves
  <1> SUFFICES ASSUME TypeOK, TypeOK', Cli PROVE Moves
    OBVIOUS
  <1>1. ASSUME NEW e \in CliEvents, GatectlSet(e) PROVE Moves
    <2>1. PICK s \in transitionGate(task, e, files') : Persist(s, hist)
      BY <1>1 DEF GatectlSet
    <2> QED BY <1>1, <2>1, TransitionMoves, SameRecord DEF Moves, GatectlSet
  <1>2. ASSUME NEW g \in HUMAN_APPROVAL_GATES, GatectlApprove(g) PROVE Moves
    BY <1>2, HumanGateMoves DEF GatectlApprove
  <1> QED BY <1>1, <1>2 DEF Cli

LEMMA EnvironmentKeeps ==
  TypeOK /\ TypeOK' /\ Environment => Still \/ \E t \in Tasks : NewSession(t)
  <1> SUFFICES ASSUME TypeOK, TypeOK', Environment,
                      ~\E t \in Tasks : NewSession(t)
               PROVE  Still
    OBVIOUS
  <1>0. files \in Files /\ hist \in Histories
    BY DEF TypeOK
  <1>1. CASE EditSpec \/ VerifyAges \/ WriteResumePointer
    BY <1>1 DEF EditSpec, VerifyAges, WriteResumePointer, Still
  <1>2. ASSUME NEW p \in BOOLEAN, RunVerify(p) PROVE Still
    BY <1>0, <1>2 DEF RunVerify, RecordVerdict, Histories, Still
  <1> QED BY <1>1, <1>2 DEF Environment

\* Every step but complete-ac's moves the task by known ways, leaves it or replaces it.
LEMMA OtherSteps ==
  ASSUME TypeOK, TypeOK', Others
  PROVE  Moves \/ Still \/ \E t \in Tasks : NewSession(t)
  BY HookMoves, HumanMoves, CliMoves, EnvironmentKeeps DEF Others

\* Every step moves the task by known ways, keeps it or replaces it.
LEMMA EveryStep ==
  ASSUME TypeOK, TypeOK', Next
  PROVE  Moves \/ Keeps \/ \E t \in Tasks : NewSession(t)
  <1>1. CASE CompleteAc
    <2>1. \E d \in Digests : task' = [task EXCEPT !.specDigest = d]
      BY <1>1 DEF CompleteAc, Files, Specs, TypeOK
    <2> QED BY <1>1, <2>1 DEF Keeps, CompleteAc
  <1>2. CASE Others
    <2>1. Still => Keeps
      BY DEF Still, Keeps
    <2> QED BY <1>2, <2>1, OtherSteps
  <1> QED BY <1>1, <1>2 DEF Next

-----------------------------------------------------------------------------
(* The invariant of the record.                                            *)

ClearedInv == EffectiveGate \in LateGates => hist.cleared

SpecInv == task.lane = "feature" /\ EffectiveGate \in ImplGates => task.specDigest # None

\* A signature does not outlive the return to draft; and, in a disciplined run,
\* the gate a task is at or will resume to is backed.
RecordInv ==
  /\ hist.signedOff # None => task.gate \notin DraftGates
  /\ Disciplined => ClearedInv /\ SpecInv

LEMMA MovedRecord ==
  ASSUME NEW n, NEW h \in Histories
  PROVE  /\ Moved(n, h).parkedAt = IF n.gate = "parked" THEN task.gate ELSE h.parkedAt
         /\ Moved(n, h).signedOff = IF n.gate \in DraftGates THEN None ELSE h.signedOff
         /\ Moved(n, h).produced = h.produced /\ Moved(n, h).past = h.past
         /\ n.gate = "verification-passed" /\ task.gate # "parked" => Moved(n, h).cleared
         /\ h.cleared /\ n.gate \notin DraftGates \cup {"impl-started"} => Moved(n, h).cleared
  BY DEF Moved, Histories

\* Where a resume leads, when the pointer is rewritten for every park.
LEMMA ResumeGate ==
  ASSUME GateInv, Disciplined, task.gate = "parked"
  PROVE  ResumeGates(task, files) \subseteq {hist.parkedAt}
  BY DEF GateInv, ParkedInv, ResumeGates

LEMMA MovesRecord ==
  ASSUME GateInv, RecordInv, Moves
  PROVE  RecordInv'
  <1>1. PICK n, h : MoveFacts(n) /\ Recorded(n, h) /\ Persist(n, h)
    BY DEF Moves
  <1>2. h \in Histories /\ h.parkedAt = hist.parkedAt /\ h.cleared = hist.cleared
    BY <1>1 DEF Recorded
  <1>3. CASE ~Valid(n)
    <2>1. task' = task /\ hist' = h /\ h.signedOff = hist.signedOff
      BY <1>1, <1>3 DEF Persist, Recorded
    <2> QED BY <1>2, <2>1 DEF RecordInv, ClearedInv, SpecInv, EffectiveGate, Disciplined
  <1>4. CASE Valid(n) /\ n.gate = task.gate
    <2>1. task' = n /\ hist' = h
      BY <1>1, <1>4 DEF Persist
    <2>2. (hist.signedOff # None => task.gate \notin DraftGates)'
      BY <1>1, <1>4, <2>1 DEF Recorded, RecordInv
    <2>3. ASSUME Disciplined PROVE ClearedInv'
      BY <1>2, <1>4, <2>1, <2>3 DEF RecordInv, ClearedInv, EffectiveGate
    <2>4. ASSUME Disciplined PROVE SpecInv'
      <3>1. SUFFICES ASSUME n.lane = "feature", EffectiveGate \in ImplGates
                     PROVE  n.specDigest # None
        BY <1>2, <1>4, <2>1 DEF SpecInv, EffectiveGate
      <3>2. n.lane = task.lane
        BY <1>1, <1>4, <2>4, <3>1 DEF MoveFacts, Disciplined, EffectiveGate, ImplGates
      <3>3. task.specDigest # None
        BY <2>4, <3>1, <3>2 DEF RecordInv, SpecInv
      <3> QED BY <1>1, <3>3 DEF MoveFacts
    <2> QED BY <2>2, <2>3, <2>4 DEF RecordInv, Disciplined
  <1>5. CASE Valid(n) /\ n.gate # task.gate
    <2>1. task' = n /\ hist' = Moved(n, h)
      BY <1>1, <1>5 DEF Persist
    <2>2. (hist.signedOff # None => task.gate \notin DraftGates)'
      BY <1>2, <2>1, MovedRecord
    <2>3. ASSUME Disciplined PROVE ClearedInv'
      <3>1. SUFFICES ASSUME EffectiveGate' \in LateGates PROVE Moved(n, h).cleared
        BY <2>1 DEF ClearedInv
      <3>2. CASE n.gate = "parked"
        <4>1. EffectiveGate' = task.gate /\ task.gate # "parked"
          BY <1>2, <1>5, <2>1, <3>2, MovedRecord DEF EffectiveGate
        <4>2. hist.cleared
          BY <2>3, <3>1, <4>1 DEF RecordInv, ClearedInv, EffectiveGate
        <4> QED BY <1>2, <3>2, <4>2, MovedRecord DEF DraftGates
      <3>3. CASE n.gate # "parked" /\ task.gate = "parked"
        <4>1. n.gate \in LateGates
          BY <2>1, <3>1, <3>3 DEF EffectiveGate
        <4>2. n.gate = hist.parkedAt
          BY <1>1, <2>3, <3>3, <4>1, ResumeGate DEF MoveFacts, LateGates
        <4>3. hist.cleared
          BY <2>3, <3>3, <4>1, <4>2 DEF RecordInv, ClearedInv, EffectiveGate
        <4> QED BY <1>2, <4>1, <4>3, MovedRecord DEF LateGates, DraftGates
      <3>4. CASE n.gate # "parked" /\ task.gate # "parked"
        <4>1. n.gate \in LateGates
          BY <2>1, <3>1, <3>4 DEF EffectiveGate
        <4>2. CASE n.gate = "verification-passed"
          BY <1>2, <3>4, <4>2, MovedRecord
        <4>3. CASE n.gate \in {"pr-ready", "done"}
          <5>1. task.gate \in LateGates
            BY <1>1, <1>5, <3>4, <4>3 DEF MoveFacts, LateGates
          <5>2. hist.cleared
            BY <2>3, <3>4, <5>1 DEF RecordInv, ClearedInv, EffectiveGate
          <5> QED BY <1>2, <4>3, <5>2, MovedRecord DEF DraftGates
        <4> QED BY <4>1, <4>2, <4>3 DEF LateGates
      <3> QED BY <3>2, <3>3, <3>4
    <2>4. ASSUME Disciplined PROVE SpecInv'
      <3>1. SUFFICES ASSUME n.lane = "feature", EffectiveGate' \in ImplGates
                     PROVE  n.specDigest # None
        BY <2>1 DEF SpecInv
      <3>2. n.specDigest = task.specDigest \/ n.specDigest # None
        BY <1>1 DEF MoveFacts
      <3>3. CASE n.gate = "parked"
        <4>1. EffectiveGate' = task.gate /\ task.gate # "parked"
          BY <1>2, <1>5, <2>1, <3>3, MovedRecord DEF EffectiveGate
        <4>2. n.lane = task.lane
          BY <1>1, <2>4, <3>1, <3>3, <4>1 DEF MoveFacts, Disciplined, ImplGates
        <4>3. task.specDigest # None
          BY <2>4, <3>1, <4>1, <4>2 DEF RecordInv, SpecInv, EffectiveGate
        <4> QED BY <3>2, <4>3
      <3>4. CASE n.gate # "parked"
        <4>1. n.gate \in ImplGates
          BY <2>1, <3>1, <3>4 DEF EffectiveGate
        <4>2. CASE task.gate = "parked"
          <5>1. n.gate = hist.parkedAt /\ n.lane = task.lane
            BY <1>1, <2>4, <4>1, <4>2, ResumeGate DEF MoveFacts, Disciplined, ImplGates
          <5>2. task.specDigest # None
            BY <2>4, <3>1, <4>1, <4>2, <5>1 DEF RecordInv, SpecInv, EffectiveGate
          <5> QED BY <3>2, <5>2
        <4>3. CASE task.gate # "parked"
          <5>1. n.specDigest # None \/ task.gate \in ImplGates
            BY <1>1, <3>1, <4>1, <4>3 DEF MoveFacts
          <5>2. ASSUME task.gate \in ImplGates PROVE task.specDigest # None
            <6>1. n.lane = task.lane
              BY <1>1, <2>4, <4>1, <5>2 DEF MoveFacts, Disciplined, ImplGates
            <6> QED BY <2>4, <3>1, <4>3, <5>2, <6>1 DEF RecordInv, SpecInv, EffectiveGate
          <5> QED BY <3>2, <5>1, <5>2
        <4> QED BY <4>2, <4>3
      <3> QED BY <3>3, <3>4
    <2> QED BY <2>2, <2>3, <2>4 DEF RecordInv, Disciplined
  <1> QED BY <1>3, <1>4, <1>5

LEMMA KeepsRecordInv ==
  ASSUME GateInv, RecordInv, Keeps
  PROVE  RecordInv'
  <1>1. /\ task'.gate = task.gate /\ task'.lane = task.lane
        /\ task'.specDigest = task.specDigest \/ task'.specDigest # None
    BY NoneAssumption DEF Keeps, GateInv, TypeOK, TaskStates, Digests
  <1> QED BY <1>1 DEF Keeps, RecordInv, ClearedInv, SpecInv, EffectiveGate, Disciplined

LEMMA FreshRecord ==
  ASSUME NEW t \in Tasks, NewSession(t)
  PROVE  RecordInv'
  <1>1. task' = FreshTask(t) /\ hist' = FreshHist(hist.past \cup {task.taskId})
    BY DEF NewSession
  <1> QED BY <1>1 DEF RecordInv, ClearedInv, SpecInv, EffectiveGate, LateGates, ImplGates,
         FreshTask, FreshHist, Disciplined

\* The record is kept in every reachable state.
THEOREM RecordInvHolds == Spec => []RecordInv
  <1>1. Init => RecordInv
    BY DEF Init, FreshTask, FreshHist, RecordInv, ClearedInv, SpecInv, EffectiveGate, LateGates,
       ImplGates
  <1>2. GateInv /\ GateInv' /\ RecordInv /\ [Next]_vars => RecordInv'
    <2> SUFFICES ASSUME GateInv, GateInv', RecordInv, [Next]_vars PROVE RecordInv'
      OBVIOUS
    <2>1. CASE Next
      <3>1. TypeOK /\ TypeOK'
        BY DEF GateInv
      <3> QED BY <2>1, <3>1, EveryStep, MovesRecord, KeepsRecordInv, FreshRecord
    <2>2. CASE UNCHANGED vars
      BY <2>2 DEF vars, RecordInv, ClearedInv, SpecInv, EffectiveGate, Disciplined
    <2> QED BY <2>1, <2>2
  <1> QED BY <1>1, <1>2, GateInvHolds, PTL DEF Spec

-----------------------------------------------------------------------------
(* Whose evidence is on disk.                                              *)

\* What grill, critique and verify left behind is of this task, produced by
\* its worker, of an earlier one, or of nobody.
EvidenceInv ==
  /\ \A a \in {"grill", "critique"} :
       /\ files[a] = task.taskId => a \in hist.produced
       /\ files[a] \in hist.past \cup {task.taskId, Nobody, None}
  /\ files.verify # None =>
       /\ files.verify.taskId = task.taskId => "verify" \in hist.produced
       /\ files.verify.taskId \in hist.past \cup {task.taskId, Nobody}
  /\ EvidenceIsOwn

\* What a step files, and what it remembers.
Filed ==
  /\ files.verify # None => files'.verify # None \/ "verify" \in hist'.produced
  /\ \A a \in {"grill", "critique"} :
       files'[a] = files[a] \/ (files'[a] = task.taskId /\ a \in hist'.produced)
  /\ files'.verify # None =>
       \/ files.verify # None /\ files'.verify.taskId = files.verify.taskId
       \/ files'.verify.taskId \in {task.taskId, Nobody} /\ "verify" \in hist'.produced
  /\ hist.produced \subseteq hist'.produced
  /\ hist'.past = hist.past

LEMMA PersistKeeps ==
  ASSUME NEW n, NEW h \in Histories, Persist(n, h)
  PROVE  hist'.produced = h.produced /\ hist'.past = h.past
  BY MovedRecord DEF Persist

LEMMA EveryStepFiles ==
  ASSUME TypeOK, TypeOK', Next, ~\E t \in Tasks : NewSession(t)
  PROVE  Filed
  <1>0. task \in TaskStates /\ files \in Files /\ hist \in Histories
    BY DEF TypeOK
  <1>1. ASSUME files' = files, \E n : Persist(n, hist) PROVE Filed
    BY <1>0, <1>1, PersistKeeps DEF Filed
  <1>2. CASE GateAdvance \/ SpecIntegrityGuard
    BY <1>1, <1>2 DEF GateAdvance, AdvanceFrom, SpecIntegrityGuard
  <1>3. ASSUME NEW a \in Workers, NEW sound \in BOOLEAN, WorkerReturns(a, sound)
        PROVE  Filed
    <2> DEFINE f == IF Projects(a, sound) THEN [files EXCEPT ![a] = task.taskId] ELSE files
               h == IF sound THEN [hist EXCEPT !.produced = @ \cup {a}] ELSE hist
    <2>1. files' = f /\ \E n : Persist(n, h)
      BY <1>3 DEF WorkerReturns, AdvanceFrom
    <2>2. /\ h \in Histories /\ hist.produced \subseteq h.produced /\ h.past = hist.past
          /\ sound => a \in h.produced
      BY <1>0 DEF Histories, Workers
    <2>3. hist'.produced = h.produced /\ hist'.past = h.past
      BY <2>1, <2>2, PersistKeeps
    <2>4. files'.verify = files.verify
      BY <1>0, <2>1 DEF Files, Workers
    <2>5. ASSUME NEW b \in {"grill", "critique"}
          PROVE  files'[b] = files[b] \/ (files'[b] = task.taskId /\ b \in hist'.produced)
      <3>1. CASE files' = files
        BY <3>1
      <3>2. CASE Projects(a, sound) /\ files' = [files EXCEPT ![a] = task.taskId]
        <4>1. CASE b # a
          BY <1>0, <3>2, <4>1 DEF Files, Workers
        <4>2. CASE b = a
          <5>1. sound
            BY <3>2, <4>2 DEF Projects
          <5>2. files'[b] = task.taskId
            BY <1>0, <3>2, <4>2 DEF Files
          <5> QED BY <2>2, <2>3, <4>2, <5>1, <5>2
        <4> QED BY <4>1, <4>2
      <3> QED BY <2>1, <3>1, <3>2
    <2> HIDE DEF f, h
    <2> QED BY <2>2, <2>3, <2>4, <2>5 DEF Filed
  <1>4. ASSUME NEW l \in RouterLanes, NEW c \in BOOLEAN, RouterReturns(l, c)
        PROVE  Filed
    <2> DEFINE h == [hist EXCEPT !.produced = @ \cup {"router"}]
    <2>1. files' = [files EXCEPT !.router = [confident |-> c]] /\ \E n : Persist(n, h)
      BY <1>4 DEF RouterReturns, AdvanceFrom
    <2>2. h \in Histories /\ hist.produced \subseteq h.produced /\ h.past = hist.past
      BY <1>0 DEF Histories
    <2>3. hist'.produced = h.produced /\ hist'.past = h.past
      BY <2>1, <2>2, PersistKeeps
    <2>4. files'.verify = files.verify /\ \A b \in {"grill", "critique"} : files'[b] = files[b]
      BY <1>0, <2>1 DEF Files
    <2> HIDE DEF h
    <2> QED BY <2>2, <2>3, <2>4 DEF Filed
  <1>5. ASSUME files' = files, \E n : Persist(n, SignedOff), files.spec # None PROVE Filed
    <2>1. /\ SignedOff \in Histories /\ SignedOff.produced = hist.produced
          /\ SignedOff.past = hist.past
      BY <1>0, <1>5 DEF SignedOff, Histories, Files, Specs
    <2> QED BY <1>5, <2>1, PersistKeeps DEF Filed
  <1>6. CASE Human
    <2>1. CASE ApproveSpec
      BY <1>1, <1>5, <2>1, ApprovalHasSpec DEF ApproveSpec
    <2>2. CASE ApprovePlan \/ ApprovePr \/ EscalateChore
      BY <1>1, <2>2 DEF ApprovePlan, ApprovePr, EscalateChore
    <2>3. CASE ApproveNoTdd
      BY <1>0, <2>3 DEF ApproveNoTdd, Filed, Files
    <2>4. ASSUME NEW e \in PhraseEvents, SteeringPhrase(e) PROVE Filed
      <3>1. files'.verify = files.verify /\ \A b \in {"grill", "critique"} : files'[b] = files[b]
        BY <1>0, <2>4 DEF SteeringPhrase, Files
      <3>2. (\E n : Persist(n, hist)) \/ hist' = hist
        BY <2>4 DEF SteeringPhrase
      <3> QED BY <1>0, <3>1, <3>2, PersistKeeps DEF Filed
    <2> QED BY <1>6, <2>1, <2>2, <2>3, <2>4 DEF Human
  <1>7. CASE Cli
    <2>1. ASSUME NEW e \in CliEvents, GatectlSet(e) PROVE Filed
      BY <1>1, <2>1 DEF GatectlSet
    <2>2. ASSUME NEW g \in HUMAN_APPROVAL_GATES, GatectlApprove(g) PROVE Filed
      BY <1>1, <1>5, <2>2, ApprovalHasSpec DEF GatectlApprove
    <2> QED BY <1>7, <2>1, <2>2 DEF Cli
  <1>8. CASE Environment
    <2>1. CASE EditSpec \/ WriteResumePointer
      BY <1>0, <2>1 DEF EditSpec, WriteResumePointer, Filed, Files
    <2>2. CASE VerifyAges
      <3>1. /\ files.verify # None /\ files.verify \in VerifyResults
            /\ files'.verify = [files.verify EXCEPT !.fresh = FALSE]
            /\ \A b \in {"grill", "critique"} : files'[b] = files[b]
        BY <1>0, <2>2 DEF VerifyAges, Files
      <3>2. files'.verify \in VerifyResults /\ files'.verify.taskId = files.verify.taskId
        BY <3>1 DEF VerifyResults
      <3> QED BY <2>2, <3>1, <3>2, AbsentAssumption DEF VerifyAges, Filed
    <2>3. ASSUME NEW p \in BOOLEAN, RunVerify(p) PROVE Filed
      <3>1. PICK owner \in Reads(task.taskId, Nobody), digest \in Reads(task.specDigest, None) :
              RecordVerdict(p, owner, digest)
        BY <2>3 DEF RunVerify
      <3>2. owner \in {task.taskId, Nobody}
        BY DEF Reads
      <3>3. files'.verify.taskId = owner /\ \A b \in {"grill", "critique"} : files'[b] = files[b]
        BY <1>0, <3>1 DEF RecordVerdict, Files
      <3>4. /\ "verify" \in hist'.produced /\ hist.produced \subseteq hist'.produced
            /\ hist'.past = hist.past
        BY <1>0, <3>1 DEF RecordVerdict, Histories
      <3> QED BY <3>2, <3>3, <3>4 DEF Filed
    <2> QED BY <1>8, <2>1, <2>2, <2>3 DEF Environment
  <1>9. CASE CompleteAc
    BY <1>0, <1>9 DEF CompleteAc, Filed, Files
  <1> QED BY <1>2, <1>3, <1>4, <1>6, <1>7, <1>8, <1>9 DEF Next, Others, Hooks

LEMMA StepEvidence ==
  ASSUME TypeOK, TypeOK', EvidenceInv, Next, ~\E t \in Tasks : NewSession(t)
  PROVE  EvidenceInv'
  <1>1. Filed
    BY EveryStepFiles
  <1>2. Moves \/ Keeps
    BY EveryStep
  <1>3. /\ task'.taskId = task.taskId
        /\ task'.gate = task.gate \/ Proven(task', files')
    <2>1. CASE Keeps
      BY <2>1 DEF Keeps, TypeOK, TaskStates
    <2>2. CASE Moves
      <3>1. PICK n, h : MoveFacts(n) /\ Persist(n, h)
        BY <2>2 DEF Moves
      <3>2. task' = task \/ task' = n
        BY <3>1 DEF Persist
      <3> QED BY <3>1, <3>2 DEF MoveFacts
    <2> QED BY <1>2, <2>1, <2>2
  <1>4. \A a \in {"grill", "critique"} :
          /\ files'[a] = task'.taskId => a \in hist'.produced
          /\ files'[a] \in hist'.past \cup {task'.taskId, Nobody, None}
    BY <1>1, <1>3 DEF EvidenceInv, Filed
  <1>5. files'.verify # None =>
          /\ files'.verify.taskId = task'.taskId => "verify" \in hist'.produced
          /\ files'.verify.taskId \in hist'.past \cup {task'.taskId, Nobody}
    BY <1>1, <1>3 DEF EvidenceInv, Filed
  <1>6. EvidenceIsOwn'
    <2>1. CASE task'.gate = task.gate
      <3> SUFFICES ASSUME NEW w \in EvidenceFor(task.gate), w \notin hist'.produced
                   PROVE  OwnerNamed(w, files') = Nobody
        BY <2>1 DEF EvidenceIsOwn
      <3>1. w \in {"grill", "critique", "verify"}
        BY DEF EvidenceFor
      <3>2. w \notin hist.produced /\ OwnerNamed(w, files) = Nobody
        BY <1>1 DEF Filed, EvidenceInv, EvidenceIsOwn
      <3>3. CASE w # "verify"
        BY <1>1, <3>1, <3>2, <3>3 DEF Filed, OwnerNamed
      <3>4. CASE w = "verify" /\ files'.verify # None
        BY <1>1, <3>2, <3>4, NobodyAssumption DEF Filed, OwnerNamed
      <3>5. CASE w = "verify" /\ files'.verify = None
        <4>1. files.verify # None
          BY <3>2, <3>5, NobodyAssumption DEF OwnerNamed
        <4> QED BY <1>1, <3>5, <4>1 DEF Filed
      <3> QED BY <3>3, <3>4, <3>5
    <2>2. CASE Proven(task', files')
      BY <1>4, <1>5, <2>2 DEF Proven, EvidenceIsOwn, EvidenceFor, OwnerNamed
    <2> QED BY <1>3, <2>1, <2>2
  <1> QED BY <1>4, <1>5, <1>6 DEF EvidenceInv

\* A session that never was before finds nothing under its id.
LEMMA FreshEvidence ==
  ASSUME ~ReturningSessions, EvidenceInv, NEW t \in Tasks, NewSession(t)
  PROVE  EvidenceInv'
  <1>1. /\ t # task.taskId /\ t \notin hist.past /\ t # None /\ t # Nobody
        /\ task' = FreshTask(t) /\ hist' = FreshHist(hist.past \cup {task.taskId})
        /\ files' = files
    BY TasksAssumption, NobodyAssumption DEF NewSession
  <1>2. task'.taskId = t /\ task'.gate = "no-lane" /\ hist'.past = hist.past \cup {task.taskId}
    BY <1>1 DEF FreshTask, FreshHist
  <1>3. EvidenceIsOwn'
    BY <1>2 DEF EvidenceIsOwn, EvidenceFor
  <1> QED BY <1>1, <1>2, <1>3 DEF EvidenceInv

-----------------------------------------------------------------------------
(* The theorems.                                                           *)

\* The late gates are backed: pr-ready and done by a passed verification, a
\* feature's implementation by a recorded spec, provided the pointer is rewritten
\* for every park and the router answers only at no-lane.
THEOREM LateGatesAreBackedHolds ==
  ASSUME Disciplined
  PROVE  Spec => []LateGatesAreBacked
  <1>1. RecordInv => LateGatesAreBacked
    BY DEF RecordInv, ClearedInv, SpecInv, EffectiveGate, LateGates, ImplGates,
       LateGatesAreBacked, NoSkippedVerification, FeatureImplHasSpec
  <1> QED BY <1>1, RecordInvHolds, PTL

\* The gates an artifact proves are entered on this task's own result, or on one that
\* names no task, whatever workers return and an upgrade finds, as long as no session
\* comes back.
THEOREM EvidenceIsOwnHolds ==
  ASSUME ~ReturningSessions
  PROVE  Spec => []EvidenceIsOwn
  <1>1. Init => EvidenceInv
    BY TasksAssumption, NobodyAssumption
       DEF Init, LeftOver, FreshTask, FreshHist, EvidenceInv, EvidenceIsOwn, EvidenceFor
  <1>2. GateInv /\ GateInv' /\ EvidenceInv /\ [Next]_vars => EvidenceInv'
    <2> SUFFICES ASSUME GateInv, GateInv', EvidenceInv, [Next]_vars PROVE EvidenceInv'
      OBVIOUS
    <2>1. CASE Next
      <3>1. TypeOK /\ TypeOK'
        BY DEF GateInv
      <3> QED BY <2>1, <3>1, StepEvidence, FreshEvidence
    <2>2. CASE UNCHANGED vars
      BY <2>2 DEF vars, EvidenceInv, EvidenceIsOwn, OwnerNamed
    <2> QED BY <2>1, <2>2
  <1>3. EvidenceInv => EvidenceIsOwn
    BY DEF EvidenceInv
  <1> QED BY <1>1, <1>2, <1>3, GateInvHolds, PTL DEF Spec

\* A finished task is finished, provided no router answers at a terminal gate.
THEOREM TerminalStaysHolds ==
  ASSUME RouterGates \cap TERMINAL_GATES = {}
  PROVE  Spec => TerminalStays
  <1> DEFINE Stays == task.gate \in TERMINAL_GATES =>
               task'.taskId # task.taskId \/ (task'.gate = task.gate /\ task'.lane = task.lane)
  <1>1. GateInv /\ GateInv' /\ [Next]_vars => [Stays]_vars
    <2> SUFFICES ASSUME GateInv, GateInv', Next, task.gate \in TERMINAL_GATES
                 PROVE  Stays
      OBVIOUS
    <2>1. TypeOK /\ TypeOK'
      BY DEF GateInv
    <2>2. CASE Moves
      <3>1. PICK n, h : MoveFacts(n) /\ Persist(n, h)
        BY <2>2 DEF Moves
      <3>2. n.gate = task.gate /\ n.lane = task.lane
        BY <3>1 DEF MoveFacts, TERMINAL_GATES
      <3> QED BY <3>1, <3>2 DEF Persist
    <2>3. CASE Keeps
      BY <2>1, <2>3 DEF Keeps, TypeOK, TaskStates
    <2>4. CASE \E t \in Tasks : NewSession(t)
      BY <2>4 DEF NewSession, FreshTask
    <2> QED BY <2>1, <2>2, <2>3, <2>4, EveryStep
  <1>2. Spec => [][Stays]_vars
    BY <1>1, GateInvHolds, PTL DEF Spec
  <1> QED BY <1>2 DEF TerminalStays

\* A resume returns to the gate parked from, under the same discipline as above.
THEOREM ResumeReturnsHolds ==
  ASSUME Disciplined
  PROVE  Spec => ResumeReturnsToParkedGate
  <1> DEFINE Returns == task.gate = "parked" /\ task'.gate \notin {"parked", "abandoned"} =>
               task'.gate = hist.parkedAt
  <1>1. GateInv /\ GateInv' /\ [Next]_vars => [Returns]_vars
    <2> SUFFICES ASSUME GateInv, GateInv', Next, task.gate = "parked",
                        task'.gate \notin {"parked", "abandoned"}
                 PROVE  task'.gate = hist.parkedAt
      OBVIOUS
    <2>1. TypeOK /\ TypeOK'
      BY DEF GateInv
    <2>2. CASE Moves
      <3>1. PICK n, h : MoveFacts(n) /\ Persist(n, h)
        BY <2>2 DEF Moves
      <3>2. task' = n
        BY <3>1 DEF Persist
      <3> QED BY <3>1, <3>2, ResumeGate DEF MoveFacts
    <2>3. CASE Keeps
      BY <2>1, <2>3 DEF Keeps, TypeOK, TaskStates
    <2>4. CASE \E t \in Tasks : NewSession(t)
      BY <2>4 DEF NewSession, TERMINAL_GATES
    <2> QED BY <2>1, <2>2, <2>3, <2>4, EveryStep
  <1>2. Spec => [][Returns]_vars
    BY <1>1, GateInvHolds, PTL DEF Spec
  <1> QED BY <1>2 DEF ResumeReturnsToParkedGate

\* From sign-off until the spec goes back to draft its digest is locked against every
\* step but complete-ac's: whatever the router, the phrases, parks and resumes do.
THEOREM DigestLockedHolds == Spec => DigestLocked
  <1> DEFINE Locked == task.lane = "feature" /\ hist.signedOff # None /\ hist'.signedOff # None =>
               task'.specDigest = task.specDigest \/ ~Others
  <1>1. GateInv /\ GateInv' /\ RecordInv /\ [Next]_vars => [Locked]_vars
    <2> SUFFICES ASSUME GateInv, GateInv', RecordInv, Next,
                        hist.signedOff # None, hist'.signedOff # None, Others
                 PROVE  task'.specDigest = task.specDigest
      OBVIOUS
    <2>1. TypeOK /\ TypeOK'
      BY DEF GateInv
    <2>2. CASE Moves
      <3>1. PICK n, h : MoveFacts(n) /\ Recorded(n, h) /\ Persist(n, h)
        BY <2>2 DEF Moves
      <3>2. task.gate \notin DraftGates
        BY DEF RecordInv
      <3>3. CASE ~Valid(n)
        BY <3>1, <3>3 DEF Persist
      <3>4. CASE Valid(n)
        <4>1. task' = n /\ n.gate \notin DraftGates
          BY <3>1, <3>2, <3>4, MovedRecord DEF Persist, Recorded
        <4> QED BY <3>1, <3>2, <4>1 DEF MoveFacts
      <3> QED BY <3>3, <3>4
    <2>3. CASE Still
      BY <2>3 DEF Still
    <2>4. CASE \E t \in Tasks : NewSession(t)
      BY <2>4 DEF NewSession, FreshHist
    <2> QED BY <2>1, <2>2, <2>3, <2>4, OtherSteps
  <1>2. Spec => [][Locked]_vars
    BY <1>1, GateInvHolds, RecordInvHolds, PTL DEF Spec
  <1> QED BY <1>2 DEF DigestLocked
=============================================================================
