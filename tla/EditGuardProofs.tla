--------------------------- MODULE EditGuardProofs --------------------------
(***************************************************************************)
(* The TDD guard: production code only after a test or a waiver, and what  *)
(* overlapping calls may lose; for any calls, targets and hooks.           *)
(***************************************************************************)
EXTENDS EditGuard, TLAPS

\* What a guard records has happened.
Backed(g) == /\ g.testFileWritten => hist.tried
             /\ g.overrideGranted => hist.granted

\* It has in every copy that may be written back or decided on.
CopiesBacked ==
  /\ Backed(task.tddGuard)
  /\ human # None => Backed(human.tddGuard)
  /\ \A e \in Calls :
       pc[e] # "new" /\ snap[e].task # None => Backed(snap[e].task.tddGuard)

\* A call judged by a test under implementation has counted it.
TestsCounted ==
  \A e \in Calls :
    /\ pc[e] \notin {"new", "read"}
    /\ snap[e].task # None /\ snap[e].config /\ snap[e].task.gate = "impl-started"
    /\ Judged(e).place # "terminal" /\ Judged(e).kind = "test"
    => hist.tried

\* The inductive invariant.
EditInv == TypeOK /\ CopiesBacked /\ TestsCounted /\ TestOrWaiverFirst

-----------------------------------------------------------------------------
\* The counter's next guard is a guard, and records nothing but an attempted test.
LEMMA TransitionType ==
  ASSUME NEW g \in Guards, NEW t \in Targets
  PROVE  LET n == applyTddGuardTransition(g, t)
         IN  /\ n \in Guards
             /\ n.overrideGranted = g.overrideGranted
             /\ n.testFileWritten = (g.testFileWritten \/ t.kind = "test")
BY DEF applyTddGuardTransition, Guards

\* What a call is judged by is one of its targets.
LEMMA JudgedIsTarget ==
  ASSUME TypeOK, NEW e \in Calls
  PROVE  Judged(e) \in Targets
<1>1. named[e] \in Seq(Targets) \ {<<>>}
  BY NamedAssumption DEF TypeOK
<1> QED
  BY <1>1 DEF Judged, firstToolInputPath

\* An edit let through by rules 6 and 7 had a sound configuration and task, and
\* one of production code a test or a waiver on record.
LEMMA AllowMeansRecorded ==
  ASSUME NEW t \in Targets, NEW isWriter \in BOOLEAN, NEW critical \in BOOLEAN,
         NEW r \in Readings,
         evaluateGuard(t, isWriter, r, critical) = "allow",
         t.place = "inScope", r.task.gate = "impl-started"
  PROVE  /\ r.task # None /\ r.config
         /\ t.kind = "source" =>
              r.task.tddGuard.testFileWritten \/ r.task.tddGuard.overrideGranted
BY DEF evaluateGuard, Permitted, ArtifactAllowed, TestOwed, evaluateTddPreCondition

LEMMA InitEditInv == Init => EditInv
<1> SUFFICES ASSUME Init PROVE EditInv
  OBVIOUS
<1>1. INITIAL_TDD_GUARD \in Guards
  BY DEF INITIAL_TDD_GUARD, Guards
<1>2. task \in Documents /\ task.tddGuard = INITIAL_TDD_GUARD
  BY <1>1 DEF Init, Documents
<1>3. TypeOK
  BY <1>2 DEF Init, TypeOK, Answers
<1>4. CopiesBacked /\ TestsCounted /\ TestOrWaiverFirst
  BY <1>2 DEF Init, CopiesBacked, Backed, INITIAL_TDD_GUARD, TestOrWaiverFirst, TestsCounted
<1> QED
  BY <1>3, <1>4 DEF EditInv

\* Every step keeps EditInv.
LEMMA StepEditInv ==
  ASSUME EditInv, [Next]_vars
  PROVE  EditInv'
<1> USE DEF EditInv
<1>1. ASSUME NEW e \in Calls, NEW seen \in {task, None}, NEW config \in BOOLEAN,
             NEW scope \in BOOLEAN, Read(e, seen, config, scope)
      PROVE  EditInv'
  <2> DEFINE r == [task |-> seen, config |-> config, scope |-> scope]
  <2>1. r \in Readings /\ r.task = seen
    BY DEF TypeOK, Readings
  <2>2. hist' \in [tried : BOOLEAN, granted : BOOLEAN, since : SUBSET Calls, completed : BOOLEAN]
        /\ hist'.tried = hist.tried /\ hist'.granted = hist.granted
        /\ hist'.completed = hist.completed
    BY <1>1 DEF Read, TypeOK
  <2>3. TypeOK'
    BY <1>1, <2>1, <2>2 DEF Read, TypeOK
  <2>4. snap'[e] = r /\ pc'[e] = "read"
        /\ \A f \in Calls \ {e} : snap'[f] = snap[f] /\ pc'[f] = pc[f]
    BY <1>1 DEF Read, TypeOK
  <2>5. CopiesBacked'
    BY <1>1, <2>1, <2>2, <2>4 DEF CopiesBacked, Backed, Read
  <2>6. TestOrWaiverFirst' /\ TestsCounted'
    BY <1>1, <2>2, <2>4 DEF TestOrWaiverFirst, TestsCounted, Judged, Read
  <2> QED
    BY <2>3, <2>5, <2>6
<1>2. ASSUME NEW e \in Calls, CountNothing(e)
      PROVE  EditInv'
  <2>1. pc'[e] = "counted" /\ \A f \in Calls \ {e} : pc'[f] = pc[f]
    BY <1>2 DEF CountNothing, TypeOK
  <2>2. TypeOK'
    BY <1>2, <2>1 DEF CountNothing, TypeOK
  <2>3. CopiesBacked'
    BY <1>2, <2>1 DEF CopiesBacked, Backed, CountNothing
  <2>4. UNCHANGED <<snap, hist, named>> /\ pc[e] = "read" /\ ~Counts(e)
    BY <1>2 DEF CountNothing
  <2>5. TestOrWaiverFirst'
    BY <2>1, <2>4 DEF TestOrWaiverFirst, Judged
  <2>6. TestsCounted'
    BY <2>1, <2>4 DEF TestsCounted, Counts, Rewrites, Judged
  <2> QED
    BY <2>2, <2>3, <2>5, <2>6
<1>3. ASSUME NEW e \in Calls, Count(e)
      PROVE  EditInv'
  <2> DEFINE prev == snap[e].task.tddGuard
             next == applyTddGuardTransition(prev, Judged(e))
  <2>1. snap[e] \in Readings /\ snap[e].task \in Documents /\ prev \in Guards
        /\ Judged(e) \in Targets /\ Backed(prev)
    BY <1>3, JudgedIsTarget DEF Count, Counts, TypeOK, Readings, Documents, CopiesBacked
  <2>2. next \in Guards /\ next.overrideGranted = prev.overrideGranted
        /\ next.testFileWritten = (prev.testFileWritten \/ Judged(e).kind = "test")
    BY <2>1, TransitionType
  <2> HIDE DEF next
  <2>3. hist' \in [tried : BOOLEAN, granted : BOOLEAN, since : SUBSET Calls, completed : BOOLEAN]
        /\ hist'.tried = (hist.tried \/ Judged(e).kind = "test")
        /\ hist'.granted = hist.granted /\ hist'.completed = hist.completed
    BY <1>3 DEF Count, TypeOK
  <2>4. /\ snap' = [snap EXCEPT ![e].task.tddGuard = next]
        /\ task' \in {task, [task EXCEPT !.tddGuard = next]}
        /\ pc' = [pc EXCEPT ![e] = "counted"]
        /\ UNCHANGED <<named, human>>
    BY <1>3 DEF Count, next
  <2>5. /\ snap'[e] = [snap[e] EXCEPT !.task.tddGuard = next]
        /\ pc'[e] = "counted"
        /\ \A f \in Calls \ {e} : snap'[f] = snap[f] /\ pc'[f] = pc[f]
    BY <2>4 DEF TypeOK
  <2>6. snap'[e] \in Readings /\ snap'[e].task.tddGuard = next /\ snap'[e].task # None
    BY <2>1, <2>2, <2>5, NoneAssumption DEF Readings, Documents
  <2>7. task' \in Documents /\ task'.tddGuard \in {task.tddGuard, next}
    BY <2>2, <2>4 DEF TypeOK, Documents
  <2>8. TypeOK'
    BY <2>3, <2>4, <2>5, <2>6, <2>7 DEF TypeOK
  <2>9. CopiesBacked'
    BY <2>1, <2>2, <2>3, <2>4, <2>5, <2>6, <2>7 DEF CopiesBacked, Backed
  <2>10. TestOrWaiverFirst'
    BY <2>3, <2>4, <2>5 DEF TestOrWaiverFirst, Judged
  <2>11. TestsCounted'
    BY <2>3, <2>4, <2>5 DEF TestsCounted, Judged
  <2> QED
    BY <2>8, <2>9, <2>10, <2>11
<1>4. ASSUME NEW e \in Calls, NEW isWriter \in BOOLEAN, NEW critical \in BOOLEAN,
             Decide(e, isWriter, critical)
      PROVE  EditInv'
  <2>1. pc'[e] = evaluateGuard(Judged(e), isWriter, snap[e], critical)
        /\ \A f \in Calls \ {e} : pc'[f] = pc[f]
    BY <1>4 DEF Decide, TypeOK
  <2>2. pc'[e] \in Answers
    BY <2>1 DEF evaluateGuard, Answers
  <2>3. TypeOK'
    BY <1>4, <2>1, <2>2 DEF Decide, TypeOK
  <2>4. CopiesBacked'
    <3>1. UNCHANGED <<task, snap, human, hist>> /\ pc[e] # "new"
      BY <1>4 DEF Decide
    <3> QED
      BY <2>1, <3>1 DEF CopiesBacked, Backed
  <2>5. TestOrWaiverFirst'
    <3>1. snap[e] \in Readings /\ Judged(e) \in Targets
      BY <1>4, JudgedIsTarget DEF Decide, TypeOK
    <3>2. ASSUME pc'[e] = "allow", Judged(e).place = "inScope",
                 Judged(e).kind \in {"test", "source"}, snap[e].task.gate = "impl-started"
          PROVE  hist.tried \/ hist.granted
      <4>1. /\ snap[e].task # None /\ snap[e].config
            /\ Judged(e).kind = "source" =>
                 snap[e].task.tddGuard.testFileWritten \/ snap[e].task.tddGuard.overrideGranted
        BY <2>1, <3>1, <3>2, AllowMeansRecorded
      <4>2. pc[e] = "counted"
        BY <1>4 DEF Decide
      <4>3. Backed(snap[e].task.tddGuard)
        BY <4>1, <4>2 DEF CopiesBacked
      <4>4. CASE Judged(e).kind = "source"
        BY <4>1, <4>3, <4>4, Zenon DEF Backed
      <4>5. CASE Judged(e).kind = "test"
        BY <3>2, <4>1, <4>2, <4>5 DEF TestsCounted
      <4> QED
        BY <3>2, <4>4, <4>5
    <3>3. UNCHANGED <<snap, named, hist>>
      BY <1>4 DEF Decide
    <3>4. ASSUME NEW f \in Calls, pc'[f] = "allow", snap[f].task.gate = "impl-started",
                 Judged(f).place = "inScope", Judged(f).kind \in {"test", "source"}
          PROVE  hist.tried \/ hist.granted
      <4>1. CASE f = e
        BY <3>2, <3>4, <4>1
      <4>2. CASE f # e
        BY <2>1, <3>4, <4>2 DEF TestOrWaiverFirst
      <4> QED
        BY <4>1, <4>2
    <3> QED
      BY <3>3, <3>4 DEF TestOrWaiverFirst, Judged
  <2>6. TestsCounted'
    <3>1. UNCHANGED <<snap, named, hist>> /\ pc[e] = "counted"
      BY <1>4 DEF Decide
    <3> QED
      BY <2>1, <3>1 DEF TestsCounted, Judged
  <2> QED
    BY <2>3, <2>4, <2>5, <2>6
<1>5. ASSUME persistTddOverride
      PROVE  EditInv'
  <2>1. task' \in Documents /\ task'.tddGuard.overrideGranted
        /\ task'.tddGuard.testFileWritten = task.tddGuard.testFileWritten
    BY <1>5 DEF persistTddOverride, TypeOK, Documents, Guards
  <2>2. hist' \in [tried : BOOLEAN, granted : BOOLEAN, since : SUBSET Calls, completed : BOOLEAN]
        /\ hist'.tried = hist.tried /\ hist'.granted /\ hist'.completed = hist.completed
    BY <1>5 DEF persistTddOverride, TypeOK
  <2>3. UNCHANGED <<pc, named, snap, human>>
    BY <1>5 DEF persistTddOverride
  <2> QED
    BY <2>1, <2>2, <2>3 DEF TypeOK, CopiesBacked, Backed, TestOrWaiverFirst, TestsCounted, Judged
<1>6. ASSUME NEW g \in Gates, MoveGate(g)
      PROVE  EditInv'
  <2>1. task' \in Documents /\ task'.tddGuard = task.tddGuard
    BY <1>6 DEF MoveGate, TypeOK, Documents
  <2> QED
    BY <1>6, <2>1 DEF MoveGate, TypeOK, CopiesBacked, Backed, TestOrWaiverFirst, TestsCounted, Judged
<1>7. ASSUME HumanReads
      PROVE  EditInv'
  BY <1>7 DEF HumanReads, TypeOK, CopiesBacked, Backed, TestOrWaiverFirst, TestsCounted, Judged
<1>8. ASSUME NEW g \in HumanGates, HumanWrites(g)
      PROVE  EditInv'
  <2>1. task' \in Documents /\ task'.tddGuard = human.tddGuard
    BY <1>8, GatesAssumption DEF HumanWrites, TypeOK, Documents
  <2> QED
    BY <1>8, <2>1 DEF HumanWrites, TypeOK, CopiesBacked, Backed, TestOrWaiverFirst, TestsCounted, Judged
<1>9. ASSUME CompleteTask
      PROVE  EditInv'
  <2>1. hist.tried \/ hist.granted
    BY <1>9 DEF CompleteTask, CopiesBacked, Backed
  <2>2. /\ hist' \in [tried : BOOLEAN, granted : BOOLEAN, since : SUBSET Calls, completed : BOOLEAN]
        /\ hist'.tried = hist.tried /\ hist'.granted = hist.granted
    BY <1>9 DEF CompleteTask, TypeOK
  <2> QED
    BY <1>9, <2>1, <2>2 DEF CompleteTask, TypeOK, CopiesBacked, Backed, TestOrWaiverFirst, TestsCounted, Judged
<1>10. CASE UNCHANGED vars
  BY <1>10 DEF vars, TypeOK, CopiesBacked, Backed, TestOrWaiverFirst, TestsCounted, Judged
<1> QED
  BY <1>1, <1>2, <1>3, <1>4, <1>5, <1>6, <1>7, <1>8, <1>9, <1>10 DEF Next

\* The inductive invariant holds.
THEOREM EditInvHolds == Spec => []EditInv
<1>1. EditInv /\ [Next]_vars => EditInv'
  BY StepEditInv
<1> QED
  BY InitEditInv, <1>1, PTL DEF Spec

\* Production code a call names first, or behind a test, is let through only after
\* a test was tried or the human waived it, for any number of overlapping hooks.
THEOREM TestOrWaiverFirstHolds == Spec => []TestOrWaiverFirst
<1>1. EditInv => TestOrWaiverFirst
  BY DEF EditInv
<1> QED
  BY EditInvHolds, <1>1, PTL

-----------------------------------------------------------------------------
\* Only the counter and a human gate's write replace the guard.
LEMMA StepLossOverlaps ==
  ASSUME TypeOK, [Next]_vars
  PROVE  LossOverlaps
<1>1. CASE task' = task
  BY <1>1 DEF LossOverlaps
<1>2. ASSUME NEW e \in Calls, Count(e), task' # task
      PROVE  LossOverlaps
  <2> DEFINE prev == snap[e].task.tddGuard
             next == applyTddGuardTransition(prev, Judged(e))
  <2>1. prev \in Guards /\ Judged(e) \in Targets
    BY <1>2, JudgedIsTarget DEF Count, Counts, TypeOK, Readings, Documents
  <2>2. \A f \in {"testFileWritten", "overrideGranted"} : ~next[f] => ~prev[f]
    BY <2>1 DEF applyTddGuardTransition, Guards
  <2>3. task'.tddGuard = next
    BY <1>2 DEF Count, TypeOK, Documents
  <2> QED
    BY <1>2, <2>2, <2>3 DEF LossOverlaps, Count
<1>3. ASSUME persistTddOverride
      PROVE  LossOverlaps
  BY <1>3 DEF persistTddOverride, LossOverlaps, TypeOK, Documents, Guards
<1>4. ASSUME NEW g \in Gates, MoveGate(g)
      PROVE  LossOverlaps
  BY <1>4 DEF MoveGate, LossOverlaps, TypeOK, Documents
<1>5. ASSUME NEW g \in HumanGates, HumanWrites(g)
      PROVE  LossOverlaps
  BY <1>5 DEF HumanWrites, LossOverlaps, TypeOK, Documents
<1> QED
  BY <1>1, <1>2, <1>3, <1>4, <1>5
     DEF Next, vars, Read, CountNothing, Decide, HumanReads, CompleteTask

\* Counting never undoes a gate move, for any number of overlapping hooks.
LEMMA StepKeepsGate ==
  ASSUME TypeOK, [Next]_vars
  PROVE  GateKept
<1>1. CASE pc' = pc
  BY <1>1 DEF GateKept
<1>2. ASSUME NEW e \in Calls, CountNothing(e) \/ Count(e)
      PROVE  GateKept
  BY <1>2 DEF CountNothing, Count, GateKept, TypeOK, Documents
<1>3. ASSUME NEW e \in Calls, pc[e] # "read", NEW v, pc' = [pc EXCEPT ![e] = v]
      PROVE  GateKept
  BY <1>3 DEF GateKept, TypeOK
<1> QED
  BY <1>1, <1>2, <1>3
     DEF Next, vars, Read, Decide, persistTddOverride, MoveGate, HumanReads, HumanWrites, CompleteTask

\* For any number of overlapping hooks: a test or a waiver on record is lost to
\* an overlap only, whoever writes, and the counter write leaves a concurrent
\* gate advance alone (#112).
THEOREM OverlapsLoseNoMoreHolds == Spec => OverlapsLoseNoMore
<1>1. EditInv /\ [Next]_vars => [LossOverlaps]_vars
  BY StepLossOverlaps DEF EditInv
<1>2. EditInv /\ [Next]_vars => [GateKept]_vars
  BY StepKeepsGate DEF EditInv
<1> QED
  BY EditInvHolds, <1>1, <1>2, PTL DEF Spec, OverlapsLoseNoMore
=============================================================================
