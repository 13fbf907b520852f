---------------------------- MODULE SessionProofs ---------------------------
(***************************************************************************)
(* What a session keeps beside the gates: the roster of subagents is       *)
(* exact, the evidence of a verification is earned, the size of the        *)
(* context is not made up, and the memory keeps the last fact of each      *)
(* source; for any dispatches, names, writers, runs, attempts, hooks,      *)
(* limits, callers, sources and times.                                     *)
(***************************************************************************)
EXTENDS SubagentRoster, VerifyLoop, ContextBudget, Memory,
        FunctionTheorems, SequenceTheorems, FiniteSetTheorems, TLAPS

-----------------------------------------------------------------------------
(***************************************************************************)
(* The roster of subagents: the count and the names are exact until        *)
(* something goes wrong, and again after the next session start.           *)
(***************************************************************************)

\* Between sessions nothing is in flight and gate-advance holds no reading.
QuietWhenDown ==
  host # "up" => /\ \A d \in Dispatches : pc[d] \in {"new", "over"}
                 /\ \A w \in CasWriters : snap[w] \notin Documents

\* What SessionStart resets is a document it has read.
ReconcileHasRead == host = "starting" => snap["reconcile"] \in Documents

\* Until an old document is written back, a version names one document.
VersionsNameDocuments ==
  "overwrite" \notin faults =>
    \A w \in CasWriters :
      snap[w] \in Documents =>
        /\ snap[w].stateVersion <= doc.stateVersion
        /\ snap[w].stateVersion = doc.stateVersion => snap[w] = doc

\* The inductive invariant.
RosterInv ==
  RosterTypeOK /\ QuietWhenDown /\ ReconcileHasRead /\ VersionsNameDocuments /\ RosterExact

-----------------------------------------------------------------------------
(* Lemmas about the roster.                                                *)

LEMMA LiveFinite == IsFiniteSet(Live) /\ Cardinality(Live) \in Nat
BY DispatchAssumption, FS_Subset, FS_CardinalityType DEF Live

LEMMA RemoveStays ==
  ASSUME NEW roster \in SUBSET Dispatches, NEW d \in Dispatches
  PROVE  /\ removeActiveAgent(roster, d) \in SUBSET Dispatches
         /\ d \in roster => removeActiveAgent(roster, d) = roster \ {d}
BY DEF removeActiveAgent

\* A stop never strikes off another dispatch that has an id.
LEMMA RemoveKeepsOthers ==
  ASSUME NEW roster \in SUBSET Dispatches, NEW d \in Dispatches,
         NEW e \in Dispatches \ NoIds, e \in roster, e # d
  PROVE  e \in removeActiveAgent(roster, d)
<1>1. CASE d \in roster \/ d \notin NoIds
  BY <1>1 DEF removeActiveAgent
<1>2. CASE d \notin roster /\ d \in NoIds
  <2> DEFINE Picks(r) == \/ r \in roster /\ NameOf[r] = NameOf[d]
                         \/ r = d /\ \A q \in roster : NameOf[q] # NameOf[d]
  <2>1. \E r \in Dispatches : Picks(r)
    OBVIOUS
  <2>2. Picks(CHOOSE r \in Dispatches : Picks(r))
    BY <2>1
  <2>3. ~Picks(e)
    BY <1>2, IdAssumption
  <2>4. e # CHOOSE r \in Dispatches : Picks(r)
    BY <2>2, <2>3
  <2> QED
    BY <1>2, <2>4 DEF removeActiveAgent
<1> QED
  BY <1>1, <1>2

\* A reset document is a document.
LEMMA ResetDocument ==
  ASSUME NEW s \in Documents
  PROVE  LET reset == [s EXCEPT !.activeSubagents = 0, !.activeAgents = {}]
         IN  reset \in Documents /\ reset.activeSubagents = 0 /\ reset.activeAgents = {}
<1>1. 0 \in 0 .. maxConcurrentAgents
  BY MaxAssumption
<1> QED
  BY <1>1 DEF Documents

-----------------------------------------------------------------------------
LEMMA InitRosterInv == RosterInit => RosterInv
<1> SUFFICES ASSUME RosterInit PROVE RosterInv
  OBVIOUS
<1>1. Live = {}
  BY DEF RosterInit, Live
<1>2. RosterTypeOK
  BY MaxAssumption DEF RosterInit, RosterTypeOK, Documents
<1>3. RosterExact
  BY <1>1, FS_EmptySet DEF RosterInit, RosterExact
<1> QED
  BY <1>2, <1>3, SnapAssumption
     DEF RosterInit, RosterInv, QuietWhenDown, ReconcileHasRead, VersionsNameDocuments, Writers

\* A locked mutation by the guard is a new version, so no reading of
\* gate-advance is of it.
LEMMA MutatedStep ==
  ASSUME RosterInv, NEW count \in 0 .. maxConcurrentAgents, NEW roster \in SUBSET Dispatches,
         doc' = Mutated(count, roster), UNCHANGED snap,
         faults \subseteq faults', "overwrite" \in faults' => "overwrite" \in faults
  PROVE  doc' \in Documents /\ VersionsNameDocuments'
<1>1. doc \in Documents
  BY DEF RosterInv, RosterTypeOK
<1>2. doc' \in Documents
  BY <1>1 DEF Mutated, Documents
<1>3. doc'.stateVersion = doc.stateVersion + 1 /\ doc.stateVersion \in Nat
  BY <1>1 DEF Mutated, Documents
<1>4. ASSUME NEW w \in CasWriters, snap[w] \in Documents, "overwrite" \notin faults
      PROVE  snap[w].stateVersion <= doc.stateVersion /\ snap[w].stateVersion \in Nat
  BY <1>4 DEF RosterInv, VersionsNameDocuments, Documents
<1>5. VersionsNameDocuments'
  BY <1>3, <1>4 DEF VersionsNameDocuments
<1> QED
  BY <1>2, <1>5

LEMMA NextRosterInv == RosterInv /\ [RosterNext]_rosterVars => RosterInv'
<1> SUFFICES ASSUME RosterInv, [RosterNext]_rosterVars PROVE RosterInv'
  OBVIOUS
<1> USE DEF RosterInv
<1>1. ASSUME NEW d \in Dispatches, Call(d) PROVE RosterInv'
  <2>1. Live' = Live
    BY <1>1 DEF Call, Live, RosterTypeOK
  <2> QED
    BY <1>1, <2>1 DEF Call, RosterTypeOK, QuietWhenDown, ReconcileHasRead, VersionsNameDocuments, RosterExact
<1>2. ASSUME NEW d \in Dispatches, Admit(d) PROVE RosterInv'
  <2>1. doc \in Documents /\ doc.activeSubagents + 1 \in 0 .. maxConcurrentAgents
    BY <1>2, MaxAssumption DEF Admit, AtCeiling, RosterTypeOK, Documents
  <2>2. addActiveAgent(doc.activeAgents, d) = doc.activeAgents \cup {d}
        /\ addActiveAgent(doc.activeAgents, d) \in SUBSET Dispatches
    BY <2>1 DEF addActiveAgent, Documents
  <2>3. doc' \in Documents /\ VersionsNameDocuments'
    BY <1>2, <2>1, <2>2, MutatedStep DEF Admit
  <2>4. Live' = Live \cup {d} /\ d \notin Live
    BY <1>2 DEF Admit, Live, RosterTypeOK
  <2>5. Cardinality(Live') = Cardinality(Live) + 1
    BY <2>4, LiveFinite, FS_AddElement
  <2>6. RosterExact'
    BY <1>2, <2>2, <2>4, <2>5 DEF Admit, RosterExact, Mutated
  <2>7. RosterTypeOK'
    BY <1>2, <2>3 DEF Admit, RosterTypeOK
  <2> QED
    BY <1>2, <2>3, <2>6, <2>7 DEF Admit, QuietWhenDown, ReconcileHasRead
<1>3. ASSUME NEW d \in Dispatches, Deny(d) PROVE RosterInv'
  <2>1. Live' = Live
    BY <1>3 DEF Deny, Live, RosterTypeOK
  <2> QED
    BY <1>3, <2>1 DEF Deny, RosterTypeOK, QuietWhenDown, ReconcileHasRead, VersionsNameDocuments, RosterExact
<1>4. ASSUME NEW d \in Dispatches, StartFails(d) PROVE RosterInv'
  BY <1>4 DEF StartFails, RosterTypeOK, QuietWhenDown, ReconcileHasRead, VersionsNameDocuments, RosterExact
<1>5. ASSUME NEW d \in Dispatches, StartAgain(d) PROVE RosterInv'
  <2>1. doc \in Documents /\ doc.activeSubagents + 1 \in 0 .. maxConcurrentAgents
    BY <1>5, MaxAssumption DEF StartAgain, AtCeiling, RosterTypeOK, Documents
  <2>2. addActiveAgent(doc.activeAgents, d) \in SUBSET Dispatches
    BY <2>1 DEF addActiveAgent, Documents
  <2>3. doc' \in Documents /\ VersionsNameDocuments'
    BY <1>5, <2>1, <2>2, MutatedStep DEF StartAgain
  <2> QED
    BY <1>5, <2>3 DEF StartAgain, RosterTypeOK, QuietWhenDown, ReconcileHasRead, RosterExact
<1>6. ASSUME NEW d \in Dispatches, Finish(d) PROVE RosterInv'
  <2>1. Live' = Live
    BY <1>6 DEF Finish, Live, RosterTypeOK
  <2> QED
    BY <1>6, <2>1 DEF Finish, RosterTypeOK, QuietWhenDown, ReconcileHasRead, VersionsNameDocuments, RosterExact
<1>7. ASSUME NEW d \in Dispatches, Stop(d) PROVE RosterInv'
  <2> DEFINE count == IF doc.activeSubagents > 0 THEN doc.activeSubagents - 1 ELSE 0
  <2>1. doc \in Documents /\ count \in 0 .. maxConcurrentAgents
    BY MaxAssumption DEF RosterTypeOK, Documents
  <2>2. doc.activeAgents \in SUBSET Dispatches
    BY <2>1 DEF Documents
  <2>3. /\ removeActiveAgent(doc.activeAgents, d) \in SUBSET Dispatches
        /\ d \in doc.activeAgents => removeActiveAgent(doc.activeAgents, d) = doc.activeAgents \ {d}
    BY <2>2, RemoveStays
  <2>4. doc' \in Documents /\ VersionsNameDocuments'
    BY <1>7, <2>1, <2>3, MutatedStep DEF Stop
  <2>5. Live' = Live \ {d} /\ d \in Live
    BY <1>7 DEF Stop, Live, RosterTypeOK
  <2>6. Cardinality(Live') = Cardinality(Live) - 1 /\ Cardinality(Live) \in Nat \ {0}
    BY <2>5, LiveFinite, FS_RemoveElement, FS_EmptySet
  <2>7. RosterExact'
    BY <1>7, <2>3, <2>5, <2>6 DEF Stop, RosterExact, Mutated
  <2>8. RosterTypeOK'
    BY <1>7, <2>4 DEF Stop, RosterTypeOK
  <2> QED
    BY <1>7, <2>4, <2>7, <2>8 DEF Stop, QuietWhenDown, ReconcileHasRead
<1>8. ASSUME NEW d \in Dispatches, StopLost(d) PROVE RosterInv'
  BY <1>8 DEF StopLost, RosterTypeOK, QuietWhenDown, ReconcileHasRead, VersionsNameDocuments, RosterExact
<1>9. ASSUME NEW w \in CasWriters \cup BlindWriters, Read(w) PROVE RosterInv'
  <2>1. doc \in Documents /\ w \in Writers /\ w # "reconcile"
    BY WriterAssumption DEF RosterTypeOK, Writers
  <2>2. snap' = [snap EXCEPT ![w] = doc] /\ UNCHANGED <<doc, pc, host, faults>> /\ host = "up"
    BY <1>9 DEF Read
  <2>3. RosterTypeOK'
    BY <2>1, <2>2 DEF RosterTypeOK
  <2>4. VersionsNameDocuments'
    BY <2>1, <2>2 DEF VersionsNameDocuments, RosterTypeOK, Documents
  <2> QED
    BY <2>1, <2>2, <2>3, <2>4 DEF QuietWhenDown, ReconcileHasRead, RosterExact, Live
<1>10. ASSUME NEW w \in CasWriters, GateCommit(w) PROVE RosterInv'
  <2>1. doc \in Documents /\ w \in Writers /\ w # "reconcile" /\ snap[w] \in Documents
    BY <1>10, WriterAssumption DEF RosterTypeOK, Writers, GateCommit
  <2>2. host = "up"
    BY <2>1 DEF QuietWhenDown, RosterTypeOK
  <2>3. CASE doc.stateVersion = snap[w].stateVersion
    <3>1. doc' = [snap[w] EXCEPT !.stateVersion = @ + 1] /\ snap' = [snap EXCEPT ![w] = Done]
          /\ UNCHANGED <<pc, host, faults>>
      BY <1>10, <2>3 DEF GateCommit
    <3>2. doc' \in Documents /\ doc'.stateVersion = doc.stateVersion + 1 /\ doc.stateVersion \in Nat
      BY <2>1, <2>3, <3>1 DEF Documents
    <3>3. RosterTypeOK'
      BY <2>1, <3>1, <3>2 DEF RosterTypeOK
    <3>4. ASSUME NEW v \in CasWriters, snap'[v] \in Documents, "overwrite" \notin faults
          PROVE  snap'[v].stateVersion \in Nat /\ snap'[v].stateVersion <= doc.stateVersion
      BY <2>1, <3>1, <3>4, SnapAssumption DEF VersionsNameDocuments, RosterTypeOK, Documents, Writers
    <3>5. VersionsNameDocuments'
      BY <3>1, <3>2, <3>4 DEF VersionsNameDocuments
    <3>6. ASSUME "overwrite" \notin faults
          PROVE  doc'.activeAgents = doc.activeAgents /\ doc'.activeSubagents = doc.activeSubagents
      BY <2>1, <2>3, <3>1, <3>6 DEF VersionsNameDocuments, Documents
    <3>7. RosterExact'
      BY <3>1, <3>6 DEF RosterExact, Live
    <3> QED
      BY <2>1, <2>2, <3>1, <3>3, <3>5, <3>7 DEF QuietWhenDown, ReconcileHasRead
  <2>4. CASE doc.stateVersion # snap[w].stateVersion
    <3>1. snap' = [snap EXCEPT ![w] = None] /\ UNCHANGED <<doc, pc, host, faults>>
      BY <1>10, <2>4 DEF GateCommit
    <3>2. RosterTypeOK'
      BY <2>1, <3>1 DEF RosterTypeOK
    <3>3. VersionsNameDocuments'
      BY <2>1, <3>1, SnapAssumption DEF VersionsNameDocuments, RosterTypeOK, Writers
    <3> QED
      BY <2>1, <2>2, <3>1, <3>2, <3>3 DEF QuietWhenDown, ReconcileHasRead, RosterExact, Live
  <2> QED
    BY <2>3, <2>4
<1>11. ASSUME NEW w \in BlindWriters, BlindWrite(w) PROVE RosterInv'
  <2>1. snap[w] \in Documents /\ w \in Writers /\ w # "reconcile" /\ w \notin CasWriters
    BY <1>11, WriterAssumption DEF Writers, BlindWrite
  <2>2. doc' = snap[w] /\ snap' = [snap EXCEPT ![w] = Done] /\ UNCHANGED <<pc, host>>
    BY <1>11 DEF BlindWrite
  <2>3. \/ doc' = doc /\ faults' = faults
        \/ "overwrite" \in faults' /\ faults' = faults \cup {"overwrite"}
    BY <1>11 DEF BlindWrite
  <2>4. RosterTypeOK'
    BY <2>1, <2>2, <2>3 DEF RosterTypeOK
  <2>5. \A v \in CasWriters : snap'[v] = snap[v]
    BY <2>1, <2>2 DEF RosterTypeOK, Writers
  <2>6. VersionsNameDocuments'
    BY <2>3, <2>5 DEF VersionsNameDocuments
  <2>7. snap'["reconcile"] = snap["reconcile"]
    BY <2>1, <2>2 DEF RosterTypeOK, Writers
  <2> QED
    BY <2>2, <2>3, <2>4, <2>5, <2>6, <2>7 DEF QuietWhenDown, ReconcileHasRead, RosterExact, Live
<1>12. ASSUME SessionEnds PROVE RosterInv'
  <2>1. /\ host' = "down" /\ UNCHANGED doc
        /\ pc' = [d \in Dispatches |-> IF pc[d] = "new" THEN "new" ELSE "over"]
        /\ snap' = [w \in Writers |-> IF w \in CasWriters /\ snap[w] # None THEN Done ELSE snap[w]]
        /\ faults' = IF Live = {} THEN faults ELSE faults \cup {"lifecycle"}
    BY <1>12 DEF SessionEnds
  <2>2. RosterTypeOK'
    BY <2>1 DEF RosterTypeOK
  <2>3. QuietWhenDown'
    BY <2>1, SnapAssumption DEF QuietWhenDown, Writers
  <2>4. Live' = {}
    BY <2>1 DEF Live
  <2>5. RosterExact'
    BY <2>1, <2>4 DEF RosterExact
  <2>6. VersionsNameDocuments'
    BY <2>1, <2>3 DEF VersionsNameDocuments, QuietWhenDown
  <2> QED
    BY <2>1, <2>2, <2>3, <2>5, <2>6 DEF ReconcileHasRead
<1>13. ASSUME SessionStarts PROVE RosterInv'
  <2>1. host = "down" /\ UNCHANGED <<doc, pc>> /\ Live' = Live /\ doc \in Documents
    BY <1>13 DEF SessionStarts, Live, RosterTypeOK
  <2>2. Live = {}
    BY <2>1 DEF Live, QuietWhenDown
  <2>3. CASE /\ host' = "starting" /\ snap' = [snap EXCEPT !["reconcile"] = doc] /\ UNCHANGED faults
    <3>1. RosterTypeOK'
      BY <2>1, <2>3 DEF RosterTypeOK, Writers
    <3>2. \A w \in CasWriters : snap'[w] = snap[w]
      BY <2>3, WriterAssumption DEF RosterTypeOK, Writers
    <3>3. snap'["reconcile"] \in Documents
      BY <2>1, <2>3 DEF RosterTypeOK, Writers
    <3> QED
      BY <2>1, <2>3, <3>1, <3>2, <3>3
         DEF QuietWhenDown, ReconcileHasRead, VersionsNameDocuments, RosterExact
  <2>4. CASE /\ doc.activeSubagents = 0 /\ doc.activeAgents = {}
             /\ host' = "up" /\ faults' = {} /\ UNCHANGED snap
    <3>1. RosterTypeOK'
      BY <2>1, <2>4 DEF RosterTypeOK
    <3>2. RosterExact'
      BY <2>1, <2>2, <2>4, FS_EmptySet DEF RosterExact
    <3>3. VersionsNameDocuments'
      BY <2>1, <2>4 DEF VersionsNameDocuments, QuietWhenDown
    <3> QED
      BY <2>1, <2>4, <3>1, <3>2, <3>3 DEF QuietWhenDown, ReconcileHasRead
  <2> QED
    BY <1>13, <2>3, <2>4 DEF SessionStarts
<1>14. ASSUME Reconcile PROVE RosterInv'
  <2>1. /\ host = "starting" /\ host' = "up" /\ UNCHANGED pc /\ faults' = {}
        /\ doc' = [snap["reconcile"] EXCEPT !.activeSubagents = 0, !.activeAgents = {}]
        /\ snap' = [snap EXCEPT !["reconcile"] = None]
    BY <1>14 DEF Reconcile
  <2>2. snap["reconcile"] \in Documents
    BY <2>1 DEF ReconcileHasRead
  <2>3. doc' \in Documents /\ doc'.activeSubagents = 0 /\ doc'.activeAgents = {}
    BY <2>1, <2>2, ResetDocument
  <2>4. RosterTypeOK'
    BY <2>1, <2>3 DEF RosterTypeOK
  <2>5. Live' = {}
    BY <2>1 DEF Live, QuietWhenDown
  <2>6. RosterExact'
    BY <2>3, <2>5, FS_EmptySet DEF RosterExact
  <2>7. \A w \in CasWriters : snap'[w] = snap[w] /\ snap[w] \notin Documents
    BY <2>1, WriterAssumption DEF RosterTypeOK, Writers, QuietWhenDown
  <2>8. VersionsNameDocuments'
    BY <2>7 DEF VersionsNameDocuments
  <2> QED
    BY <2>1, <2>4, <2>6, <2>8 DEF QuietWhenDown, ReconcileHasRead
<1>15. ASSUME ReconcileFails PROVE RosterInv'
  <2>1. host = "starting" /\ host' = "up" /\ UNCHANGED <<doc, pc, faults>>
        /\ snap' = [snap EXCEPT !["reconcile"] = None]
    BY <1>15 DEF ReconcileFails
  <2>2. \A w \in CasWriters : snap'[w] = snap[w]
    BY <2>1, WriterAssumption DEF RosterTypeOK, Writers
  <2>3. RosterTypeOK'
    BY <2>1 DEF RosterTypeOK
  <2> QED
    BY <2>1, <2>2, <2>3 DEF QuietWhenDown, ReconcileHasRead, VersionsNameDocuments, RosterExact, Live
<1>16. CASE UNCHANGED rosterVars
  BY <1>16 DEF rosterVars, RosterTypeOK, QuietWhenDown, ReconcileHasRead, VersionsNameDocuments, RosterExact, Live
<1> QED
  BY <1>1, <1>2, <1>3, <1>4, <1>5, <1>6, <1>7, <1>8, <1>9, <1>10, <1>11, <1>12, <1>13, <1>14,
     <1>15, <1>16 DEF RosterNext

\* The inductive invariant holds of every behaviour.
THEOREM RosterInvHolds == RosterSpec => []RosterInv
BY InitRosterInv, NextRosterInv, PTL DEF RosterSpec

\* The count and the roster are exact until something goes wrong.
THEOREM RosterExactHolds == RosterSpec => []RosterExact
<1>1. RosterInv => RosterExact
  BY DEF RosterInv
<1> QED
  BY <1>1, RosterInvHolds, PTL

\* Until then the ceiling is kept.
THEOREM NoOverAdmissionHolds == RosterSpec => []NoOverAdmission
<1>1. RosterInv => NoOverAdmission
  BY LiveFinite DEF RosterInv, RosterExact, NoOverAdmission, RosterTypeOK, Documents
<1> QED
  BY <1>1, RosterInvHolds, PTL

\* Until then the identity read from the roster is the caller's.
THEOREM IdentityHonestHolds == RosterSpec => []IdentityHonest
<1>1. RosterInv => IdentityHonest
  <2> SUFFICES ASSUME RosterInv, faults = {}, NEW d \in Live
               PROVE  resolveActiveAgent(doc.activeAgents) \in {NameOf[d], None}
    BY DEF IdentityHonest
  <2>1. doc.activeAgents = Live
    BY DEF RosterInv, RosterExact
  <2>2. CASE \E x \in Live : \A e \in Live : NameOf[e] = NameOf[x]
    <3>1. NameOf[CHOOSE x \in Live : TRUE] = NameOf[d]
      BY <2>2
    <3> QED
      BY <2>1, <2>2, <3>1 DEF resolveActiveAgent
  <2>3. CASE ~\E x \in Live : \A e \in Live : NameOf[e] = NameOf[x]
    BY <2>1, <2>3 DEF resolveActiveAgent
  <2> QED
    BY <2>2, <2>3
<1> QED
  BY <1>1, RosterInvHolds, PTL

\* An agent with an id leaves the roster by its own stop or a session start.
THEOREM StopsOnlyItselfHolds == RosterSpec => StopsOnlyItself
<1> DEFINE Act == \A d \in Dispatches \ NoIds :
                    d \in doc.activeAgents /\ d \notin doc'.activeAgents
                      => pc[d] = "stopping" \/ host = "starting" \/ "overwrite" \in faults'
<1>1. ASSUME RosterInv, [RosterNext]_rosterVars PROVE [Act]_rosterVars
  <2> SUFFICES ASSUME NEW d \in Dispatches \ NoIds, d \in doc.activeAgents,
                      d \notin doc'.activeAgents, host # "starting", "overwrite" \notin faults',
                      RosterNext
               PROVE  pc[d] = "stopping"
    BY <1>1
  <2>1. doc \in Documents /\ doc.activeAgents \in SUBSET Dispatches
    BY <1>1 DEF RosterInv, RosterTypeOK, Documents
  <2>2. ASSUME NEW e \in Dispatches, Admit(e) \/ StartAgain(e) PROVE FALSE
    BY <2>1, <2>2 DEF Admit, StartAgain, Mutated, addActiveAgent
  <2>3. ASSUME NEW e \in Dispatches, Stop(e) PROVE pc[d] = "stopping"
    <3>1. CASE e = d
      BY <2>3, <3>1 DEF Stop
    <3>2. CASE e # d
      BY <2>1, <2>3, <3>2, RemoveKeepsOthers DEF Stop, Mutated
    <3> QED
      BY <3>1, <3>2
  <2>4. ASSUME NEW w \in CasWriters, GateCommit(w) PROVE FALSE
    BY <1>1, <2>4 DEF GateCommit, RosterInv, VersionsNameDocuments, Documents
  <2>5. ASSUME NEW w \in BlindWriters, BlindWrite(w) PROVE FALSE
    BY <2>5 DEF BlindWrite
  <2> QED
    BY <2>2, <2>3, <2>4, <2>5
       DEF RosterNext, Call, Deny, StartFails, Finish, StopLost, Read, SessionEnds, SessionStarts,
           Reconcile, ReconcileFails
<1>2. StopsOnlyItself <=> [][Act]_rosterVars
  BY DEF StopsOnlyItself
<1> QED
  BY <1>1, <1>2, RosterInvHolds, PTL DEF RosterSpec

-----------------------------------------------------------------------------
(***************************************************************************)
(* The verification loop.                                                  *)
(***************************************************************************)

Entries ==
  [ type : {"loop_attempt", "loop_halt"}, attempt : Attempts \cup {NoOne},
    digest : Digests \cup {"MAX_FILES", "NO_PROGRESS"}, ok : BOOLEAN, run : Runs ]
RunStates ==
  [ at : {"idle", "first", "rerun", "guard", "persist", "done"}, task : 1..LoopTasks,
    attempt : Attempts \cup {NoOne}, digest : Digests \cup {NoOne},
    verdict : {"none", "passed", "flaky", "failed", "stable_fail"} ]
Passing == {"passed", "flaky"}

LoopTyped ==
  /\ loopTrace \in [1..LoopTasks -> Seq(Entries)]
  /\ current \in 1..LoopTasks
  /\ runner \in [Runs -> RunStates]

\* What the log of a task shows of a run.
Ran(r, i) == loopTrace[runner[r].task][i].run = r
Entry(r, i) == loopTrace[runner[r].task][i]
Positions(r) == 1 .. Len(loopTrace[runner[r].task])

Succeeded(r) == \E i \in Positions(r) : Ran(r, i) /\ Entry(r, i).ok
NotHalted(r) == \A i \in Positions(r) : Ran(r, i) => Entry(r, i).type # "loop_halt"
Progressed(r) ==
  \A i, j \in Positions(r) :
    /\ Ran(r, i) /\ Entry(r, i).attempt = runner[r].attempt /\ j < i
    /\ Entry(r, j).type = "loop_attempt" /\ Entry(r, j).digest = runner[r].digest
    => Entry(r, j).attempt = runner[r].attempt

\* Before its guard a run has logged no halt; a run that passed has logged an
\* attempt that exited 0; past the guard it has made progress as well.
Earning(r) ==
  /\ runner[r].at \in {"idle", "first"} =>
       \A t \in 1..LoopTasks : \A i \in 1..Len(loopTrace[t]) : loopTrace[t][i].run # r
  /\ runner[r].at \in {"rerun", "guard"} => NotHalted(r)
  /\ runner[r].at = "guard" /\ runner[r].verdict \in Passing => Succeeded(r)
  /\ runner[r].at = "persist" /\ runner[r].verdict \in Passing =>
       Succeeded(r) /\ NotHalted(r) /\ Progressed(r)
  /\ runner[r].at \notin {"idle", "done"} => runner[r].task = current \/ r \in switched

\* The evidence is of a run that is over.
EvidenceOfRun ==
  evidence # NoOne /\ evidence.passed =>
    LET r == evidence.run
    IN  /\ r \in Runs /\ runner[r].at = "done" /\ evidence.digest = runner[r].digest
        /\ Succeeded(r) /\ NotHalted(r) /\ Progressed(r)
        /\ evidence.task \in {runner[r].task, NoOne} \/ r \in switched

LoopInv == LoopTyped /\ (\A r \in Runs : Earning(r)) /\ EvidenceOfRun

LEMMA TraceTyped ==
  ASSUME LoopTyped, NEW t \in 1..LoopTasks
  PROVE  /\ loopTrace[t] \in Seq(Entries) /\ Len(loopTrace[t]) \in Nat
         /\ DOMAIN loopTrace[t] = 1 .. Len(loopTrace[t])
         /\ \A i \in 1 .. Len(loopTrace[t]) : loopTrace[t][i] \in Entries
<1>1. loopTrace[t] \in Seq(Entries)
  BY DEF LoopTyped
<1>2. QED
  BY <1>1, LenProperties, ElementOfSeq

LEMMA EarnedIsEarned == LoopInv => EvidenceIsEarned
<1> SUFFICES ASSUME LoopInv, evidence # NoOne, evidence.passed
             PROVE  EvidenceIsEarned
  BY DEF EvidenceIsEarned
<1> DEFINE r == evidence.run
           t == runner[r].task
<1>1. /\ r \in Runs /\ evidence.digest = runner[r].digest
      /\ Succeeded(r) /\ NotHalted(r) /\ Progressed(r)
      /\ evidence.task \in {t, NoOne} \/ r \in switched
  BY DEF LoopInv, EvidenceOfRun
<1>2. t \in 1..LoopTasks
  BY <1>1 DEF LoopInv, LoopTyped, RunStates
<1>3. DOMAIN loopTrace[t] = 1 .. Len(loopTrace[t]) /\ Len(loopTrace[t]) \in Nat
  BY <1>2, TraceTyped DEF LoopInv
<1>4. \A i \in 1 .. Len(loopTrace[t]) : \A e \in Before(t, i) :
        \E j \in 1 .. Len(loopTrace[t]) : j < i /\ e = loopTrace[t][j]
  BY <1>3 DEF Before
<1> HIDE DEF r
<1>5. \A i \in 1 .. Len(loopTrace[t]) : loopTrace[t][i].run = r /\ loopTrace[t][i].attempt = runner[r].attempt =>
        \A e \in Before(t, i) :
          e.type = "loop_attempt" /\ e.digest = evidence.digest => e.attempt = runner[r].attempt
  BY <1>1, <1>4 DEF Progressed, Ran, Entry, Positions
<1>6. QED
  BY <1>1, <1>3, <1>5 DEF EvidenceIsEarned, Succeeded, NotHalted, Ran, Entry, Positions, r

\* Appending for one run to the log of its task leaves what the logs show of
\* the others.
LEMMA LogTells ==
  ASSUME LoopTyped, NEW r \in Runs, NEW e \in Entries, e.run = r,
         Log(runner[r].task, e)
  PROVE  /\ loopTrace' \in [1..LoopTasks -> Seq(Entries)]
         /\ \A t \in 1..LoopTasks \ {runner[r].task} : loopTrace'[t] = loopTrace[t]
         /\ Len(loopTrace'[runner[r].task]) = Len(loopTrace[runner[r].task]) + 1
         /\ \A i \in 1 .. Len(loopTrace[runner[r].task]) :
              loopTrace'[runner[r].task][i] = loopTrace[runner[r].task][i]
         /\ loopTrace'[runner[r].task][Len(loopTrace[runner[r].task]) + 1] = e
<1> DEFINE t == runner[r].task
           grown == Append(loopTrace[t], e)
<1>1. t \in 1..LoopTasks /\ loopTrace[t] \in Seq(Entries)
  BY DEF LoopTyped, RunStates
<1>2. /\ grown \in Seq(Entries) /\ Len(grown) = Len(loopTrace[t]) + 1
      /\ \A i \in 1 .. Len(loopTrace[t]) : grown[i] = loopTrace[t][i]
      /\ grown[Len(loopTrace[t]) + 1] = e
  BY <1>1, AppendProperties
<1> HIDE DEF grown
<1>3. loopTrace' = [loopTrace EXCEPT ![t] = grown]
  BY DEF Log, grown
<1>4. QED
  BY <1>1, <1>2, <1>3 DEF LoopTyped

\* What the logs show of a run stays, when it does not move and what is logged
\* is another's.
Same(q) ==
  /\ runner'[q] = runner[q]
  /\ \A t \in 1..LoopTasks :
       /\ Len(loopTrace[t]) <= Len(loopTrace'[t]) /\ Len(loopTrace'[t]) \in Nat
       /\ \A i \in 1 .. Len(loopTrace[t]) : loopTrace'[t][i] = loopTrace[t][i]
       /\ \A i \in 1 .. Len(loopTrace'[t]) : loopTrace'[t][i].run = q => i <= Len(loopTrace[t])

LEMMA SameShows ==
  ASSUME LoopTyped, NEW q \in Runs, Same(q)
  PROVE  /\ Succeeded(q) => Succeeded(q)'
         /\ NotHalted(q) => NotHalted(q)'
         /\ Progressed(q) => Progressed(q)'
<1> DEFINE t == runner[q].task
<1>1. t \in 1..LoopTasks
  BY DEF LoopTyped, RunStates
<1>2. /\ Len(loopTrace[t]) \in Nat /\ Len(loopTrace'[t]) \in Nat
      /\ Len(loopTrace[t]) <= Len(loopTrace'[t])
      /\ \A i \in 1 .. Len(loopTrace[t]) : loopTrace'[t][i] = loopTrace[t][i]
      /\ \A i \in 1 .. Len(loopTrace'[t]) : loopTrace'[t][i].run = q => i \in 1 .. Len(loopTrace[t])
  BY <1>1, TraceTyped DEF Same
<1>3. Succeeded(q) => Succeeded(q)'
  BY <1>2 DEF Same, Succeeded, Ran, Entry, Positions
<1>4. NotHalted(q) => NotHalted(q)'
  BY <1>2 DEF Same, NotHalted, Ran, Entry, Positions
<1>5. Progressed(q) => Progressed(q)'
  BY <1>2 DEF Same, Progressed, Ran, Entry, Positions
<1>6. QED
  BY <1>3, <1>4, <1>5

LEMMA SameEarns ==
  ASSUME LoopTyped, NEW q \in Runs, Same(q), Earning(q), current' = current, switched' = switched
  PROVE  Earning(q)'
<1>1. ASSUME \A t \in 1..LoopTasks : \A i \in 1..Len(loopTrace[t]) : loopTrace[t][i].run # q
      PROVE  \A t \in 1..LoopTasks : \A i \in 1..Len(loopTrace'[t]) : loopTrace'[t][i].run # q
  BY <1>1, TraceTyped DEF Same
<1>2. QED
  BY <1>1, SameShows DEF Earning, Same

\* A step of one run that logs nothing, or one entry of its own.
LEMMA OthersStay ==
  ASSUME LoopTyped, NEW r \in Runs, NEW e,
         \A q \in Runs \ {r} : runner'[q] = runner[q],
         \/ loopTrace' = loopTrace
         \/ e \in Entries /\ e.run = r /\ Log(runner[r].task, e)
  PROVE  \A q \in Runs \ {r} : Same(q)
<1>1. CASE loopTrace' = loopTrace
  BY <1>1, TraceTyped DEF Same
<1>2. CASE e \in Entries /\ e.run = r /\ Log(runner[r].task, e)
  <2>1. /\ \A t \in 1..LoopTasks \ {runner[r].task} : loopTrace'[t] = loopTrace[t]
        /\ Len(loopTrace'[runner[r].task]) = Len(loopTrace[runner[r].task]) + 1
        /\ \A i \in 1 .. Len(loopTrace[runner[r].task]) :
             loopTrace'[runner[r].task][i] = loopTrace[runner[r].task][i]
        /\ loopTrace'[runner[r].task][Len(loopTrace[runner[r].task]) + 1] = e
    BY <1>2, LogTells
  <2>2. ASSUME NEW q \in Runs \ {r}, NEW t \in 1..LoopTasks
        PROVE  /\ Len(loopTrace[t]) <= Len(loopTrace'[t]) /\ Len(loopTrace'[t]) \in Nat
               /\ \A i \in 1 .. Len(loopTrace[t]) : loopTrace'[t][i] = loopTrace[t][i]
               /\ \A i \in 1 .. Len(loopTrace'[t]) :
                    loopTrace'[t][i].run = q => i <= Len(loopTrace[t])
    <3>1. Len(loopTrace[t]) \in Nat
      BY TraceTyped
    <3>2. CASE t = runner[r].task
      <4>1. /\ Len(loopTrace'[t]) = Len(loopTrace[t]) + 1
            /\ \A i \in 1 .. Len(loopTrace[t]) : loopTrace'[t][i] = loopTrace[t][i]
            /\ loopTrace'[t][Len(loopTrace[t]) + 1].run # q
        BY <1>2, <2>1, <3>2
      <4>2. \A i \in 1 .. Len(loopTrace'[t]) :
              i <= Len(loopTrace[t]) \/ i = Len(loopTrace[t]) + 1
        BY <3>1, <4>1
      <4>3. QED
        BY <3>1, <4>1, <4>2
    <3>3. CASE t # runner[r].task
      BY <2>1, <3>1, <3>3
    <3>4. QED
      BY <3>2, <3>3
  <2>3. QED
    BY <2>2 DEF Same
<1>3. QED
  BY <1>1, <1>2

\* A step of one run keeps the invariant if it keeps the run's own part.
LEMMA RunMoves ==
  ASSUME LoopInv, NEW r \in Runs, NEW e,
         runner' \in [Runs -> RunStates],
         \A q \in Runs \ {r} : runner'[q] = runner[q],
         \/ loopTrace' = loopTrace
         \/ e \in Entries /\ e.run = r /\ Log(runner[r].task, e),
         UNCHANGED <<current, switched>>,
         Earning(r)',
         (evidence' = evidence /\ runner[r].at # "done") \/ EvidenceOfRun'
  PROVE  LoopInv'
<1>1. LoopTyped'
  <2>1. loopTrace' \in [1..LoopTasks -> Seq(Entries)]
    BY LogTells DEF LoopInv, LoopTyped
  <2>2. QED
    BY <2>1 DEF LoopInv, LoopTyped
<1>2. \A q \in Runs \ {r} : Same(q)
  BY OthersStay DEF LoopInv
<1>3. \A q \in Runs : Earning(q)'
  BY <1>2, SameEarns DEF LoopInv
<1>4. EvidenceOfRun'
  <2> SUFFICES ASSUME evidence' = evidence, runner[r].at # "done", evidence # NoOne, evidence.passed
               PROVE  EvidenceOfRun'
    BY DEF EvidenceOfRun
  <2>1. /\ evidence.run \in Runs \ {r} /\ evidence.digest = runner[evidence.run].digest
        /\ runner[evidence.run].at = "done"
        /\ Succeeded(evidence.run) /\ NotHalted(evidence.run) /\ Progressed(evidence.run)
        /\ evidence.task \in {runner[evidence.run].task, NoOne} \/ evidence.run \in switched
    BY DEF LoopInv, EvidenceOfRun
  <2>2. PICK q \in Runs \ {r} : q = evidence.run
    BY <2>1
  <2>3. Same(q)
    BY <1>2
  <2>4. Succeeded(q)' /\ NotHalted(q)' /\ Progressed(q)' /\ runner'[q] = runner[q]
    BY <2>1, <2>2, <2>3, SameShows DEF LoopInv, Same
  <2>5. QED
    BY <2>1, <2>2, <2>4 DEF EvidenceOfRun
<1>5. QED
  BY <1>1, <1>3, <1>4 DEF LoopInv

\* What a logged attempt shows of its run.
LEMMA AttemptShows ==
  ASSUME LoopTyped, NEW r \in Runs, NEW e \in Entries, e.run = r, Log(runner[r].task, e),
         runner'[r].task = runner[r].task
  PROVE  /\ e.ok => Succeeded(r)'
         /\ NotHalted(r) /\ e.type # "loop_halt" => NotHalted(r)'
<1> DEFINE t == runner[r].task
<1>1. t \in 1..LoopTasks
  BY DEF LoopTyped, RunStates
<1>2. /\ Len(loopTrace[t]) \in Nat
      /\ Len(loopTrace'[t]) = Len(loopTrace[t]) + 1
      /\ \A i \in 1 .. Len(loopTrace[t]) : loopTrace'[t][i] = loopTrace[t][i]
      /\ loopTrace'[t][Len(loopTrace[t]) + 1] = e
  BY <1>1, LogTells, TraceTyped
<1>3. e.ok => Succeeded(r)'
  <2>1. Len(loopTrace[t]) + 1 \in 1 .. Len(loopTrace'[t])
    BY <1>2
  <2>2. QED
    BY <1>2, <2>1 DEF Succeeded, Ran, Entry, Positions
<1>4. NotHalted(r) /\ e.type # "loop_halt" => NotHalted(r)'
  <2>1. \A i \in 1 .. Len(loopTrace'[t]) : i \in 1 .. Len(loopTrace[t]) \/ i = Len(loopTrace[t]) + 1
    BY <1>2
  <2>2. QED
    BY <1>2, <2>1 DEF NotHalted, Ran, Entry, Positions
<1>5. QED
  BY <1>3, <1>4

\* A run the guard lets go on printed what no other attempt id has in the log.
LEMMA GuardPasses ==
  ASSUME LoopTyped, NEW r \in Runs, ~detectNoProgress(r)
  PROVE  Progressed(r)
<1> DEFINE t == runner[r].task
<1>1. t \in 1..LoopTasks
  BY DEF LoopTyped, RunStates
<1>2. DOMAIN loopTrace[t] = 1 .. Len(loopTrace[t])
  BY <1>1, TraceTyped
<1>3. \A j \in 1 .. Len(loopTrace[t]) : loopTrace[t][j] \in Range(loopTrace[t])
  BY <1>2 DEF Range
<1>4. QED
  BY <1>3 DEF detectNoProgress, Progressed, Entry, Positions

LEMMA InitLoopInv == LoopInit => LoopInv
<1> SUFFICES ASSUME LoopInit PROVE LoopInv
  OBVIOUS
<1>1. loopTrace \in [1..LoopTasks -> Seq(Entries)] /\ \A t \in 1..LoopTasks : Len(loopTrace[t]) = 0
  <2>1. <<>> \in Seq(Entries) /\ Len(<<>>) = 0
    BY EmptySeq
  <2>2. QED
    BY <2>1 DEF LoopInit
<1>2. LoopTyped
  BY <1>1, LoopAssumption DEF LoopInit, LoopTyped, RunStates, Idle
<1>3. \A r \in Runs : Earning(r)
  BY <1>1 DEF LoopInit, Earning, Idle
<1>4. QED
  BY <1>2, <1>3 DEF LoopInit, LoopInv, EvidenceOfRun

LEMMA StepLoopInv == LoopInv /\ [LoopNext]_loopVars => LoopInv'
<1> SUFFICES ASSUME LoopInv, [LoopNext]_loopVars
             PROVE  LoopInv'
  OBVIOUS
<1>1. LoopTyped /\ (\A q \in Runs : Earning(q)) /\ EvidenceOfRun
  BY DEF LoopInv
<1>2. CASE SwitchTask
  <2>1. /\ UNCHANGED <<loopTrace, evidence, runner>> /\ current' \in 1..LoopTasks
        /\ switched' = switched \cup {r \in Runs : runner[r].at \notin {"idle", "done"}}
    BY <1>1, <1>2, LoopAssumption DEF SwitchTask, LoopTyped
  <2>2. ASSUME NEW q \in Runs
        PROVE  Earning(q)'
    BY <1>1, <2>1 DEF Earning, Succeeded, NotHalted, Progressed, Ran, Entry, Positions
  <2>3. EvidenceOfRun'
    BY <1>1, <2>1 DEF EvidenceOfRun, Succeeded, NotHalted, Progressed, Ran, Entry, Positions
  <2>4. QED
    BY <1>1, <2>1, <2>2, <2>3 DEF LoopInv, LoopTyped
<1>3. ASSUME NEW r \in Runs, NEW a \in Attempts, StartVerify(r, a)
      PROVE  LoopInv'
  <2> DEFINE new == [Idle EXCEPT !.at = "first", !.task = current, !.attempt = a]
  <2>1. /\ runner' = [runner EXCEPT ![r] = new] /\ runner[r].at = "idle"
        /\ UNCHANGED <<loopTrace, evidence, current, switched>>
    BY <1>3 DEF StartVerify
  <2>2. new \in RunStates /\ new.at = "first" /\ new.task = current
    <3>1. Idle \in RunStates
      BY LoopAssumption DEF Idle, RunStates
    <3>2. QED
      BY <1>1, <3>1 DEF RunStates, LoopTyped
  <2> HIDE DEF new
  <2>3. runner' \in [Runs -> RunStates] /\ runner'[r] = new /\ \A q \in Runs \ {r} : runner'[q] = runner[q]
    BY <1>1, <2>1, <2>2 DEF LoopTyped
  <2>4. Earning(r)'
    BY <1>1, <2>1, <2>2, <2>3 DEF Earning
  <2>5. QED
    BY <2>1, <2>3, <2>4, RunMoves
\* One run moves: its record, and what it logs.
<1>4. ASSUME NEW r \in Runs, NEW new \in RunStates, NEW e, runner[r].at \notin {"idle", "done"},
             runner' = [runner EXCEPT ![r] = new], new.task = runner[r].task,
             \/ loopTrace' = loopTrace
             \/ e \in Entries /\ e.run = r /\ Log(runner[r].task, e),
             UNCHANGED <<current, switched>>,
             new.at \notin {"idle", "first"},
             new.at \in {"rerun", "guard"} => NotHalted(r)',
             new.at = "guard" /\ new.verdict \in Passing => Succeeded(r)',
             new.at = "persist" /\ new.verdict \in Passing =>
               Succeeded(r)' /\ NotHalted(r)' /\ Progressed(r)',
             evidence' = evidence \/ EvidenceOfRun'
      PROVE  LoopInv'
  <2>1. runner' \in [Runs -> RunStates] /\ runner'[r] = new /\ \A q \in Runs \ {r} : runner'[q] = runner[q]
    BY <1>1, <1>4 DEF LoopTyped
  <2>2. Earning(r)'
    BY <1>1, <1>4, <2>1 DEF Earning
  <2>3. QED
    BY <1>4, <2>1, <2>2, RunMoves
<1>5. ASSUME NEW r \in Runs, CommandMissing(r)
      PROVE  LoopInv'
  <2> DEFINE new == [runner[r] EXCEPT !.at = "done"]
  <2>1. runner[r] \in RunStates
    BY <1>1 DEF LoopTyped
  <2>2. new \in RunStates /\ new.at = "done" /\ new.task = runner[r].task
    BY <2>1 DEF RunStates
  <2>3. runner' = [runner EXCEPT ![r] = new] /\ runner[r].at \notin {"idle", "done"}
        /\ UNCHANGED <<loopTrace, evidence, current, switched>>
    BY <1>5 DEF CommandMissing
  <2> HIDE DEF new
  <2>4. QED
    BY <1>4, <2>2, <2>3
<1>6. ASSUME NEW r \in Runs, FirstRun(r)
      PROVE  LoopInv'
  <2>1. PICK o \in CommandOutcomes :
          /\ Log(runner[r].task, loop_attempt(r, runner[r].attempt, o))
          /\ runner' = [runner EXCEPT ![r] =
               [@ EXCEPT !.digest = o.digest,
                         !.at = IF o.ok \/ o.timedOut THEN "guard" ELSE "rerun",
                         !.verdict = IF o.ok THEN "passed" ELSE "failed"]]
    BY <1>6 DEF FirstRun
  <2> DEFINE e == loop_attempt(r, runner[r].attempt, o)
             new == [runner[r] EXCEPT !.digest = o.digest,
                                      !.at = IF o.ok \/ o.timedOut THEN "guard" ELSE "rerun",
                                      !.verdict = IF o.ok THEN "passed" ELSE "failed"]
  <2>2. runner[r] \in RunStates /\ runner[r].at = "first" /\ UNCHANGED <<evidence, current, switched>>
    BY <1>1, <1>6 DEF LoopTyped, FirstRun
  <2>3. e \in Entries /\ e.run = r /\ e.type = "loop_attempt" /\ e.ok = o.ok
    BY <2>2 DEF Entries, RunStates, loop_attempt, CommandOutcomes, Outcomes
  <2>4. /\ new \in RunStates /\ new.at \in {"rerun", "guard"} /\ new.task = runner[r].task
        /\ new.verdict \in Passing => o.ok
    BY <2>2 DEF RunStates, CommandOutcomes, Outcomes, Passing
  <2>5. runner' = [runner EXCEPT ![r] = new] /\ Log(runner[r].task, e)
    BY <2>1
  <2> HIDE DEF new, e
  <2>6. runner'[r].task = runner[r].task
    BY <1>1, <2>4, <2>5 DEF LoopTyped
  <2>7. NotHalted(r)
    BY <1>1, <2>2 DEF Earning, NotHalted, Ran, Entry, Positions, RunStates
  <2>8. NotHalted(r)' /\ (e.ok => Succeeded(r)')
    BY <1>1, <2>3, <2>5, <2>6, <2>7, AttemptShows
  <2>9. QED
    BY <1>4, <2>2, <2>3, <2>4, <2>5, <2>8
<1>7. ASSUME NEW r \in Runs, Rerun(r)
      PROVE  LoopInv'
  <2>1. PICK o \in CommandOutcomes :
          /\ Log(runner[r].task, loop_attempt(r, NoOne, o))
          /\ runner' = [runner EXCEPT ![r] =
               [@ EXCEPT !.at = "guard",
                         !.verdict = IF o.ok THEN "flaky"
                                     ELSE IF o.digest = runner[r].digest THEN "stable_fail"
                                     ELSE "failed"]]
    BY <1>7 DEF Rerun
  <2> DEFINE e == loop_attempt(r, NoOne, o)
             new == [runner[r] EXCEPT !.at = "guard",
                                      !.verdict = IF o.ok THEN "flaky"
                                                  ELSE IF o.digest = runner[r].digest THEN "stable_fail"
                                                  ELSE "failed"]
  <2>2. runner[r] \in RunStates /\ runner[r].at = "rerun" /\ UNCHANGED <<evidence, current, switched>>
    BY <1>1, <1>7 DEF LoopTyped, Rerun
  <2>3. e \in Entries /\ e.run = r /\ e.type = "loop_attempt" /\ e.ok = o.ok
    BY <2>2 DEF Entries, RunStates, loop_attempt, CommandOutcomes, Outcomes
  <2>4. /\ new \in RunStates /\ new.at = "guard" /\ new.task = runner[r].task
        /\ new.verdict \in Passing => o.ok
    BY <2>2 DEF RunStates, CommandOutcomes, Outcomes, Passing
  <2>5. runner' = [runner EXCEPT ![r] = new] /\ Log(runner[r].task, e)
    BY <2>1
  <2> HIDE DEF new, e
  <2>6. runner'[r].task = runner[r].task
    BY <1>1, <2>4, <2>5 DEF LoopTyped
  <2>7. NotHalted(r)
    BY <1>1, <2>2 DEF Earning
  <2>8. NotHalted(r)' /\ (e.ok => Succeeded(r)')
    BY <1>1, <2>3, <2>5, <2>6, <2>7, AttemptShows
  <2>9. QED
    BY <1>4, <2>2, <2>3, <2>4, <2>5, <2>8
<1>8. ASSUME NEW r \in Runs, NEW files \in countChangedFiles, Guard(r, files)
      PROVE  LoopInv'
  <2>1. runner[r] \in RunStates /\ runner[r].at = "guard" /\ UNCHANGED <<evidence, current, switched>>
    BY <1>1, <1>8 DEF LoopTyped, Guard
  <2>2. CASE files = "uncounted"
    <3> DEFINE new == [runner[r] EXCEPT !.at = "done"]
    <3>1. new \in RunStates /\ new.at = "done" /\ new.task = runner[r].task
      BY <2>1 DEF RunStates
    <3>2. runner' = [runner EXCEPT ![r] = new] /\ loopTrace' = loopTrace
      BY <1>8, <2>2 DEF Guard
    <3> HIDE DEF new
    <3>3. QED
      BY <1>4, <2>1, <3>1, <3>2
  <2>3. CASE files # "uncounted" /\ (files = "tooMany" \/ detectNoProgress(r))
    <3> DEFINE new == [runner[r] EXCEPT !.at = "persist", !.verdict = "failed"]
               e == loop_halt(r, IF files = "tooMany" THEN "MAX_FILES" ELSE "NO_PROGRESS")
    <3>1. /\ new \in RunStates /\ new.at = "persist" /\ new.verdict \notin Passing
          /\ new.task = runner[r].task
      BY <2>1 DEF RunStates, Passing
    <3>2. e \in Entries /\ e.run = r
      BY <2>1 DEF Entries, RunStates, loop_halt
    <3>3. runner' = [runner EXCEPT ![r] = new] /\ Log(runner[r].task, e)
      BY <1>8, <2>3 DEF Guard
    <3> HIDE DEF new, e
    <3>4. QED
      BY <1>4, <2>1, <3>1, <3>2, <3>3
  <2>4. CASE files # "uncounted" /\ files # "tooMany" /\ ~detectNoProgress(r)
    <3> DEFINE new == [runner[r] EXCEPT !.at = "persist"]
    <3>1. /\ new \in RunStates /\ new.at = "persist" /\ new.verdict = runner[r].verdict
          /\ new.task = runner[r].task /\ new.attempt = runner[r].attempt
          /\ new.digest = runner[r].digest
      BY <2>1 DEF RunStates
    <3>2. runner' = [runner EXCEPT ![r] = new] /\ loopTrace' = loopTrace
      BY <1>8, <2>4 DEF Guard
    <3> HIDE DEF new
    <3>3. runner'[r] = new
      BY <1>1, <3>2 DEF LoopTyped
    <3>4. NotHalted(r) /\ Progressed(r) /\ (runner[r].verdict \in Passing => Succeeded(r))
      BY <1>1, <2>1, <2>4, GuardPasses DEF Earning
    <3>5. NotHalted(r)' /\ Progressed(r)' /\ (runner[r].verdict \in Passing => Succeeded(r)')
      BY <3>1, <3>2, <3>3, <3>4 DEF NotHalted, Progressed, Succeeded, Ran, Entry, Positions
    <3>6. QED
      BY <1>4, <2>1, <3>1, <3>2, <3>5
  <2>5. QED
    BY <2>2, <2>3, <2>4
<1>9. ASSUME NEW r \in Runs, persistVerifyResult(r)
      PROVE  LoopInv'
  <2> DEFINE new == [runner[r] EXCEPT !.at = "done"]
  <2>1. runner[r] \in RunStates /\ runner[r].at = "persist" /\ UNCHANGED <<loopTrace, current, switched>>
    BY <1>1, <1>9 DEF LoopTyped, persistVerifyResult
  <2>2. /\ new \in RunStates /\ new.at = "done" /\ new.task = runner[r].task
        /\ new.attempt = runner[r].attempt /\ new.digest = runner[r].digest
    BY <2>1 DEF RunStates
  <2>3. runner' = [runner EXCEPT ![r] = new]
    BY <1>9 DEF persistVerifyResult
  <2> HIDE DEF new
  <2>4. runner'[r] = new
    BY <1>1, <2>3 DEF LoopTyped
  <2>5. CASE evidence' = evidence
    BY <1>4, <2>1, <2>2, <2>3, <2>5
  <2>6. ASSUME NEW owner \in {current, NoOne},
               evidence' = [passed |-> runner[r].verdict \in Passing, digest |-> runner[r].digest,
                            task |-> owner, run |-> r]
        PROVE  LoopInv'
    <3>1. EvidenceOfRun'
      <4> SUFFICES ASSUME runner[r].verdict \in Passing
                   PROVE  EvidenceOfRun'
        BY <2>6 DEF EvidenceOfRun
      <4>1. /\ Succeeded(r) /\ NotHalted(r) /\ Progressed(r)
            /\ runner[r].task = current \/ r \in switched
        BY <1>1, <2>1 DEF Earning
      <4>2. Succeeded(r)' /\ NotHalted(r)' /\ Progressed(r)'
        BY <2>1, <2>2, <2>4, <4>1 DEF NotHalted, Progressed, Succeeded, Ran, Entry, Positions
      <4>3. /\ evidence'.run = r /\ evidence'.digest = runner[r].digest
            /\ evidence'.task \in {current, NoOne}
        BY <2>6
      <4>4. QED
        BY <2>1, <2>2, <2>4, <4>1, <4>2, <4>3 DEF EvidenceOfRun
    <3>2. QED
      BY <1>4, <2>1, <2>2, <2>3, <3>1
  <2>7. QED
    BY <1>9, <2>5, <2>6 DEF persistVerifyResult, Passing
<1>10. CASE UNCHANGED loopVars
  <2>1. UNCHANGED <<loopTrace, evidence, current, runner, switched>>
    BY <1>10 DEF loopVars
  <2>2. \A q \in Runs : Earning(q)'
    BY <1>1, <2>1 DEF Earning, Succeeded, NotHalted, Progressed, Ran, Entry, Positions
  <2>3. EvidenceOfRun'
    BY <1>1, <2>1 DEF EvidenceOfRun, Succeeded, NotHalted, Progressed, Ran, Entry, Positions
  <2>4. QED
    BY <1>1, <2>1, <2>2, <2>3 DEF LoopInv, LoopTyped
<1>11. QED
  BY <1>2, <1>3, <1>5, <1>6, <1>7, <1>8, <1>9, <1>10 DEF LoopNext

\* Passing evidence was earned by its own run, however many run at once and
\* however often the task changes.
THEOREM EvidenceIsEarnedHolds == LoopSpec => []EvidenceIsEarned
BY InitLoopInv, StepLoopInv, EarnedIsEarned, PTL DEF LoopSpec

-----------------------------------------------------------------------------
(* What the state is like, whatever happens.                               *)

\* What LoopTyped leaves out.
EvidenceTyped ==
  /\ switched \subseteq Runs
  /\ evidence # NoOne => evidence.passed \in BOOLEAN /\ evidence.run \in Runs

LEMMA LoopTypes == LoopSpec => []LoopTypeOK
<1>1. LoopInit => EvidenceTyped
  BY DEF LoopInit, EvidenceTyped
<1>2. ASSUME EvidenceTyped, [LoopNext]_loopVars
      PROVE  EvidenceTyped'
  <2>1. ASSUME NEW r \in Runs, persistVerifyResult(r) PROVE EvidenceTyped'
    <3>1. (runner[r].verdict \in {"passed", "flaky"}) \in BOOLEAN
      OBVIOUS
    <3>2. CASE UNCHANGED evidence
      BY <1>2, <2>1, <3>2 DEF EvidenceTyped, persistVerifyResult
    <3>3. ASSUME NEW owner \in {current, NoOne},
                 evidence' = [passed |-> runner[r].verdict \in {"passed", "flaky"},
                              digest |-> runner[r].digest, task |-> owner, run |-> r]
          PROVE  EvidenceTyped'
      <4>1. evidence'.passed = (runner[r].verdict \in {"passed", "flaky"}) /\ evidence'.run = r
        BY Zenon, <3>3
      <4>2. evidence'.passed \in BOOLEAN /\ evidence'.run \in Runs
        BY Zenon, <2>1, <3>1, <4>1
      <4>3. QED
        BY Zenon, <1>2, <2>1, <4>2 DEF EvidenceTyped, persistVerifyResult
    <3>4. QED
      BY <2>1, <3>2, <3>3 DEF persistVerifyResult
  <2>2. CASE SwitchTask
    BY <1>2, <2>2 DEF SwitchTask, EvidenceTyped
  <2>3. CASE UNCHANGED <<evidence, switched>>
    BY Zenon, <1>2, <2>3 DEF EvidenceTyped
  <2>4. QED
    BY <1>2, <2>1, <2>2, <2>3
    DEF LoopNext, loopVars, StartVerify, CommandMissing, FirstRun, Rerun, Guard
<1>3. LoopInv /\ EvidenceTyped => LoopTypeOK
  <2> SUFFICES ASSUME LoopInv, EvidenceTyped PROVE LoopTypeOK
    OBVIOUS
  <2>1. \A r \in Runs : runner[r] \in RunStates
    BY DEF LoopInv, LoopTyped
  <2>2. \A r \in Runs :
          /\ runner[r].at \in {"idle", "first", "rerun", "guard", "persist", "done"}
          /\ runner[r].verdict \in {"none", "passed", "flaky", "failed", "stable_fail"}
          /\ runner[r].task \in 1..LoopTasks
    BY <2>1 DEF RunStates
  <2>3. QED
    BY Zenon, <2>2 DEF LoopInv, LoopTyped, EvidenceTyped, LoopTypeOK
<1>4. QED
  BY <1>1, <1>2, <1>3, InitLoopInv, StepLoopInv, PTL DEF LoopSpec

-----------------------------------------------------------------------------
(***************************************************************************)
(* The context budget: a session nobody disturbed is not blocked.          *)
(***************************************************************************)

BudgetTyped ==
  /\ meter.contextTokens \in Nat
  /\ meter = [contextTokens |-> meter.contextTokens, lastReportId |-> meter.lastReportId]
  /\ notes \in Nat /\ owed \in Nat
  /\ DOMAIN step = Procs /\ DOMAIN reading = Procs /\ DOMAIN measured = Procs

\* Where a process is while none has met another or failed, with the meter and the
\* notes as they are now.
Accounts(p) ==
  /\ step[p] = "record" => /\ p \in Hooks /\ reading[p] = meter
                           /\ measured[p].tokens \in Nat
                           /\ owed = meter.contextTokens + measured[p].tokens
  /\ Running(p) /\ step[p] # "record" => meter.contextTokens = owed
  /\ step[p] \in {"report", "reportAfter"} => reading[p] = meter
  /\ step[p] \in {"zero", "unmark", "remeasure"} => notes = 0
  /\ step[p] \in {"unmark", "remeasure"} => meter = emptyMeter
  /\ step[p] # "mark"

Orderly ==
  /\ BudgetTyped /\ ~marker
  /\ \A p \in Procs : \A q \in Procs \ {p} : ~(Running(p) /\ Running(q))
  /\ \A p \in Procs : Accounts(p)
  /\ (\A p \in Procs : ~Running(p)) => meter.contextTokens = owed

\* Nothing that has been disturbed is in order again.
BudgetInv == ~disturbed => Orderly

-----------------------------------------------------------------------------
(* One process moves.                                                      *)

LEMMA EmptyMeterIs ==
  /\ emptyMeter.contextTokens = 0
  /\ emptyMeter = [contextTokens |-> emptyMeter.contextTokens,
                   lastReportId |-> emptyMeter.lastReportId]
BY DEF emptyMeter

LEMMA GotoIs ==
  ASSUME BudgetTyped, NEW p \in Procs, NEW s, NEW read, NEW size, Goto(p, s, read, size)
  PROVE  /\ DOMAIN step' = Procs /\ DOMAIN reading' = Procs /\ DOMAIN measured' = Procs
         /\ step'[p] = s
         /\ s # "done" => reading'[p] = read /\ measured'[p] = size
         /\ \A q \in Procs \ {p} : step'[q] = step[q]
BY DEF Goto, BudgetTyped

\* The others rest.
LEMMA OneRuns ==
  ASSUME Orderly, NEW p \in Procs, \A q \in Procs \ {p} : ~Running(q),
         NEW s, NEW read, NEW size, Goto(p, s, read, size),
         meter' = [contextTokens |-> meter'.contextTokens, lastReportId |-> meter'.lastReportId],
         meter'.contextTokens \in Nat, notes' \in Nat, owed' \in Nat, ~marker',
         s # "mark",
         s = "record" => /\ p \in Hooks /\ read = meter' /\ size.tokens \in Nat
                         /\ owed' = meter'.contextTokens + size.tokens,
         s # "record" => meter'.contextTokens = owed',
         s \in {"report", "reportAfter"} => read = meter',
         s \in {"zero", "unmark", "remeasure"} => notes' = 0,
         s \in {"unmark", "remeasure"} => meter' = emptyMeter
  PROVE  Orderly'
<1>1. /\ DOMAIN step' = Procs /\ DOMAIN reading' = Procs /\ DOMAIN measured' = Procs
      /\ step'[p] = s
      /\ s # "done" => reading'[p] = read /\ measured'[p] = size
      /\ \A q \in Procs \ {p} : step'[q] = step[q]
  BY GotoIs DEF Orderly
<1>2. BudgetTyped'
  BY <1>1 DEF BudgetTyped
<1>3. emptyMeter' = emptyMeter
  BY DEF emptyMeter, NoReport
<1>4. \A q \in Procs \ {p} : ~Running(q)' /\ Accounts(q)'
  BY <1>1 DEF Running, Accounts
<1>5. Accounts(p)'
  BY <1>1, <1>3 DEF Running, Accounts
<1>6. (\A q \in Procs : ~Running(q)') => meter'.contextTokens = owed'
  BY <1>1 DEF Running
<1>7. QED
  BY <1>2, <1>4, <1>5, <1>6 DEF Orderly

LEMMA RunnersOwn ==
  ASSUME Orderly, NEW p \in Procs, Running(p)
  PROVE  (\A q \in Procs \ {p} : ~Running(q)) /\ ~marker /\ Accounts(p) /\ BudgetTyped
BY DEF Orderly

LEMMA ProcsAre == Compactor \in Procs /\ \A h \in Hooks : h \in Procs
BY DEF Procs

-----------------------------------------------------------------------------
(* The steps.                                                              *)

LEMMA ToolResultKeeps ==
  ASSUME Orderly, NEW h \in Hooks, ToolResult(h), ~disturbed'
  PROVE  Orderly'
<1>1. PICK n \in Results :
        owed' = owed + n /\ Goto(h, "record", meter, [NoMeasure EXCEPT !.tokens = n])
  BY DEF ToolResult
<1> DEFINE size == [NoMeasure EXCEPT !.tokens = n]
<1>2. size.tokens = n /\ n \in Nat
  BY BudgetAssumption DEF NoMeasure
<1>3. Goto(h, "record", meter, size)
  BY <1>1
<1> HIDE DEF size
<1>4. /\ h \in Procs /\ ~Running(h) /\ UNCHANGED <<meter, notes, marker>>
      /\ \A q \in Procs \ {h} : ~Running(q)
  BY ProcsAre DEF ToolResult, Overlaps, Running
<1>5. BudgetTyped /\ meter.contextTokens = owed /\ ~marker
  BY <1>4 DEF Orderly
<1>6. QED
  BY <1>1, <1>2, <1>3, <1>4, <1>5, OneRuns DEF BudgetTyped

LEMMA recordToolResultKeeps ==
  ASSUME Orderly, NEW h \in Hooks, recordToolResult(h)
  PROVE  Orderly'
<1> DEFINE added == measured[h].tokens
           more == [meter EXCEPT !.contextTokens = @ + added]
<1>1. /\ h \in Procs /\ step[h] = "record" /\ UNCHANGED <<notes, marker, owed>>
      /\ meter' = (IF added < 1 THEN meter ELSE [reading[h] EXCEPT !.contextTokens = @ + added])
      /\ Goto(h, "measure", reading[h], measured[h])
  BY ProcsAre DEF recordToolResult, Keep
<1>2. /\ (\A q \in Procs \ {h} : ~Running(q)) /\ ~marker /\ BudgetTyped
      /\ reading[h] = meter /\ added \in Nat /\ owed = meter.contextTokens + added
  BY <1>1, RunnersOwn DEF Running, Accounts
<1>3. /\ more.contextTokens = meter.contextTokens + added
      /\ more = [contextTokens |-> more.contextTokens, lastReportId |-> more.lastReportId]
  BY <1>2 DEF BudgetTyped
<1> HIDE DEF more
<1>4. meter' = IF added < 1 THEN meter ELSE more
  BY <1>1, <1>2 DEF more
<1>5. /\ meter' = [contextTokens |-> meter'.contextTokens, lastReportId |-> meter'.lastReportId]
      /\ meter'.contextTokens = owed /\ owed \in Nat /\ notes \in Nat
  BY <1>2, <1>3, <1>4 DEF BudgetTyped
<1>6. QED
  BY <1>1, <1>2, <1>5, OneRuns

\* A step that leaves the meter, the notes and the marker.
LEMMA LooksOn ==
  ASSUME Orderly, NEW p \in Procs, Running(p), step[p] # "record",
         UNCHANGED <<meter, notes, marker, owed>>,
         NEW s \in {"idle", "done", "measure", "report", "reportAfter", "archive"},
         NEW read, NEW size, Goto(p, s, read, size),
         s \in {"report", "reportAfter"} => read = meter
  PROVE  Orderly'
<1>1. /\ (\A q \in Procs \ {p} : ~Running(q)) /\ ~marker /\ BudgetTyped
      /\ meter.contextTokens = owed
  BY RunnersOwn DEF Accounts
<1>2. QED
  BY <1>1, OneRuns DEF BudgetTyped

LEMMA measureSessionKeeps ==
  ASSUME Orderly, NEW h \in Hooks, measureSession(h)
  PROVE  Orderly'
<1> DEFINE s == IF Level(Session) = "warn" /\ reportId(Session) = meter.lastReportId
                THEN "done" ELSE "report"
<1>1. /\ h \in Procs /\ step[h] = "measure" /\ UNCHANGED <<meter, notes, marker, owed>>
      /\ Goto(h, s, meter, Session)
  BY ProcsAre DEF measureSession
<1>2. s \in {"idle", "done", "measure", "report", "reportAfter", "archive"}
  OBVIOUS
<1> HIDE DEF s
<1>3. QED
  BY <1>1, <1>2, LooksOn DEF Running

LEMMA rememberReportKeeps ==
  ASSUME Orderly, NEW h \in Hooks, rememberReport(h)
  PROVE  Orderly'
<1> DEFINE s == IF step[h] = "report" /\ Level(measured[h]) = "critical" THEN "archive" ELSE "done"
           id == reportId(measured[h])
           told == [meter EXCEPT !.lastReportId = id]
<1>1. /\ h \in Procs /\ step[h] \in {"report", "reportAfter"} /\ UNCHANGED <<notes, marker, owed>>
      /\ meter' = (IF reading[h].lastReportId = id THEN meter ELSE [reading[h] EXCEPT !.lastReportId = id])
      /\ Goto(h, s, reading[h], measured[h])
  BY ProcsAre DEF rememberReport, Keep
<1>2. /\ (\A q \in Procs \ {h} : ~Running(q)) /\ ~marker /\ BudgetTyped
      /\ reading[h] = meter /\ meter.contextTokens = owed
  BY <1>1, RunnersOwn DEF Running, Accounts
<1>3. s \in {"archive", "done"}
  OBVIOUS
<1>4. /\ told.contextTokens = meter.contextTokens
      /\ told = [contextTokens |-> told.contextTokens, lastReportId |-> told.lastReportId]
  BY <1>2 DEF BudgetTyped
<1> HIDE DEF s, id, told
<1>5. meter' \in {meter, told}
  BY <1>1, <1>2 DEF told
<1>6. /\ meter' = [contextTokens |-> meter'.contextTokens, lastReportId |-> meter'.lastReportId]
      /\ meter'.contextTokens = owed /\ owed \in Nat /\ notes \in Nat
  BY <1>2, <1>4, <1>5 DEF BudgetTyped
<1>7. QED
  BY <1>1, <1>2, <1>3, <1>6, OneRuns

LEMMA StartCompactionKeeps ==
  ASSUME Orderly, StartCompaction, ~disturbed'
  PROVE  Orderly'
<1>1. /\ Compactor \in Procs /\ ~Running(Compactor) /\ UNCHANGED <<meter, notes, marker, owed>>
      /\ \A q \in Procs \ {Compactor} : ~Running(q)
      /\ Goto(Compactor, "archive", reading[Compactor], measured[Compactor])
  BY ProcsAre DEF StartCompaction, Overlaps, Running, Keep
<1>2. BudgetTyped /\ meter.contextTokens = owed /\ ~marker
  BY <1>1 DEF Orderly
<1>3. QED
  BY <1>1, <1>2, OneRuns DEF BudgetTyped

LEMMA ArchiveKeeps ==
  ASSUME Orderly, NEW p \in Procs, Archive(p), ~disturbed'
  PROVE  Orderly'
<1>1. /\ step[p] = "archive" /\ notes' = 0 /\ UNCHANGED <<meter, marker, owed>>
      /\ Goto(p, "zero", reading[p], measured[p])
  BY DEF Archive, Keep
<1>2. /\ (\A q \in Procs \ {p} : ~Running(q)) /\ ~marker /\ BudgetTyped
      /\ meter.contextTokens = owed
  BY <1>1, RunnersOwn DEF Running, Accounts
<1>3. QED
  BY <1>1, <1>2, OneRuns DEF BudgetTyped

LEMMA resetContextMeterKeeps ==
  ASSUME Orderly, NEW p \in Procs, resetContextMeter(p)
  PROVE  Orderly'
<1>1. /\ step[p] = "zero" /\ meter' = emptyMeter /\ owed' = 0 /\ UNCHANGED <<notes, marker>>
      /\ Goto(p, "unmark", reading[p], measured[p])
  BY DEF resetContextMeter, Keep
<1>2. /\ (\A q \in Procs \ {p} : ~Running(q)) /\ ~marker /\ notes = 0
  BY <1>1, RunnersOwn DEF Running, Accounts
<1>3. QED
  BY <1>1, <1>2, EmptyMeterIs, OneRuns

LEMMA UnmarkKeeps ==
  ASSUME Orderly, NEW p \in Procs, Unmark(p)
  PROVE  Orderly'
<1> DEFINE s == IF p = Compactor THEN "done" ELSE "remeasure"
<1>1. /\ step[p] = "unmark" /\ ~marker' /\ UNCHANGED <<meter, notes, owed>>
      /\ Goto(p, s, reading[p], measured[p])
  BY DEF Unmark, Keep
<1>2. /\ (\A q \in Procs \ {p} : ~Running(q)) /\ BudgetTyped
      /\ meter.contextTokens = owed /\ notes = 0 /\ meter = emptyMeter
  BY <1>1, RunnersOwn DEF Running, Accounts
<1>3. s \in {"done", "remeasure"}
  OBVIOUS
<1> HIDE DEF s
<1>4. QED
  BY <1>1, <1>2, <1>3, OneRuns DEF BudgetTyped

\* An empty session is in bounds: it is not marked.
LEMMA RemeasureKeeps ==
  ASSUME Orderly, NEW h \in Hooks, Remeasure(h)
  PROVE  Orderly'
<1> DEFINE s == IF Level(Session) = "critical" THEN "mark" ELSE "reportAfter"
<1>1. /\ h \in Procs /\ step[h] = "remeasure" /\ UNCHANGED <<meter, notes, marker, owed>>
      /\ Goto(h, s, meter, Session)
  BY ProcsAre DEF Remeasure
<1>2. notes = 0 /\ meter = emptyMeter
  BY <1>1, RunnersOwn DEF Running, Accounts
<1>3. Session.notes = 0 /\ Session.tokens = 0
  BY <1>2, EmptyMeterIs DEF Session
<1>4. Level(Session) = "ok"
  BY <1>3, BudgetAssumption DEF Level
<1>5. s = "reportAfter"
  BY <1>4
<1> HIDE DEF s
<1>6. QED
  BY <1>1, <1>5, LooksOn DEF Running

LEMMA writeCriticalMarkerNever ==
  ASSUME Orderly, NEW h \in Hooks
  PROVE  ~writeCriticalMarker(h)
BY ProcsAre DEF writeCriticalMarker, Orderly, Accounts

LEMMA WriteNotesKeeps ==
  ASSUME Orderly, WriteNotes, ~disturbed'
  PROVE  Orderly'
<1>1. /\ notes' = notes + 1 /\ (\A p \in Procs : ~Running(p))
      /\ UNCHANGED <<meter, marker, step, reading, measured, owed>>
  BY DEF WriteNotes
<1>2. BudgetTyped'
  BY <1>1 DEF Orderly, BudgetTyped
<1>3. \A p \in Procs : ~Running(p)' /\ Accounts(p)'
  BY <1>1 DEF Running, Accounts
<1>4. QED
  BY <1>1, <1>2, <1>3 DEF Orderly

LEMMA InitBudgetInv == BudgetInit => BudgetInv
<1> SUFFICES ASSUME BudgetInit PROVE Orderly
  BY DEF BudgetInv
<1>1. /\ meter = emptyMeter /\ notes = 0 /\ marker = FALSE /\ owed = 0
      /\ step = [p \in Procs |-> "idle"] /\ reading = [p \in Procs |-> emptyMeter]
      /\ measured = [p \in Procs |-> NoMeasure]
  BY DEF BudgetInit
<1>2. \A p \in Procs : ~Running(p) /\ Accounts(p)
  BY <1>1 DEF Running, Accounts
<1>3. QED
  BY <1>1, <1>2, EmptyMeterIs DEF Orderly, BudgetTyped

LEMMA StepBudgetInv == BudgetInv /\ [BudgetNext]_budgetVars => BudgetInv'
<1>1. ASSUME BudgetInv, BudgetNext PROVE BudgetInv'
  <2> SUFFICES ASSUME ~disturbed' PROVE Orderly'
    BY DEF BudgetInv
  <2>1. ~disturbed /\ ~\E p \in Procs : HookDies(p)
    <3>1. ASSUME NEW p \in Procs, HookDies(p) PROVE FALSE
      BY <3>1 DEF HookDies
    <3>2. \/ WriteNotes \/ StartCompaction
          \/ \E h \in Hooks : ToolResult(h) \/ HookStep(h)
          \/ Archive(Compactor) \/ resetContextMeter(Compactor) \/ Unmark(Compactor)
      BY <1>1, <3>1 DEF BudgetNext
    <3>3. \A p \in Procs : Archive(p) => ~disturbed
      BY DEF Archive
    <3>4. \A p \in Procs : resetContextMeter(p) \/ Unmark(p) => ~disturbed
      BY DEF resetContextMeter, Unmark
    <3>5. \A h \in Hooks : ToolResult(h) => ~disturbed
      BY DEF ToolResult
    <3>6. \A h \in Hooks : HookStep(h) => ~disturbed
      BY <3>3, <3>4, ProcsAre DEF HookStep, recordToolResult, measureSession, rememberReport,
         Remeasure, writeCriticalMarker
    <3>7. WriteNotes \/ StartCompaction => ~disturbed
      BY DEF WriteNotes, StartCompaction
    <3>8. QED
      BY <3>1, <3>2, <3>3, <3>4, <3>5, <3>6, <3>7, ProcsAre
  <2>2. Orderly
    BY <1>1, <2>1 DEF BudgetInv
  <2>3. QED
    BY <1>1, <2>1, <2>2, ProcsAre, ToolResultKeeps, recordToolResultKeeps, measureSessionKeeps,
       rememberReportKeeps, StartCompactionKeeps, ArchiveKeeps, resetContextMeterKeeps, UnmarkKeeps,
       RemeasureKeeps, writeCriticalMarkerNever, WriteNotesKeeps
    DEF BudgetNext, HookStep
<1>2. ASSUME BudgetInv, UNCHANGED budgetVars PROVE BudgetInv'
  <2>1. UNCHANGED <<meter, notes, marker, step, reading, measured, owed, disturbed>>
    BY <1>2 DEF budgetVars
  <2>2. BudgetTyped' <=> BudgetTyped
    BY <2>1 DEF BudgetTyped
  <2>3. \A p \in Procs : (Running(p)' <=> Running(p)) /\ (Accounts(p)' <=> Accounts(p))
    BY <2>1 DEF Running, Accounts, emptyMeter, NoReport
  <2>4. QED
    BY <1>2, <2>1, <2>2, <2>3 DEF BudgetInv, Orderly
<1>3. QED
  BY <1>1, <1>2

\* While the hooks of a session run one at a time and none fails, the meter is what
\* entered the context since it was last reset, and no edit is ever blocked.
THEOREM UndisturbedNeverBlocksHolds == BudgetSpec => []UndisturbedNeverBlocks
<1>1. BudgetInv => UndisturbedNeverBlocks
  BY DEF BudgetInv, Orderly, UndisturbedNeverBlocks, EditsBlocked
<1>2. QED
  BY <1>1, InitBudgetInv, StepBudgetInv, PTL DEF BudgetSpec

-----------------------------------------------------------------------------
(* What the state is like, whatever happens.                               *)

Metered(m) == m.contextTokens \in Nat /\ m = [contextTokens |-> m.contextTokens, lastReportId |-> m.lastReportId]
HookPlaces == {"idle", "done", "record", "measure", "report", "reportAfter", "archive",
           "zero", "unmark", "remeasure", "mark"}

\* Whatever overlaps or fails.
BudgetShaped ==
  /\ Metered(meter) /\ notes \in 0 .. Notes /\ owed \in Nat
  /\ step \in [Procs -> HookPlaces]
  /\ DOMAIN reading = Procs /\ DOMAIN measured = Procs
  /\ \A p \in Procs : Metered(reading[p]) /\ measured[p] \in [notes : Nat, tokens : Nat]

FlagsTyped == marker \in BOOLEAN /\ disturbed \in BOOLEAN

LEMMA MeteredMore ==
  ASSUME NEW m, Metered(m), NEW added \in Nat, NEW id
  PROVE  /\ Metered([m EXCEPT !.contextTokens = @ + added])
         /\ Metered([m EXCEPT !.lastReportId = id])
<1> DEFINE a == m.contextTokens
           b == m.lastReportId
<1>1. a \in Nat /\ m = [contextTokens |-> a, lastReportId |-> b]
  BY DEF Metered
<1> HIDE DEF a, b
<1>2. /\ [m EXCEPT !.contextTokens = @ + added] = [contextTokens |-> a + added, lastReportId |-> b]
      /\ [m EXCEPT !.lastReportId = id] = [contextTokens |-> a, lastReportId |-> id]
  BY <1>1
<1>3. a + added \in Nat
  BY <1>1
<1>4. QED
  BY <1>1, <1>2, <1>3 DEF Metered

LEMMA EmptyIsMetered == Metered(emptyMeter) /\ NoMeasure \in [notes : Nat, tokens : Nat]
BY DEF Metered, emptyMeter, NoMeasure

LEMMA BudgetMoves ==
  ASSUME BudgetShaped, NEW p \in Procs, NEW s \in HookPlaces, NEW read, NEW size,
         Metered(read), size \in [notes : Nat, tokens : Nat], Goto(p, s, read, size),
         Metered(meter'), notes' \in 0 .. Notes, owed' \in Nat
  PROVE  BudgetShaped'
<1>1. step' = [step EXCEPT ![p] = s]
      /\ reading' = [reading EXCEPT ![p] = IF s = "done" THEN emptyMeter ELSE read]
      /\ measured' = [measured EXCEPT ![p] = IF s = "done" THEN NoMeasure ELSE size]
  BY DEF Goto
<1>2. step' \in [Procs -> HookPlaces] /\ DOMAIN reading' = Procs /\ DOMAIN measured' = Procs
  BY <1>1 DEF BudgetShaped
<1>3. ASSUME NEW q \in Procs
      PROVE  Metered(reading'[q]) /\ measured'[q] \in [notes : Nat, tokens : Nat]
  <2>1. CASE q = p
    <3>1. /\ reading'[q] = IF s = "done" THEN emptyMeter ELSE read
          /\ measured'[q] = IF s = "done" THEN NoMeasure ELSE size
      BY <1>1, <2>1 DEF BudgetShaped
    <3>2. CASE s = "done"
      BY <3>1, <3>2, EmptyIsMetered
    <3>3. CASE s # "done"
      BY <3>1, <3>3
    <3>4. QED
      BY <3>2, <3>3
  <2>2. CASE q # p
    <3>1. reading'[q] = reading[q] /\ measured'[q] = measured[q]
      BY <1>1, <2>2 DEF BudgetShaped
    <3>2. QED
      BY <3>1 DEF BudgetShaped
  <2>3. QED
    BY <2>1, <2>2
<1>4. QED
  BY <1>2, <1>3 DEF BudgetShaped

LEMMA SessionMeasured ==
  ASSUME BudgetShaped
  PROVE  Session \in [notes : Nat, tokens : Nat]
<1>1. notes \in Nat /\ meter.contextTokens \in Nat
  BY BudgetAssumption DEF BudgetShaped, Metered, BudgetAssumption
<1>2. QED
  BY <1>1 DEF Session

LEMMA BudgetStepShaped ==
  ASSUME BudgetShaped, BudgetNext
  PROVE  BudgetShaped'
<1>1. \A p \in Procs : Metered(reading[p]) /\ measured[p] \in [notes : Nat, tokens : Nat]
  BY DEF BudgetShaped
<1>2. Metered(meter) /\ notes \in 0 .. Notes /\ owed \in Nat /\ 0 \in 0 .. Notes
  BY BudgetAssumption DEF BudgetShaped, BudgetAssumption
<1>3. CASE WriteNotes
  <2>1. notes' \in 0 .. Notes /\ UNCHANGED <<meter, marker, step, reading, measured, owed>>
    BY <1>2, <1>3, BudgetAssumption DEF WriteNotes, BudgetAssumption
  <2>2. QED
    BY <2>1 DEF BudgetShaped, Metered
<1>4. ASSUME NEW p \in Procs, NEW s \in HookPlaces, Keep(p, s),
             Metered(meter'), notes' \in 0 .. Notes, owed' \in Nat
      PROVE  BudgetShaped'
  BY <1>1, <1>4, BudgetMoves DEF Keep
<1>5. \A p \in Procs : HookDies(p) => BudgetShaped'
  BY <1>2, <1>4 DEF HookDies, HookPlaces
<1>6. ASSUME NEW p \in Procs, Archive(p) \/ resetContextMeter(p) \/ Unmark(p)
      PROVE  BudgetShaped'
  <2>1. CASE Archive(p)
    BY <1>2, <1>4, <2>1 DEF Archive, HookPlaces
  <2>2. CASE resetContextMeter(p)
    BY <1>2, <1>4, <2>2, EmptyIsMetered DEF resetContextMeter, HookPlaces
  <2>3. CASE Unmark(p)
    <3>1. (IF p = Compactor THEN "done" ELSE "remeasure") \in HookPlaces
      BY DEF HookPlaces
    <3>2. QED
      BY <1>2, <1>4, <2>3, <3>1 DEF Unmark
  <2>4. QED
    BY <1>6, <2>1, <2>2, <2>3
<1>7. ASSUME NEW h \in Hooks, ToolResult(h) PROVE BudgetShaped'
  <2>1. PICK n \in Results :
          owed' = owed + n /\ Goto(h, "record", meter, [NoMeasure EXCEPT !.tokens = n])
    BY <1>7 DEF ToolResult
  <2>2. n \in Nat /\ h \in Procs /\ "record" \in HookPlaces
    BY BudgetAssumption, ProcsAre DEF BudgetAssumption, HookPlaces
  <2>3. [NoMeasure EXCEPT !.tokens = n] \in [notes : Nat, tokens : Nat]
    BY <2>2 DEF NoMeasure
  <2>4. Metered(meter') /\ notes' \in 0 .. Notes /\ owed' \in Nat
    BY <1>2, <1>7, <2>1, <2>2 DEF ToolResult
  <2>5. QED
    BY <1>2, <2>1, <2>2, <2>3, <2>4, BudgetMoves
<1>8. ASSUME NEW h \in Hooks, recordToolResult(h) PROVE BudgetShaped'
  <2>1. h \in Procs /\ "measure" \in HookPlaces /\ Keep(h, "measure") /\ UNCHANGED <<notes, owed>>
    BY <1>8, ProcsAre DEF recordToolResult, HookPlaces
  <2> DEFINE added == measured[h].tokens
             more == [reading[h] EXCEPT !.contextTokens = @ + added]
  <2>2. added \in Nat
    BY <1>1, <2>1
  <2>3. Metered(more)
    BY <1>1, <2>1, <2>2, MeteredMore
  <2>4. meter' = IF added < 1 THEN meter ELSE more
    BY <1>8 DEF recordToolResult
  <2> HIDE DEF added, more
  <2>5. Metered(meter')
    BY <1>2, <2>3, <2>4
  <2>6. QED
    BY <1>2, <1>4, <2>1, <2>5
<1>9. ASSUME NEW h \in Hooks, measureSession(h) \/ Remeasure(h) PROVE BudgetShaped'
  <2>1. \E s \in HookPlaces : Goto(h, s, meter, Session)
    BY <1>9 DEF measureSession, Remeasure, HookPlaces
  <2>2. UNCHANGED <<meter, notes, owed>> /\ h \in Procs
    BY <1>9, ProcsAre DEF measureSession, Remeasure
  <2>3. QED
    BY <1>2, <2>1, <2>2, SessionMeasured, BudgetMoves
<1>10. ASSUME NEW h \in Hooks, rememberReport(h) PROVE BudgetShaped'
  <2> DEFINE id == reportId(measured[h])
             said == [reading[h] EXCEPT !.lastReportId = id]
  <2>1. h \in Procs /\ UNCHANGED <<notes, owed>> /\ \E s \in HookPlaces : Keep(h, s)
    BY <1>10, ProcsAre DEF rememberReport, HookPlaces
  <2>2. Metered(said)
    BY <1>1, <2>1, MeteredMore
  <2>3. meter' = IF reading[h].lastReportId = id THEN meter ELSE said
    BY <1>10 DEF rememberReport
  <2> HIDE DEF id, said
  <2>4. Metered(meter')
    BY <1>2, <2>2, <2>3
  <2>5. QED
    BY <1>2, <1>4, <2>1, <2>4
<1>11. ASSUME NEW h \in Hooks, writeCriticalMarker(h) PROVE BudgetShaped'
  BY <1>2, <1>4, <1>11, ProcsAre DEF writeCriticalMarker, HookPlaces
<1>12. CASE StartCompaction
  BY <1>2, <1>4, <1>12, ProcsAre DEF StartCompaction, HookPlaces
<1>13. QED
  BY <1>3, <1>5, <1>6, <1>7, <1>8, <1>9, <1>10, <1>11, <1>12, ProcsAre DEF BudgetNext, HookStep

LEMMA BudgetTypes == BudgetSpec => []BudgetTypeOK
<1>1. BudgetInit => BudgetShaped /\ FlagsTyped
  <2> SUFFICES ASSUME BudgetInit PROVE BudgetShaped /\ FlagsTyped
    OBVIOUS
  <2>1. FlagsTyped
    BY DEF BudgetInit, FlagsTyped
  <2>2. 0 \in 0 .. Notes
    BY BudgetAssumption DEF BudgetAssumption
  <2>3. QED
    BY <2>1, <2>2, EmptyIsMetered DEF BudgetInit, BudgetShaped, HookPlaces
<1>2. ASSUME BudgetShaped, UNCHANGED budgetVars PROVE BudgetShaped'
  BY <1>2 DEF BudgetShaped, Metered, budgetVars
<1>3. ASSUME FlagsTyped, [BudgetNext]_budgetVars PROVE FlagsTyped'
  <2>1. CASE WriteNotes \/ StartCompaction
    BY Zenon, <1>3, <2>1 DEF FlagsTyped, WriteNotes, StartCompaction
  <2>2. ASSUME NEW h, ToolResult(h) PROVE FlagsTyped'
    BY Zenon, <1>3, <2>2 DEF FlagsTyped, ToolResult
  <2>3. ASSUME NEW p, Archive(p) \/ Unmark(p) \/ writeCriticalMarker(p) \/ HookDies(p) PROVE FlagsTyped'
    <3>1. (marker' = marker \/ marker' = TRUE \/ marker' = FALSE) /\ (disturbed' = disturbed \/ disturbed' = TRUE)
      BY Zenon, <2>3 DEF Archive, Unmark, writeCriticalMarker, HookDies
    <3>2. QED
      BY Zenon, <1>3, <3>1 DEF FlagsTyped
  <2>4. CASE UNCHANGED <<marker, disturbed>>
    BY Zenon, <1>3, <2>4 DEF FlagsTyped
  <2>5. QED
    BY Zenon, <1>3, <2>1, <2>2, <2>3, <2>4 DEF BudgetNext, budgetVars, HookStep, recordToolResult,
       measureSession, rememberReport, resetContextMeter, Remeasure
<1>4. BudgetShaped /\ FlagsTyped => BudgetTypeOK
  BY Zenon DEF BudgetShaped, Metered, HookPlaces, FlagsTyped, BudgetTypeOK
<1>5. QED
  BY <1>1, <1>2, <1>3, <1>4, BudgetStepShaped, PTL DEF BudgetSpec

-----------------------------------------------------------------------------
(***************************************************************************)
(* The memory: it keeps the last fact of each source.                      *)
(***************************************************************************)

Places == { "idle", "ended", "edit", "append", "merge", "claims", "compact", "rename",
            "promote", "unlink", "render", "renderWrite" }

\* A line that says a fact; a key is of the fact's source and kind.
FactLines ==
  {f \in [event : {"fact"}, by : Callers, source : Sources, tool : {"edit", "discovery-merge"},
          key : Sources \X {"content", "time", "claim"} \X Nat, ts : Nat] :
     f.key[1] = f.source /\ (f.key[2] = "claim" <=> f.tool = "discovery-merge")}
StaleLines == [event : {"stale"}, source : Sources, ts : Nat]
Lines == FactLines \cup StaleLines \cup {LockTimeout, PointerSummary}

CallStates == [at : Places, source : Sources \cup {NoCall.source}, read : SUBSET Lines]

MemoryTyped ==
  /\ ledger \in SUBSET Lines
  /\ archive \in SUBSET FactLines /\ repo \in SUBSET FactLines
  /\ memoryMd \in SUBSET FactLines /\ due \in SUBSET FactLines
  /\ locks \in [{"task", "repo"} -> Callers \cup {Unlocked}]
  /\ clock \in Nat
  /\ caller \in [Callers -> CallStates]
  /\ IsFiniteSet(ledger) /\ IsFiniteSet(repo)

\* Where the last fact of a source is to be found.
Safe(f) == f \in archive \cup repo \cup collectActiveFacts(ledger)

\* A time is one fact's; a stale line refers to one that is still there; of
\* the facts due, a key is one's.
TimesTell ==
  /\ \A f, g \in FactsIn(ledger) \cup archive \cup repo : f.ts = g.ts => f = g
  /\ Times(StalesIn(ledger)) \subseteq Times(FactsIn(ledger) \cup archive)
  /\ \A f, g \in due : f.key = g.key => f = g

\* What a call has read, and made sure of, when it is about to write.
OwnPart(c) ==
  LET at == caller[c].at
      read == caller[c].read
      s == caller[c].source
  IN  /\ at \in {"edit", "append"} => s \in Sources
      /\ at = "append" =>
           /\ locks["task"] = c
           /\ \A f \in collectActiveFacts(ledger) : f.source # s
           /\ \A g \in due : g.source # s => Safe(g)
      /\ at \in {"merge", "claims"} =>
           /\ read \subseteq DiscoveryFacts(FactLines) /\ IsFiniteSet(read)
           /\ \A f, g \in read : f.ts = g.ts \/ f.key = g.key => f = g
      /\ at = "claims" =>
           /\ locks["task"] = c
           /\ DiscoveryFacts(collectActiveFacts(ledger)) = {}
           /\ \A g \in due \ DiscoveryFacts(due) : Safe(g)
      /\ at = "rename" =>
           /\ locks["task"] = c
           /\ read \subseteq ledger \cup {PointerSummary}
           /\ FactsIn(ledger) \subseteq read \cup archive
           /\ \A e \in StalesIn(ledger) : e.ts \in Times(FactsIn(ledger)) => e \in read
      /\ at \in {"promote", "unlink"} => read = collectActiveFacts(ledger)
      /\ at = "unlink" => read \subseteq repo
      /\ at = "renderWrite" => read = DiscoveryFacts(repo)

\* Promotions are alone; the facts due are safe unless one is being written;
\* and what is promoted but not rendered has a call that will render it.
MemoryGood ==
  /\ MemoryTyped
  /\ TimesTell
  /\ \A c \in Callers : OwnPart(c)
  /\ \A c, d \in Callers : c # d /\ InCapture(c) => ~Busy(d)
  /\ (\A c \in Callers : caller[c].at \notin {"append", "claims"}) => \A f \in due : Safe(f)
  /\ collectActiveFacts(ledger) \subseteq due
  /\ \/ memoryMd = DiscoveryFacts(repo)
     \/ \E c \in Callers : caller[c].at \in {"unlink", "render", "renderWrite"}

MemoryInv == spoiled \/ MemoryGood

-----------------------------------------------------------------------------
(* Lines.                                                                  *)

LEMMA LineKinds ==
  ASSUME NEW L \in SUBSET Lines
  PROVE  /\ FactsIn(L) \in SUBSET FactLines /\ StalesIn(L) \in SUBSET StaleLines
         /\ FactsIn(L) \subseteq L /\ StalesIn(L) \subseteq L
         /\ collectActiveFacts(L) \subseteq FactsIn(L)
BY DEF Lines, FactLines, StaleLines, FactsIn, StalesIn, LockTimeout, PointerSummary,
       collectActiveFacts

LEMMA TimesGrow ==
  ASSUME NEW S, NEW T
  PROVE  /\ Times(S \cup T) = Times(S) \cup Times(T)
         /\ S \subseteq T => Times(S) \subseteq Times(T)
BY DEF Times

\* Facts that no stale line speaks of are active when they are added.
LEMMA AddFacts ==
  ASSUME NEW L \in SUBSET Lines, NEW X \in SUBSET FactLines,
         Times(X) \cap Times(StalesIn(L)) = {}
  PROVE  /\ FactsIn(L \cup X) = FactsIn(L) \cup X
         /\ StalesIn(L \cup X) = StalesIn(L)
         /\ collectActiveFacts(L \cup X) = collectActiveFacts(L) \cup X
<1>1. \A f \in X : f.event = "fact"
  BY DEF FactLines
<1>2. FactsIn(L \cup X) = FactsIn(L) \cup X /\ StalesIn(L \cup X) = StalesIn(L)
  BY <1>1 DEF FactsIn, StalesIn
<1>3. \A f \in X : f.ts \notin Times(StalesIn(L))
  BY DEF Times
<1>4. QED
  BY <1>2, <1>3 DEF collectActiveFacts

\* Stale lines end the facts of their times.
LEMMA AddStales ==
  ASSUME NEW L \in SUBSET Lines, NEW X \in SUBSET StaleLines
  PROVE  /\ FactsIn(L \cup X) = FactsIn(L)
         /\ StalesIn(L \cup X) = StalesIn(L) \cup X
         /\ collectActiveFacts(L \cup X) = {f \in collectActiveFacts(L) : f.ts \notin Times(X)}
<1>1. \A e \in X : e.event = "stale"
  BY DEF StaleLines
<1>2. FactsIn(L \cup X) = FactsIn(L) /\ StalesIn(L \cup X) = StalesIn(L) \cup X
  BY <1>1 DEF FactsIn, StalesIn
<1>3. Times(StalesIn(L) \cup X) = Times(StalesIn(L)) \cup Times(X)
  BY DEF Times
<1>4. QED
  BY <1>2, <1>3 DEF collectActiveFacts

LEMMA FiniteStales ==
  ASSUME NEW S, IsFiniteSet(S)
  PROVE  IsFiniteSet({Stale(f.source, f.ts) : f \in S})
<1> DEFINE T == {Stale(f.source, f.ts) : f \in S}
           F == [f \in S |-> Stale(f.source, f.ts)]
<1>1. F \in Surjection(S, T)
  BY DEF Surjection
<1> HIDE DEF F, T
<1>2. IsFiniteSet(T)
  BY <1>1, FS_Surjection
<1>3. QED
  BY <1>2 DEF T

\* Facts that share no time are as many as their times.
LEMMA CountedByTimes ==
  ASSUME NEW S, IsFiniteSet(S), \A f, g \in S : f.ts = g.ts => f = g
  PROVE  Cardinality(Times(S)) = Cardinality(S)
<1> DEFINE F == [f \in S |-> f.ts]
<1>1. F \in Bijection(S, Times(S))
  BY DEF Bijection, Injection, IsInjective, Surjection, Times
<1> HIDE DEF F
<1>2. ExistsBijection(S, Times(S))
  BY <1>1 DEF ExistsBijection
<1>3. QED
  BY <1>2, FS_Bijection

-----------------------------------------------------------------------------
(* Calls.                                                                  *)

LEMMA CallReplaced ==
  ASSUME MemoryTyped, NEW c \in Callers, NEW new \in CallStates,
         caller' = [caller EXCEPT ![c] = new]
  PROVE  /\ caller' \in [Callers -> CallStates] /\ caller'[c] = new
         /\ \A d \in Callers \ {c} : caller'[d] = caller[d]
BY DEF MemoryTyped

LEMMA CallMoved ==
  ASSUME MemoryTyped, NEW c \in Callers, NEW at \in Places,
         caller' = [caller EXCEPT ![c].at = at]
  PROVE  /\ caller' \in [Callers -> CallStates]
         /\ caller'[c].at = at /\ caller'[c].source = caller[c].source
         /\ caller'[c].read = caller[c].read
         /\ \A d \in Callers \ {c} : caller'[d] = caller[d]
<1>1. caller[c] \in CallStates
  BY DEF MemoryTyped
<1> DEFINE new == [caller[c] EXCEPT !.at = at]
<1>2. new \in CallStates /\ new.at = at /\ new.source = caller[c].source /\ new.read = caller[c].read
  BY <1>1 DEF CallStates
<1>3. caller' = [caller EXCEPT ![c] = new]
  OBVIOUS
<1> HIDE DEF new
<1>4. QED
  BY <1>2, <1>3, CallReplaced

LEMMA CallReads ==
  ASSUME MemoryTyped, NEW c \in Callers, NEW at \in Places, NEW read \in SUBSET Lines,
         Reads(c, at, read)
  PROVE  /\ caller' \in [Callers -> CallStates]
         /\ caller'[c].at = at /\ caller'[c].source = caller[c].source
         /\ caller'[c].read = read
         /\ \A d \in Callers \ {c} : caller'[d] = caller[d]
<1>1. caller \in [Callers -> CallStates] /\ caller[c] \in CallStates
  BY DEF MemoryTyped
<1> DEFINE new == [caller[c] EXCEPT !.at = at, !.read = read]
<1>2. new \in CallStates /\ new.at = at /\ new.source = caller[c].source /\ new.read = read
  BY <1>1 DEF CallStates
<1>3. caller' = [caller EXCEPT ![c] = new]
  BY <1>1 DEF CallStates, Reads
<1> HIDE DEF new
<1>4. QED
  BY <1>2, <1>3, CallReplaced

LEMMA CallEnded ==
  ASSUME MemoryTyped, NEW c \in Callers, Ends(c)
  PROVE  /\ caller' \in [Callers -> CallStates] /\ caller'[c].at = "ended"
         /\ \A d \in Callers \ {c} : caller'[d] = caller[d]
<1> DEFINE new == [NoCall EXCEPT !.at = "ended"]
<1>1. new \in CallStates /\ new.at = "ended"
  BY DEF NoCall, CallStates, Places
<1>2. caller' = [caller EXCEPT ![c] = new]
  BY DEF Ends
<1> HIDE DEF new
<1>3. QED
  BY <1>1, <1>2, CallReplaced

\* A call's part is its own when it has read nothing that may change.
LEMMA PartOfWaiting ==
  ASSUME NEW d \in Callers, OwnPart(d), caller'[d] = caller[d],
         caller[d].at \in {"idle", "ended", "edit", "merge", "compact"}
  PROVE  OwnPart(d)'
BY DEF OwnPart

\* While a call works on the ledger under its lock, or promotes, the others have
\* read nothing that may change, and none comes to promote.
LEMMA OthersWait ==
  ASSUME MemoryGood, NEW c \in Callers, Busy(c),
         InCapture(c) \/ locks["task"] \in {c, Unlocked},
         \A d \in Callers \ {c} : caller'[d] = caller[d],
         InCapture(c)' => InCapture(c)
  PROVE  /\ \A d \in Callers \ {c} : OwnPart(d)' /\ caller'[d].at \notin {"append", "claims"}
         /\ \A d \in Callers \ {c} : caller[d].at \notin {"append", "claims"}
         /\ \A x, y \in Callers : x # y /\ InCapture(x)' => ~Busy(y)'
<1>1. ASSUME NEW d \in Callers \ {c}
      PROVE  caller[d].at \in {"idle", "ended", "edit", "merge", "compact"}
  <2>1. caller[d].at \in Places
    BY DEF MemoryGood, MemoryTyped, CallStates
  <2>2. caller[d].at \notin Capturing
    BY DEF MemoryGood, InCapture
  <2>3. caller[d].at \notin {"append", "claims", "rename"}
    <3>1. InCapture(c) => ~Busy(d)
      BY DEF MemoryGood
    <3>2. CASE InCapture(c)
      BY <3>1, <3>2 DEF Busy
    <3>3. CASE locks["task"] \in {c, Unlocked}
      <4>1. locks["task"] # d
        BY <3>3, MemoryAssumption
      <4>2. OwnPart(d)
        BY DEF MemoryGood
      <4>3. QED
        BY <4>1, <4>2 DEF OwnPart
    <3>4. QED
      BY <3>2, <3>3
  <2>4. QED
    BY <2>1, <2>2, <2>3 DEF Places, Capturing
<1>2. \A d \in Callers \ {c} : OwnPart(d)'
  BY <1>1, PartOfWaiting DEF MemoryGood
<1>3. \A x, y \in Callers : x # y /\ InCapture(x)' => ~Busy(y)'
  <2> SUFFICES ASSUME NEW x \in Callers, NEW y \in Callers, x # y, InCapture(x)'
               PROVE  ~Busy(y)'
    OBVIOUS
  <2>1. x = c
    BY <1>1 DEF InCapture, Capturing
  <2>2. InCapture(c) /\ caller'[y] = caller[y]
    BY <2>1
  <2>3. QED
    BY <2>1, <2>2 DEF MemoryGood, Busy
<1>4. QED
  BY <1>1, <1>2, <1>3

\* A call starts.
LEMMA Starting ==
  ASSUME MemoryGood, NEW c \in Callers, NEW new \in CallStates, caller[c].at = "idle",
         caller' = [caller EXCEPT ![c] = new],
         UNCHANGED <<ledger, archive, repo, memoryMd, locks, clock, due>>,
         \A d \in Callers \ {c} : ~InCapture(d),
         new.at \in Capturing => \A d \in Callers \ {c} : ~Busy(d),
         new.at \notin {"append", "claims"},
         OwnPart(c)'
  PROVE  MemoryGood'
<1>1. /\ caller' \in [Callers -> CallStates] /\ caller'[c] = new
      /\ \A d \in Callers \ {c} : caller'[d] = caller[d]
  BY CallReplaced DEF MemoryGood
<1>2. MemoryTyped' /\ TimesTell' /\ collectActiveFacts(ledger') \subseteq due'
  BY <1>1 DEF MemoryGood, MemoryTyped, TimesTell
<1>3. \A d \in Callers : OwnPart(d)'
  BY <1>1 DEF MemoryGood, OwnPart, Safe
<1>4. \A x, y \in Callers : x # y /\ InCapture(x)' => ~Busy(y)'
  BY <1>1 DEF InCapture, Busy
<1>5. (\A d \in Callers : caller'[d].at \notin {"append", "claims"}) => \A f \in due' : Safe(f)'
  <2> SUFFICES ASSUME \A d \in Callers : caller'[d].at \notin {"append", "claims"},
                      NEW f \in due
               PROVE  Safe(f)'
    OBVIOUS
  <2>1. \A d \in Callers : caller[d].at \notin {"append", "claims"}
    BY <1>1
  <2>2. Safe(f)
    BY <2>1 DEF MemoryGood
  <2>3. QED
    BY <2>2 DEF Safe
<1>6. \/ memoryMd' = DiscoveryFacts(repo')
      \/ \E d \in Callers : caller'[d].at \in {"unlink", "render", "renderWrite"}
  BY <1>1 DEF MemoryGood
<1>7. QED
  BY <1>2, <1>3, <1>4, <1>5, <1>6 DEF MemoryGood

\* A call goes on: what is left to show of a step that waits for no other.
LEMMA GoingOn ==
  ASSUME MemoryGood, NEW c \in Callers, Busy(c),
         InCapture(c) \/ locks["task"] \in {c, Unlocked},
         \A d \in Callers \ {c} : caller'[d] = caller[d],
         InCapture(c)' => InCapture(c),
         MemoryTyped', TimesTell', OwnPart(c)',
         caller'[c].at \notin {"append", "claims"} => \A f \in due' : Safe(f)',
         collectActiveFacts(ledger') \subseteq due',
         \/ memoryMd' = memoryMd /\ repo' = repo /\ ~InCapture(c)
         \/ memoryMd' = DiscoveryFacts(repo')
         \/ caller'[c].at \in {"unlink", "render", "renderWrite"}
  PROVE  MemoryGood'
<1>1. /\ \A d \in Callers \ {c} : OwnPart(d)'
      /\ \A x, y \in Callers : x # y /\ InCapture(x)' => ~Busy(y)'
  BY OthersWait
<1>2. \A d \in Callers : OwnPart(d)'
  BY <1>1
<1>3. \/ memoryMd' = DiscoveryFacts(repo')
      \/ \E d \in Callers : caller'[d].at \in {"unlink", "render", "renderWrite"}
  <2>1. CASE memoryMd' = memoryMd /\ repo' = repo /\ ~InCapture(c)
    <3>1. \A d \in Callers : caller[d].at \in {"unlink", "render", "renderWrite"} => caller'[d] = caller[d]
      BY <2>1 DEF InCapture, Capturing
    <3>2. QED
      BY <2>1, <3>1 DEF MemoryGood
  <2>2. QED
    BY <2>1
<1>4. QED
  BY <1>1, <1>2, <1>3 DEF MemoryGood

-----------------------------------------------------------------------------
(* The steps of a call.                                                    *)

\* Nothing is being written by another call while the lock is there to take.
LEMMA NobodyWrites ==
  ASSUME MemoryGood, locks["task"] = Unlocked
  PROVE  /\ \A d \in Callers : caller[d].at \notin {"append", "claims", "rename"}
         /\ \A f \in due : Safe(f)
<1>1. \A d \in Callers : caller[d].at \notin {"append", "claims", "rename"}
  BY MemoryAssumption DEF MemoryGood, OwnPart
<1>2. QED
  BY <1>1 DEF MemoryGood

LEMMA markStaleGood ==
  ASSUME MemoryGood, NEW c \in Callers, markStale(c)
  PROVE  MemoryGood'
<1> DEFINE s == caller[c].source
           X == {Stale(s, t) : t \in scanActiveFactTimestamps(s)}
<1>1. /\ caller[c].at = "edit" /\ locks["task"] = Unlocked /\ locks' = [locks EXCEPT !["task"] = c]
      /\ ledger' = ledger \cup X /\ caller' = [caller EXCEPT ![c].at = "append"]
      /\ UNCHANGED <<archive, repo, memoryMd, clock, due>>
  BY DEF markStale, Acquires, Moves
<1>2. MemoryTyped /\ TimesTell /\ s \in Sources
  BY <1>1 DEF MemoryGood, OwnPart
<1>3. /\ caller' \in [Callers -> CallStates] /\ caller'[c].at = "append" /\ caller'[c].source = s
      /\ \A d \in Callers \ {c} : caller'[d] = caller[d]
  BY <1>1, <1>2, CallMoved DEF Places
<1>4. FactsIn(ledger) \in SUBSET FactLines /\ FactsIn(ledger) \subseteq ledger
      /\ StalesIn(ledger) \in SUBSET StaleLines
      /\ collectActiveFacts(ledger) \subseteq FactsIn(ledger) /\ ledger \in SUBSET Lines
  BY <1>2, LineKinds DEF MemoryTyped
<1>5. \A t \in scanActiveFactTimestamps(s) : \E f \in FactsIn(ledger) : f.source = s /\ f.ts = t
  BY DEF scanActiveFactTimestamps, Times
<1>6. X \in SUBSET StaleLines /\ Times(X) = scanActiveFactTimestamps(s)
  <2>1. \A t \in scanActiveFactTimestamps(s) : t \in Nat
    BY <1>4, <1>5 DEF FactLines
  <2>2. X \in SUBSET StaleLines
    BY <1>2, <2>1 DEF Stale, StaleLines
  <2>3. \A t : Stale(s, t).ts = t
    BY DEF Stale
  <2>4. \A e \in X : e.ts \in scanActiveFactTimestamps(s)
    BY <2>3
  <2>5. \A t \in scanActiveFactTimestamps(s) : t \in Times(X)
    BY <2>3 DEF Times
  <2>6. QED
    BY <2>2, <2>4, <2>5 DEF Times
<1>7. IsFiniteSet(X)
  <2>1. X \subseteq {Stale(f.source, f.ts) : f \in FactsIn(ledger)}
    BY <1>5
  <2>2. IsFiniteSet(FactsIn(ledger))
    BY <1>2, <1>4, FS_Subset DEF MemoryTyped
  <2>3. IsFiniteSet({Stale(f.source, f.ts) : f \in FactsIn(ledger)})
    BY <2>2, FiniteStales
  <2> HIDE DEF X
  <2>4. QED
    BY <2>1, <2>3, FS_Subset
<1> HIDE DEF X
<1>8. /\ FactsIn(ledger') = FactsIn(ledger) /\ StalesIn(ledger') = StalesIn(ledger) \cup X
      /\ collectActiveFacts(ledger') = {f \in collectActiveFacts(ledger) : f.ts \notin Times(X)}
  BY <1>1, <1>4, <1>6, AddStales
<1>9. MemoryTyped'
  <2>1. IsFiniteSet(ledger')
    BY <1>1, <1>2, <1>7, FS_Union DEF MemoryTyped
  <2>2. ledger' \in SUBSET Lines
    BY <1>1, <1>4, <1>6 DEF Lines
  <2>3. QED
    BY <1>1, <1>2, <1>3, <2>1, <2>2 DEF MemoryTyped
<1>10. TimesTell'
  <2>1. Times(StalesIn(ledger')) \subseteq Times(FactsIn(ledger) \cup archive)
    BY <1>2, <1>5, <1>6, <1>8 DEF TimesTell, Times
  <2>2. QED
    BY <1>1, <1>2, <1>8, <2>1 DEF TimesTell
<1>11. \A f \in collectActiveFacts(ledger') : f.source # s
  <2> SUFFICES ASSUME NEW f \in collectActiveFacts(ledger'), f.source = s
               PROVE  FALSE
    OBVIOUS
  <2>1. f \in collectActiveFacts(ledger) /\ f.ts \notin scanActiveFactTimestamps(s)
    BY <1>6, <1>8
  <2>2. f \in FactsIn(ledger) /\ f.ts \notin Times(StalesIn(ledger))
    BY <2>1 DEF collectActiveFacts
  <2>3. QED
    BY <2>1, <2>2 DEF scanActiveFactTimestamps, Times
<1>12. \A g \in due : g.source # s => Safe(g)'
  <2> SUFFICES ASSUME NEW g \in due, g.source # s
               PROVE  Safe(g)'
    OBVIOUS
  <2>1. Safe(g)
    BY <1>1, NobodyWrites
  <2>2. ASSUME g \in collectActiveFacts(ledger), g.ts \in Times(X)
        PROVE  FALSE
    <3>1. PICK f \in FactsIn(ledger) : f.source = s /\ f.ts = g.ts
      BY <1>5, <1>6, <2>2
    <3>2. f = g
      BY <1>2, <1>4, <2>2, <3>1 DEF TimesTell
    <3>3. QED
      BY <3>1, <3>2
  <2>3. QED
    BY <1>1, <1>8, <2>1, <2>2 DEF Safe
<1>13. OwnPart(c)'
  <2>1. locks'["task"] = c
    BY <1>1, <1>2 DEF MemoryTyped
  <2>2. QED
    BY <1>1, <1>2, <1>3, <1>11, <1>12, <2>1 DEF OwnPart
<1>14. collectActiveFacts(ledger') \subseteq due'
  BY <1>1, <1>8 DEF MemoryGood
<1>15. ~InCapture(c) /\ ~InCapture(c)' /\ Busy(c)
  BY <1>1, <1>3 DEF InCapture, Capturing, Busy
<1>16. QED
  BY <1>1, <1>3, <1>9, <1>10, <1>13, <1>14, <1>15, GoingOn

LEMMA writeFactGood ==
  ASSUME MemoryGood, NEW c \in Callers, NEW hasContent \in BOOLEAN, writeFact(c, hasContent),
         ~spoiled'
  PROVE  MemoryGood'
<1> DEFINE s == caller[c].source
           f == Fact(c, s, "edit", <<s, IF hasContent THEN "content" ELSE "time",
                                   IF hasContent THEN 0 ELSE clock>>, clock)
<1>1. /\ caller[c].at = "append" /\ ledger' = ledger \cup {f}
      /\ due' = {g \in due : g.source # s} \cup {f} /\ ~Clash({f})
      /\ locks' = [locks EXCEPT !["task"] = Unlocked] /\ Ends(c)
      /\ UNCHANGED <<archive, repo, memoryMd, clock>>
  BY DEF writeFact, Releases
<1>2. MemoryTyped /\ TimesTell /\ s \in Sources /\ clock \in Nat /\ locks["task"] = c
      /\ (\A g \in collectActiveFacts(ledger) : g.source # s)
      /\ (\A g \in due : g.source # s => Safe(g))
  BY <1>1 DEF MemoryGood, MemoryTyped, OwnPart
<1>3. /\ caller' \in [Callers -> CallStates] /\ caller'[c].at = "ended"
      /\ \A d \in Callers \ {c} : caller'[d] = caller[d]
  BY <1>1, <1>2, CallEnded
<1>4. FactsIn(ledger) \in SUBSET FactLines /\ ledger \in SUBSET Lines
      /\ StalesIn(ledger) \in SUBSET StaleLines
      /\ collectActiveFacts(ledger) \subseteq FactsIn(ledger)
  BY <1>2, LineKinds DEF MemoryTyped
<1>5. f \in FactLines /\ f.ts = clock /\ f.source = s /\ f.key[1] = s
  BY <1>2 DEF Fact, FactLines
<1> HIDE DEF f
<1>6. \A g \in FactsIn(ledger) \cup archive \cup repo : g.ts # f.ts
  BY <1>1 DEF Clash, Times
<1>7. Times({f}) \cap Times(StalesIn(ledger)) = {}
  <2>1. f.ts \notin Times(StalesIn(ledger))
    BY <1>2, <1>6 DEF TimesTell, Times
  <2>2. QED
    BY <2>1 DEF Times
<1>8. /\ FactsIn(ledger') = FactsIn(ledger) \cup {f} /\ StalesIn(ledger') = StalesIn(ledger)
      /\ collectActiveFacts(ledger') = collectActiveFacts(ledger) \cup {f}
  BY <1>1, <1>4, <1>5, <1>7, AddFacts
<1>9. MemoryTyped'
  <2>1. IsFiniteSet(ledger')
    BY <1>1, <1>2, FS_AddElement DEF MemoryTyped
  <2>2. ledger' \in SUBSET Lines
    BY <1>1, <1>4, <1>5 DEF Lines
  <2>3. QED
    BY <1>1, <1>2, <1>3, <1>5, <2>1, <2>2 DEF MemoryTyped
<1>10. TimesTell'
  <2>1. \A g, h \in FactsIn(ledger') \cup archive' \cup repo' : g.ts = h.ts => g = h
    BY <1>1, <1>2, <1>6, <1>8 DEF TimesTell
  <2>2. Times(StalesIn(ledger')) \subseteq Times(FactsIn(ledger') \cup archive')
    <3>1. FactsIn(ledger) \cup archive \subseteq FactsIn(ledger') \cup archive'
      BY <1>1, <1>8
    <3>2. QED
      BY <1>2, <1>8, <3>1, TimesGrow DEF TimesTell
  <2>3. \A g \in due : g.key[1] = g.source
    BY <1>2 DEF MemoryTyped, FactLines
  <2>4. \A g, h \in due' : g.key = h.key => g = h
    BY <1>1, <1>2, <1>5, <2>3 DEF TimesTell
  <2>5. QED
    BY <2>1, <2>2, <2>4 DEF TimesTell
<1>11. \A g \in due' : Safe(g)'
  BY <1>1, <1>2, <1>8 DEF Safe
<1>12. collectActiveFacts(ledger') \subseteq due'
  BY <1>1, <1>2, <1>8 DEF MemoryGood
<1>13. OwnPart(c)'
  BY <1>3 DEF OwnPart
<1>14. ~InCapture(c) /\ ~InCapture(c)' /\ Busy(c)
  BY <1>1, <1>3 DEF InCapture, Capturing, Busy
<1>15. QED
  BY <1>1, <1>2, <1>3, <1>9, <1>10, <1>11, <1>12, <1>13, <1>14, GoingOn

LEMMA StalePriorGood ==
  ASSUME MemoryGood, NEW c \in Callers, StalePrior(c)
  PROVE  MemoryGood'
<1> DEFINE prior == DiscoveryFacts(collectActiveFacts(ledger))
           X == {Stale(f.source, f.ts) : f \in prior}
<1>1. /\ caller[c].at = "merge" /\ locks["task"] = Unlocked /\ locks' = [locks EXCEPT !["task"] = c]
      /\ ledger' = ledger \cup X /\ caller' = [caller EXCEPT ![c].at = "claims"]
      /\ UNCHANGED <<archive, repo, memoryMd, clock, due>>
  BY DEF StalePrior, Acquires, Moves
<1>2. MemoryTyped /\ TimesTell
  BY DEF MemoryGood
<1>3. /\ caller' \in [Callers -> CallStates] /\ caller'[c].at = "claims"
      /\ caller'[c].read = caller[c].read
      /\ \A d \in Callers \ {c} : caller'[d] = caller[d]
  BY <1>1, <1>2, CallMoved DEF Places
<1>4. FactsIn(ledger) \in SUBSET FactLines /\ FactsIn(ledger) \subseteq ledger
      /\ StalesIn(ledger) \in SUBSET StaleLines
      /\ collectActiveFacts(ledger) \subseteq FactsIn(ledger) /\ ledger \in SUBSET Lines
  BY <1>2, LineKinds DEF MemoryTyped
<1>5. prior \subseteq FactsIn(ledger) /\ (\A f \in prior : f.tool = "discovery-merge")
  BY <1>4 DEF DiscoveryFacts
<1>6. X \in SUBSET StaleLines /\ Times(X) = Times(prior)
  <2>1. \A f \in prior : f.source \in Sources /\ f.ts \in Nat
    BY <1>4, <1>5 DEF FactLines
  <2>2. X \in SUBSET StaleLines
    BY <2>1 DEF Stale, StaleLines
  <2>3. \A f : Stale(f.source, f.ts).ts = f.ts
    BY DEF Stale
  <2>4. \A e \in X : e.ts \in Times(prior)
    BY <2>3 DEF Times
  <2>5. \A t \in Times(prior) : t \in Times(X)
    BY <2>3 DEF Times
  <2>6. QED
    BY <2>2, <2>4, <2>5 DEF Times
<1>7. IsFiniteSet(X)
  <2>1. IsFiniteSet(FactsIn(ledger))
    BY <1>2, <1>4, FS_Subset DEF MemoryTyped
  <2>2. IsFiniteSet(prior)
    BY <1>5, <2>1, FS_Subset
  <2>3. QED
    BY <2>2, FiniteStales
<1>8. /\ FactsIn(ledger') = FactsIn(ledger) /\ StalesIn(ledger') = StalesIn(ledger) \cup X
      /\ collectActiveFacts(ledger') = {f \in collectActiveFacts(ledger) : f.ts \notin Times(X)}
  <2> HIDE DEF X
  <2>1. QED
    BY <1>1, <1>4, <1>6, AddStales
<1> HIDE DEF X
<1>9. MemoryTyped'
  <2>1. IsFiniteSet(ledger')
    BY <1>1, <1>2, <1>7, FS_Union DEF MemoryTyped
  <2>2. ledger' \in SUBSET Lines
    BY <1>1, <1>4, <1>6 DEF Lines
  <2>3. QED
    BY <1>1, <1>2, <1>3, <2>1, <2>2 DEF MemoryTyped
<1>10. TimesTell'
  <2>1. Times(StalesIn(ledger')) \subseteq Times(FactsIn(ledger) \cup archive)
    <3>1. Times(X) \subseteq Times(FactsIn(ledger) \cup archive)
      <4> HIDE DEF prior
      <4>1. prior \subseteq FactsIn(ledger) \cup archive
        BY <1>5
      <4>2. QED
        BY <1>6, <4>1, TimesGrow
    <3>2. Times(StalesIn(ledger) \cup X) = Times(StalesIn(ledger)) \cup Times(X)
      BY TimesGrow
    <3>3. Times(StalesIn(ledger)) \subseteq Times(FactsIn(ledger) \cup archive)
      BY <1>2 DEF TimesTell
    <3>4. QED
      BY <1>8, <3>1, <3>2, <3>3
  <2>2. QED
    BY <1>1, <1>2, <1>8, <2>1 DEF TimesTell
<1>11. DiscoveryFacts(collectActiveFacts(ledger')) = {}
  <2>1. \A f \in prior : f.ts \in Times(X)
    BY <1>6 DEF Times
  <2>2. \A f \in collectActiveFacts(ledger') : f.tool # "discovery-merge"
    BY <1>8, <2>1 DEF DiscoveryFacts
  <2>3. QED
    BY <2>2 DEF DiscoveryFacts
<1>12. \A g \in due \ DiscoveryFacts(due) : Safe(g)'
  <2> SUFFICES ASSUME NEW g \in due, g.tool # "discovery-merge"
               PROVE  Safe(g)'
    BY DEF DiscoveryFacts
  <2>1. Safe(g)
    BY <1>1, NobodyWrites
  <2>2. ASSUME g \in collectActiveFacts(ledger), g.ts \in Times(X)
        PROVE  FALSE
    <3>1. PICK f \in prior : f.ts = g.ts
      BY <1>6, <2>2 DEF Times
    <3>2. f = g
      BY <1>2, <1>4, <1>5, <2>2, <3>1 DEF TimesTell
    <3>3. QED
      BY <1>5, <3>1, <3>2
  <2>3. QED
    BY <1>1, <1>8, <2>1, <2>2 DEF Safe
<1>13. OwnPart(c)'
  <2>1. locks'["task"] = c
    BY <1>1, <1>2 DEF MemoryTyped
  <2>2. OwnPart(c)
    BY DEF MemoryGood
  <2>3. QED
    BY <1>1, <1>2, <1>3, <1>11, <1>12, <2>1, <2>2 DEF OwnPart
<1>14. collectActiveFacts(ledger') \subseteq due'
  BY <1>1, <1>8 DEF MemoryGood
<1>15. ~InCapture(c) /\ ~InCapture(c)' /\ Busy(c)
  BY <1>1, <1>3 DEF InCapture, Capturing, Busy
<1>16. QED
  BY <1>1, <1>3, <1>9, <1>10, <1>13, <1>14, <1>15, GoingOn

LEMMA writeDiscoveryFactsGood ==
  ASSUME MemoryGood, NEW c \in Callers, writeDiscoveryFacts(c), ~spoiled'
  PROVE  MemoryGood'
<1> DEFINE X == caller[c].read
<1>1. /\ caller[c].at = "claims" /\ ledger' = ledger \cup X
      /\ due' = (due \ DiscoveryFacts(due)) \cup X /\ ~Clash(X)
      /\ locks' = [locks EXCEPT !["task"] = Unlocked] /\ Ends(c)
      /\ UNCHANGED <<archive, repo, memoryMd, clock>>
  BY DEF writeDiscoveryFacts, Releases
<1>2. /\ MemoryTyped /\ TimesTell /\ locks["task"] = c
      /\ X \subseteq DiscoveryFacts(FactLines) /\ IsFiniteSet(X)
      /\ \A g, h \in X : g.ts = h.ts \/ g.key = h.key => g = h
      /\ DiscoveryFacts(collectActiveFacts(ledger)) = {}
      /\ \A g \in due \ DiscoveryFacts(due) : Safe(g)
  BY <1>1 DEF MemoryGood, OwnPart
<1>3. /\ caller' \in [Callers -> CallStates] /\ caller'[c].at = "ended"
      /\ \A d \in Callers \ {c} : caller'[d] = caller[d]
  BY <1>1, <1>2, CallEnded
<1>4. FactsIn(ledger) \in SUBSET FactLines /\ ledger \in SUBSET Lines
      /\ StalesIn(ledger) \in SUBSET StaleLines
      /\ collectActiveFacts(ledger) \subseteq FactsIn(ledger)
  BY <1>2, LineKinds DEF MemoryTyped
<1>5. X \in SUBSET FactLines /\ \A g \in X : g.tool = "discovery-merge" /\ g.key[2] = "claim"
  BY <1>2 DEF DiscoveryFacts, FactLines
<1> HIDE DEF X
<1>6. \A g \in FactsIn(ledger) \cup archive \cup repo : \A f \in X : g.ts # f.ts
  BY <1>1 DEF Clash, Times
<1>7. Times(X) \cap Times(StalesIn(ledger)) = {}
  <2>1. \A f \in X : f.ts \notin Times(StalesIn(ledger))
    BY <1>2, <1>6 DEF TimesTell, Times
  <2>2. QED
    BY <2>1 DEF Times
<1>8. /\ FactsIn(ledger') = FactsIn(ledger) \cup X /\ StalesIn(ledger') = StalesIn(ledger)
      /\ collectActiveFacts(ledger') = collectActiveFacts(ledger) \cup X
  BY <1>1, <1>4, <1>5, <1>7, AddFacts
<1>9. MemoryTyped'
  <2>1. IsFiniteSet(ledger')
    BY <1>1, <1>2, FS_Union DEF MemoryTyped
  <2>2. ledger' \in SUBSET Lines
    BY <1>1, <1>4, <1>5 DEF Lines
  <2>3. QED
    BY <1>1, <1>2, <1>3, <1>5, <2>1, <2>2 DEF MemoryTyped
<1>10. TimesTell'
  <2>1. \A g, h \in FactsIn(ledger') \cup archive' \cup repo' : g.ts = h.ts => g = h
    BY <1>1, <1>2, <1>6, <1>8 DEF TimesTell
  <2>2. Times(StalesIn(ledger')) \subseteq Times(FactsIn(ledger') \cup archive')
    <3>1. FactsIn(ledger) \cup archive \subseteq FactsIn(ledger') \cup archive'
      BY <1>1, <1>8
    <3>2. QED
      BY <1>2, <1>8, <3>1, TimesGrow DEF TimesTell
  <2>3. \A g \in due \ DiscoveryFacts(due) : g.key[2] # "claim"
    BY <1>2 DEF MemoryTyped, FactLines, DiscoveryFacts
  <2>4. \A g, h \in due' : g.key = h.key => g = h
    BY <1>1, <1>2, <1>5, <2>3 DEF TimesTell
  <2>5. QED
    BY <2>1, <2>2, <2>4 DEF TimesTell
<1>11. \A g \in due' : Safe(g)'
  BY <1>1, <1>2, <1>8 DEF Safe
<1>12. collectActiveFacts(ledger') \subseteq due'
  BY <1>1, <1>2, <1>8 DEF MemoryGood, DiscoveryFacts
<1>13. OwnPart(c)'
  BY <1>3 DEF OwnPart
<1>14. ~InCapture(c) /\ ~InCapture(c)' /\ Busy(c)
  BY <1>1, <1>3 DEF InCapture, Capturing, Busy
<1>15. QED
  BY <1>1, <1>2, <1>3, <1>9, <1>10, <1>11, <1>12, <1>13, <1>14, GoingOn

LEMMA StartEditGood ==
  ASSUME MemoryGood, NEW c \in Callers, NEW s \in Sources, StartEdit(c, s), ~spoiled'
  PROVE  MemoryGood'
<1> DEFINE new == [at |-> "edit", source |-> s, read |-> {}]
<1>1. /\ caller[c].at = "idle" /\ caller' = [caller EXCEPT ![c] = new]
      /\ \A d \in Callers \ {c} : ~InCapture(d)
      /\ UNCHANGED <<ledger, archive, repo, memoryMd, locks, clock, due>>
  BY DEF StartEdit, Starts
<1>2. new \in CallStates /\ new.at = "edit" /\ new.source = s
  BY DEF CallStates, Places
<1> HIDE DEF new
<1>3. caller'[c] = new
  BY <1>1, <1>2, CallReplaced DEF MemoryGood
<1>4. OwnPart(c)'
  BY <1>2, <1>3 DEF OwnPart
<1>5. new.at \notin Capturing
  BY <1>2 DEF Capturing
<1>6. QED
  BY <1>1, <1>2, <1>4, <1>5, Starting

\* The facts of a merge: as many times and keys as claims.
LEMMA ClaimFacts ==
  ASSUME NEW c \in Callers, NEW claims \in Claims, NEW t \in Nat
  PROVE  LET read == {Fact(c, claims[i], "discovery-merge", <<claims[i], "claim", 0>>, t + i - 1) :
                        i \in DOMAIN claims}
         IN  /\ read \subseteq DiscoveryFacts(FactLines) /\ IsFiniteSet(read)
             /\ \A f, g \in read : f.ts = g.ts \/ f.key = g.key => f = g
<1> DEFINE F(i) == Fact(c, claims[i], "discovery-merge", <<claims[i], "claim", 0>>, t + i - 1)
           read == {F(i) : i \in DOMAIN claims}
<1>1. /\ DOMAIN claims \subseteq 1 .. 2 /\ \A i \in DOMAIN claims : claims[i] \in Sources
      /\ \A i, j \in DOMAIN claims : claims[i] = claims[j] => i = j
  <2>1. CASE claims = <<>>
    BY <2>1
  <2>2. CASE \E s \in Sources : claims = <<s>>
    BY <2>2
  <2>3. CASE \E p \in Sources \X Sources : claims = p /\ p[1] # p[2]
    BY <2>3
  <2>4. QED
    BY <2>1, <2>2, <2>3 DEF Claims
<1>2. \A i \in DOMAIN claims : i \in 1 .. 2 /\ t + i - 1 \in Nat
  BY <1>1
<1>3. ASSUME NEW i \in DOMAIN claims
      PROVE  /\ F(i) \in DiscoveryFacts(FactLines)
             /\ F(i).ts = t + i - 1 /\ F(i).key[1] = claims[i]
  <2>1. <<claims[i], "claim", 0>> \in Sources \X {"content", "time", "claim"} \X Nat
    BY <1>1
  <2>2. F(i) \in FactLines /\ F(i).tool = "discovery-merge"
    BY <1>1, <1>2, <2>1 DEF Fact, FactLines
  <2>3. F(i).ts = t + i - 1 /\ F(i).key[1] = claims[i]
    BY DEF Fact
  <2> HIDE DEF F
  <2>4. QED
    BY <2>2, <2>3 DEF DiscoveryFacts
<1>4. IsFiniteSet(read)
  <2>1. IsFiniteSet(1 .. 2)
    <3>1. IsFiniteSet(({} \cup {1}) \cup {2})
      BY FS_EmptySet, FS_AddElement
    <3>2. 1 .. 2 = ({} \cup {1}) \cup {2}
      OBVIOUS
    <3>3. QED
      BY <3>1, <3>2
  <2>2. IsFiniteSet(DOMAIN claims)
    BY <1>1, <2>1, FS_Subset
  <2> DEFINE M == [i \in DOMAIN claims |-> F(i)]
  <2>3. M \in Surjection(DOMAIN claims, read)
    BY DEF Surjection
  <2> HIDE DEF M, read
  <2>4. QED
    BY <2>2, <2>3, FS_Surjection
<1>5. \A i, j \in DOMAIN claims : F(i).ts = F(j).ts \/ F(i).key = F(j).key => F(i) = F(j)
  <2> SUFFICES ASSUME NEW i \in DOMAIN claims, NEW j \in DOMAIN claims,
                      F(i).ts = F(j).ts \/ F(i).key = F(j).key
               PROVE  i = j
    OBVIOUS
  <2> HIDE DEF F
  <2>1. QED
    BY <1>1, <1>2, <1>3
<1> HIDE DEF F
<1>6. /\ read \subseteq DiscoveryFacts(FactLines)
      /\ \A f, g \in read : f.ts = g.ts \/ f.key = g.key => f = g
  BY <1>3, <1>5
<1>7. QED
  BY <1>4, <1>6 DEF F

LEMMA StartMergeGood ==
  ASSUME MemoryGood, NEW c \in Callers, NEW claims \in Claims, StartMerge(c, claims), ~spoiled'
  PROVE  MemoryGood'
<1> DEFINE read == {Fact(c, claims[i], "discovery-merge", <<claims[i], "claim", 0>>, clock + i - 1) :
                      i \in DOMAIN claims}
           new == [at |-> "merge", source |-> NoCall.source, read |-> read]
<1>1. /\ caller[c].at = "idle" /\ caller' = [caller EXCEPT ![c] = new]
      /\ \A d \in Callers \ {c} : ~InCapture(d)
      /\ UNCHANGED <<ledger, archive, repo, memoryMd, locks, clock, due>>
  BY DEF StartMerge, Starts
<1>2. /\ read \subseteq DiscoveryFacts(FactLines) /\ IsFiniteSet(read)
      /\ \A f, g \in read : f.ts = g.ts \/ f.key = g.key => f = g
  BY ClaimFacts DEF MemoryGood, MemoryTyped
<1> HIDE DEF read
<1>3. read \in SUBSET Lines
  BY <1>2 DEF DiscoveryFacts, Lines
<1>4. new \in CallStates /\ new.at = "merge" /\ new.read = read
  BY <1>3 DEF CallStates, Places
<1> HIDE DEF new
<1>5. caller'[c] = new
  BY <1>1, <1>4, CallReplaced DEF MemoryGood
<1>6. OwnPart(c)'
  BY <1>2, <1>4, <1>5 DEF OwnPart
<1>7. new.at \notin Capturing
  BY <1>4 DEF Capturing
<1>8. QED
  BY <1>1, <1>4, <1>6, <1>7, Starting

LEMMA StartCompactGood ==
  ASSUME MemoryGood, NEW c \in Callers, StartCompact(c), ~spoiled'
  PROVE  MemoryGood'
<1> DEFINE new == [NoCall EXCEPT !.at = "compact"]
<1>1. /\ caller[c].at = "idle" /\ caller' = [caller EXCEPT ![c] = new]
      /\ \A d \in Callers \ {c} : ~InCapture(d)
      /\ UNCHANGED <<ledger, archive, repo, memoryMd, locks, clock, due>>
  BY DEF StartCompact, Starts
<1>2. new \in CallStates /\ new.at = "compact"
  BY DEF NoCall, CallStates, Places
<1> HIDE DEF new
<1>3. caller'[c] = new
  BY <1>1, <1>2, CallReplaced DEF MemoryGood
<1>4. OwnPart(c)'
  BY <1>2, <1>3 DEF OwnPart
<1>5. new.at \notin Capturing
  BY <1>2 DEF Capturing
<1>6. QED
  BY <1>1, <1>2, <1>4, <1>5, Starting

LEMMA captureMemoryGood ==
  ASSUME MemoryGood, NEW c \in Callers, captureMemory(c), ~spoiled'
  PROVE  MemoryGood'
<1> DEFINE new == [NoCall EXCEPT !.at = IF ledger = {} THEN "render" ELSE "promote",
                                 !.read = collectActiveFacts(ledger)]
<1>1. /\ caller[c].at = "idle" /\ caller' = [caller EXCEPT ![c] = new]
      /\ \A d \in Callers \ {c} : ~InCapture(d)
      /\ new.at \in Capturing => \A d \in Callers \ {c} : ~Busy(d)
      /\ UNCHANGED <<ledger, archive, repo, memoryMd, locks, clock, due>>
  BY DEF captureMemory, Starts
<1>2. collectActiveFacts(ledger) \in SUBSET Lines
  BY LineKinds DEF MemoryGood, MemoryTyped
<1>3. new \in CallStates /\ new.at \in {"render", "promote"} /\ new.read = collectActiveFacts(ledger)
  BY <1>2 DEF NoCall, CallStates, Places
<1> HIDE DEF new
<1>4. caller'[c] = new
  BY <1>1, <1>3, CallReplaced DEF MemoryGood
<1>5. OwnPart(c)'
  BY <1>1, <1>3, <1>4 DEF OwnPart
<1>6. QED
  BY <1>1, <1>3, <1>5, Starting

LEMMA appendArchiveGood ==
  ASSUME MemoryGood, NEW c \in Callers, NEW t, appendArchive(c, t)
  PROVE  MemoryGood'
<1> DEFINE active == {f \in collectActiveFacts(ledger) : f.ts >= t}
<1>1. PICK old \in SUBSET active :
        /\ archive' = archive \cup (FactsIn(ledger) \ (active \ old))
        /\ Reads(c, "rename", Kept(ledger, active, old))
  BY DEF appendArchive
<1>2. /\ caller[c].at = "compact" /\ locks["task"] = Unlocked
      /\ locks' = [locks EXCEPT !["task"] = c]
      /\ UNCHANGED <<ledger, repo, memoryMd, clock, due>>
  BY DEF appendArchive, Acquires
<1> DEFINE read == Kept(ledger, active, old)
<1>3. MemoryTyped /\ TimesTell
  BY DEF MemoryGood
<1>4. FactsIn(ledger) \in SUBSET FactLines /\ FactsIn(ledger) \subseteq ledger
      /\ StalesIn(ledger) \subseteq ledger /\ ledger \in SUBSET Lines
      /\ active \subseteq FactsIn(ledger)
  BY <1>3, LineKinds DEF MemoryTyped
<1> HIDE DEF active
<1>5. /\ read \subseteq ledger \cup {PointerSummary}
      /\ active \ old \subseteq read
      /\ \A e \in StalesIn(ledger) : e.ts \in Times(FactsIn(ledger)) => e \in read
  BY <1>4 DEF Kept
<1>6. read \in SUBSET Lines
  BY <1>4, <1>5 DEF Lines
<1>7. Reads(c, "rename", read)
  BY <1>1
<1>8. "rename" \in Places
  BY DEF Places
<1> HIDE DEF read
<1>9. /\ caller' \in [Callers -> CallStates] /\ caller'[c].at = "rename"
      /\ caller'[c].read = read
      /\ \A d \in Callers \ {c} : caller'[d] = caller[d]
  BY <1>3, <1>6, <1>7, <1>8, CallReads
<1>10. MemoryTyped'
  BY <1>1, <1>2, <1>3, <1>4, <1>9 DEF MemoryTyped
<1>11. FactsIn(ledger') \cup archive' = FactsIn(ledger) \cup archive
  BY <1>1, <1>2
<1>12. TimesTell'
  BY <1>2, <1>3, <1>11 DEF TimesTell
<1>13. \A f \in due' : Safe(f)'
  BY <1>1, <1>2, NobodyWrites DEF Safe
<1>14. OwnPart(c)'
  <2>1. locks'["task"] = c
    BY <1>2, <1>3 DEF MemoryTyped
  <2>2. FactsIn(ledger) \subseteq read \cup archive'
    BY <1>1, <1>5
  <2>3. QED
    BY <1>2, <1>5, <1>9, <2>1, <2>2 DEF OwnPart
<1>15. collectActiveFacts(ledger') \subseteq due'
  BY <1>2 DEF MemoryGood
<1>16. ~InCapture(c) /\ ~InCapture(c)' /\ Busy(c)
  BY <1>2, <1>9 DEF InCapture, Capturing, Busy
<1>17. QED
  BY <1>2, <1>9, <1>10, <1>12, <1>13, <1>14, <1>15, <1>16, GoingOn

LEMMA compactLedgerGood ==
  ASSUME MemoryGood, NEW c \in Callers, compactLedger(c)
  PROVE  MemoryGood'
<1> DEFINE read == caller[c].read
<1>1. /\ caller[c].at = "rename" /\ ledger' \in {read, ledger}
      /\ locks' = [locks EXCEPT !["task"] = Unlocked] /\ Ends(c)
      /\ UNCHANGED <<archive, repo, memoryMd, clock, due>>
  BY DEF compactLedger, Releases
<1>2. /\ MemoryTyped /\ TimesTell /\ locks["task"] = c
      /\ read \subseteq ledger \cup {PointerSummary}
      /\ FactsIn(ledger) \subseteq read \cup archive
      /\ \A e \in StalesIn(ledger) : e.ts \in Times(FactsIn(ledger)) => e \in read
  BY <1>1 DEF MemoryGood, OwnPart
<1>3. /\ caller' \in [Callers -> CallStates] /\ caller'[c].at = "ended"
      /\ \A d \in Callers \ {c} : caller'[d] = caller[d]
  BY <1>1, <1>2, CallEnded
<1>4. ledger' \in SUBSET Lines /\ ledger' \subseteq ledger \cup {PointerSummary}
  BY <1>1, <1>2 DEF MemoryTyped, Lines
<1>5. /\ FactsIn(ledger') \subseteq FactsIn(ledger)
      /\ FactsIn(ledger) \subseteq FactsIn(ledger') \cup archive
      /\ StalesIn(ledger') \subseteq StalesIn(ledger)
  <2>1. PointerSummary.event \notin {"fact", "stale"}
    BY DEF PointerSummary
  <2>2. QED
    BY <1>1, <1>2, <1>4, <2>1 DEF FactsIn, StalesIn
<1>6. collectActiveFacts(ledger') \subseteq collectActiveFacts(ledger)
  <2> SUFFICES ASSUME NEW f \in collectActiveFacts(ledger'), f.ts \in Times(StalesIn(ledger))
               PROVE  FALSE
    BY <1>5 DEF collectActiveFacts
  <2>1. f \in FactsIn(ledger) /\ f.ts \notin Times(StalesIn(ledger'))
    BY <1>5 DEF collectActiveFacts
  <2>2. PICK e \in StalesIn(ledger) : e.ts = f.ts
    BY DEF Times
  <2>3. e \in ledger'
    BY <1>1, <1>2, <2>1, <2>2 DEF Times, StalesIn
  <2>4. QED
    BY <2>1, <2>2, <2>3 DEF Times, StalesIn
<1>7. collectActiveFacts(ledger) \subseteq collectActiveFacts(ledger') \cup archive
  <2> SUFFICES ASSUME NEW f \in collectActiveFacts(ledger), f \notin archive
               PROVE  f \in collectActiveFacts(ledger')
    OBVIOUS
  <2>1. f \in FactsIn(ledger') /\ f.ts \notin Times(StalesIn(ledger))
    BY <1>5 DEF collectActiveFacts
  <2>2. QED
    BY <1>5, <2>1, TimesGrow DEF collectActiveFacts
<1>8. MemoryTyped'
  <2>1. IsFiniteSet(ledger')
    <3>1. IsFiniteSet(ledger \cup {PointerSummary})
      BY <1>2, FS_AddElement DEF MemoryTyped
    <3>2. QED
      BY <1>4, <3>1, FS_Subset
  <2>2. QED
    BY <1>1, <1>2, <1>3, <1>4, <2>1 DEF MemoryTyped
<1>9. TimesTell'
  <2>1. FactsIn(ledger') \cup archive = FactsIn(ledger) \cup archive
    BY <1>5
  <2>2. Times(StalesIn(ledger')) \subseteq Times(StalesIn(ledger))
    BY <1>5, TimesGrow
  <2>3. QED
    BY <1>1, <1>2, <2>1, <2>2 DEF TimesTell
<1>10. ~InCapture(c) /\ ~InCapture(c)' /\ Busy(c)
  BY <1>1, <1>3 DEF InCapture, Capturing, Busy
<1>11. \A f \in due' : Safe(f)'
  <2>1. \A d \in Callers : caller[d].at \notin {"append", "claims"}
    BY <1>1, <1>2, <1>3, <1>10, OthersWait
  <2>2. \A f \in due : Safe(f)
    BY <2>1 DEF MemoryGood
  <2>3. QED
    BY <1>1, <1>7, <2>2 DEF Safe
<1>12. OwnPart(c)'
  BY <1>3 DEF OwnPart
<1>13. collectActiveFacts(ledger') \subseteq due'
  BY <1>1, <1>6 DEF MemoryGood
<1>14. QED
  BY <1>1, <1>2, <1>3, <1>8, <1>9, <1>10, <1>11, <1>12, <1>13, GoingOn

\* Whoever promotes finds nothing being written, and what is due is safe.
LEMMA NothingIsWritten ==
  ASSUME MemoryGood, NEW c \in Callers, InCapture(c)
  PROVE  /\ Busy(c) /\ MemoryTyped /\ TimesTell /\ OwnPart(c)
         /\ \A f \in due : Safe(f)
         /\ collectActiveFacts(ledger) \subseteq due
<1>1. Busy(c) /\ caller[c].at \notin {"append", "claims"}
  BY DEF InCapture, Capturing, Busy
<1>2. \A d \in Callers : caller[d].at \notin {"append", "claims"}
  BY <1>1 DEF MemoryGood, Busy
<1>3. QED
  BY <1>1, <1>2 DEF MemoryGood

\* A fact replaced by one of its key was that one: of the facts due, a key is
\* one's.
LEMMA promoteLedgerGood ==
  ASSUME MemoryGood, NEW c \in Callers, promoteLedger(c)
  PROVE  MemoryGood'
<1> DEFINE read == caller[c].read
<1>1. /\ caller[c].at = "promote" /\ locks["repo"] = Unlocked
      /\ repo' = {f \in repo : f.key \notin Keys(read)} \cup read
      /\ UNCHANGED <<ledger, archive, memoryMd, clock, due>>
  BY DEF promoteLedger
<1>2. PICK at \in {"unlink", "render"} :
        /\ caller' = [caller EXCEPT ![c].at = at]
        /\ locks' \in {locks, [locks EXCEPT !["repo"] = c]}
  BY DEF promoteLedger, Moves
<1>3. InCapture(c)
  BY <1>1 DEF InCapture, Capturing
<1>4. /\ Busy(c) /\ MemoryTyped /\ TimesTell /\ \A f \in due : Safe(f)
      /\ read = collectActiveFacts(ledger) /\ read \subseteq due
  BY <1>1, <1>3, NothingIsWritten DEF OwnPart
<1>5. /\ caller' \in [Callers -> CallStates] /\ caller'[c].at = at
      /\ caller'[c].read = read
      /\ \A d \in Callers \ {c} : caller'[d] = caller[d]
  BY <1>2, <1>4, CallMoved DEF Places
<1>6. /\ FactsIn(ledger) \subseteq ledger /\ read \subseteq FactsIn(ledger)
      /\ FactsIn(ledger) \in SUBSET FactLines
  BY <1>4, LineKinds DEF MemoryTyped
<1> HIDE DEF read
<1>7. MemoryTyped'
  <2>1. IsFiniteSet(read) /\ IsFiniteSet({f \in repo : f.key \notin Keys(read)})
    BY <1>4, <1>6, FS_Subset DEF MemoryTyped
  <2>2. IsFiniteSet(repo')
    BY <1>1, <2>1, FS_Union
  <2>3. repo' \in SUBSET FactLines
    BY <1>1, <1>4, <1>6 DEF MemoryTyped
  <2>4. locks' \in [{"task", "repo"} -> Callers \cup {Unlocked}]
    BY <1>2, <1>4 DEF MemoryTyped
  <2>5. QED
    BY <1>1, <1>4, <1>5, <2>2, <2>3, <2>4 DEF MemoryTyped
<1>8. TimesTell'
  <2>1. FactsIn(ledger') \cup archive' \cup repo' \subseteq FactsIn(ledger) \cup archive \cup repo
    BY <1>1, <1>6
  <2>2. QED
    BY <1>1, <1>4, <2>1 DEF TimesTell
<1>9. \A f \in due' : Safe(f)'
  <2> SUFFICES ASSUME NEW f \in due, f \in repo, f \notin repo'
               PROVE  FALSE
    BY <1>1, <1>4 DEF Safe
  <2>1. PICK g \in read : g.key = f.key
    BY <1>1 DEF Keys
  <2>2. f = g
    BY <1>4, <2>1 DEF TimesTell
  <2>3. QED
    BY <1>1, <2>1, <2>2
<1>10. OwnPart(c)'
  BY <1>1, <1>2, <1>4, <1>5 DEF OwnPart
<1>11. InCapture(c)' /\ collectActiveFacts(ledger') \subseteq due'
  BY <1>1, <1>4, <1>5 DEF InCapture, Capturing
<1>12. QED
  BY <1>3, <1>4, <1>5, <1>7, <1>8, <1>9, <1>10, <1>11, GoingOn

LEMMA RenameFailsGood ==
  ASSUME MemoryGood, NEW c \in Callers, RenameFails(c)
  PROVE  MemoryGood'
<1>1. /\ caller[c].at = "promote" /\ caller' = [caller EXCEPT ![c].at = "render"]
      /\ UNCHANGED <<ledger, archive, repo, memoryMd, locks, clock, due>>
  BY DEF RenameFails, Moves
<1>2. InCapture(c)
  BY <1>1 DEF InCapture, Capturing
<1>3. /\ Busy(c) /\ MemoryTyped /\ TimesTell /\ \A f \in due : Safe(f)
      /\ collectActiveFacts(ledger) \subseteq due
  BY <1>2, NothingIsWritten
<1>4. /\ caller' \in [Callers -> CallStates] /\ caller'[c].at = "render"
      /\ \A d \in Callers \ {c} : caller'[d] = caller[d]
  BY <1>1, <1>3, CallMoved DEF Places
<1>5. MemoryTyped' /\ TimesTell' /\ collectActiveFacts(ledger') \subseteq due'
  BY <1>1, <1>3, <1>4 DEF MemoryTyped, TimesTell
<1>6. \A f \in due' : Safe(f)'
  BY <1>1, <1>3 DEF Safe
<1>7. OwnPart(c)' /\ InCapture(c)'
  BY <1>4 DEF OwnPart, InCapture, Capturing
<1>8. QED
  BY <1>2, <1>3, <1>4, <1>5, <1>6, <1>7, GoingOn

\* What was active is promoted by now.
LEMMA UnlinkLedgerGood ==
  ASSUME MemoryGood, NEW c \in Callers, UnlinkLedger(c)
  PROVE  MemoryGood'
<1>1. /\ caller[c].at = "unlink" /\ caller' = [caller EXCEPT ![c].at = "render"]
      /\ ledger' \in {{}, ledger} /\ locks' = [locks EXCEPT !["repo"] = Unlocked]
      /\ UNCHANGED <<archive, repo, memoryMd, clock, due>>
  BY DEF UnlinkLedger, Moves, Releases
<1>2. InCapture(c)
  BY <1>1 DEF InCapture, Capturing
<1>3. /\ Busy(c) /\ MemoryTyped /\ TimesTell /\ \A f \in due : Safe(f)
      /\ collectActiveFacts(ledger) \subseteq due /\ collectActiveFacts(ledger) \subseteq repo
  BY <1>1, <1>2, NothingIsWritten DEF OwnPart
<1>4. /\ caller' \in [Callers -> CallStates] /\ caller'[c].at = "render"
      /\ \A d \in Callers \ {c} : caller'[d] = caller[d]
  BY <1>1, <1>3, CallMoved DEF Places
<1>5. MemoryTyped'
  <2>1. ledger' \in SUBSET Lines /\ IsFiniteSet(ledger')
    BY <1>1, <1>3, FS_EmptySet DEF MemoryTyped
  <2>2. QED
    BY <1>1, <1>3, <1>4, <2>1 DEF MemoryTyped
<1>6. ledger' = {} => FactsIn(ledger') = {} /\ Times(StalesIn(ledger')) = {}
                      /\ collectActiveFacts(ledger') = {}
  BY DEF FactsIn, StalesIn, Times, collectActiveFacts
<1>7. TimesTell'
  BY <1>1, <1>3, <1>6 DEF TimesTell
<1>8. (\A f \in due' : Safe(f)') /\ collectActiveFacts(ledger') \subseteq due'
  BY <1>1, <1>3, <1>6 DEF Safe
<1>9. OwnPart(c)' /\ InCapture(c)'
  BY <1>4 DEF OwnPart, InCapture, Capturing
<1>10. QED
  BY <1>2, <1>3, <1>4, <1>5, <1>7, <1>8, <1>9, GoingOn

LEMMA renderMemoryGood ==
  ASSUME MemoryGood, NEW c \in Callers, renderMemory(c)
  PROVE  MemoryGood'
<1>1. /\ caller[c].at = "render" /\ Reads(c, "renderWrite", DiscoveryFacts(repo))
      /\ UNCHANGED <<ledger, archive, repo, memoryMd, locks, clock, due>>
  BY DEF renderMemory
<1>2. InCapture(c)
  BY <1>1 DEF InCapture, Capturing
<1>3. /\ Busy(c) /\ MemoryTyped /\ TimesTell /\ \A f \in due : Safe(f)
      /\ collectActiveFacts(ledger) \subseteq due
  BY <1>2, NothingIsWritten
<1> DEFINE read == DiscoveryFacts(repo)
<1>4. read \in SUBSET Lines /\ "renderWrite" \in Places
  BY <1>3 DEF MemoryTyped, DiscoveryFacts, Lines, Places
<1>5. Reads(c, "renderWrite", read)
  BY <1>1
<1> HIDE DEF read
<1>6. /\ caller' \in [Callers -> CallStates] /\ caller'[c].at = "renderWrite"
      /\ caller'[c].read = read
      /\ \A d \in Callers \ {c} : caller'[d] = caller[d]
  BY <1>3, <1>4, <1>5, CallReads
<1>7. MemoryTyped' /\ TimesTell' /\ collectActiveFacts(ledger') \subseteq due'
  BY <1>1, <1>3, <1>6 DEF MemoryTyped, TimesTell
<1>8. \A f \in due' : Safe(f)'
  BY <1>1, <1>3 DEF Safe
<1>9. OwnPart(c)' /\ InCapture(c)'
  BY <1>1, <1>6 DEF OwnPart, InCapture, Capturing, read
<1>10. QED
  BY <1>2, <1>3, <1>6, <1>7, <1>8, <1>9, GoingOn

LEMMA WriteMemoryMdGood ==
  ASSUME MemoryGood, NEW c \in Callers, WriteMemoryMd(c)
  PROVE  MemoryGood'
<1>1. /\ caller[c].at = "renderWrite" /\ memoryMd' = caller[c].read /\ Ends(c)
      /\ UNCHANGED <<ledger, archive, repo, locks, clock, due>>
  BY DEF WriteMemoryMd
<1>2. InCapture(c)
  BY <1>1 DEF InCapture, Capturing
<1>3. /\ Busy(c) /\ MemoryTyped /\ TimesTell /\ \A f \in due : Safe(f)
      /\ collectActiveFacts(ledger) \subseteq due /\ caller[c].read = DiscoveryFacts(repo)
  BY <1>1, <1>2, NothingIsWritten DEF OwnPart
<1>4. /\ caller' \in [Callers -> CallStates] /\ caller'[c].at = "ended"
      /\ \A d \in Callers \ {c} : caller'[d] = caller[d]
  BY <1>1, <1>3, CallEnded
<1>5. memoryMd' = DiscoveryFacts(repo') /\ memoryMd' \in SUBSET FactLines
  BY <1>1, <1>3 DEF MemoryTyped, DiscoveryFacts
<1>6. MemoryTyped' /\ TimesTell' /\ collectActiveFacts(ledger') \subseteq due'
  BY <1>1, <1>3, <1>4, <1>5 DEF MemoryTyped, TimesTell
<1>7. \A f \in due' : Safe(f)'
  BY <1>1, <1>3 DEF Safe
<1>8. OwnPart(c)' /\ ~InCapture(c)'
  BY <1>4 DEF OwnPart, InCapture, Capturing
<1>9. QED
  BY <1>2, <1>3, <1>4, <1>5, <1>6, <1>7, <1>8, GoingOn

\* Neither the clock nor a step that changes nothing disturbs it.
LEMMA IdleGood ==
  ASSUME MemoryGood, clock' \in Nat,
         UNCHANGED <<ledger, archive, repo, memoryMd, locks, caller, due>>
  PROVE  MemoryGood'
<1>1. MemoryTyped' /\ TimesTell' /\ collectActiveFacts(ledger') \subseteq due'
  BY DEF MemoryGood, MemoryTyped, TimesTell
<1>2. \A c \in Callers : OwnPart(c)'
  BY DEF MemoryGood, OwnPart, Safe
<1>3. \A c, d \in Callers : c # d /\ InCapture(c)' => ~Busy(d)'
  BY DEF MemoryGood, InCapture, Busy
<1>4. /\ (\A c \in Callers : caller'[c].at \notin {"append", "claims"}) => \A f \in due' : Safe(f)'
      /\ \/ memoryMd' = DiscoveryFacts(repo')
         \/ \E c \in Callers : caller'[c].at \in {"unlink", "render", "renderWrite"}
  BY DEF MemoryGood, Safe
<1>5. QED
  BY <1>1, <1>2, <1>3, <1>4 DEF MemoryGood

-----------------------------------------------------------------------------
(* The theorem.                                                            *)

LEMMA InitMemoryInv == MemoryInit => MemoryInv
<1> SUFFICES ASSUME MemoryInit PROVE MemoryGood
  BY DEF MemoryInv
<1>1. NoCall \in CallStates /\ NoCall.at = "idle"
  BY DEF NoCall, CallStates, Places
<1>2. MemoryTyped
  BY <1>1, FS_EmptySet, MemoryAssumption DEF MemoryInit, MemoryTyped
<1>3. \A c \in Callers : caller[c].at = "idle"
  BY <1>1 DEF MemoryInit
<1>4. FactsIn(ledger) = {} /\ Times(StalesIn(ledger)) = {} /\ collectActiveFacts(ledger) = {}
  BY DEF MemoryInit, FactsIn, StalesIn, Times, collectActiveFacts
<1>5. TimesTell
  BY <1>4 DEF MemoryInit, TimesTell
<1>6. \A c \in Callers : OwnPart(c) /\ ~InCapture(c)
  BY <1>3 DEF OwnPart, InCapture, Capturing
<1>7. memoryMd = DiscoveryFacts(repo) /\ due = {}
  BY DEF MemoryInit, DiscoveryFacts
<1>8. QED
  BY <1>2, <1>4, <1>5, <1>6, <1>7 DEF MemoryGood

LEMMA StepMemoryInv == MemoryInv /\ [MemoryNext]_memoryVars => MemoryInv'
<1> SUFFICES ASSUME MemoryGood, [MemoryNext]_memoryVars, ~spoiled'
             PROVE  MemoryGood'
  <2>1. ASSUME spoiled, [MemoryNext]_memoryVars
        PROVE  spoiled'
    BY <2>1 DEF MemoryNext, memoryVars, Tick, StartEdit, markStale, writeFact, StartMerge,
       StalePrior, writeDiscoveryFacts, AppendFails, AcquireTimesOut, StartCompact,
       appendArchive, compactLedger, captureMemory, promoteLedger, RenameFails, UnlinkLedger,
       renderMemory, WriteMemoryMd, CallerDies, Starts
  <2>2. QED
    BY <2>1 DEF MemoryInv
<1>1. CASE Tick
  BY <1>1, IdleGood DEF Tick, MemoryGood, MemoryTyped
<1>2. ASSUME NEW c \in Callers, NEW s \in Sources, StartEdit(c, s)
      PROVE  MemoryGood'
  BY <1>2, StartEditGood
<1>3. ASSUME NEW c \in Callers, markStale(c)
      PROVE  MemoryGood'
  BY <1>3, markStaleGood
<1>4. ASSUME NEW c \in Callers, NEW hasContent \in BOOLEAN, writeFact(c, hasContent)
      PROVE  MemoryGood'
  BY <1>4, writeFactGood
<1>5. ASSUME NEW c \in Callers, NEW claims \in Claims, StartMerge(c, claims)
      PROVE  MemoryGood'
  BY <1>5, StartMergeGood
<1>6. ASSUME NEW c \in Callers, StalePrior(c)
      PROVE  MemoryGood'
  BY <1>6, StalePriorGood
<1>7. ASSUME NEW c \in Callers, writeDiscoveryFacts(c)
      PROVE  MemoryGood'
  BY <1>7, writeDiscoveryFactsGood
<1>8. ASSUME NEW c \in Callers, AppendFails(c) \/ AcquireTimesOut(c) \/ CallerDies(c)
      PROVE  MemoryGood'
  BY <1>8 DEF AppendFails, AcquireTimesOut, CallerDies
<1>9. ASSUME NEW c \in Callers, StartCompact(c)
      PROVE  MemoryGood'
  BY <1>9, StartCompactGood
<1>10. ASSUME NEW c \in Callers, NEW t \in 0 .. MaxClock, appendArchive(c, t)
       PROVE  MemoryGood'
  BY <1>10, appendArchiveGood
<1>11. ASSUME NEW c \in Callers, compactLedger(c)
       PROVE  MemoryGood'
  BY <1>11, compactLedgerGood
<1>12. ASSUME NEW c \in Callers, captureMemory(c)
       PROVE  MemoryGood'
  BY <1>12, captureMemoryGood
<1>13. ASSUME NEW c \in Callers, promoteLedger(c)
       PROVE  MemoryGood'
  BY <1>13, promoteLedgerGood
<1>14. ASSUME NEW c \in Callers, RenameFails(c)
       PROVE  MemoryGood'
  BY <1>14, RenameFailsGood
<1>15. ASSUME NEW c \in Callers, UnlinkLedger(c)
       PROVE  MemoryGood'
  BY <1>15, UnlinkLedgerGood
<1>16. ASSUME NEW c \in Callers, renderMemory(c)
       PROVE  MemoryGood'
  BY <1>16, renderMemoryGood
<1>17. ASSUME NEW c \in Callers, WriteMemoryMd(c)
       PROVE  MemoryGood'
  BY <1>17, WriteMemoryMdGood
<1>18. CASE UNCHANGED memoryVars
  BY <1>18, IdleGood DEF memoryVars, MemoryGood, MemoryTyped
<1>19. QED
  BY <1>1, <1>2, <1>3, <1>4, <1>5, <1>6, <1>7, <1>8, <1>9, <1>10, <1>11, <1>12, <1>13,
     <1>14, <1>15, <1>16, <1>17, <1>18 DEF MemoryNext

\* Between calls, what MEMORY.md shows is counted as what is promoted.
LEMMA MemoryInvKeepsLast == MemoryInv => MemoryKeepsLast
<1> SUFFICES ASSUME MemoryGood PROVE MemoryKeepsLast
  BY DEF MemoryInv, MemoryKeepsLast
<1>1. \A f \in due : f \in archive \cup repo
                     \/ \/ f \in collectActiveFacts(ledger)
                        \/ \E c \in Callers : caller[c].at \in {"append", "claims"}
  BY DEF MemoryGood, Safe
<1>2. ASSUME \A c \in Callers : ~Busy(c)
      PROVE  memoryMd = DiscoveryFacts(repo) /\ firstBrokenStage # "render"
  <2>1. memoryMd = DiscoveryFacts(repo)
    BY <1>2 DEF MemoryGood, Busy
  <2>2. IsFiniteSet(DiscoveryFacts(repo))
    BY FS_Subset DEF MemoryGood, MemoryTyped, DiscoveryFacts
  <2>3. \A f, g \in DiscoveryFacts(repo) : f.ts = g.ts => f = g
    BY DEF MemoryGood, TimesTell, DiscoveryFacts
  <2>4. Cardinality(Times(DiscoveryFacts(repo))) = Cardinality(memoryMd)
    BY <2>1, <2>2, <2>3, CountedByTimes
  <2>5. QED
    BY <2>1, <2>4 DEF firstBrokenStage
<1>3. QED
  BY <1>1, <1>2 DEF MemoryKeepsLast, MemoryGood

\* While nothing was spoiled, the last fact of each source is active, archived or
\* promoted, nothing older is active, and MEMORY.md shows what is promoted.
THEOREM MemoryKeepsLastHolds == MemorySpec => []MemoryKeepsLast
<1>1. MemoryInit => MemoryInv
  BY InitMemoryInv
<1>2. MemoryInv /\ [MemoryNext]_memoryVars => MemoryInv'
  BY StepMemoryInv
<1>3. MemoryInv => MemoryKeepsLast
  BY MemoryInvKeepsLast
<1>4. QED
  BY <1>1, <1>2, <1>3, PTL DEF MemorySpec

-----------------------------------------------------------------------------
(* What the state is like, whatever happens.                               *)

LineEvents == {"fact", "stale", "lock_timeout", "pointer_summary"}
AllFacts(es) == \A e \in es : e.event = "fact"
AllLines(es) == \A e \in es : e.event \in LineEvents

\* Only a compaction has more than facts in hand.
CallShaped(k) ==
  /\ k = [at |-> k.at, source |-> k.source, read |-> k.read] /\ k.at \in Places
  /\ AllLines(k.read) /\ (k.at # "rename" => AllFacts(k.read))

\* Whatever overlaps or fails.
MemoryShaped ==
  /\ AllLines(ledger) /\ AllFacts(archive) /\ AllFacts(repo) /\ AllFacts(memoryMd) /\ AllFacts(due)
  /\ DOMAIN locks = {"task", "repo"} /\ \A l \in {"task", "repo"} : locks[l] \in Callers \cup {Unlocked}
  /\ DOMAIN caller = Callers /\ \A c \in Callers : CallShaped(caller[c])

CallersShaped == DOMAIN caller = Callers /\ \A c \in Callers : CallShaped(caller[c])
LocksShaped ==
  DOMAIN locks = {"task", "repo"} /\ \A l \in {"task", "repo"} : locks[l] \in Callers \cup {Unlocked}

LEMMA FactsAreLines ==
  ASSUME NEW es, AllFacts(es)
  PROVE  AllLines(es)
BY DEF AllFacts, AllLines, LineEvents

LEMMA CallBecomes ==
  ASSUME CallersShaped, NEW c \in Callers, NEW k, CallShaped(k), caller' = [caller EXCEPT ![c] = k]
  PROVE  CallersShaped'
<1>1. DOMAIN caller' = Callers /\ \A d \in Callers : caller'[d] = IF d = c THEN k ELSE caller[d]
  BY DEF CallersShaped
<1>2. \A d \in Callers : CallShaped(caller'[d])
  <2>1. TAKE d \in Callers
  <2>2. CASE d = c
    BY <1>1, <2>2
  <2>3. CASE d # c
    <3>1. caller'[d] = caller[d]
      BY <1>1, <2>3
    <3>2. QED
      BY <3>1 DEF CallersShaped
  <2>4. QED
    BY <2>2, <2>3
<1>3. QED
  BY <1>1, <1>2 DEF CallersShaped

LEMMA CallMoves ==
  ASSUME CallersShaped, NEW c \in Callers, NEW at \in Places, at # "rename", caller[c].at # "rename",
         Moves(c, at)
  PROVE  CallersShaped'
<1> DEFINE s == caller[c].source
           r == caller[c].read
           a == caller[c].at
           k == [at |-> at, source |-> s, read |-> r]
<1>1. caller[c] = [at |-> a, source |-> s, read |-> r] /\ AllLines(r) /\ AllFacts(r)
  BY DEF CallersShaped, CallShaped
<1>2. caller' = [caller EXCEPT ![c] = [caller[c] EXCEPT !.at = at]]
  BY DEF Moves
<1> HIDE DEF s, r, a
<1>3. [caller[c] EXCEPT !.at = at] = k
  BY <1>1
<1>4. CallShaped(k)
  BY <1>1 DEF CallShaped
<1>5. QED
  BY <1>2, <1>3, <1>4, CallBecomes

LEMMA CallTakes ==
  ASSUME CallersShaped, NEW c \in Callers, NEW at \in Places, NEW read, AllLines(read),
         at # "rename" => AllFacts(read), Reads(c, at, read)
  PROVE  CallersShaped'
<1> DEFINE s == caller[c].source
           r == caller[c].read
           a == caller[c].at
           k == [at |-> at, source |-> s, read |-> read]
<1>1. caller[c] = [at |-> a, source |-> s, read |-> r]
  BY DEF CallersShaped, CallShaped
<1>2. caller' = [caller EXCEPT ![c] = [caller[c] EXCEPT !.at = at, !.read = read]]
  BY DEF Reads, CallersShaped
<1> HIDE DEF s, r, a
<1>3. [caller[c] EXCEPT !.at = at, !.read = read] = k
  <2> DEFINE moved == [caller[c] EXCEPT !.at = at]
  <2>1. moved = [at |-> at, source |-> s, read |-> r]
    BY <1>1
  <2>2. [caller[c] EXCEPT !.at = at, !.read = read] = [moved EXCEPT !.read = read]
    OBVIOUS
  <2> HIDE DEF moved
  <2>3. [moved EXCEPT !.read = read] = k
    BY <2>1
  <2>4. QED
    BY <2>2, <2>3 DEF moved
<1>4. CallShaped(k)
  BY DEF CallShaped
<1>5. QED
  BY <1>2, <1>3, <1>4, CallBecomes

LEMMA NoCallShaped ==
  /\ CallShaped(NoCall)
  /\ \A at \in Places : CallShaped([NoCall EXCEPT !.at = at])
<1> DEFINE s == CHOOSE s \in Sources : TRUE
<1>1. NoCall = [at |-> "idle", source |-> s, read |-> {}]
  BY Zenon DEF NoCall
<1> HIDE DEF s
<1>2. \A at \in Places : CallShaped([at |-> at, source |-> s, read |-> {}])
  BY DEF CallShaped, AllLines, AllFacts
<1>3. ASSUME NEW at PROVE [NoCall EXCEPT !.at = at] = [at |-> at, source |-> s, read |-> {}]
  BY <1>1
<1>4. "idle" \in Places
  BY DEF Places
<1>5. QED
  BY Zenon, <1>1, <1>2, <1>3, <1>4

LEMMA CallIsOver ==
  ASSUME CallersShaped, NEW c \in Callers, Ends(c)
  PROVE  CallersShaped'
<1>1. CallShaped([NoCall EXCEPT !.at = "ended"])
  BY NoCallShaped DEF Places
<1>2. QED
  BY <1>1, CallBecomes DEF Ends

LEMMA LocksMove ==
  ASSUME LocksShaped, NEW c \in Callers, NEW l \in {"task", "repo"},
         Acquires(c, l) \/ Releases(c, l) \/ UNCHANGED locks
  PROVE  LocksShaped'
BY DEF LocksShaped, Acquires, Releases

LEMMA FactIsFact ==
  ASSUME NEW c, NEW s, NEW tool, NEW key, NEW ts
  PROVE  Fact(c, s, tool, key, ts).event = "fact" /\ Stale(s, ts).event = "stale"
BY DEF Fact, Stale

LEMMA ActiveAreFacts ==
  AllFacts(collectActiveFacts(ledger)) /\ collectActiveFacts(ledger) \subseteq ledger
BY DEF AllFacts, collectActiveFacts, FactsIn

LEMMA MemoryStepShaped ==
  ASSUME MemoryShaped, MemoryNext
  PROVE  MemoryShaped'
<1>1. CallersShaped /\ LocksShaped /\ AllLines(ledger)
      /\ AllFacts(archive) /\ AllFacts(repo) /\ AllFacts(memoryMd) /\ AllFacts(due)
  BY DEF MemoryShaped, CallersShaped, LocksShaped
<1>2. ASSUME CallersShaped', LocksShaped', AllLines(ledger)',
             AllFacts(archive)', AllFacts(repo)', AllFacts(memoryMd)', AllFacts(due)'
      PROVE  MemoryShaped'
  BY <1>2 DEF MemoryShaped, CallersShaped, LocksShaped
<1>3. ASSUME UNCHANGED <<ledger, archive, repo, memoryMd, due>>
      PROVE  AllLines(ledger)' /\ AllFacts(archive)' /\ AllFacts(repo)' /\ AllFacts(memoryMd)' /\ AllFacts(due)'
  BY <1>1, <1>3 DEF AllLines, AllFacts
<1>4. UNCHANGED locks => LocksShaped'
  BY <1>1 DEF LocksShaped
<1>5. CASE Tick
  BY <1>1, <1>2, <1>3, <1>4, <1>5 DEF Tick, CallersShaped
<1>6. ASSUME NEW c \in Callers, AcquireTimesOut(c) PROVE MemoryShaped'
  <2>1. CallersShaped'
    BY <1>1, <1>6, CallIsOver, CallMoves DEF AcquireTimesOut, Places
  <2>2. AllLines(ledger)'
    BY <1>1, <1>6 DEF AcquireTimesOut, AllLines, LockTimeout, LineEvents
  <2>3. QED
    BY <1>1, <1>2, <1>4, <1>6, <2>1, <2>2 DEF AcquireTimesOut, AllFacts
<1>7. ASSUME NEW c \in Callers, NEW k, CallShaped(k), Starts(c, k),
             UNCHANGED <<ledger, archive, repo, memoryMd, locks, clock, due>>
      PROVE  MemoryShaped'
  BY <1>1, <1>2, <1>3, <1>4, <1>7, CallBecomes DEF Starts
<1>8. ASSUME NEW c \in Callers, NEW s, StartEdit(c, s) PROVE MemoryShaped'
  <2>1. CallShaped([at |-> "edit", source |-> s, read |-> {}])
    BY DEF CallShaped, AllLines, AllFacts, Places
  <2>2. QED
    BY <1>7, <1>8, <2>1 DEF StartEdit
<1>9. ASSUME NEW c \in Callers, NEW claims, StartMerge(c, claims) PROVE MemoryShaped'
  <2> DEFINE read == {Fact(c, claims[i], "discovery-merge", <<claims[i], "claim", 0>>, clock + i - 1) :
                        i \in DOMAIN claims}
             k == [at |-> "merge", source |-> NoCall.source, read |-> read]
  <2>1. AllFacts(read)
    <3>1. \A i \in DOMAIN claims :
            Fact(c, claims[i], "discovery-merge", <<claims[i], "claim", 0>>, clock + i - 1).event = "fact"
      BY FactIsFact
    <3>2. QED
      BY Zenon, <3>1 DEF AllFacts
  <2>2. Starts(c, k)
    BY <1>9 DEF StartMerge
  <2> HIDE DEF read
  <2>3. CallShaped(k)
    BY <2>1, FactsAreLines DEF CallShaped, Places
  <2> HIDE DEF k
  <2>4. QED
    BY <1>7, <1>9, <2>2, <2>3 DEF StartMerge
<1>10. ASSUME NEW c \in Callers, StartCompact(c) PROVE MemoryShaped'
  BY <1>7, <1>10, NoCallShaped DEF StartCompact, Places
<1>11. ASSUME NEW c \in Callers, captureMemory(c) PROVE MemoryShaped'
  <2> DEFINE read == collectActiveFacts(ledger)
             at == IF ledger = {} THEN "render" ELSE "promote"
             s == CHOOSE s \in Sources : TRUE
             k == [NoCall EXCEPT !.at = at, !.read = read]
  <2>1. AllFacts(read) /\ at \in Places /\ at # "rename"
    BY ActiveAreFacts DEF Places
  <2>2. Starts(c, k)
    BY <1>11 DEF captureMemory
  <2>3. NoCall = [at |-> "idle", source |-> s, read |-> {}]
    BY Zenon DEF NoCall
  <2> HIDE DEF read, at, s
  <2>4. k = [at |-> at, source |-> s, read |-> read]
    <3> DEFINE moved == [NoCall EXCEPT !.at = at]
    <3>1. moved = [at |-> at, source |-> s, read |-> {}]
      BY <2>3
    <3>2. k = [moved EXCEPT !.read = read]
      OBVIOUS
    <3> HIDE DEF moved, k
    <3>3. [moved EXCEPT !.read = read] = [at |-> at, source |-> s, read |-> read]
      BY <3>1
    <3>4. QED
      BY <3>2, <3>3
  <2>5. CallShaped(k)
    BY <2>1, <2>4, FactsAreLines DEF CallShaped
  <2> HIDE DEF k
  <2>6. QED
    BY <1>7, <1>11, <2>2, <2>5 DEF captureMemory
<1>12. ASSUME NEW c \in Callers, markStale(c) PROVE MemoryShaped'
  <2>1. AllLines(ledger)'
    BY <1>1, <1>12, FactIsFact DEF markStale, AllLines, LineEvents
  <2>2. CallersShaped'
    BY <1>1, <1>12, CallMoves DEF markStale, Places
  <2>3. QED
    BY <1>1, <1>2, <1>12, <2>1, <2>2, LocksMove DEF markStale, AllFacts
<1>13. ASSUME NEW c \in Callers, NEW hasContent, writeFact(c, hasContent) PROVE MemoryShaped'
  <2> DEFINE s == caller[c].source
             f == Fact(c, s, "edit", <<s, IF hasContent THEN "content" ELSE "time",
                                       IF hasContent THEN 0 ELSE clock>>, clock)
  <2>1. f.event = "fact"
    BY FactIsFact
  <2>2. ledger' = ledger \cup {f} /\ due' = {g \in due : g.source # s} \cup {f}
    BY <1>13 DEF writeFact
  <2> HIDE DEF f, s
  <2>3. AllLines(ledger)' /\ AllFacts(due)'
    BY <1>1, <2>1, <2>2 DEF AllLines, AllFacts, LineEvents
  <2>4. CallersShaped' /\ LocksShaped'
    BY <1>1, <1>13, CallIsOver, LocksMove DEF writeFact
  <2>5. QED
    BY <1>1, <1>2, <1>13, <2>3, <2>4 DEF writeFact, AllFacts
<1>14. ASSUME NEW c \in Callers, StalePrior(c) PROVE MemoryShaped'
  <2>1. AllLines(ledger)'
    BY <1>1, <1>14, FactIsFact DEF StalePrior, AllLines, LineEvents
  <2>2. CallersShaped'
    BY <1>1, <1>14, CallMoves DEF StalePrior, Places
  <2>3. QED
    BY <1>1, <1>2, <1>14, <2>1, <2>2, LocksMove DEF StalePrior, AllFacts
<1>15. ASSUME NEW c \in Callers, caller[c].at # "rename"
       PROVE  AllFacts(caller[c].read) /\ AllLines(caller[c].read)
  BY <1>1, <1>15 DEF CallersShaped, CallShaped
<1>16. ASSUME NEW c \in Callers, writeDiscoveryFacts(c) PROVE MemoryShaped'
  <2>1. AllFacts(caller[c].read) /\ AllLines(caller[c].read)
    BY <1>15, <1>16 DEF writeDiscoveryFacts
  <2>2. AllLines(ledger)' /\ AllFacts(due)'
    BY <1>1, <1>16, <2>1 DEF writeDiscoveryFacts, AllLines, AllFacts
  <2>3. CallersShaped' /\ LocksShaped'
    BY <1>1, <1>16, CallIsOver, LocksMove DEF writeDiscoveryFacts
  <2>4. QED
    BY <1>1, <1>2, <1>16, <2>2, <2>3 DEF writeDiscoveryFacts, AllFacts
<1>17. ASSUME NEW c \in Callers, AppendFails(c) PROVE MemoryShaped'
  <2>1. AllLines(ledger)'
    <3>1. CASE UNCHANGED ledger
      BY <1>1, <3>1 DEF AllLines
    <3>2. CASE caller[c].at = "claims" /\ \E some \in SUBSET caller[c].read : ledger' = ledger \cup some
      <4>1. AllLines(caller[c].read)
        BY <1>15, <3>2
      <4>2. QED
        BY <1>1, <3>2, <4>1 DEF AllLines
    <3>3. QED
      BY <1>17, <3>1, <3>2 DEF AppendFails
  <2>2. CallersShaped' /\ LocksShaped'
    BY <1>1, <1>17, CallIsOver, LocksMove DEF AppendFails
  <2>3. QED
    BY <1>1, <1>2, <1>17, <2>1, <2>2 DEF AppendFails, AllFacts
<1>18. ASSUME NEW c \in Callers, NEW t, appendArchive(c, t) PROVE MemoryShaped'
  <2> DEFINE active == {f \in collectActiveFacts(ledger) : f.ts >= t}
  <2>1. PICK old \in SUBSET active :
          /\ archive' = archive \cup (FactsIn(ledger) \ (active \ old))
          /\ Reads(c, "rename", Kept(ledger, active, old))
    BY <1>18 DEF appendArchive
  <2>2. AllFacts(archive)'
    BY <1>1, <2>1 DEF AllFacts, FactsIn
  <2>3. AllLines(Kept(ledger, active, old))
    BY <1>1, ActiveAreFacts DEF Kept, AllLines, StalesIn, PointerSummary, LineEvents
  <2>4. CallersShaped'
    BY <1>1, <2>1, <2>3, CallTakes DEF Places
  <2>5. QED
    BY <1>1, <1>2, <1>18, <2>2, <2>4, LocksMove DEF appendArchive, AllFacts, AllLines
<1>19. ASSUME NEW c \in Callers, compactLedger(c) PROVE MemoryShaped'
  <2>1. AllLines(caller[c].read)
    BY <1>1 DEF CallersShaped, CallShaped
  <2>2. AllLines(ledger)'
    BY <1>1, <1>19, <2>1 DEF compactLedger, AllLines
  <2>3. CallersShaped' /\ LocksShaped'
    BY <1>1, <1>19, CallIsOver, LocksMove DEF compactLedger
  <2>4. QED
    BY <1>1, <1>2, <1>19, <2>2, <2>3 DEF compactLedger, AllFacts
<1>20. ASSUME NEW c \in Callers, promoteLedger(c) PROVE MemoryShaped'
  <2>1. AllFacts(caller[c].read)
    BY <1>15, <1>20 DEF promoteLedger
  <2>2. AllFacts(repo)'
    BY <1>1, <1>20, <2>1 DEF promoteLedger, AllFacts
  <2>3. CallersShaped'
    BY <1>1, <1>20, CallMoves DEF promoteLedger, Places
  <2>4. LocksShaped'
    BY <1>1, <1>20 DEF promoteLedger, LocksShaped
  <2>5. QED
    BY <1>1, <1>2, <1>20, <2>2, <2>3, <2>4 DEF promoteLedger, AllFacts, AllLines
<1>21. ASSUME NEW c \in Callers, RenameFails(c) PROVE MemoryShaped'
  BY <1>1, <1>2, <1>3, <1>4, <1>21, CallMoves DEF RenameFails, Places
<1>22. ASSUME NEW c \in Callers, UnlinkLedger(c) PROVE MemoryShaped'
  <2>1. AllLines(ledger)'
    BY <1>1, <1>22 DEF UnlinkLedger, AllLines
  <2>2. CallersShaped' /\ LocksShaped'
    BY <1>1, <1>22, CallMoves, LocksMove DEF UnlinkLedger, Places
  <2>3. QED
    BY <1>1, <1>2, <1>22, <2>1, <2>2 DEF UnlinkLedger, AllFacts
<1>23. ASSUME NEW c \in Callers, renderMemory(c) PROVE MemoryShaped'
  <2>1. AllFacts(DiscoveryFacts(repo))
    BY <1>1 DEF DiscoveryFacts, AllFacts
  <2>2. CallersShaped'
    BY <1>1, <1>23, <2>1, FactsAreLines, CallTakes DEF renderMemory, Places
  <2>3. QED
    BY <1>2, <1>3, <1>4, <1>23, <2>2 DEF renderMemory
<1>24. ASSUME NEW c \in Callers, WriteMemoryMd(c) PROVE MemoryShaped'
  <2>1. AllFacts(memoryMd)'
    BY <1>15, <1>24 DEF WriteMemoryMd, AllFacts
  <2>2. CallersShaped'
    BY <1>1, <1>24, CallIsOver DEF WriteMemoryMd
  <2>3. QED
    BY <1>1, <1>2, <1>4, <1>24, <2>1, <2>2 DEF WriteMemoryMd, AllFacts, AllLines
<1>25. ASSUME NEW c \in Callers, CallerDies(c) PROVE MemoryShaped'
  BY <1>1, <1>2, <1>3, <1>4, <1>25, CallIsOver DEF CallerDies
<1>26. QED
  BY <1>5, <1>6, <1>8, <1>9, <1>10, <1>11, <1>12, <1>13, <1>14, <1>16, <1>17, <1>18, <1>19, <1>20,
     <1>21, <1>22, <1>23, <1>24, <1>25 DEF MemoryNext

LEMMA MemoryTypes == MemorySpec => []MemoryTypeOK
<1>1. ASSUME MemoryInit PROVE MemoryShaped
  BY <1>1, NoCallShaped DEF MemoryInit, MemoryShaped, AllLines, AllFacts
<1>2. ASSUME MemoryShaped, UNCHANGED memoryVars PROVE MemoryShaped'
  BY <1>2 DEF MemoryShaped, memoryVars, AllLines, AllFacts
<1>3. ASSUME MemoryShaped PROVE MemoryTypeOK
  BY <1>3 DEF MemoryShaped, CallShaped, AllLines, AllFacts, LineEvents, Places, MemoryTypeOK
<1>4. QED
  BY <1>1, <1>2, <1>3, MemoryStepShaped, PTL DEF MemorySpec
=============================================================================
