----------------------------- MODULE Approvals -----------------------------
(***************************************************************************)
(* The human gates at the grain of their reads and writes: the phrases of  *)
(* approval-listener, advanceHumanGate, the continuation into the          *)
(* implementation, spec-integrity-guard, the gate-advance hook's pinned    *)
(* commit, and the doctor, which compares the gate with the evidence and   *)
(* the trace.  GateMachine has each of them as one step.                   *)
(*                                                                         *)
(* A feature task from its plan on, its earlier evidence in place.  Every  *)
(* write but the doctor's raises stateVersion, kept here as whether it has *)
(* moved since gate-advance read it.                                       *)
(***************************************************************************)
EXTENDS GateTables, Sequences

CONSTANTS
  MaxText,       \* BOUND: texts of spec.md
  NoCall         \* nothing under way, nothing recorded

ASSUME ApprovalAssumption == MaxText \in Nat \ {0} /\ NoCall \notin 1 .. MaxText

VARIABLES
  doc,        \* task.json: the gate and the recorded specDigest
  spec,       \* the text of spec.md
  verified,   \* the digest of the passing verify-result.json
  trace,      \* the gate_transition events: the furthest gate, the human gates with an audit
  human,      \* the phrase approval-listener is handling
  guard,      \* the integrity guard's call
  adv,        \* the gate-advance hook's call
  ticking,    \* the digest complete-ac is about to record
  approved,   \* the digests a human approval, or complete-ac, has recorded or gone by
  fixed       \* the doctor's move: from where to where, and what it had found

approvalVars == <<doc, spec, verified, trace, human, guard, adv, ticking, approved, fixed>>

Texts == 1 .. MaxText

\* The feature lane's checkpoints.
LANE_EVIDENCE_CHAIN ==
  << "lane-set", "discovery-done", "grill-done", "plan-done", "spec-draft", "spec-approved",
     "impl-started", "verification-passed", "pr-ready" >>

Divergences == {"malformed-trace", "forged", "forward", "backward"}

HUMAN_AUDIT_GATES == {"spec-approved", "pr-ready"}

Place(gate) == CHOOSE i \in DOMAIN LANE_EVIDENCE_CHAIN : LANE_EVIDENCE_CHAIN[i] = gate
LateGates == { LANE_EVIDENCE_CHAIN[i] : i \in 4 .. 9 }
Docs == [gate : LateGates, digest : Texts]
GateEvents == [reached : LateGates, audited : SUBSET HUMAN_AUDIT_GATES]

HumanCalls ==
  [step : {"asked", "write", "trace", "continue", "start", "fail"}, to : LateGates, base : Docs]
AdvCalls == [base : Docs, tries : 0 .. 2, stale : BOOLEAN]
DoctorMoves == [from : LateGates, to : LateGates, found : SUBSET Divergences]

ASSUME DoctorAssumption == NoCall \notin DoctorMoves

ApprovalTypeOK ==
  /\ doc \in Docs
  /\ spec \in Texts
  /\ verified \in Texts \cup {NoCall}
  /\ trace \in GateEvents
  /\ human \in HumanCalls \cup {NoCall}
  /\ guard \in [step : {"mismatch", "trace"}, digest : Texts] \cup {NoCall}
  /\ adv \in AdvCalls \cup {NoCall}
  /\ ticking \in Texts \cup {NoCall}
  /\ approved \in SUBSET Texts
  /\ fixed \in DoctorMoves \cup {NoCall}

ApprovalInit ==
  /\ doc = [gate |-> "plan-done", digest |-> 1]
  /\ spec = 1
  /\ verified = NoCall
  /\ trace = [reached |-> "plan-done", audited |-> {}]
  /\ human = NoCall /\ guard = NoCall /\ adv = NoCall /\ ticking = NoCall
  /\ approved = {}
  /\ fixed = NoCall

Moved(d) == doc' = d

\* A write through the store: a pinned commit based on an earlier read conflicts.
Stored(d) ==
  /\ Moved(d)
  /\ adv' = IF adv = NoCall THEN adv ELSE [adv EXCEPT !.stale = TRUE]

Event(to, audited) ==
  [reached |-> IF Place(to) > Place(trace.reached) THEN to ELSE trace.reached,
   audited |-> IF audited THEN trace.audited \cup ({to} \cap HUMAN_AUDIT_GATES) ELSE trace.audited]

Keep == UNCHANGED <<spec, verified, ticking, fixed>>

-----------------------------------------------------------------------------
(* The human's phrases.                                                    *)

AskedFor(to) == [step |-> "asked", to |-> to, base |-> doc]

\* approve spec and approve pr: the gate the caller believes in.  Already there,
\* approve spec only resumes the continuation.
ApproveSpecAsks ==
  /\ human = NoCall
  /\ doc.gate # "impl-started"
  /\ human' = IF doc.gate = "spec-approved"
              THEN [AskedFor("spec-approved") EXCEPT !.step = "continue"]
              ELSE AskedFor("spec-approved")
  /\ UNCHANGED <<doc, trace, guard, adv, approved>> /\ Keep

ApprovePrAsks ==
  /\ human = NoCall
  /\ doc.gate # "pr-ready"
  /\ human' = AskedFor("pr-ready")
  /\ UNCHANGED <<doc, trace, guard, adv, approved>> /\ Keep

\* advanceHumanGate: a legal edge from the believed gate, which the state read
\* again must still be at.
HumanGateChecks ==
  /\ human # NoCall /\ human.step = "asked"
  /\ LET legal == <<human.base.gate, human.to>> \in LEGAL_TRANSITIONS
     IN  human' = IF legal /\ doc.gate = human.base.gate
                  THEN [human EXCEPT !.step = "write", !.base = doc] ELSE NoCall
  /\ UNCHANGED <<doc, trace, guard, adv, approved>> /\ Keep

\* The write is of the state just read, whatever has become of it since.
HumanGateWrites ==
  /\ human # NoCall /\ human.step = "write"
  /\ LET next == [human.base EXCEPT !.gate = human.to]
     IN  /\ Stored(next)
         /\ human' = [human EXCEPT !.step = "trace", !.base = next]
  /\ approved' = IF human.to = "spec-approved" THEN approved \cup {human.base.digest} ELSE approved
  /\ UNCHANGED <<trace, guard>> /\ Keep

\* The audited event comes after the gate; without it the phrase reports failure.
appendGateTransitionEvent ==
  /\ human # NoCall /\ human.step = "trace"
  /\ \/ /\ trace' = Event(human.to, TRUE)
        /\ human' = IF human.to = "spec-approved"
                    THEN [human EXCEPT !.step = "continue"] ELSE NoCall
     \/ /\ human' = NoCall
        /\ UNCHANGED trace
  /\ UNCHANGED <<doc, guard, adv, approved>> /\ Keep

\* continueApprovedFeature: the transition, the files and the workstreams, and
\* what is thrown on the way.
continueApprovedFeature ==
  /\ human # NoCall /\ human.step = "continue"
  /\ \E step \in {"start", "fail"} : human' = [human EXCEPT !.step = step]
  /\ UNCHANGED <<doc, trace, guard, adv, approved>> /\ Keep

ContinuationWrites ==
  /\ human # NoCall /\ human.step = "start"
  /\ Stored([human.base EXCEPT !.gate = "impl-started"])
  /\ human' = NoCall
  /\ UNCHANGED <<trace, guard, approved>> /\ Keep

\* The error goes beside the gate, by a locked merge.
persistContinuationError ==
  /\ human # NoCall /\ human.step = "fail"
  /\ Stored(doc)
  /\ human' = NoCall
  /\ UNCHANGED <<trace, guard, approved>> /\ Keep

\* revise scope: and re-plan:, from an implementation under way; its write is
\* the human gate's write without the check.
handleSteeringPhrase(to) ==
  /\ human = NoCall
  /\ doc.gate = "impl-started"
  /\ human' = [step |-> "write", to |-> to, base |-> doc]
  /\ UNCHANGED <<doc, trace, guard, adv, approved>> /\ Keep

\* The locked writes beside the gate, as the domains of a prompt.
recordDomainContext ==
  /\ adv # NoCall /\ ~adv.stale
  /\ Stored(doc)
  /\ UNCHANGED <<trace, human, guard, approved>> /\ Keep

-----------------------------------------------------------------------------
(* The spec, its integrity, and verification.                              *)

\* An edit, seen by the hook or not.
SpecEdited ==
  /\ spec < MaxText
  /\ spec' = spec + 1
  /\ UNCHANGED <<doc, verified, trace, human, guard, adv, ticking, approved, fixed>>

\* complete-ac, run at impl-started, ticks what the trace has complete in the
\* text it finds, approved or edited since,
CompleteAcTicks ==
  /\ ticking = NoCall
  /\ doc.gate = "impl-started"
  /\ \E text \in {spec, spec + 1} \cap Texts : spec' = text /\ ticking' = text
  /\ UNCHANGED <<doc, verified, trace, human, guard, adv, approved, fixed>>

\* and records the digest of what it left: a locked merge.
recordArtifactHash ==
  /\ ticking # NoCall
  /\ Stored([doc EXCEPT !.digest = ticking])
  /\ ticking' = NoCall
  /\ approved' = approved \cup {ticking}
  /\ UNCHANGED <<spec, verified, trace, human, guard, fixed>>

\* The guard decides on what it reads, at the hook of an edit or of a later one.
GuardReads ==
  /\ guard = NoCall
  /\ doc.gate = "spec-approved"
  /\ spec # doc.digest
  /\ guard' = [step |-> "mismatch", digest |-> spec]
  /\ UNCHANGED <<doc, trace, human, adv, approved>> /\ Keep

\* Mutant: the rollback stamps the new digest and forgets the gate.
RollbackKeepsGate ==
  /\ guard # NoCall /\ guard.step = "mismatch"
  /\ Stored([doc EXCEPT !.digest = guard.digest])
  /\ guard' = [guard EXCEPT !.step = "trace"]
  /\ UNCHANGED <<trace, human, approved>> /\ Keep

\* The rollback is a locked merge: gate and digest on the state of the moment.
rollbackState ==
  /\ guard # NoCall /\ guard.step = "mismatch"
  /\ Stored([doc EXCEPT !.gate = "spec-draft", !.digest = guard.digest])
  /\ guard' = [guard EXCEPT !.step = "trace"]
  /\ UNCHANGED <<trace, human, approved>> /\ Keep

\* spec_invalidated, and the gate event, unaudited.
recordSpecInvalidated ==
  /\ guard # NoCall /\ guard.step = "trace"
  /\ trace' = Event("spec-draft", FALSE)
  /\ guard' = NoCall
  /\ UNCHANGED <<doc, human, adv, approved>> /\ Keep

\* A passing run of the verification.
Verified ==
  /\ doc.gate = "impl-started"
  /\ verified' = doc.digest
  /\ UNCHANGED <<doc, spec, trace, human, guard, adv, ticking, approved, fixed>>

-----------------------------------------------------------------------------
(* The gate-advance hook.                                                  *)

\* The digest stamp at the draft gates, and the one move the evidence allows.
advanceAlongLane(d) ==
  LET stamped == IF d.gate \in {"plan-done", "spec-draft"} THEN [d EXCEPT !.digest = spec] ELSE d
  IN  CASE d.gate = "plan-done" -> [stamped EXCEPT !.gate = "spec-draft"]
        [] d.gate = "impl-started" /\ verified = d.digest -> [d EXCEPT !.gate = "verification-passed"]
        [] OTHER -> stamped

AdvanceReads ==
  /\ adv = NoCall
  /\ advanceAlongLane(doc) # doc
  /\ adv' = [base |-> doc, tries |-> 0, stale |-> FALSE]
  /\ UNCHANGED <<doc, trace, human, guard, approved>> /\ Keep

\* Pinned to the version read: on a conflict the hook reads again, three times
\* in all, and then leaves it to the next hook.
AdvanceCommits ==
  /\ adv # NoCall
  /\ \/ /\ ~adv.stale
        /\ Moved(advanceAlongLane(adv.base))
        /\ adv' = NoCall
        /\ trace' = IF doc'.gate # adv.base.gate THEN Event(doc'.gate, FALSE) ELSE trace
     \/ /\ adv.stale
        /\ adv' = IF adv.tries < 2 /\ advanceAlongLane(doc) # doc
                  THEN [base |-> doc, tries |-> adv.tries + 1, stale |-> FALSE] ELSE NoCall
        /\ UNCHANGED <<doc, trace>>
  /\ UNCHANGED <<human, guard, approved>> /\ Keep

-----------------------------------------------------------------------------
(* lib/gate-consistency.mjs and devmate-doctor.                            *)

\* The artifact of a checkpoint: the verification's is a passing result of this
\* task; whose text it was, and when, is not asked.
resolveArtifactPresent(gate) == gate = "verification-passed" => verified # NoCall

Audited(gate) == gate \in trace.audited

Backed(gate) ==
  resolveArtifactPresent(gate) /\ (gate \in HUMAN_AUDIT_GATES => Audited(gate))

\* The last checkpoint that it and all before it are backed at.
EvidenceBackedGate ==
  LET backed == { i \in DOMAIN LANE_EVIDENCE_CHAIN : \A j \in 1 .. i : Backed(LANE_EVIDENCE_CHAIN[j]) }
  IN  LANE_EVIDENCE_CHAIN[CHOOSE i \in backed : \A j \in backed : j <= i]

\* torn: more malformed lines than the threshold.
analyzeGateConsistency(torn) ==
  { d \in Divergences :
      CASE d = "malformed-trace" -> torn
        [] d = "forged" -> doc.gate \in HUMAN_AUDIT_GATES /\ ~Audited(doc.gate)
        [] d = "forward" -> Place(doc.gate) > Place(EvidenceBackedGate)
        [] d = "backward" -> Place(trace.reached) > Place(doc.gate) }

\* --fix, under the lock, whatever the trace's lines are like; the version stays
\* as it was.  The spec's hashes go with a target before spec-draft, which the
\* evidence in place rules out.
runGateConsistency ==
  \E torn \in BOOLEAN :
    LET found == analyzeGateConsistency(torn)
    IN  /\ found # {}
        /\ EvidenceBackedGate # doc.gate
        /\ Moved([doc EXCEPT !.gate = EvidenceBackedGate])
        /\ trace' = Event(EvidenceBackedGate, TRUE)
        /\ fixed' = [from |-> doc.gate, to |-> EvidenceBackedGate, found |-> found]
        /\ UNCHANGED <<spec, verified, human, guard, adv, ticking, approved>>

\* BOUND: up to the doctor's first move.
ApprovalNext ==
  /\ fixed = NoCall
  /\ \/ ApproveSpecAsks \/ ApprovePrAsks \/ HumanGateChecks \/ HumanGateWrites
     \/ appendGateTransitionEvent \/ continueApprovedFeature \/ ContinuationWrites
     \/ persistContinuationError
     \/ \E to \in {"spec-draft", "plan-done"} : handleSteeringPhrase(to)
     \/ recordDomainContext
     \/ SpecEdited \/ CompleteAcTicks \/ recordArtifactHash
     \/ GuardReads \/ rollbackState \/ recordSpecInvalidated
     \/ Verified
     \/ AdvanceReads \/ AdvanceCommits
     \/ runGateConsistency

ApprovalSpec == ApprovalInit /\ [][ApprovalNext]_approvalVars

-----------------------------------------------------------------------------

(***************************************************************************)
(* Whatever read before it writes, and whoever gets in between, a task     *)
(* past the spec's approval records a digest that a human's approve spec   *)
(* was given for, or complete-ac recorded for the boxes it ticked: neither *)
(* the continuation's blind write, nor the guard's rollback of a state     *)
(* that has moved on, nor a stamp of the hook leaves an implementation     *)
(* under way on another.  (The doctor's --fix does: the next property.)    *)
(***************************************************************************)
ApprovedDigestOnly ==
  fixed = NoCall /\ Place(doc.gate) > Place("spec-draft") => doc.digest \in approved

(***************************************************************************)
(* devmate-doctor --fix: "the gate is rolled back to the last              *)
(* evidence-backed gate".  On a sound trace it never moves the gate        *)
(* forward.  The code does (the README's findings): after a legal revise   *)
(* scope, or an integrity rollback, the trace is ahead of the gate, and    *)
(* the approval recorded for the earlier text still backs the gates past   *)
(* it.                                                                     *)
(***************************************************************************)
FixOnlyRollsBack ==
  fixed # NoCall /\ "malformed-trace" \notin fixed.found => Place(fixed.to) < Place(fixed.from)
=============================================================================
