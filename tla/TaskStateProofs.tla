-------------------------- MODULE TaskStateProofs --------------------------
(***************************************************************************)
(* Proofs about TaskState: without blind writers the mutation API is the   *)
(* atomic store of AbstractTaskStore, for any set of calls and any bound   *)
(* on the attempts, whatever processes die and wherever a write fails.     *)
(***************************************************************************)
EXTENDS TaskState, SequenceTheorems, FiniteSetTheorems, TLAPS

\* Every caller goes through mutateTaskStateUnderLock.
NoBlind == BlindWriters = {}

USE DEF Pcs, LockedPcs, Outcomes

LEMMA InitApiInv == Init => ApiInv
<1> SUFFICES ASSUME Init PROVE ApiInv
  OBVIOUS
<1>1. TypeOK
  BY AttemptsAssumption DEF Init, TypeOK, States, Empty
<1>2. AttemptLeft /\ OwnTmp /\ FreshBase /\ VersionNames /\ PinGuaranteesSnapshot /\ HonestOutcome
  BY AttemptsAssumption DEF Init, OwnTmp, FreshBase, VersionNames, PinGuaranteesSnapshot,
         HonestOutcome, AttemptLeft, Empty, Writer
<1>3. LogBehind /\ LogOrdered
  BY DEF Init, LogBehind, LogOrdered
<1>4. QED
  BY <1>1, <1>2, <1>3 DEF ApiInv

\* A candidate is a document.
LEMMA CandidateType ==
  ASSUME TypeOK, NEW w \in Writer
  PROVE  Candidate(w) \in States
BY DEF TypeOK, Candidate, States

\* Every record of the log has two versions.
LEMMA LogType ==
  ASSUME log \in Seq(Records)
  PROVE  /\ Len(log) \in Nat
         /\ \A i \in 1 .. Len(log) : log[i].fromVersion \in Nat /\ log[i].toVersion \in Nat
<1>1. Len(log) \in Nat /\ log \in [1 .. Len(log) -> Records]
  BY LenProperties
<1>2. \A i \in 1 .. Len(log) : log[i] \in Records
  BY <1>1
<1>3. QED
  BY <1>1, <1>2 DEF Records

\* What a call that passed the check under the lock commits: the document on
\* disk with its update added and the version bumped.
LEMMA CandidateExtendsFile ==
  ASSUME NoBlind, ApiInv, NEW w \in Writer, pc[w] \in {"openTmp", "fillTmp", "rename"}
  PROVE  Candidate(w) = [version |-> file.version + 1, applied |-> file.applied \cup {w}]
<1>1. base[w] = file
  BY DEF ApiInv, FreshBase, NoBlind
<1>2. w \in CasWriters => snap[w] = file
  BY DEF ApiInv, PinGuaranteesSnapshot
<1>3. QED
  BY <1>1, <1>2 DEF Candidate, NoBlind, Writer

\* Every step keeps the invariant.
LEMMA StepApiInv ==
  ASSUME NoBlind, ApiInv, [Next]_vars
  PROVE  ApiInv'
<1> USE NoBlind, KindsAssumption, AttemptsAssumption
    DEF NoBlind, ApiInv, Writer, Goto, Leave, Lock!Acquire, Lock!Release, TypeOK, OwnTmp,
        AttemptLeft, FreshBase, VersionNames, PinGuaranteesSnapshot, HonestOutcome, LogBehind, LogOrdered,
        States, Candidate
<1>1. ASSUME NEW w \in Writer, Begin(w)
      PROVE  ApiInv'
  <2>1. TypeOK' /\ AttemptLeft'
    <3>1. tries' \in [Writer -> 0 .. Attempts]
      BY <1>1 DEF Begin
    <3>2. QED
      BY <1>1, <3>1 DEF Begin
  <2>2. OwnTmp' /\ FreshBase'
    BY <1>1 DEF Begin
  <2>3. VersionNames' /\ PinGuaranteesSnapshot'
    BY <1>1 DEF Begin
  <2>4. HonestOutcome'
    BY <1>1 DEF Begin
  <2>5. LogBehind' /\ LogOrdered'
    BY <1>1 DEF Begin
  <2>6. QED
    BY <2>1, <2>2, <2>3, <2>4, <2>5
<1>2. ASSUME NEW w \in Writer, ProduceNothing(w)
      PROVE  ApiInv'
  BY <1>2 DEF ProduceNothing
<1>3. ASSUME NEW w \in Writer, Acquire(w)
      PROVE  ApiInv'
  BY <1>3 DEF Acquire
<1>4. ASSUME NEW w \in Writer, LockFails(w)
      PROVE  ApiInv'
  BY <1>4 DEF LockFails
<1>5. ASSUME NEW w \in Writer, ReadCurrent(w)
      PROVE  ApiInv'
  <2>1. TypeOK' /\ AttemptLeft'
    BY <1>5 DEF ReadCurrent
  <2>2. OwnTmp' /\ FreshBase'
    BY <1>5 DEF ReadCurrent
  <2>3. VersionNames' /\ PinGuaranteesSnapshot'
    BY <1>5 DEF ReadCurrent
  <2>4. HonestOutcome'
    BY <1>5 DEF ReadCurrent
  <2>5. LogBehind' /\ LogOrdered'
    BY <1>5 DEF ReadCurrent
  <2>6. QED
    BY <2>1, <2>2, <2>3, <2>4, <2>5
<1>6. ASSUME NEW w \in Writer, Mutate(w)
      PROVE  ApiInv'
  <2>1. PICK r \in {"none", "unchanged", "invalid"}, l \in {"openTmp", "unlock"} :
          /\ outcome' = IF r = "none" THEN outcome ELSE [outcome EXCEPT ![w] = r]
          /\ pc' = [pc EXCEPT ![w] = l]
    BY <1>6 DEF Mutate
  <2>2. TypeOK' /\ AttemptLeft'
    BY <1>6, <2>1 DEF Mutate
  <2>3. OwnTmp' /\ FreshBase'
    BY <1>6 DEF Mutate
  <2>4. VersionNames' /\ PinGuaranteesSnapshot'
    BY <1>6 DEF Mutate
  <2>5. HonestOutcome'
    BY <1>6 DEF Mutate
  <2>6. LogBehind' /\ LogOrdered'
    BY <1>6 DEF Mutate
  <2>7. QED
    BY <2>2, <2>3, <2>4, <2>5, <2>6
<1>7. ASSUME NEW w \in Writer, OpenTmp(w)
      PROVE  ApiInv'
  BY <1>7 DEF OpenTmp
<1>8. ASSUME NEW w \in Writer, FillTmp(w)
      PROVE  ApiInv'
  <2>1. TypeOK' /\ AttemptLeft'
    BY <1>8 DEF FillTmp
  <2>2. OwnTmp' /\ FreshBase'
    BY <1>8 DEF FillTmp
  <2>3. VersionNames' /\ PinGuaranteesSnapshot'
    BY <1>8 DEF FillTmp
  <2>4. HonestOutcome'
    BY <1>8 DEF FillTmp
  <2>5. LogBehind' /\ LogOrdered'
    BY <1>8 DEF FillTmp
  <2>6. QED
    BY <2>1, <2>2, <2>3, <2>4, <2>5
<1>9. ASSUME NEW w \in Writer, CommitFails(w)
      PROVE  ApiInv'
  BY <1>9 DEF CommitFails
<1>10. ASSUME NEW w \in Writer, Rename(w)
       PROVE  ApiInv'
  <2>1. file' = [version |-> file.version + 1, applied |-> file.applied \cup {w}]
    BY <1>10, CandidateExtendsFile DEF Rename
  <2>2. \A q \in Writer \ {w} : pc'[q] = pc[q] /\ pc[q] \notin LockedPcs
    BY <1>10 DEF Rename
  <2>3. pc'[w] = "append" /\ base[w] = file /\ file.version \in Nat
    BY <1>10 DEF Rename
  <2>4. TypeOK' /\ AttemptLeft'
    BY <1>10, <2>1 DEF Rename
  <2>5. OwnTmp' /\ FreshBase'
    BY <1>10, <2>2, <2>3 DEF Rename
  <2>6. VersionNames' /\ PinGuaranteesSnapshot'
    <3>1. \A q \in CasWriters : pc'[q] \in {"lock"} \cup LockedPcs =>
            snap'[q] = snap[q] /\ snap[q].version \in Nat /\ snap[q].version <= file.version
      BY <1>10, <2>2 DEF Rename
    <3>2. \A q \in CasWriters : pc'[q] \in {"lock"} \cup LockedPcs =>
            snap'[q].version < file'.version
      BY <3>1, <2>1, <2>3
    <3>3. VersionNames'
      BY <3>1, <3>2, <2>1, <2>3
    <3>4. QED
      BY <3>3, <2>2, <2>3
  <2>7. HonestOutcome'
    BY <1>10, <2>1 DEF Rename
  <2>8. LogBehind' /\ LogOrdered'
    <3>1. log' = log /\ base' = base
      BY <1>10 DEF Rename
    <3>2. \A i \in 1 .. Len(log) : log[i].toVersion \in Nat
      BY LogType
    <3>3. QED
      BY <2>1, <2>2, <2>3, <3>1, <3>2
  <2>9. QED
    BY <2>4, <2>5, <2>6, <2>7, <2>8
<1>11. ASSUME NEW w \in Writer, AppendTransitionRecord(w)
       PROVE  ApiInv'
  <2> DEFINE r == [writer |-> w, fromVersion |-> base[w].version, toVersion |-> base[w].version + 1]
  <2>1. r \in Records /\ log' = Append(log, r)
    BY <1>11 DEF AppendTransitionRecord, Records
  <2>2. /\ log' \in Seq(Records)
        /\ Len(log') = Len(log) + 1
        /\ \A i \in 1 .. Len(log) : log'[i] = log[i]
        /\ log'[Len(log) + 1] = r
    BY <2>1, AppendProperties
  <2>3. TypeOK' /\ AttemptLeft'
    BY <1>11, <2>2 DEF AppendTransitionRecord
  <2>4. OwnTmp' /\ FreshBase'
    BY <1>11 DEF AppendTransitionRecord
  <2>5. VersionNames' /\ PinGuaranteesSnapshot'
    BY <1>11 DEF AppendTransitionRecord
  <2>6. HonestOutcome'
    BY <1>11 DEF AppendTransitionRecord
  <2>7. LogBehind' /\ LogOrdered'
    <3>1. /\ file' = file /\ file.version = base[w].version + 1 /\ base[w].version \in Nat
          /\ \A i \in 1 .. Len(log) : log[i].toVersion <= base[w].version
      BY <1>11 DEF AppendTransitionRecord
    <3>2. \A i \in 1 .. Len(log) : log[i].toVersion \in Nat /\ log[i].fromVersion \in Nat
      BY LogType
    <3>3. Len(log) \in Nat /\ r.fromVersion = base[w].version /\ r.toVersion = file.version
      <4>1. Len(log) \in Nat
        BY LogType
      <4>2. r.fromVersion = base[w].version /\ r.toVersion = base[w].version + 1
        OBVIOUS
      <4>3. QED
        BY <3>1, <4>1, <4>2
    <3>4. \A q \in Writer : pc'[q] # "append"
      <4>1. \A q \in Writer \ {w} : pc'[q] = pc[q] /\ pc[q] \notin LockedPcs
        BY <1>11 DEF AppendTransitionRecord
      <4>2. pc'[w] = "unlock"
        BY <1>11 DEF AppendTransitionRecord
      <4>3. QED
        BY <4>1, <4>2
    <3> HIDE DEF r
    <3>5. \A i, j \in 1 .. Len(log') : i < j => log'[i].toVersion <= log'[j].fromVersion
      <4>1. ASSUME NEW i \in 1 .. Len(log'), NEW j \in 1 .. Len(log'), i < j
            PROVE  log'[i].toVersion <= log'[j].fromVersion
        <5>1. i \in 1 .. Len(log) /\ log'[i] = log[i]
          BY <4>1, <2>2, <3>3
        <5>2. CASE j \in 1 .. Len(log)
          BY <4>1, <5>1, <5>2, <2>2
        <5>3. CASE j = Len(log) + 1
          BY <5>1, <5>3, <2>2, <3>1, <3>3
        <5>4. QED
          BY <5>2, <5>3, <2>2, <3>3
      <4>2. QED
        BY <4>1
    <3>6. \A i \in 1 .. Len(log') : log'[i].toVersion <= file'.version
      <4>1. ASSUME NEW i \in 1 .. Len(log')
            PROVE  log'[i].toVersion <= file'.version
        <5>1. CASE i \in 1 .. Len(log)
          BY <5>1, <2>2, <3>1, <3>2
        <5>2. CASE i = Len(log) + 1
          BY <5>2, <2>2, <3>1, <3>3
        <5>3. QED
          BY <5>1, <5>2, <2>2, <3>3
      <4>2. QED
        BY <4>1
    <3>7. QED
      BY <3>4, <3>5, <3>6
  <2>8. QED
    BY <2>3, <2>4, <2>5, <2>6, <2>7
<1>12. ASSUME NEW w \in Writer, AppendFails(w)
       PROVE  ApiInv'
  BY <1>12 DEF AppendFails
<1>13. ASSUME NEW w \in Writer, Release(w)
       PROVE  ApiInv'
  BY <1>13 DEF Release
<1>14. ASSUME NEW w \in Writer, Return(w)
       PROVE  ApiInv'
  BY <1>14 DEF Return
<1>15. ASSUME NEW w \in Writer, Crash(w)
       PROVE  ApiInv'
  BY <1>15 DEF Crash
<1>16. ASSUME NEW w \in Writer, Reclaim(w)
       PROVE  ApiInv'
  BY <1>16 DEF Reclaim
<1>17. ASSUME UNCHANGED vars
       PROVE  ApiInv'
  BY <1>17 DEF vars
<1>18. QED
  BY <1>1, <1>2, <1>3, <1>4, <1>5, <1>6, <1>7, <1>8, <1>9, <1>10, <1>11, <1>12, <1>13, <1>14,
     <1>15, <1>16, <1>17 DEF Next, Step

-----------------------------------------------------------------------------
(* The theorems.                                                           *)

\* mutateTaskStateUnderLock and mutateTaskStateWithRetry keep the whole
\* invariant, for any set of calls.
THEOREM ApiInvHolds ==
  ASSUME NoBlind PROVE Spec => []ApiInv
<1>1. Init => ApiInv
  BY InitApiInv
<1>2. ApiInv /\ [Next]_vars => ApiInv'
  BY StepApiInv
<1>3. QED
  BY <1>1, <1>2, PTL DEF Spec

\* The comment at the CAS commit is right as long as nobody writes blind: the
\* pinned version guarantees that the document on disk is the snapshot.
THEOREM PinHolds ==
  ASSUME NoBlind PROVE Spec => []PinGuaranteesSnapshot
<1>1. ApiInv => PinGuaranteesSnapshot
  BY DEF ApiInv
<1>2. QED
  BY <1>1, ApiInvHolds, PTL

\* The transition log is in version order, whatever dies or fails between a
\* commit and its record.
THEOREM LogOrderedHolds ==
  ASSUME NoBlind PROVE Spec => []LogOrdered
<1>1. ApiInv => LogOrdered
  BY DEF ApiInv
<1>2. QED
  BY <1>1, ApiInvHolds, PTL

LEMMA InitStore == Init => Store!Init
BY DEF Init, Store!Init, Empty

\* A step either leaves the store alone, commits one call, or answers one.
LEMMA StepStore ==
  ASSUME NoBlind, ApiInv, [Next]_vars
  PROVE  [Store!Next]_(Store!vars)
<1>1. ASSUME NEW w \in Writer, Rename(w)
      PROVE  Store!Commit(w)
  <2>1. file' = [version |-> file.version + 1, applied |-> file.applied \cup {w}]
    BY <1>1, CandidateExtendsFile DEF Rename, ApiInv, OwnTmp
  <2>2. answer[w] = "pending" /\ w \notin file.applied
    BY <1>1 DEF Rename, ApiInv, HonestOutcome
  <2>3. QED
    BY <1>1, <2>1, <2>2 DEF Rename, Store!Commit
<1>2. ASSUME NEW w \in Writer, Return(w)
      PROVE  Store!Answer(w)
  BY <1>2 DEF Return, Store!Answer, ApiInv, HonestOutcome
<1>3. ASSUME NEW w \in Writer,
             \/ Begin(w) \/ ProduceNothing(w) \/ Acquire(w) \/ LockFails(w)
             \/ ReadCurrent(w) \/ Mutate(w) \/ OpenTmp(w) \/ FillTmp(w) \/ CommitFails(w)
             \/ AppendTransitionRecord(w) \/ AppendFails(w) \/ Release(w) \/ Crash(w)
             \/ Reclaim(w)
      PROVE  UNCHANGED Store!vars
  BY <1>3 DEF Begin, ProduceNothing, Acquire, LockFails, ReadCurrent, Mutate, OpenTmp,
              FillTmp, CommitFails, AppendTransitionRecord, AppendFails, Release, Crash,
              Reclaim, Store!vars
<1>4. CASE UNCHANGED vars
  BY <1>4 DEF vars, Store!vars
<1>5. QED
  BY <1>1, <1>2, <1>3, <1>4 DEF Next, Step, Store!Next

\* Without blind writers the mutation API implements the atomic store: no
\* update is lost, each bumps the version once, the answer is honest.
THEOREM ImplementsStoreHolds ==
  ASSUME NoBlind PROVE Spec => ImplementsStore
<1>1. Init => Store!Init
  BY InitStore
<1>2. ApiInv /\ [Next]_vars => [Store!Next]_(Store!vars)
  BY StepStore
<1>3. QED
  BY <1>1, <1>2, ApiInvHolds, PTL DEF Spec, ImplementsStore, Store!Spec

-----------------------------------------------------------------------------
(* What a conflict costs.                                                  *)

\* Each commit bumps the version by one and adds one call.
VersionCounts ==
  IsFiniteSet(file.applied) /\ file.version = Cardinality(file.applied)

\* An attempt after n others starts from a document of n commits at least, and
\* one more has been made when it conflicts.
AttemptCost(w) ==
  /\ pc[w] \in {"lock"} \cup LockedPcs => snap[w].version + 1 >= tries[w]
  /\ outcome[w] = "conflict" /\ pc[w] \in {"unlock", "start", "return", "done"}
       => file.version >= tries[w]
  /\ outcome[w] = "conflict" /\ pc[w] \in {"return", "done"} => tries[w] = Attempts
  /\ pc[w] = "start" => tries[w] = 0 \/ outcome[w] = "conflict"
  /\ pc[w] = "append" => outcome[w] = "written"
  /\ pc[w] # "done" => answer[w] = "pending"

AttemptsCost == \A w \in CasWriters : AttemptCost(w)

RetryInv == VersionCounts /\ AttemptsCost

LEMMA StepRetryInv ==
  ASSUME NoBlind, ApiInv, RetryInv, [Next]_vars
  PROVE  RetryInv'
<1> USE NoBlind, KindsAssumption, AttemptsAssumption
    DEF NoBlind, Writer, Goto, Leave, AttemptsCost, AttemptCost, States
<1>0. /\ tries \in [Writer -> 0 .. Attempts] /\ snap \in [Writer -> States] /\ file \in States
      /\ pc \in [Writer -> Pcs] /\ outcome \in [Writer -> Outcomes]
      /\ answer \in [Writer -> {"pending", "written", "notWritten"}]
  BY DEF ApiInv, TypeOK
<1>1. ASSUME NEW w \in Writer, Rename(w)
      PROVE  RetryInv'
  <2>1. file' = [version |-> file.version + 1, applied |-> file.applied \cup {w}]
    BY <1>1, CandidateExtendsFile DEF Rename, ApiInv, OwnTmp
  <2>2. w \notin file.applied
    BY <1>1 DEF Rename, ApiInv, HonestOutcome
  <2>3. VersionCounts'
    <3>1. file'.version = file.version + 1 /\ file'.applied = file.applied \cup {w}
      BY <2>1
    <3>2. IsFiniteSet(file.applied) /\ file.version = Cardinality(file.applied)
      BY DEF RetryInv, VersionCounts
    <3>3. /\ IsFiniteSet(file.applied \cup {w})
          /\ Cardinality(file.applied \cup {w}) = Cardinality(file.applied) + 1
      BY <2>2, <3>2, FS_AddElement
    <3>4. QED
      BY <3>1, <3>2, <3>3 DEF VersionCounts
  <2>4. file'.version > file.version
    BY <1>0, <2>1
  <2>5. ASSUME NEW q \in CasWriters
        PROVE  AttemptCost(q)'
    <3>1. /\ tries' = tries /\ snap' = snap /\ answer' = answer
          /\ pc[w] = "rename" /\ pc'[w] \in {"append", "unlock"} /\ outcome'[w] = "written"
      BY <1>0, <1>1 DEF Rename
    <3>2. AttemptCost(q) /\ tries[q] \in Nat /\ file'.version \in Nat /\ file.version \in Nat
      BY <1>0, <2>1 DEF RetryInv
    <3>3. CASE q = w
      BY <3>1, <3>2, <3>3 DEF LockedPcs
    <3>4. CASE q # w
      <4>1. pc'[q] = pc[q] /\ outcome'[q] = outcome[q]
        BY <1>0, <1>1, <3>4 DEF Rename
      <4>2. QED
        BY <2>4, <3>1, <3>2, <4>1
    <3>5. QED
      BY <3>3, <3>4
  <2>6. QED
    BY <2>3, <2>5 DEF RetryInv
<1>2. ASSUME file' = file, AttemptsCost'
      PROVE  RetryInv'
  BY <1>2 DEF RetryInv, VersionCounts
<1>3. ASSUME NEW w \in Writer, Begin(w)
      PROVE  RetryInv'
  BY <1>0, <1>2, <1>3 DEF RetryInv, Begin
<1>4. ASSUME NEW w \in Writer, ReadCurrent(w)
      PROVE  RetryInv'
  <2>1. \A q \in CasWriters : pc[q] = "locked" =>
          snap[q].version <= file.version /\ snap[q].version \in Nat /\ file.version \in Nat
    BY <1>0 DEF ApiInv, VersionNames
  <2>2. ASSUME NEW q \in CasWriters
        PROVE  AttemptCost(q)'
    <3>1. /\ file' = file /\ tries' = tries /\ snap' = snap /\ answer' = answer
          /\ pc[w] = "locked"
      BY <1>4 DEF ReadCurrent
    <3>2. /\ AttemptCost(q) /\ tries[q] \in Nat /\ file.version \in Nat
          /\ snap[q].version \in Nat
      BY <1>0 DEF RetryInv
    <3>3. CASE q = w
      <4>1. CASE file.version # snap[w].version
        <5>1. pc'[w] = "unlock" /\ outcome'[w] = "conflict"
          BY <1>0, <1>4, <3>3, <4>1 DEF ReadCurrent
        <5>2. snap[w].version < file.version
          BY <2>1, <3>1, <3>3, <4>1
        <5>3. QED
          BY <3>1, <3>2, <3>3, <5>1, <5>2 DEF LockedPcs
      <4>2. CASE file.version = snap[w].version
        <5>1. pc'[w] = "produce" /\ outcome' = outcome
          BY <1>0, <1>4, <3>3, <4>2 DEF ReadCurrent
        <5>2. QED
          BY <3>1, <3>2, <3>3, <5>1 DEF LockedPcs
      <4>3. QED
        BY <4>1, <4>2
    <3>4. CASE q # w
      <4>1. pc'[q] = pc[q] /\ outcome'[q] = outcome[q]
        BY <1>0, <1>4, <3>4 DEF ReadCurrent
      <4>2. QED
        BY <3>1, <3>2, <4>1
    <3>5. QED
      BY <3>3, <3>4
  <2>3. QED
    BY <1>2, <1>4, <2>2 DEF ReadCurrent
<1>5. ASSUME NEW w \in Writer, Release(w)
      PROVE  RetryInv'
  <2>1. ASSUME NEW q \in CasWriters
        PROVE  AttemptCost(q)'
    <3>1. /\ file' = file /\ tries' = tries /\ snap' = snap /\ answer' = answer
          /\ outcome' = outcome /\ pc[w] = "unlock"
      BY <1>5 DEF Release
    <3>2. AttemptCost(q) /\ tries[q] \in 0 .. Attempts
      BY <1>0 DEF RetryInv
    <3>3. CASE q = w
      <4>1. pc'[w] = IF outcome[w] = "conflict" /\ tries[w] < Attempts THEN "start" ELSE "return"
        BY <1>0, <1>5 DEF Release
      <4>2. QED
        BY <3>1, <3>2, <3>3, <4>1 DEF LockedPcs
    <3>4. CASE q # w
      <4>1. pc'[q] = pc[q]
        BY <1>0, <1>5, <3>4 DEF Release
      <4>2. QED
        BY <3>1, <3>2, <4>1
    <3>5. QED
      BY <3>3, <3>4
  <2>2. QED
    BY <1>2, <1>5, <2>1 DEF Release
<1>6. ASSUME NEW w \in Writer, Return(w)
      PROVE  RetryInv'
  BY <1>0, <1>2, <1>6 DEF RetryInv, Return
<1>7. ASSUME NEW w \in Writer, ProduceNothing(w) \/ LockFails(w) \/ Mutate(w) \/ CommitFails(w)
      PROVE  RetryInv'
  BY <1>0, <1>2, <1>7 DEF RetryInv, ProduceNothing, LockFails, Mutate, CommitFails
<1>8. ASSUME NEW w \in Writer,
             \/ Acquire(w) \/ OpenTmp(w) \/ FillTmp(w) \/ AppendTransitionRecord(w)
             \/ AppendFails(w) \/ Crash(w) \/ Reclaim(w)
      PROVE  RetryInv'
  BY <1>0, <1>2, <1>8 DEF RetryInv, Acquire, OpenTmp, FillTmp, AppendTransitionRecord,
                          AppendFails, Crash, Reclaim
<1>9. CASE UNCHANGED vars
  BY <1>2, <1>9 DEF RetryInv, vars
<1>10. QED
  BY <1>1, <1>3, <1>4, <1>5, <1>6, <1>7, <1>8, <1>9 DEF Next, Step

\* A call that answers `conflict` has lost to as many commits as it had attempts,
\* for any number of callers.
THEOREM ConflictMeansProgressHolds ==
  ASSUME NoBlind PROVE Spec => []ConflictMeansProgress
<1>1. Init => RetryInv
  <2>1. SUFFICES ASSUME Init PROVE RetryInv
    OBVIOUS
  <2>2. VersionCounts
    BY <2>1, FS_EmptySet DEF Init, Empty, VersionCounts
  <2>3. AttemptsCost
    BY <2>1 DEF Init, AttemptsCost, AttemptCost, Empty, LockedPcs, Writer
  <2>4. QED
    BY <2>2, <2>3 DEF RetryInv
<1>2. ApiInv /\ RetryInv /\ [Next]_vars => RetryInv'
  BY StepRetryInv
<1>3. ApiInv /\ RetryInv => ConflictMeansProgress
  <2>1. SUFFICES ASSUME ApiInv, RetryInv, NEW w \in CasWriters,
                        answer[w] = "notWritten", outcome[w] = "conflict"
                 PROVE  Cardinality(file.applied) >= Attempts
    BY DEF ConflictMeansProgress
  <2>2. pc[w] = "done"
    BY <2>1 DEF RetryInv, AttemptsCost, AttemptCost
  <2>3. QED
    BY <2>1, <2>2 DEF RetryInv, AttemptsCost, AttemptCost, VersionCounts
<1>4. QED
  BY <1>1, <1>2, <1>3, ApiInvHolds, PTL DEF Spec

-----------------------------------------------------------------------------
(* Among blind writers.                                                    *)

\* The types of what a commit is made of.
MixTyped ==
  /\ file \in States
  /\ tmp \in {NoTmp, Torn} \cup States
  /\ holders \in SUBSET Writer
  /\ pc \in [Writer -> Pcs]
  /\ snap \in [Writer -> States]
  /\ base \in [Writer -> States]

\* The lock keeps the others out of a call's .tmp, and the document as the call
\* read it, whatever the others are.
MixInv == MixTyped /\ OwnTmp /\ FreshBase

LEMMA StepMixInv ==
  ASSUME MixInv, [Next]_vars
  PROVE  MixInv'
<1> USE KindsAssumption
    DEF MixInv, MixTyped, OwnTmp, FreshBase, Writer, Goto, Leave, Lock!Acquire, Lock!Release,
        States, Candidate
<1>1. ASSUME NEW w \in Writer, Begin(w)
      PROVE  MixInv'
  BY <1>1 DEF Begin
<1>2. ASSUME NEW w \in Writer, ProduceNothing(w) \/ LockFails(w) \/ CommitFails(w)
      PROVE  MixInv'
  BY <1>2 DEF ProduceNothing, LockFails, CommitFails
<1>3. ASSUME NEW w \in Writer, Acquire(w)
      PROVE  MixInv'
  BY <1>3 DEF Acquire
<1>4. ASSUME NEW w \in Writer, ReadCurrent(w)
      PROVE  MixInv'
  BY <1>4 DEF ReadCurrent
<1>5. ASSUME NEW w \in Writer, Mutate(w)
      PROVE  MixInv'
  <2>1. PICK l \in {"openTmp", "unlock"} : pc' = [pc EXCEPT ![w] = l]
    BY <1>5 DEF Mutate
  <2>2. UNCHANGED <<file, tmp, holders, snap, base>> /\ pc[w] = "produce"
    BY <1>5 DEF Mutate
  <2>3. MixTyped' /\ OwnTmp'
    BY <2>1, <2>2
  <2>4. FreshBase'
    BY <2>1, <2>2
  <2>5. QED
    BY <2>3, <2>4
<1>6. ASSUME NEW w \in Writer, OpenTmp(w) \/ FillTmp(w)
      PROVE  MixInv'
  <2>1. PICK l \in {"fillTmp", "rename"} : pc' = [pc EXCEPT ![w] = l]
    BY <1>6 DEF OpenTmp, FillTmp
  <2>2. /\ UNCHANGED <<file, holders, snap, base>> /\ pc[w] \in {"openTmp", "fillTmp"}
        /\ l = "rename" => tmp' = Candidate(w)
        /\ tmp' \in {Torn} \cup States
    <3>1. Candidate(w) \in States
      OBVIOUS
    <3>2. QED
      BY <1>6, <2>1, <3>1 DEF OpenTmp, FillTmp
  <2>3. pc'[w] = l /\ \A q \in Writer \ {w} : pc'[q] = pc[q] /\ pc[q] \notin LockedPcs
    BY <2>1, <2>2
  <2>4. \A q \in Writer : Candidate(q)' = Candidate(q)
    BY <2>2
  <2> HIDE DEF Candidate
  <2>5. MixTyped'
    BY <2>1, <2>2
  <2>6. OwnTmp'
    BY <2>2, <2>3, <2>4
  <2>7. FreshBase'
    BY <2>2, <2>3
  <2>8. QED
    BY <2>5, <2>6, <2>7
<1>7. ASSUME NEW w \in Writer, Rename(w)
      PROVE  MixInv'
  <2>1. tmp \in States
    BY <1>7 DEF Rename
  <2>2. \A q \in Writer \ {w} : pc'[q] = pc[q] /\ pc[q] \notin LockedPcs
    BY <1>7 DEF Rename
  <2>3. MixTyped'
    BY <1>7, <2>1 DEF Rename
  <2>4. OwnTmp' /\ FreshBase'
    BY <1>7, <2>2 DEF Rename
  <2>5. QED
    BY <2>3, <2>4
<1>8. ASSUME NEW w \in Writer,
             AppendTransitionRecord(w) \/ AppendFails(w) \/ Return(w) \/ Crash(w)
      PROVE  MixInv'
  BY <1>8 DEF AppendTransitionRecord, AppendFails, Return, Crash
<1>9. ASSUME NEW w \in Writer, Release(w)
       PROVE  MixInv'
  BY <1>9 DEF Release
<1>10. ASSUME NEW w \in Writer, Reclaim(w)
       PROVE  MixInv'
  BY <1>10 DEF Reclaim
<1>11. ASSUME UNCHANGED vars
       PROVE  MixInv'
  BY <1>11 DEF vars
<1>12. QED
  BY <1>1, <1>2, <1>3, <1>4, <1>5, <1>6, <1>7, <1>8, <1>9, <1>10, <1>11 DEF Next, Step

\* A call enters "append" by its own rename.
LEMMA CommitIsARename ==
  ASSUME MixInv, [Next]_vars, NEW w \in Writer, pc[w] = "rename", pc'[w] = "append"
  PROVE  Rename(w)
<1> USE DEF MixInv, MixTyped, Goto, Leave
<1>1. ASSUME NEW q \in Writer,
             \/ Begin(q) \/ ProduceNothing(q) \/ Acquire(q) \/ LockFails(q)
             \/ ReadCurrent(q) \/ Mutate(q) \/ OpenTmp(q) \/ FillTmp(q) \/ CommitFails(q)
             \/ AppendTransitionRecord(q) \/ AppendFails(q) \/ Release(q) \/ Return(q)
             \/ Crash(q) \/ Reclaim(q)
      PROVE  FALSE
  <2>1. pc' \in {pc} \cup {[pc EXCEPT ![q] = l] : l \in Pcs \ {"append"}}
    BY <1>1 DEF Begin, ProduceNothing, Acquire, LockFails, ReadCurrent, Mutate, OpenTmp,
                FillTmp, CommitFails, AppendTransitionRecord, AppendFails, Release, Return,
                Crash, Reclaim
  <2>2. QED
    BY <2>1
<1>2. ASSUME NEW q \in Writer, Rename(q)
      PROVE  q = w
  BY <1>2 DEF Rename
<1>3. QED
  BY <1>1, <1>2 DEF Next, Step, vars

\* A mutator merges onto what is on disk, for any set of callers, blind writers
\* among them.
THEOREM MutatorsMergeHolds == Spec => MutatorsMerge
<1> DEFINE Merges(w) ==
      pc[w] = "rename" /\ pc'[w] = "append" =>
        file' = [version |-> file.version + 1, applied |-> file.applied \cup {w}]
<1>1. Init => MixInv
  BY DEF Init, MixInv, MixTyped, OwnTmp, FreshBase, States, Empty
<1>2. MixInv /\ [Next]_vars => MixInv'
  BY StepMixInv
<1>3. MixInv /\ [Next]_vars => [\A w \in Mutators : Merges(w)]_vars
  <2>1. SUFFICES ASSUME MixInv, [Next]_vars, NEW w \in Mutators,
                        pc[w] = "rename", pc'[w] = "append"
                 PROVE  file' = [version |-> file.version + 1, applied |-> file.applied \cup {w}]
    OBVIOUS
  <2>2. w \in Writer \ BlindWriters
    BY KindsAssumption DEF Writer
  <2>3. Rename(w)
    BY <2>1, <2>2, CommitIsARename
  <2>4. file' = Candidate(w) /\ base[w] = file
    BY <2>1, <2>2, <2>3 DEF Rename, MixInv, OwnTmp, FreshBase
  <2>5. QED
    BY <2>2, <2>4 DEF Candidate
<1>4. QED
  BY <1>1, <1>2, <1>3, PTL DEF Spec, MutatorsMerge
=============================================================================
