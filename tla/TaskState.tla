----------------------------- MODULE TaskState -----------------------------
(***************************************************************************)
(* lib/task-state.mjs: the writers of .devmate/state/task.json.  A Writer  *)
(* is one call: a Mutator goes through mutateTaskStateUnderLock, a         *)
(* CasWriter through mutateTaskStateWithRetry, a BlindWriter reads the     *)
(* document, computes its successor and hands it to writeTaskState.        *)
(*                                                                         *)
(* The document is its version and the set of calls whose update it        *)
(* contains; a call's update adds the call.  withFileLock is the mutex of  *)
(* AbstractMutex (FileLock shows when it is one), a dead holder's lock is  *)
(* reclaimed.                                                              *)
(***************************************************************************)
EXTENDS Integers, FiniteSets, Sequences

CONSTANTS
  Mutators, CasWriters, BlindWriters,
  Attempts,              \* of mutateTaskStateWithRetry: 3 by default
  NoTmp, Torn            \* no .tmp file; a .tmp file written half

Writer == Mutators \cup CasWriters \cup BlindWriters

ASSUME KindsAssumption ==
  /\ Mutators \cap CasWriters = {}
  /\ Mutators \cap BlindWriters = {}
  /\ CasWriters \cap BlindWriters = {}
ASSUME AttemptsAssumption == Attempts \in Nat \ {0}
ASSUME TmpAssumption == NoTmp # Torn

VARIABLES
  file,      \* the document at task.json
  tmp,       \* the document at task.json.tmp, NoTmp or Torn
  holders,   \* who is inside withFileLock
  pc,        \* where each call is
  snap,      \* the document a call read before taking the lock
  base,      \* the document it read under the lock
  tries,     \* attempts used by a CasWriter
  outcome,   \* what the lock body leaves to be returned
  answer,    \* what the call returned, "pending" until it does
  log        \* the transition log, one record per line

vars == <<file, tmp, holders, pc, snap, base, tries, outcome, answer, log>>

Empty == [version |-> 0, applied |-> {}]
States == [version : Nat, applied : SUBSET Writer]
Records == [writer : Writer, fromVersion : Nat, toVersion : Nat]
Outcomes == {"none", "written", "unchanged", "invalid", "conflict", "failed", "lockFailed"}
LockedPcs == {"locked", "produce", "openTmp", "fillTmp", "rename", "append", "unlock"}
Pcs == LockedPcs \cup {"start", "lock", "return", "done", "dead"}

TypeOK ==
  /\ file \in States
  /\ tmp \in {NoTmp, Torn} \cup States
  /\ holders \in SUBSET Writer
  /\ pc \in [Writer -> Pcs]
  /\ snap \in [Writer -> States]
  /\ base \in [Writer -> States]
  /\ tries \in [Writer -> 0 .. Attempts]
  /\ outcome \in [Writer -> Outcomes]
  /\ answer \in [Writer -> {"pending", "written", "notWritten"}]
  /\ log \in Seq(Records)

Init ==
  /\ file = Empty
  /\ tmp = NoTmp
  /\ holders = {}
  /\ pc = [w \in Writer |-> "start"]
  /\ snap = [w \in Writer |-> Empty]
  /\ base = [w \in Writer |-> Empty]
  /\ tries = [w \in Writer |-> 0]
  /\ outcome = [w \in Writer |-> "none"]
  /\ answer = [w \in Writer |-> "pending"]
  /\ log = <<>>

Lock == INSTANCE AbstractMutex WITH Proc <- Writer, holders <- holders

Goto(w, label) == pc' = [pc EXCEPT ![w] = label]
Leave(w, result, label) ==
  /\ outcome' = [outcome EXCEPT ![w] = result]
  /\ Goto(w, label)

-----------------------------------------------------------------------------
(* Before the lock.                                                        *)

\* A CasWriter and a BlindWriter derive their candidate from a snapshot read
\* outside the lock; a Mutator starts at the lock.
Begin(w) ==
  /\ pc[w] = "start"
  /\ snap' = IF w \in Mutators THEN snap ELSE [snap EXCEPT ![w] = file]
  /\ tries' = IF w \in CasWriters THEN [tries EXCEPT ![w] = @ + 1] ELSE tries
  /\ Goto(w, "lock")
  /\ UNCHANGED <<file, tmp, holders, base, outcome, answer, log>>

\* produce(snapshot) returns null: nothing to write.
ProduceNothing(w) ==
  /\ pc[w] = "start"
  /\ w \in CasWriters
  /\ Leave(w, "unchanged", "return")
  /\ UNCHANGED <<file, tmp, holders, snap, base, tries, answer, log>>

Acquire(w) ==
  /\ pc[w] = "lock"
  /\ Lock!Acquire(w)
  /\ Goto(w, "locked")
  /\ UNCHANGED <<file, tmp, snap, base, tries, outcome, answer, log>>

\* withFileLock gives up at its deadline, or cannot make its file.
LockFails(w) ==
  /\ pc[w] = "lock"
  /\ Leave(w, "lockFailed", "return")
  /\ UNCHANGED <<file, tmp, holders, snap, base, tries, answer, log>>

-----------------------------------------------------------------------------
(* Under the lock.                                                         *)

\* Mutant: the pinned version is not compared.
ReadCurrentUnpinned(w) ==
  /\ pc[w] = "locked"
  /\ base' = [base EXCEPT ![w] = file]
  /\ Goto(w, IF w \in BlindWriters THEN "openTmp" ELSE "produce")
  /\ UNCHANGED <<file, tmp, holders, snap, tries, outcome, answer, log>>

\* The fresh state is read, and a pinned version compared with it; a
\* BlindWriter goes straight to the write.
ReadCurrent(w) ==
  /\ pc[w] = "locked"
  /\ base' = [base EXCEPT ![w] = IF w \in BlindWriters THEN @ ELSE file]
  /\ CASE w \in BlindWriters -> Goto(w, "openTmp") /\ UNCHANGED outcome
       [] w \in CasWriters /\ file.version # snap[w].version -> Leave(w, "conflict", "unlock")
       [] OTHER -> Goto(w, "produce") /\ UNCHANGED outcome
  /\ UNCHANGED <<file, tmp, holders, snap, tries, answer, log>>

\* mutate(fresh) gives a valid state, null, or one validateTaskState refuses.
Mutate(w) ==
  /\ pc[w] = "produce"
  /\ \/ Goto(w, "openTmp") /\ UNCHANGED outcome
     \/ w \in Mutators /\ Leave(w, "unchanged", "unlock")
     \/ Leave(w, "invalid", "unlock")
  /\ UNCHANGED <<file, tmp, holders, snap, base, tries, answer, log>>

\* Mutant: the mutator is handed the state read before the lock.
CandidateFromSnapshot(w) == [version |-> base[w].version + 1, applied |-> snap[w].applied \cup {w}]

\* The document a call writes.  mutateTaskStateUnderLock stamps the version
\* over whatever the mutator returned; writeTaskState stamps nothing.
Candidate(w) ==
  IF w \in BlindWriters THEN [snap[w] EXCEPT !.applied = @ \cup {w}]
  ELSE [version |-> base[w].version + 1,
        applied |-> (IF w \in Mutators THEN base[w] ELSE snap[w]).applied \cup {w}]

OpenTmp(w) ==
  /\ pc[w] = "openTmp"
  /\ tmp' = Torn
  /\ Goto(w, "fillTmp")
  /\ UNCHANGED <<file, holders, snap, base, tries, outcome, answer, log>>

FillTmp(w) ==
  /\ pc[w] = "fillTmp"
  /\ tmp' = Candidate(w)
  /\ Goto(w, "rename")
  /\ UNCHANGED <<file, holders, snap, base, tries, outcome, answer, log>>

\* Writing .tmp fails, or the rename does (a lasting error, or a busy file on
\* every one of the five attempts).  The .tmp file stays.
CommitFails(w) ==
  /\ pc[w] \in {"fillTmp", "rename"}
  /\ Leave(w, "failed", "unlock")
  /\ UNCHANGED <<file, tmp, holders, snap, base, tries, answer, log>>

Rename(w) ==
  /\ pc[w] = "rename"
  /\ file' = tmp
  /\ tmp' = NoTmp
  /\ Leave(w, "written", IF w \in BlindWriters THEN "unlock" ELSE "append")
  /\ UNCHANGED <<holders, snap, base, tries, answer, log>>

\* Mutant: the record is written after the lock is released.
AppendUnlocked(w) ==
  /\ pc[w] = "append"
  /\ \/ /\ w \in holders
        /\ holders' = {}
        /\ UNCHANGED <<pc, log>>
     \/ /\ w \notin holders
        /\ log' = Append(log, [writer |-> w, fromVersion |-> base[w].version,
                               toVersion |-> base[w].version + 1])
        /\ Goto(w, "unlock")
        /\ UNCHANGED holders
  /\ UNCHANGED <<file, tmp, snap, base, tries, outcome, answer>>

AppendTransitionRecord(w) ==
  /\ pc[w] = "append"
  /\ log' = Append(log, [writer |-> w, fromVersion |-> base[w].version,
                         toVersion |-> base[w].version + 1])
  /\ Goto(w, "unlock")
  /\ UNCHANGED <<file, tmp, holders, snap, base, tries, outcome, answer>>

\* Mutant: a failing append fails the call.
AppendFailsCall(w) ==
  /\ pc[w] = "append"
  /\ Leave(w, "failed", "unlock")
  /\ UNCHANGED <<file, tmp, holders, snap, base, tries, answer, log>>

\* A failing append is swallowed.
AppendFails(w) ==
  /\ pc[w] = "append"
  /\ Goto(w, "unlock")
  /\ UNCHANGED <<file, tmp, holders, snap, base, tries, outcome, answer, log>>

\* Mutant: conflicts are retried against the same snapshot, without a bound.
ReleaseRetriesStale(w) ==
  /\ pc[w] = "unlock"
  /\ Lock!Release(w)
  /\ Goto(w, IF outcome[w] = "conflict" THEN "lock" ELSE "return")
  /\ UNCHANGED <<file, tmp, snap, base, tries, outcome, answer, log>>

\* Mutant: one attempt only.
ReleaseNoRetry(w) ==
  /\ pc[w] = "unlock"
  /\ Lock!Release(w)
  /\ Goto(w, "return")
  /\ UNCHANGED <<file, tmp, snap, base, tries, outcome, answer, log>>

\* The lock is released; a conflict starts the next attempt while one is left.
Release(w) ==
  /\ pc[w] = "unlock"
  /\ Lock!Release(w)
  /\ Goto(w, IF outcome[w] = "conflict" /\ tries[w] < Attempts THEN "start" ELSE "return")
  /\ UNCHANGED <<file, tmp, snap, base, tries, outcome, answer, log>>

Return(w) ==
  /\ pc[w] = "return"
  /\ answer' = [answer EXCEPT ![w] = IF outcome[w] = "written" THEN "written" ELSE "notWritten"]
  /\ Goto(w, "done")
  /\ UNCHANGED <<file, tmp, holders, snap, base, tries, outcome, log>>

-----------------------------------------------------------------------------
(* A process dies; file-lock's stale reclaim frees what it held.           *)

Crash(w) ==
  /\ pc[w] \notin {"done", "dead"}
  /\ Goto(w, "dead")
  /\ UNCHANGED <<file, tmp, holders, snap, base, tries, outcome, answer, log>>

Reclaim(w) ==
  /\ pc[w] = "dead"
  /\ Lock!Release(w)
  /\ UNCHANGED <<file, tmp, pc, snap, base, tries, outcome, answer, log>>

-----------------------------------------------------------------------------
Step(w) ==
  \/ Begin(w) \/ ProduceNothing(w) \/ Acquire(w) \/ LockFails(w)
  \/ ReadCurrent(w) \/ Mutate(w) \/ OpenTmp(w) \/ FillTmp(w) \/ CommitFails(w)
  \/ Rename(w) \/ AppendTransitionRecord(w) \/ AppendFails(w) \/ Release(w) \/ Return(w)

Next == \E w \in Writer : Step(w) \/ Crash(w) \/ Reclaim(w)

Spec == Init /\ [][Next]_vars

\* A live process is run by the operating system, and a dead owner's lock is
\* reclaimed by the next waiter (FileLock!OrphanRecovered).
FairSpec == Spec /\ \A w \in Writer : WF_vars(Step(w)) /\ WF_vars(Reclaim(w))

-----------------------------------------------------------------------------
(* Correctness.                                                            *)

\* "the `expectedVersion` pin guarantees fresh === snapshot, so the candidate
\* is consistent with disk": a CasWriter past the check writes onto exactly
\* the document its candidate was computed from.
PinGuaranteesSnapshot ==
  \A w \in CasWriters :
    pc[w] \in {"produce", "openTmp", "fillTmp", "rename"} => file = snap[w]

\* Without blind writers the mutation API is the atomic store its callers rely
\* on: no update is lost, each bumps the version once, the answer is honest.
Store == INSTANCE AbstractTaskStore
           WITH version <- file.version, applied <- file.applied
ImplementsStore == Store!Spec

\* The mutator under the lock merges onto what is on disk, whoever wrote it:
\* what a Mutator commits is the document there is, blind writers' updates and
\* all, with its own update added and the version bumped.
MutatorsMerge ==
  [][ \A w \in Mutators :
        pc[w] = "rename" /\ pc'[w] = "append" =>
          file' = [version |-> file.version + 1, applied |-> file.applied \cup {w}] ]_vars

\* "the record and the version it describes are ordered with the write": the
\* log lists commits in version order, also when processes die or appends fail
\* between a commit and its record.
LogOrdered ==
  /\ \A i, j \in 1 .. Len(log) : i < j => log[i].toVersion <= log[j].fromVersion
  /\ \A i \in 1 .. Len(log) : log[i].toVersion <= file.version

\* A call that answers `conflict` lost to that many commits of others: one in
\* each of its attempts.
ConflictMeansProgress ==
  \A w \in CasWriters :
    answer[w] = "notWritten" /\ outcome[w] = "conflict" => Cardinality(file.applied) >= Attempts

\* Every call ends, or its process is dead, and no lock stays held: whatever
\* fails, and whoever dies holding it.
CallsEnd == <>[](\A w \in Writer : pc[w] \in {"done", "dead"}) /\ <>[](holders = {})

-----------------------------------------------------------------------------
(* Why.                                                                    *)

\* Whoever is inside the lock body is alone there, and the .tmp it renames is
\* its own candidate, whole.
OwnTmp ==
  /\ \A w \in Writer : pc[w] \in LockedPcs => holders = {w}
  /\ \A w \in Writer : pc[w] = "rename" => tmp = Candidate(w)

\* The document does not change between the read under the lock and the rename.
FreshBase ==
  \A w \in Writer \ BlindWriters :
    pc[w] \in {"produce", "openTmp", "fillTmp", "rename"} => base[w] = file

\* A version names one document: a snapshot with the version on disk is the
\* document on disk.
VersionNames ==
  \A w \in CasWriters :
    pc[w] \in {"lock"} \cup LockedPcs =>
      /\ snap[w].version <= file.version
      /\ snap[w].version = file.version => snap[w] = file

\* A call's update is in the document exactly when its lock body says so, and
\* the body says so only past the rename; the answer is what the body said.
HonestOutcome ==
  \A w \in Writer :
    /\ w \in file.applied <=> outcome[w] = "written"
    /\ pc[w] \in {"start", "lock", "locked", "produce", "openTmp", "fillTmp", "rename"}
         => outcome[w] # "written"
    /\ pc[w] \notin {"done", "dead"} => answer[w] = "pending"

\* While a record is owed, every record in the log is of an earlier version.
LogBehind ==
  \A w \in Writer :
    pc[w] = "append" =>
      /\ file.version = base[w].version + 1
      /\ \A i \in 1 .. Len(log) : log[i].toVersion <= base[w].version

\* An attempt is begun only while one is left.
AttemptLeft == \A w \in CasWriters : pc[w] = "start" => tries[w] < Attempts

\* The inductive invariant of the API without blind writers.
ApiInv ==
  /\ TypeOK
  /\ AttemptLeft
  /\ OwnTmp
  /\ FreshBase
  /\ VersionNames
  /\ PinGuaranteesSnapshot
  /\ HonestOutcome
  /\ LogBehind
  /\ LogOrdered

=============================================================================
