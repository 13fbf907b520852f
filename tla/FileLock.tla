------------------------------ MODULE FileLock ------------------------------
(***************************************************************************)
(* lib/file-lock.mjs: withFileLock, the cross-process lock every writer of *)
(* .devmate/state takes.  A lock is a file made with O_EXCL; its content   *)
(* names the owner and the boot session; a waiter renames away a file      *)
(* whose owner is dead and whose age exceeds the reclaim bound.            *)
(*                                                                         *)
(* A process is a pid: a process that dies may be followed by another with *)
(* the same pid (Spawn), and a reboot ends every process.  Wall-clock time *)
(* is abstracted twice: Age says the recorded timestamp has passed         *)
(* staleReclaimMs, and a call may sleep MaxWaits times before its deadline *)
(* (timeoutMs / retryIntervalMs in the code).                              *)
(***************************************************************************)
EXTENDS Integers, FiniteSets

CONSTANTS
  Proc,            \* pids
  Crashable,       \* the pids whose process may be killed
  MayLeaveLock,    \* whether a holder may leave its lock file: dead, or unable to unlink
  ShortHolds,      \* whether every hold is shorter than staleReclaimMs
  MaxWaits,        \* sleeps of one call before its deadline
  MaxBoots,        \* BOUND: reboots of the host
  NoFile, NoInfo   \* absent lock file; empty or unreadable content

ASSUME CrashableAssumption == Crashable \subseteq Proc
ASSUME FlagAssumption == MayLeaveLock \in BOOLEAN /\ ShortHolds \in BOOLEAN
ASSUME MaxWaitsAssumption == MaxWaits \in Nat
ASSUME MaxBootsAssumption == MaxBoots \in Nat
\* What a lock file records (startToken is the boot session), and its content:
\* empty until the metadata write.
LockInfo == [owner : Proc, startToken : 0 .. MaxBoots, aged : BOOLEAN]
LockContent == [info : {NoInfo} \cup LockInfo]

ASSUME NoInfoAssumption == NoInfo \notin LockInfo
ASSUME NoFileAssumption == NoFile \notin LockContent

VARIABLES
  lockFile,  \* the file at lockPath, or NoFile
  pc,        \* where each process is in withFileLock
  seen,      \* the LockInfo a waiter has read, or NoInfo
  waits,     \* sleeps left before the deadline
  boot       \* the boot session of the host

vars == <<lockFile, pc, seen, waits, boot>>

HoldPcs == {"metadata", "fn", "release"}
WaitPcs == {"open", "read", "probe", "steal", "sleep"}
Pcs == HoldPcs \cup WaitPcs \cup {"idle", "acquired", "timedOut", "dead"}

Holding(p) == pc[p] \in HoldPcs
Holders == {p \in Proc : Holding(p)}

TypeOK ==
  /\ lockFile \in {NoFile} \cup LockContent
  /\ pc \in [Proc -> Pcs]
  /\ seen \in [Proc -> {NoInfo} \cup LockInfo]
  /\ waits \in [Proc -> 0 .. MaxWaits]
  /\ boot \in 0 .. MaxBoots

Init ==
  /\ lockFile = NoFile
  /\ pc = [p \in Proc |-> "idle"]
  /\ seen = [p \in Proc |-> NoInfo]
  /\ waits = [p \in Proc |-> MaxWaits]
  /\ boot = 0

Goto(p, label) == pc' = [pc EXCEPT ![p] = label]

-----------------------------------------------------------------------------
(* The staleness rule.                                                     *)

\* The kill probe: only a pid with no process is dead.
IsOwnerAlive(owner) == pc[owner] # "dead"

\* A pid that is alive but belongs to another boot session was recycled.
OwnerLooksRecycled(info) == info.startToken # boot

\* Mutant: only the kill probe, as before #193.
ProbeOnlyIsLockStale(info) == info # NoInfo /\ info.aged /\ ~IsOwnerAlive(info.owner)

IsLockStale(info) ==
  /\ info # NoInfo
  /\ info.aged
  /\ ~IsOwnerAlive(info.owner) \/ OwnerLooksRecycled(info)

-----------------------------------------------------------------------------
(* One call of withFileLock.                                               *)

Call(p) ==
  /\ pc[p] \in {"idle", "acquired", "timedOut"}
  /\ waits' = [waits EXCEPT ![p] = MaxWaits]
  /\ Goto(p, "open")
  /\ UNCHANGED <<lockFile, seen, boot>>

\* Mutant: flag 'w' instead of 'wx'.
OpenTruncates(p) ==
  /\ pc[p] = "open"
  /\ lockFile' = [info |-> NoInfo]
  /\ Goto(p, "metadata")
  /\ UNCHANGED <<seen, waits, boot>>

\* openSync(lockPath, 'wx') creates the file, empty, or fails with EEXIST.
OpenCreates(p) ==
  /\ pc[p] = "open"
  /\ lockFile = NoFile
  /\ lockFile' = [info |-> NoInfo]
  /\ Goto(p, "metadata")
  /\ UNCHANGED <<seen, waits, boot>>

OpenExists(p) ==
  /\ pc[p] = "open"
  /\ lockFile # NoFile
  /\ Goto(p, "read")
  /\ UNCHANGED <<lockFile, seen, waits, boot>>

\* Any other error of openSync ends the call.
OpenFails(p) ==
  /\ pc[p] = "open"
  /\ Goto(p, "timedOut")
  /\ UNCHANGED <<lockFile, seen, waits, boot>>

ReadLockInfo(p) ==
  /\ pc[p] = "read"
  /\ seen' = [seen EXCEPT ![p] = IF lockFile = NoFile THEN NoInfo
                                 ELSE lockFile.info]
  /\ Goto(p, "probe")
  /\ UNCHANGED <<lockFile, waits, boot>>

\* A content that cannot be read or parsed is null, as an empty one is.
ReadLockInfoFails(p) ==
  /\ pc[p] = "read"
  /\ seen' = [seen EXCEPT ![p] = NoInfo]
  /\ Goto(p, "probe")
  /\ UNCHANGED <<lockFile, waits, boot>>

Probe(p) ==
  /\ pc[p] = "probe"
  /\ Goto(p, IF IsLockStale(seen[p]) THEN "steal" ELSE "sleep")
  /\ UNCHANGED <<lockFile, seen, waits, boot>>

\* renamePathSync moves whatever file has the name now; an absent file makes
\* it fail.  Either way the call tries to open again.
Steal(p) ==
  /\ pc[p] = "steal"
  /\ lockFile' = NoFile
  /\ seen' = [seen EXCEPT ![p] = NoInfo]
  /\ Goto(p, "open")
  /\ UNCHANGED <<waits, boot>>

\* A rename that fails with the file in place (EACCES, EPERM, EBUSY) is taken
\* for a lost race: open again, with no sleep and no look at the deadline.
StealFails(p) ==
  /\ pc[p] = "steal"
  /\ lockFile # NoFile
  /\ seen' = [seen EXCEPT ![p] = NoInfo]
  /\ Goto(p, "open")
  /\ UNCHANGED <<lockFile, waits, boot>>

\* Mutant: the deadline is computed anew on every retry.
SleepResetsDeadline(p) ==
  /\ pc[p] = "sleep"
  /\ waits[p] > 0
  /\ seen' = [seen EXCEPT ![p] = NoInfo]
  /\ Goto(p, "open")
  /\ UNCHANGED <<lockFile, waits, boot>>

\* Not stale: give up at the deadline, otherwise sleep and retry.
Sleep(p) ==
  /\ pc[p] = "sleep"
  /\ waits[p] > 0
  /\ waits' = [waits EXCEPT ![p] = @ - 1]
  /\ seen' = [seen EXCEPT ![p] = NoInfo]
  /\ Goto(p, "open")
  /\ UNCHANGED <<lockFile, boot>>

\* Mutant: the caller that gives up cleans the lock file up.
TimeOutUnlinks(p) ==
  /\ pc[p] = "sleep"
  /\ waits[p] = 0
  /\ lockFile' = NoFile
  /\ seen' = [seen EXCEPT ![p] = NoInfo]
  /\ Goto(p, "timedOut")
  /\ UNCHANGED <<waits, boot>>

\* Mutant: the timeout falls through to fn.
TimeOutFallsThrough(p) ==
  /\ pc[p] = "sleep"
  /\ waits[p] = 0
  /\ seen' = [seen EXCEPT ![p] = NoInfo]
  /\ Goto(p, "fn")
  /\ UNCHANGED <<lockFile, waits, boot>>

TimeOut(p) ==
  /\ pc[p] = "sleep"
  /\ waits[p] = 0
  /\ seen' = [seen EXCEPT ![p] = NoInfo]
  /\ Goto(p, "timedOut")
  /\ UNCHANGED <<lockFile, waits, boot>>

\* The metadata is written by name, so it lands on whatever file is there and
\* makes one when there is none.
WriteMetadata(p) ==
  /\ pc[p] = "metadata"
  /\ lockFile' = [info |-> [owner |-> p, startToken |-> boot, aged |-> FALSE]]
  /\ Goto(p, "fn")
  /\ UNCHANGED <<seen, waits, boot>>

\* A failed metadata write is swallowed and the lock is held all the same.
WriteMetadataFails(p) ==
  /\ pc[p] = "metadata"
  /\ Goto(p, "fn")
  /\ UNCHANGED <<lockFile, seen, waits, boot>>

\* fn returns or throws; both lead to the unlink.
RunFn(p) ==
  /\ pc[p] = "fn"
  /\ Goto(p, "release")
  /\ UNCHANGED <<lockFile, seen, waits, boot>>

\* removeFileSync(lockPath): by name, whoever made the file.
Release(p) ==
  /\ pc[p] = "release"
  /\ lockFile' = NoFile
  /\ Goto(p, "acquired")
  /\ UNCHANGED <<seen, waits, boot>>

\* A failing unlink is only reported: the file stays, its owner alive.
ReleaseFails(p) ==
  /\ pc[p] = "release"
  /\ MayLeaveLock
  /\ Goto(p, "acquired")
  /\ UNCHANGED <<lockFile, seen, waits, boot>>

-----------------------------------------------------------------------------
(* The environment: time, deaths, recycled pids, reboots.                  *)

Age ==
  /\ lockFile # NoFile
  /\ lockFile.info # NoInfo
  /\ ~lockFile.info.aged
  /\ ShortHolds => Holders = {}
  /\ lockFile' = [info |-> [lockFile.info EXCEPT !.aged = TRUE]]
  /\ UNCHANGED <<pc, seen, waits, boot>>

Crash(p) ==
  /\ p \in Crashable
  /\ pc[p] # "dead"
  /\ Holding(p) => MayLeaveLock
  /\ Goto(p, "dead")
  /\ seen' = [seen EXCEPT ![p] = NoInfo]
  /\ UNCHANGED <<lockFile, waits, boot>>

\* A new process gets the pid of a dead one.
Spawn(p) ==
  /\ pc[p] = "dead"
  /\ Goto(p, "idle")
  /\ UNCHANGED <<lockFile, seen, waits, boot>>

Reboot ==
  /\ Crashable = Proc
  /\ boot < MaxBoots
  /\ Holders # {} => MayLeaveLock
  /\ boot' = boot + 1
  /\ pc' = [p \in Proc |-> "dead"]
  /\ seen' = [p \in Proc |-> NoInfo]
  /\ UNCHANGED <<lockFile, waits>>

-----------------------------------------------------------------------------
\* The steps of a running process; each is a statement the process executes
\* without waiting for anyone.
Attempt(p) ==
  \/ OpenCreates(p) \/ OpenExists(p) \/ OpenFails(p)
  \/ ReadLockInfo(p) \/ ReadLockInfoFails(p) \/ Probe(p) \/ Steal(p) \/ StealFails(p)
  \/ Sleep(p) \/ TimeOut(p)

Hold(p) == WriteMetadata(p) \/ WriteMetadataFails(p) \/ RunFn(p) \/ Release(p) \/ ReleaseFails(p)

Next ==
  \/ \E p \in Proc : Call(p) \/ Attempt(p) \/ Hold(p) \/ Crash(p) \/ Spawn(p)
  \/ Age
  \/ Reboot

Spec == Init /\ [][Next]_vars

\* The operating system runs every live process; time passes; a hook that
\* found the lock busy is invoked again; opening the file and reading it do not fail
\* for other reasons every time.  Deaths are never owed, and nothing is asked of the
\* rename.
Fairness ==
  /\ \A p \in Proc : WF_vars(Attempt(p)) /\ WF_vars(Hold(p)) /\ WF_vars(Call(p))
  /\ \A p \in Proc : SF_vars(OpenCreates(p) \/ OpenExists(p)) /\ SF_vars(ReadLockInfo(p))
  /\ WF_vars(Age)

FairSpec == Spec /\ Fairness

-----------------------------------------------------------------------------
(* Correctness.                                                            *)

\* Two processes never run under the lock at once.
MutualExclusion == \A p, q \in Holders : p = q

\* A live owner's lock is never reclaimed: while a process holds the lock, no
\* other process makes the lock file disappear.
LiveOwnerKeepsLock ==
  [][ lockFile # NoFile /\ lockFile' = NoFile => \A p \in Holders : pc'[p] \notin HoldPcs ]_vars

\* The lock implements the mutex its callers rely on.
Mutex == INSTANCE AbstractMutex WITH holders <- Holders
ImplementsMutex == Mutex!Spec

\* No lock file is ever orphaned or mistaken for an orphan: every holder
\* unlinks its file before it dies, and every hold is shorter than staleReclaimMs.
NoOrphans == ShortHolds /\ ~MayLeaveLock

\* Why, under NoOrphans: the file exists exactly while somebody holds the lock, and nothing a
\* waiter can read or judge is stale.
LockInv ==
  /\ TypeOK
  /\ MutualExclusion
  /\ lockFile = NoFile <=> Holders = {}
  /\ lockFile # NoFile /\ lockFile.info # NoInfo => ~lockFile.info.aged
  /\ \A p \in Proc : seen[p] # NoInfo => ~seen[p].aged
  /\ \A p \in Proc : pc[p] # "steal"

\* Some process dies in the step (a reboot included).
Died == \E p \in Proc : pc[p] # "dead" /\ pc'[p] = "dead"

\* Every call that starts ends: it runs fn and unlocks, or times out, or its own
\* process is dead.  The reclaim path re-loops without looking at the deadline, so
\* there are two exceptions: processes that go on dying for ever leave a new orphan
\* for every reclaim, and a rename that goes on failing keeps its caller there.
CallEnds ==
  \A p \in Proc :
    \/ pc[p] = "open" ~> pc[p] \in {"acquired", "timedOut", "dead"}
    \/ []<><<Died>>_vars
    \/ []<><<StealFails(p)>>_vars

\* An orphan: complete metadata whose owner is provably gone.
Orphaned ==
  /\ lockFile # NoFile
  /\ lockFile.info # NoInfo
  /\ ~IsOwnerAlive(lockFile.info.owner) \/ OwnerLooksRecycled(lockFile.info)

\* As long as one caller lives on and its renames do not go on failing, a lock whose
\* recorded owner is gone, dead or recycled across a reboot, does not stay.
OrphanRecovered ==
  \A p \in Proc :
    <>[](pc[p] # "dead") => []<>~Orphaned \/ []<><<StealFails(p)>>_vars
=============================================================================
