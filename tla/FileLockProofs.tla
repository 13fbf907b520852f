--------------------------- MODULE FileLockProofs ---------------------------
(***************************************************************************)
(* Proofs about FileLock: with no orphans (every holder unlinks before it *)
(* dies) and holds shorter than the reclaim bound, withFileLock is a       *)
(* mutex, whatever processes die elsewhere, are recycled or rebooted.      *)
(***************************************************************************)
EXTENDS FileLock, TLAPS

USE DEF Pcs, HoldPcs, WaitPcs

\* A step that leaves pc in its type and moves one process.
LEMMA GotoType ==
  ASSUME NEW p \in Proc, NEW label \in Pcs, pc \in [Proc -> Pcs], Goto(p, label)
  PROVE  /\ pc' \in [Proc -> Pcs]
         /\ pc'[p] = label
         /\ \A q \in Proc \ {p} : pc'[q] = pc[q]
BY DEF Goto

LEMMA InitLockInv == Init => LockInv
BY MaxWaitsAssumption, MaxBootsAssumption
   DEF Init, LockInv, TypeOK, MutualExclusion, Holders, Holding

\* Every step keeps LockInv when no orphan can appear.
LEMMA StepLockInv ==
  ASSUME NoOrphans, LockInv, [Next]_vars
  PROVE  LockInv'
<1> USE DEF LockInv, TypeOK, MutualExclusion, Holders, Holding
<1>1. ASSUME NEW p \in Proc, Call(p)
      PROVE  LockInv'
  BY <1>1, MaxWaitsAssumption, GotoType DEF Call
<1>2. ASSUME NEW p \in Proc, OpenCreates(p)
      PROVE  LockInv'
  <2>1. lockFile' \in LockContent /\ lockFile'.info = NoInfo /\ lockFile' # NoFile
    BY <1>2, NoFileAssumption DEF OpenCreates, LockContent
  <2>2. QED
    BY <1>2, <2>1, GotoType DEF OpenCreates
<1>3. ASSUME NEW p \in Proc, OpenExists(p) \/ OpenFails(p)
      PROVE  LockInv'
  BY <1>3, GotoType DEF OpenExists, OpenFails
<1>4. ASSUME NEW p \in Proc, ReadLockInfo(p)
      PROVE  LockInv'
  <2>1. seen' \in [Proc -> {NoInfo} \cup LockInfo]
    BY <1>4 DEF ReadLockInfo, LockContent
  <2>2. \A q \in Proc : seen'[q] # NoInfo => ~seen'[q].aged
    BY <1>4 DEF ReadLockInfo
  <2>3. QED
    BY <1>4, <2>1, <2>2, GotoType DEF ReadLockInfo
<1>4a. ASSUME NEW p \in Proc, ReadLockInfoFails(p)
       PROVE  LockInv'
  BY <1>4a, GotoType DEF ReadLockInfoFails
<1>5. ASSUME NEW p \in Proc, Probe(p)
      PROVE  LockInv'
  <2>1. ~IsLockStale(seen[p])
    BY DEF IsLockStale
  <2>2. QED
    BY <1>5, <2>1, GotoType DEF Probe
<1>6. ASSUME NEW p \in Proc, Steal(p) \/ StealFails(p)
      PROVE  LockInv'
  BY <1>6 DEF Steal, StealFails
<1>7. ASSUME NEW p \in Proc, Sleep(p)
      PROVE  LockInv'
  <2>1. waits' \in [Proc -> 0 .. MaxWaits]
    BY <1>7, MaxWaitsAssumption DEF Sleep
  <2>2. QED
    BY <1>7, <2>1, GotoType DEF Sleep
<1>8. ASSUME NEW p \in Proc, TimeOut(p)
      PROVE  LockInv'
  BY <1>8, GotoType DEF TimeOut
<1>9. ASSUME NEW p \in Proc, WriteMetadata(p)
      PROVE  LockInv'
  <2> DEFINE info == [owner |-> p, startToken |-> boot, aged |-> FALSE]
  <2>1. lockFile' \in LockContent /\ ~lockFile'.info.aged /\ lockFile' # NoFile
    <3>1. info \in LockInfo
      BY DEF LockInfo
    <3>2. [info |-> info] \in LockContent
      BY <3>1 DEF LockContent
    <3>3. QED
      BY <1>9, <3>2, NoFileAssumption DEF WriteMetadata
  <2>2. QED
    BY <1>9, <2>1, GotoType DEF WriteMetadata
<1>10. ASSUME NEW p \in Proc, WriteMetadataFails(p) \/ RunFn(p)
       PROVE  LockInv'
  BY <1>10, GotoType DEF WriteMetadataFails, RunFn
<1>11. ASSUME NEW p \in Proc, Release(p)
       PROVE  LockInv'
  BY <1>11, GotoType DEF Release
<1>11a. ASSUME NEW p \in Proc, ReleaseFails(p)
        PROVE  LockInv'
  BY <1>11a DEF ReleaseFails, NoOrphans
<1>12. ASSUME NEW p \in Proc, Crash(p)
       PROVE  LockInv'
  BY <1>12, GotoType DEF Crash, NoOrphans
<1>13. ASSUME NEW p \in Proc, Spawn(p)
       PROVE  LockInv'
  BY <1>13, GotoType DEF Spawn
<1>14. ASSUME Age
       PROVE  LockInv'
  BY <1>14 DEF Age, NoOrphans
<1>15. ASSUME Reboot
       PROVE  LockInv'
  <2>1. boot' \in 0 .. MaxBoots
    BY <1>15, MaxBootsAssumption DEF Reboot
  <2>2. QED
    BY <1>15, <2>1 DEF Reboot, NoOrphans
<1>16. CASE UNCHANGED vars
  BY <1>16 DEF vars
<1>17. QED
  BY <1>1, <1>2, <1>3, <1>4, <1>4a, <1>5, <1>6, <1>7, <1>8, <1>9, <1>10, <1>11, <1>11a, <1>12,
     <1>13, <1>14, <1>15, <1>16 DEF Next, Attempt, Hold

-----------------------------------------------------------------------------
\* The inductive invariant holds of every behaviour.
THEOREM LockInvHolds ==
  ASSUME NoOrphans
  PROVE  Spec => []LockInv
<1>1. Init => LockInv
  BY InitLockInv
<1>2. LockInv /\ [Next]_vars => LockInv'
  BY StepLockInv
<1>3. QED
  BY <1>1, <1>2, PTL DEF Spec

\* Without orphans two processes never run under the lock at once, for any
\* number of processes, deaths outside the lock, recycled pids and reboots.
THEOREM MutualExclusionHolds ==
  ASSUME NoOrphans
  PROVE  Spec => []MutualExclusion
<1>1. LockInv => MutualExclusion
  BY DEF LockInv
<1>2. QED
  BY <1>1, LockInvHolds, PTL

\* Without orphans the lock file of a live holder is removed by nobody else.
THEOREM LiveOwnerKeepsLockHolds ==
  ASSUME NoOrphans
  PROVE  Spec => LiveOwnerKeepsLock
<1> DEFINE Keeps == lockFile # NoFile /\ lockFile' = NoFile
                       => \A p \in Holders : pc'[p] \notin HoldPcs
<1>1. ASSUME LockInv, LockInv', [Next]_vars
      PROVE  Keeps
  BY <1>1 DEF LockInv, Holders, Holding, TypeOK
<1>2. LockInv /\ LockInv' /\ [Next]_vars => [Keeps]_vars
  BY <1>1
<1>3. QED
  BY <1>2, LockInvHolds, PTL DEF Spec, LiveOwnerKeepsLock

\* Without orphans FileLock implements the mutex its callers rely on.
THEOREM ImplementsMutexHolds ==
  ASSUME NoOrphans
  PROVE  Spec => ImplementsMutex
<1>1. Init => Mutex!Init
  BY DEF Init, Mutex!Init, Holders, Holding
<1>2. ASSUME LockInv, [Next]_vars
      PROVE  [Mutex!Next]_Holders
  <2> USE <1>2 DEF LockInv, TypeOK, MutualExclusion, Holders, Holding
  <2>1. ASSUME NEW p \in Proc, OpenCreates(p)
        PROVE  Mutex!Acquire(p)
    BY <2>1, GotoType DEF OpenCreates, Mutex!Acquire
  <2>2. ASSUME NEW p \in Proc, Release(p)
        PROVE  Mutex!Release(p)
    BY <2>2, GotoType DEF Release, Mutex!Release
  <2>3. ASSUME NEW p \in Proc, Call(p) \/ OpenExists(p) \/ OpenFails(p) \/ ReadLockInfo(p)
                              \/ ReadLockInfoFails(p) \/ Probe(p) \/ Sleep(p) \/ TimeOut(p)
        PROVE  UNCHANGED Holders
    BY <2>3, GotoType DEF Call, OpenExists, OpenFails, ReadLockInfo, ReadLockInfoFails, Probe,
                          Sleep, TimeOut
  <2>4. ASSUME NEW p \in Proc, WriteMetadata(p) \/ WriteMetadataFails(p) \/ RunFn(p)
        PROVE  UNCHANGED Holders
    BY <2>4, GotoType DEF WriteMetadata, WriteMetadataFails, RunFn
  <2>5. ASSUME NEW p \in Proc, Crash(p) \/ Spawn(p)
        PROVE  UNCHANGED Holders
    BY <2>5, GotoType DEF Crash, Spawn, NoOrphans
  <2>6. ASSUME NEW p \in Proc, Steal(p) \/ StealFails(p) \/ ReleaseFails(p)
        PROVE  FALSE
    BY <2>6 DEF Steal, StealFails, ReleaseFails, NoOrphans
  <2>7. ASSUME Age \/ Reboot \/ UNCHANGED vars
        PROVE  UNCHANGED Holders
    BY <2>7 DEF Age, Reboot, vars, NoOrphans
  <2>8. QED
    BY <2>1, <2>2, <2>3, <2>4, <2>5, <2>6, <2>7
       DEF Next, Attempt, Hold, Mutex!Next
<1>3. QED
  BY <1>1, <1>2, LockInvHolds, PTL DEF Spec, ImplementsMutex, Mutex!Spec
=============================================================================
