-------------------------- MODULE RepositoryProofs --------------------------
(***************************************************************************)
(* Proofs about the writer lock and about the repository whose operations  *)
(* take it, for any number of invocations, chunks and jobs and with store  *)
(* faults, crashes and failing backups.                                    *)
(*                                                                         *)
(* Of the lock: the strengthened invariant LockInv, mutual exclusion, what *)
(* a recovery may remove, and that the lock implements ExclusiveWriter.    *)
(* Of the repository: what published snapshots refer to is stored, and was *)
(* verified where it was reused; ids follow the order of publication;      *)
(* collections are exact; and the repository implements the catalogue of   *)
(* snapshots.                                                              *)
(***************************************************************************)
EXTENDS Repository, TLAPS

-----------------------------------------------------------------------------
(* The writer lock *)


(* Every step keeps the types, and the attempts of an invocation bounded. *)
LEMMA StepLockTypeOK ==
    LockTypeOK /\ AttemptLeft /\ [LockNext]_lockVars => LockTypeOK' /\ AttemptLeft'
<1> SUFFICES ASSUME LockTypeOK, AttemptLeft, [LockNext]_lockVars
             PROVE  LockTypeOK' /\ AttemptLeft'
  OBVIOUS
<1> USE LockAssumption DEF LockTypeOK, AttemptLeft, Goto, Retry, Locations, MaxTries
<1>1. CASE UNCHANGED lockVars
  BY <1>1 DEF lockVars
<1>2. ASSUME NEW p \in Procs, Start(p) PROVE LockTypeOK' /\ AttemptLeft'
  BY <1>2 DEF Start
<1>3. ASSUME NEW p \in Procs, PutLock(p) PROVE LockTypeOK' /\ AttemptLeft'
  <2>1. tries' = [tries EXCEPT ![p] = @ + 1] /\ lpc[p] = "put" /\ expired' = expired
    BY <1>3 DEF PutLock
  <2>2. tries' \in [Procs -> 0..2]
    BY <2>1
  <2>3. PICK loc \in {"held", "get", "refused"} : lpc' = [lpc EXCEPT ![p] = loc]
    BY <1>3 DEF PutLock, PutReply, PutFault, FoundLocked
  <2>4. lock' \in Procs \union {NoLock} /\ seen' \in [Procs -> Procs \union {NoLock}]
    BY <1>3 DEF PutLock, PutReply, PutFault
  <2>5. lpc' \in [Procs -> Locations] /\ lpc'[p] = loc
    BY <2>3
  <2>6. \A q \in Procs \ {p} : lpc'[q] = lpc[q] /\ tries'[q] = tries[q]
    BY <2>1, <2>3
  <2>7. AttemptLeft'
    BY <2>5, <2>6
  <2> QED
    BY <2>1, <2>2, <2>4, <2>5, <2>7
<1>4. ASSUME NEW p \in Procs, GetLock(p) PROVE LockTypeOK' /\ AttemptLeft'
  BY <1>4 DEF GetLock
<1>5. ASSUME NEW p \in Procs, Judge(p) PROVE LockTypeOK' /\ AttemptLeft'
  BY <1>5 DEF Judge
<1>6. ASSUME NEW p \in Procs, DeleteStale(p) PROVE LockTypeOK' /\ AttemptLeft'
  BY <1>6 DEF DeleteStale
<1>7. ASSUME NEW p \in Procs, UnlinkStale(p) PROVE LockTypeOK' /\ AttemptLeft'
  BY <1>7 DEF UnlinkStale
<1>8. ASSUME NEW p \in Procs, Finish(p) PROVE LockTypeOK' /\ AttemptLeft'
  BY <1>8 DEF Finish
<1>9. ASSUME NEW p \in Procs, ReleaseStep(p) PROVE LockTypeOK' /\ AttemptLeft'
  BY <1>9 DEF ReleaseStep, Release, UnlinkOwn
<1>10. ASSUME NEW p \in Procs, Crash(p) PROVE LockTypeOK' /\ AttemptLeft'
  BY <1>10 DEF Crash
<1>11. ASSUME NEW p \in Procs, Expire(p) PROVE LockTypeOK' /\ AttemptLeft'
  BY <1>11 DEF Expire
<1> QED
  BY <1>1, <1>2, <1>3, <1>4, <1>5, <1>6, <1>7, <1>8, <1>9, <1>10, <1>11
     DEF LockNext, AcquireStep

(* The three facts about locks and recoveries that a step has to keep. *)
LockSafety == OwnerKeepsLock /\ OnlyEndedExpire /\ RecoveryIsJustified

(* Every step keeps LockSafety when recovery is safe. *)
LEMMA StepLockSafety ==
    SafeRecovery /\ LockInv /\ [LockNext]_lockVars => LockSafety'
<1> SUFFICES ASSUME SafeRecovery, LockInv, [LockNext]_lockVars PROVE LockSafety'
  OBVIOUS
<1>0. LockTypeOK /\ LockTypeOK'
  BY StepLockTypeOK DEF LockInv
<1> USE <1>0, LockAssumption DEF LockSafety, LockInv, LockTypeOK, OwnerKeepsLock,
        OnlyEndedExpire, RecoveryIsJustified, Goto, Retry, Ended
<1>1. CASE UNCHANGED lockVars
  BY <1>1 DEF lockVars
<1>2. ASSUME NEW p \in Procs, Start(p) PROVE LockSafety'
  BY <1>2 DEF Start
<1>3. ASSUME NEW p \in Procs, PutLock(p) PROVE LockSafety'
  BY <1>3 DEF PutLock, PutReply, PutFault, FoundLocked
<1>4. ASSUME NEW p \in Procs, GetLock(p) PROVE LockSafety'
  BY <1>4 DEF GetLock
<1>5. ASSUME NEW p \in Procs, Judge(p) PROVE LockSafety'
  BY <1>5 DEF Judge
<1>6. ASSUME NEW p \in Procs, DeleteStale(p) PROVE LockSafety'
  BY <1>6 DEF DeleteStale, SafeRecovery
<1>7. ASSUME NEW p \in Procs, UnlinkStale(p) PROVE LockSafety'
  BY <1>7 DEF UnlinkStale, SafeRecovery
<1>8. ASSUME NEW p \in Procs, Finish(p) PROVE LockSafety'
  BY <1>8 DEF Finish
<1>9. ASSUME NEW p \in Procs, Release(p) PROVE LockSafety'
  BY <1>9 DEF Release
<1>10. ASSUME NEW p \in Procs, UnlinkOwn(p) PROVE LockSafety'
  BY <1>10 DEF UnlinkOwn
<1>11. ASSUME NEW p \in Procs, Crash(p) PROVE LockSafety'
  BY <1>11 DEF Crash
<1>12. ASSUME NEW p \in Procs, Expire(p) PROVE LockSafety'
  BY <1>12 DEF Expire, SafeRecovery
<1> QED
  BY <1>1, <1>2, <1>3, <1>4, <1>5, <1>6, <1>7, <1>8, <1>9, <1>10, <1>11, <1>12
     DEF LockNext, AcquireStep, ReleaseStep

(* LockInv is an invariant: while an invocation is in its critical section *)
(* the lock in the store is its own, and only ended writers lose theirs.   *)
THEOREM LockInvariant ==
    ASSUME SafeRecovery
    PROVE  LockSpec => []LockInv
<1>1. LockInit => LockInv
  BY LockAssumption DEF LockInit, LockInv, LockTypeOK, AttemptLeft, OwnerKeepsLock,
     OnlyEndedExpire, RecoveryIsJustified, Locations, MaxTries
<1>2. LockInv /\ [LockNext]_lockVars => LockInv'
  BY StepLockTypeOK, StepLockSafety DEF LockInv, LockSafety
<1> QED
  BY <1>1, <1>2, PTL DEF LockSpec

(* Two invocations never hold the lock together, for any set of            *)
(* invocations, faults and crashes, when recovery is safe.                 *)
THEOREM LockMutualExclusion ==
    ASSUME SafeRecovery
    PROVE  LockSpec => []MutualExclusion
<1>1. LockInv => MutualExclusion
  BY DEF LockInv, OwnerKeepsLock, MutualExclusion, Holding
<1> QED
  BY <1>1, LockInvariant, PTL

(* What a process that deletes on S3 knows of the version it names. *)
OwnVersion ==
    \A p \in Procs :
        /\ lpc[p] \in {"held", "release"} => seen[p] = p
        /\ lpc[p] = "delete" => seen[p] \in expired
        /\ lpc[p] \notin {"unlink", "unlinkOwn"}

(* On S3, with any number of recovering invocations and any lease, a lock  *)
(* leaves the store only when it is stale or its own writer releases it.   *)
THEOREM AtomicRecovery ==
    ASSUME Backend = "s3"
    PROVE  LockSpec => RemovedWhenStaleOrReleased
<1> DEFINE Inv == LockTypeOK /\ AttemptLeft /\ OwnVersion
           Step == lock # NoLock /\ lock' # lock => lock \in expired \/ lpc[lock] = "release"
<1>1. LockInit => Inv
  BY LockAssumption DEF LockInit, LockTypeOK, AttemptLeft, OwnVersion, Locations, MaxTries
<1>2. ASSUME Inv, [LockNext]_lockVars PROVE Inv' /\ [Step]_lockVars
  <2>0. LockTypeOK /\ LockTypeOK' /\ AttemptLeft'
    BY <1>2, StepLockTypeOK
  <2>1. CASE UNCHANGED lockVars
    BY <1>2, <2>0, <2>1 DEF lockVars, OwnVersion
  <2>2. ASSUME NEW p \in Procs,
               Start(p) \/ Judge(p) \/ Finish(p) \/ Crash(p) \/ Expire(p)
        PROVE  OwnVersion' /\ Step
    BY <1>2, <2>0, <2>2 DEF LockTypeOK, OwnVersion, Goto, Start, Judge, Finish, Crash, Expire
  <2>3. ASSUME NEW p \in Procs, PutLock(p) PROVE OwnVersion' /\ Step
    BY <1>2, <2>0, <2>3, LockAssumption
       DEF LockTypeOK, OwnVersion, Goto, PutLock, PutReply, PutFault, FoundLocked
  <2>4. ASSUME NEW p \in Procs, GetLock(p) PROVE OwnVersion' /\ Step
    BY <1>2, <2>0, <2>4 DEF LockTypeOK, OwnVersion, Goto, Retry, GetLock
  <2>5. ASSUME NEW p \in Procs, DeleteStale(p) \/ UnlinkStale(p) PROVE OwnVersion' /\ Step
    BY <1>2, <2>0, <2>5 DEF LockTypeOK, OwnVersion, Goto, Retry, DeleteStale, UnlinkStale
  <2>6. ASSUME NEW p \in Procs, ReleaseStep(p) PROVE OwnVersion' /\ Step
    BY <1>2, <2>0, <2>6 DEF LockTypeOK, OwnVersion, Goto, ReleaseStep, Release, UnlinkOwn
  <2> QED
    BY <1>2, <2>0, <2>1, <2>2, <2>3, <2>4, <2>5, <2>6 DEF LockNext, AcquireStep
<1> QED
  BY <1>1, <1>2, PTL DEF LockSpec, RemovedWhenStaleOrReleased

-----------------------------------------------------------------------------
(* Locks that stay *)

(* A holder has read its own lock; and where a lock is found whose writer's *)
(* requests do not fail, that writer has not been answered with a refusal, *)
(* nor come to the end of its release.                                     *)
OwnersKnown ==
    \A p \in Procs :
        /\ lpc[p] \in {"held", "release", "unlinkOwn"} => seen[p] = p
        /\ lock = p /\ p \notin Faulty
             => lpc[p] \in {"held", "release", "unlinkOwn", "crashed"}

(* Whatever the lease, the store and the recoveries, a lock whose writer's *)
(* requests do not fail outlives its writer only when that crashed.        *)
THEOREM LocksAreGivenBack == LockSpec => []NoLockLeftBehind
<1> DEFINE Inv == LockTypeOK /\ AttemptLeft /\ OwnersKnown
<1>1. LockInit => Inv
  BY LockAssumption DEF LockInit, LockTypeOK, AttemptLeft, OwnersKnown, Locations, MaxTries
<1>2. ASSUME Inv, [LockNext]_lockVars PROVE Inv'
  <2>0. LockTypeOK /\ LockTypeOK' /\ AttemptLeft'
    BY <1>2, StepLockTypeOK
  <2> USE <1>2, <2>0, LockAssumption DEF LockTypeOK, OwnersKnown, Goto
  <2>1. CASE UNCHANGED lockVars
    BY <2>1 DEF lockVars
  <2>2. ASSUME NEW p \in Procs,
               Start(p) \/ Judge(p) \/ Finish(p) \/ Crash(p) \/ Expire(p)
        PROVE  OwnersKnown'
    BY <2>2 DEF Start, Judge, Finish, Crash, Expire, Ended
  <2>3. ASSUME NEW p \in Procs, PutLock(p) PROVE OwnersKnown'
    BY <2>3 DEF PutLock, PutReply, PutFault, FoundLocked, LostReplies
  <2>4. ASSUME NEW p \in Procs, GetLock(p) PROVE OwnersKnown'
    BY <2>4 DEF GetLock, Retry
  <2>5. ASSUME NEW p \in Procs, DeleteStale(p) \/ UnlinkStale(p) PROVE OwnersKnown'
    BY <2>5 DEF DeleteStale, UnlinkStale, Retry
  <2>6. ASSUME NEW p \in Procs, Release(p) PROVE OwnersKnown'
    BY <2>6 DEF Release
  <2>7. ASSUME NEW p \in Procs, UnlinkOwn(p) PROVE OwnersKnown'
    BY <2>7 DEF UnlinkOwn
  <2> QED
    BY <2>1, <2>2, <2>3, <2>4, <2>5, <2>6, <2>7 DEF LockNext, AcquireStep, ReleaseStep
<1>3. Inv => NoLockLeftBehind
  BY DEF OwnersKnown, NoLockLeftBehind
<1> QED
  BY <1>1, <1>2, <1>3, PTL DEF LockSpec

-----------------------------------------------------------------------------
(* The refinement of ExclusiveWriter *)

(* The only holder, if there is one, is the writer of the abstract state. *)
HolderIsWriter ==
    /\ \A p \in Procs : Holding(p) <=> holder = p
    /\ (\A p \in Procs : ~Holding(p)) <=> holder = NoLock

LEMMA HolderIs == OwnerKeepsLock => HolderIsWriter
<1> SUFFICES ASSUME OwnerKeepsLock PROVE HolderIsWriter
  OBVIOUS
<1> USE LockAssumption DEF HolderIsWriter
<1>1. \A p, q \in Procs : Holding(p) /\ Holding(q) => p = q
  BY DEF OwnerKeepsLock, Holding
<1>2. CASE \E p \in Procs : Holding(p)
  <2>1. holder \in Procs /\ Holding(holder)
    BY <1>2 DEF holder
  <2> QED
    BY <1>1, <2>1
<1>3. CASE \A p \in Procs : ~Holding(p)
  BY <1>3 DEF holder
<1> QED
  BY <1>2, <1>3

(* A step of one invocation moves it between four phases, and the writer   *)
(* and the past of the abstract state follow from the phases.              *)
LEMMA PhaseStep ==
    ASSUME LockInv, LockInv', NEW p \in Procs,
           \A q \in Procs \ {p} : lpc'[q] = lpc[q],
           Holding(p)' => Holding(p) \/ (lpc[p] = "put" /\ lock = NoLock),
           Holding(p) => Holding(p)' \/ p \in over',
           p \in over => p \in over'
    PROVE  [Exclusive!Next]_<<holder, over>>
<1>0. OwnerKeepsLock' => HolderIsWriter'
  BY HolderIs, PTL
<1>1. /\ \A q \in Procs : Holding(q) <=> holder = q
      /\ (\A q \in Procs : ~Holding(q)) <=> holder = NoLock
  BY HolderIs DEF LockInv, HolderIsWriter
<1>2. /\ \A q \in Procs : Holding(q)' <=> holder' = q
      /\ (\A q \in Procs : ~Holding(q)') <=> holder' = NoLock
  BY <1>0 DEF LockInv, HolderIsWriter
<1>3. \A q \in Procs \ {p} : Holding(q) <=> Holding(q)'
  BY DEF Holding
<1>4. over' = IF p \in over' THEN over \union {p} ELSE over \ {p}
  BY DEF over
<1>5. ~(Holding(p) /\ p \in over) /\ ~(Holding(p)' /\ p \in over')
  BY DEF Holding, over, Ended
<1>8. holder \in Procs \union {NoLock} /\ holder' \in Procs \union {NoLock}
  BY <1>1, <1>2
<1>6. CASE Holding(p) <=> Holding(p)'
  <2>1. holder' = holder
    BY <1>1, <1>2, <1>3, <1>6, <1>8
  <2>2. CASE p \in over' /\ p \notin over
    <3>1. holder # p
      BY <1>5, <1>6, <1>1, <2>2
    <3>2. Exclusive!GiveUp(p)
      BY <2>1, <2>2, <3>1, <1>4 DEF Exclusive!GiveUp
    <3> QED
      BY <3>2 DEF Exclusive!Next
  <2>3. CASE p \in over' <=> p \in over
    BY <2>1, <2>3, <1>4
  <2> QED
    BY <2>2, <2>3
<1>7. CASE ~Holding(p) /\ Holding(p)'
  <2>1. holder = NoLock
    BY <1>1, <1>7 DEF LockInv, OwnerKeepsLock, Holding
  <2>2. p \notin over /\ p \notin over'
    BY <1>5, <1>7
  <2>3. Exclusive!Enter(p)
    BY <1>2, <1>4, <1>7, <2>1, <2>2 DEF Exclusive!Enter
  <2> QED
    BY <2>3 DEF Exclusive!Next
<1>9. CASE Holding(p) /\ ~Holding(p)'
  <2>1. holder = p /\ \A q \in Procs \ {p} : ~Holding(q)
    BY <1>1, <1>9
  <2>2. holder' = NoLock
    BY <1>2, <1>3, <1>9, <2>1
  <2>3. Exclusive!Leave(p)
    BY <1>4, <1>9, <2>1, <2>2 DEF Exclusive!Leave
  <2> QED
    BY <2>3 DEF Exclusive!Next
<1> QED
  BY <1>6, <1>7, <1>9

(* The lock implements the exclusive writer when recovery is safe: its     *)
(* holders come one after another, and nobody returns once over.           *)
THEOREM LockImplementsExclusiveWriter ==
    ASSUME SafeRecovery
    PROVE  LockSpec => ImplementsExclusiveWriter
<1>1. LockInit => Exclusive!Init
  BY LockAssumption DEF LockInit, Exclusive!Init, holder, over, Holding, Ended
<1>2. ASSUME LockInv, LockInv', [LockNext]_lockVars
      PROVE  [Exclusive!Next]_<<holder, over>>
  <2>0. LockTypeOK /\ LockTypeOK'
    BY <1>2 DEF LockInv
  <2>1. CASE UNCHANGED lockVars
    BY <2>1 DEF lockVars, holder, over, Holding
  <2>2. ASSUME NEW p \in Procs,
               Start(p) \/ AcquireStep(p) \/ Finish(p) \/ ReleaseStep(p) \/ Crash(p) \/ Expire(p)
        PROVE  [Exclusive!Next]_<<holder, over>>
    <3>1. \A q \in Procs \ {p} : lpc'[q] = lpc[q]
      <4>1. \/ lpc' = lpc
            \/ \E loc \in Locations : lpc' = [lpc EXCEPT ![p] = loc]
        BY <2>2 DEF Start, AcquireStep, PutLock, PutReply, PutFault, FoundLocked, GetLock,
           Judge, DeleteStale, UnlinkStale, Finish, ReleaseStep, Release, UnlinkOwn, Crash,
           Expire, Goto, Retry, Locations
      <4> QED
        BY <4>1, <2>0 DEF LockTypeOK
    <3>2. /\ Holding(p)' => Holding(p) \/ (lpc[p] = "put" /\ lock = NoLock)
          /\ Holding(p) => Holding(p)' \/ p \in over'
          /\ p \in over => p \in over'
      <4> USE <2>0 DEF LockTypeOK, Holding, over, Ended, Goto, Retry
      <4>1. CASE Start(p) \/ Expire(p) \/ Crash(p) \/ Finish(p)
        BY <4>1 DEF Start, Expire, Crash, Finish
      <4>2. CASE PutLock(p)
        BY <4>2 DEF PutLock, PutReply, PutFault, FoundLocked
      <4>3. CASE GetLock(p) \/ Judge(p)
        BY <4>3 DEF GetLock, Judge
      <4>4. CASE DeleteStale(p) \/ UnlinkStale(p)
        BY <4>4 DEF DeleteStale, UnlinkStale
      <4>5. CASE ReleaseStep(p)
        BY <4>5 DEF ReleaseStep, Release, UnlinkOwn
      <4> QED
        BY <2>2, <4>1, <4>2, <4>3, <4>4, <4>5 DEF AcquireStep
    <3> QED
      BY <1>2, <3>1, <3>2, PhaseStep
  <2> QED
    BY <1>2, <2>1, <2>2 DEF LockNext
<1> QED
  BY <1>1, <1>2, LockInvariant, PTL DEF LockSpec, Exclusive!Spec, ImplementsExclusiveWriter

-----------------------------------------------------------------------------
(* The repository *)

(* The lock does not notice what the operations do. *)
LEMMA LockOfRepo == [RepoNext]_repoVars => [LockNext]_lockVars
<1> SUFFICES ASSUME [RepoNext]_repoVars PROVE [LockNext]_lockVars
  OBVIOUS
<1>1. CASE UNCHANGED repoVars
  BY <1>1 DEF repoVars
<1>2. ASSUME NEW p \in Procs, LockStep(p) \/ EndOperation(p) PROVE LockNext
  BY <1>2 DEF LockStep, EndOperation, LockNext
<1>3. ASSUME NEW p \in Procs, OperationStep(p) PROVE UNCHANGED lockVars
  BY <1>3 DEF OperationStep, StartBackup, AbortBackup, Publish, ResolveSnapshot,
     Unpublish, Mark, ListChunks, Sweep, SweepDone, Recover
<1>4. ASSUME NEW p \in Procs, Work(p) PROVE UNCHANGED lockVars
  BY <1>4 DEF Work, LookupChunk, VerifyChunk, StoreChunk, JobFrame
<1>5. ASSUME NEW c \in Chunks, Rot(c) PROVE UNCHANGED lockVars
  BY <1>5 DEF Rot
<1> QED
  BY <1>1, <1>2, <1>3, <1>4, <1>5 DEF RepoNext

(* The repository uses the lock as WriterLock has it, so that what holds   *)
(* of the lock holds in the repository.                                    *)
THEOREM RepositoryUsesTheLock == RepoSpec => LockSpec
<1>1. RepoInit => LockInit
  BY DEF RepoInit
<1> QED
  BY <1>1, LockOfRepo, PTL DEF RepoSpec, LockSpec

(* No operation leaves its lock behind, unless it crashed or its requests  *)
(* to the store fail.                                                      *)
THEOREM OperationsGiveLocksBack == RepoSpec => []NoLockLeftBehind
BY RepositoryUsesTheLock, LocksAreGivenBack, PTL

(* Every step keeps the types. *)
LEMMA StepRepoTypeOK ==
    ASSUME RepoTypeOK, BegunWithLock, LockTypeOK', [RepoNext]_repoVars
    PROVE  RepoTypeOK'
<1> USE RepositoryAssumption DEF RepoTypeOK, Steps, JobStates, Advance, SetJob
<1>1. CASE UNCHANGED repoVars
  BY <1>1 DEF repoVars, lockVars, dataVars, opVars
<1>2. ASSUME NEW p \in Procs, LockStep(p) \/ EndOperation(p) PROVE RepoTypeOK'
  BY <1>2 DEF LockStep, EndOperation, dataVars, opVars
<1>3. ASSUME NEW p \in Procs, StartBackup(p) PROVE RepoTypeOK'
  BY <1>3 DEF StartBackup, dataVars
<1>4. ASSUME NEW p \in Procs, AbortBackup(p) \/ SweepDone(p) \/ Recover(p) PROVE RepoTypeOK'
  BY <1>4 DEF AbortBackup, SweepDone, Recover, dataVars
<1>5. ASSUME NEW p \in Procs, Publish(p) PROVE RepoTypeOK'
  <2>1. p \in Backups /\ {content[p][j] : j \in Jobs} \in SUBSET Chunks
    BY <1>5 DEF Publish
  <2>2. snap[p] \in Times
    BY <1>5 DEF Publish, At, BegunWithLock
  <2>3. NewManifest(p) \in Manifests
    BY <2>1, <2>2 DEF NewManifest, Manifests
  <2> QED
    BY <1>5, <2>3 DEF Publish
<1>6. ASSUME NEW p \in Procs, ResolveSnapshot(p) PROVE RepoTypeOK'
  BY <1>6 DEF ResolveSnapshot, dataVars, Manifests
<1>7. ASSUME NEW p \in Procs, Unpublish(p) PROVE RepoTypeOK'
  BY <1>7 DEF Unpublish
<1>8. ASSUME NEW p \in Procs, Mark(p) PROVE RepoTypeOK'
  <2>1. Referenced \subseteq Chunks
    BY DEF Referenced, Manifests
  <2> QED
    BY <1>8, <2>1 DEF Mark, dataVars
<1>9. ASSUME NEW p \in Procs, ListChunks(p) PROVE RepoTypeOK'
  BY <1>9 DEF ListChunks, dataVars
<1>10. ASSUME NEW p \in Procs, Sweep(p) PROVE RepoTypeOK'
  BY <1>10 DEF Sweep
<1>11. ASSUME NEW p \in Procs, Work(p) PROVE RepoTypeOK'
  <2>1. PICK j \in Jobs, st \in JobStates : SetJob(p, j, st)
    BY <1>11 DEF Work, LookupChunk, VerifyChunk, StoreChunk
  <2>2. job' \in [Procs -> [Jobs -> JobStates]]
    BY <2>1
  <2>3. chunks \subseteq chunks' /\ chunks' \subseteq Chunks
    BY <1>11 DEF Work, LookupChunk, VerifyChunk, StoreChunk
  <2>4. JobFrame(p)
    BY <1>11 DEF Work, LookupChunk, VerifyChunk, StoreChunk
  <2> QED
    BY <2>2, <2>3, <2>4 DEF JobFrame
<1>12. ASSUME NEW c \in Chunks, Rot(c) PROVE RepoTypeOK'
  BY <1>12 DEF Rot, opVars
<1> QED
  BY <1>1, <1>2, <1>3, <1>4, <1>5, <1>6, <1>7, <1>8, <1>9, <1>10, <1>11, <1>12
     DEF RepoNext, OperationStep

-----------------------------------------------------------------------------
(* What each operation needs, kept by every step *)

Safe == BegunWithLock /\ DoneIsStored /\ CollectorSparesReferenced
        /\ PublishedComplete /\ SnapshotIdsUnique

(* Only one operation holds the lock. *)
LEMMA OneHolder ==
    ASSUME LockInv, NEW p \in Procs, NEW q \in Procs, Holding(p), Holding(q)
    PROVE  p = q
BY DEF LockInv, OwnerKeepsLock, Holding

(* Taking and leaving the lock moves no operation, and who gets the lock   *)
(* has yet to start.                                                       *)
LEMMA LockStepFrame ==
    ASSUME RepoInv, LockTypeOK', NEW p \in Procs, LockStep(p) \/ EndOperation(p)
    PROVE  /\ UNCHANGED <<dataVars, opVars>>
           /\ \A q \in Procs : Holding(q)' => Holding(q) \/ step[q] = "start"
<1>1. UNCHANGED <<dataVars, opVars>>
  BY DEF LockStep, EndOperation
<1>2. \A q \in Procs : lpc'[q] = "held" => lpc[q] = "held" \/ lpc[q] = "put"
  BY DEF RepoInv, LockInv, LockTypeOK, LockStep, EndOperation, Start, AcquireStep, PutLock,
     PutReply, PutFault, FoundLocked, GetLock, Judge, DeleteStale, UnlinkStale, Finish,
     ReleaseStep, Release, UnlinkOwn, Crash, Expire, Goto, Retry
<1> QED
  BY <1>1, <1>2 DEF Holding, RepoInv, BegunWithLock

(* An operation steps only while it has the lock, and alone has it. *)
LEMMA OperationFrame ==
    ASSUME RepoInv, NEW p \in Procs, OperationStep(p)
    PROVE  /\ Holding(p) /\ (\A q \in Procs : Holding(q) => q = p)
           /\ UNCHANGED lockVars /\ \A q \in Procs : Holding(q)' = Holding(q)
<1>1. Holding(p) /\ UNCHANGED lockVars
  BY DEF OperationStep, StartBackup, AbortBackup, Publish, ResolveSnapshot, Unpublish,
     Mark, ListChunks, Sweep, SweepDone, Recover, At
<1>2. \A q \in Procs : Holding(q) => q = p
  BY <1>1, OneHolder DEF RepoInv
<1> QED
  BY <1>1, <1>2 DEF lockVars, Holding

(* Taking and leaving the lock: an operation starts when it has it. *)
LEMMA LockStepSafe ==
    ASSUME RepoInv, LockTypeOK', NEW p \in Procs, LockStep(p) \/ EndOperation(p)
    PROVE  Safe'
<1>1. UNCHANGED <<dataVars, opVars>>
  BY LockStepFrame
<1>2. \A q \in Procs : Holding(q)' => Holding(q) \/ step[q] = "start"
  BY LockStepFrame
<1>3. \A q \in Procs :
        lpc'[q] \in {"idle", "put", "get", "judge", "delete", "unlink"}
          => lpc[q] \in {"idle", "put", "get", "judge", "delete", "unlink"}
  BY DEF RepoInv, LockInv, LockTypeOK, LockStep, EndOperation, Start, AcquireStep, PutLock,
     PutReply, PutFault, FoundLocked, GetLock, Judge, DeleteStale, UnlinkStale, Finish,
     ReleaseStep, Release, UnlinkOwn, Crash, Expire, Goto, Retry
<1>4. BegunWithLock'
  BY <1>1, <1>3 DEF RepoInv, BegunWithLock, opVars
<1>5. DoneIsStored' /\ CollectorSparesReferenced' /\ PublishedComplete' /\ SnapshotIdsUnique'
  BY <1>1, <1>2, RepositoryAssumption
     DEF RepoInv, DoneIsStored, CollectorSparesReferenced, PublishedComplete,
         SnapshotIdsUnique, Referenced, At, opVars, dataVars
<1> QED
  BY <1>4, <1>5 DEF Safe

(* A worker only adds chunks, and reports done only what is stored. *)
LEMMA WorkSafe ==
    ASSUME RepoInv, NEW p \in Procs, Work(p)
    PROVE  Safe'
<1> USE DEF RepoInv, RepoTypeOK
<1>1. PICK j \in Jobs, s \in JobStates :
        /\ SetJob(p, j, s) /\ JobFrame(p) /\ Working(p)
        /\ chunks \subseteq chunks'
        /\ s = "done" => content[p][j] \in chunks'
  BY DEF Work, LookupChunk, VerifyChunk, StoreChunk, JobStates
<1>2. step[p] # "start"
  BY <1>1 DEF Working, BegunWithLock
<1>3. BegunWithLock'
  BY <1>1, <1>2 DEF BegunWithLock, SetJob, JobFrame, lockVars
<1>4. DoneIsStored'
  BY <1>1, RepositoryAssumption DEF DoneIsStored, SetJob, JobFrame, At, Holding, lockVars
<1>5. CollectorSparesReferenced' /\ PublishedComplete' /\ SnapshotIdsUnique'
  BY <1>1 DEF CollectorSparesReferenced, PublishedComplete, SnapshotIdsUnique,
     Referenced, JobFrame, At, Holding, lockVars
<1> QED
  BY <1>3, <1>4, <1>5 DEF Safe

(* The steps of the operation that holds the lock *)
LEMMA OperationSafe ==
    ASSUME RepoInv, NEW p \in Procs, OperationStep(p)
    PROVE  Safe'
<1> USE RepositoryAssumption DEF RepoInv, RepoTypeOK, Safe
<1>0. Holding(p) /\ (\A q \in Procs : Holding(q) => q = p)
  BY OperationFrame
<1>l. UNCHANGED lpc /\ \A q \in Procs : Holding(q)' = Holding(q)
  BY OperationFrame DEF lockVars
<1>b. lpc[p] \notin {"idle", "put", "get", "judge", "delete", "unlink"}
  BY <1>0 DEF Holding
<1>1. CASE StartBackup(p)
  <2>1. BegunWithLock'
    BY <1>l, <1>b, <1>1 DEF StartBackup, BegunWithLock, Advance
  <2>2. DoneIsStored'
    BY <1>0, <1>l, <1>1 DEF StartBackup, DoneIsStored, BegunWithLock, Advance, At, dataVars
  <2>3. CollectorSparesReferenced' /\ PublishedComplete' /\ SnapshotIdsUnique'
    BY <1>0, <1>l, <1>1 DEF StartBackup, Advance, At, CollectorSparesReferenced, Referenced,
       PublishedComplete, SnapshotIdsUnique, dataVars
  <2> QED
    BY <2>1, <2>2, <2>3
<1>2. CASE AbortBackup(p) \/ SweepDone(p) \/ Recover(p)
  <2>1. UNCHANGED <<dataVars, snap, content, job, live, doomed>> /\ Advance(p, "end")
    BY <1>2 DEF AbortBackup, SweepDone, Recover
  <2>2. BegunWithLock'
    BY <1>l, <1>b, <2>1 DEF BegunWithLock, Advance
  <2> QED
    BY <1>0, <1>l, <2>1, <2>2 DEF Advance, At, DoneIsStored, CollectorSparesReferenced,
       Referenced, PublishedComplete, SnapshotIdsUnique, dataVars
<1>3. CASE Publish(p)
  <2>1. UNCHANGED <<chunks, snap, content, job, live, doomed>> /\ Advance(p, "end")
    BY <1>3 DEF Publish
  <2>2. BegunWithLock'
    BY <1>l, <1>b, <2>1 DEF BegunWithLock, Advance
  <2>3. DoneIsStored' /\ CollectorSparesReferenced'
    BY <1>0, <1>l, <2>1 DEF Advance, At, DoneIsStored, CollectorSparesReferenced
  <2>4. NewManifest(p).refs \subseteq chunks
    BY <1>3 DEF Publish, DoneIsStored, NewManifest
  <2>5. \/ manifests' = manifests
        \/ ~IdTaken(snap[p]) /\ manifests' = manifests \union {NewManifest(p)}
    BY <1>3 DEF Publish
  <2>6. PublishedComplete'
    BY <2>1, <2>4, <2>5 DEF PublishedComplete, Referenced
  <2>7. SnapshotIdsUnique'
    <3>1. NewManifest(p).id = snap[p]
      BY DEF NewManifest
    <3>2. CASE manifests' = manifests
      BY <3>2 DEF SnapshotIdsUnique
    <3>3. CASE ~IdTaken(snap[p]) /\ manifests' = manifests \union {NewManifest(p)}
      <4>1. \A m \in manifests : m.id # NewManifest(p).id
        BY <3>1, <3>3 DEF IdTaken
      <4> HIDE DEF NewManifest
      <4> QED
        BY <4>1, <3>3 DEF SnapshotIdsUnique
    <3> QED
      BY <2>5, <3>2, <3>3
  <2> QED
    BY <2>2, <2>3, <2>6, <2>7
<1>4. CASE ResolveSnapshot(p)
  <2>1. UNCHANGED <<dataVars, content, job, live, doomed>>
        /\ \E s \in {"unpublish", "end"} : Advance(p, s)
    BY <1>4 DEF ResolveSnapshot
  <2>2. \A q \in Procs \ {p} : snap'[q] = snap[q]
    BY <1>4 DEF ResolveSnapshot
  <2>3. BegunWithLock'
    BY <1>l, <1>b, <2>1, <2>2 DEF BegunWithLock, Advance
  <2> QED
    BY <1>0, <1>l, <2>1, <2>3 DEF Advance, At, DoneIsStored, CollectorSparesReferenced,
       Referenced, PublishedComplete, SnapshotIdsUnique, dataVars
<1>5. CASE Unpublish(p)
  <2>1. UNCHANGED <<chunks, snap, content, job, live, doomed>> /\ Advance(p, "end")
    BY <1>5 DEF Unpublish
  <2>2. manifests' \subseteq manifests
    BY <1>5 DEF Unpublish
  <2>3. BegunWithLock'
    BY <1>l, <1>b, <2>1 DEF BegunWithLock, Advance
  <2>4. DoneIsStored' /\ CollectorSparesReferenced'
    BY <1>0, <1>l, <2>1 DEF Advance, At, DoneIsStored, CollectorSparesReferenced
  <2> QED
    BY <2>1, <2>2, <2>3, <2>4 DEF PublishedComplete, Referenced, SnapshotIdsUnique
<1>6. CASE Mark(p)
  <2>1. UNCHANGED <<dataVars, snap, content, job, doomed>>
        /\ (Advance(p, "end") \/ (Advance(p, "list") /\ live' = [live EXCEPT ![p] = Referenced]))
    BY <1>6 DEF Mark
  <2>2. BegunWithLock'
    BY <1>l, <1>b, <2>1 DEF BegunWithLock, Advance
  <2>3. Referenced' = Referenced
    BY <2>1 DEF Referenced, dataVars
  <2>4. Referenced \in SUBSET Chunks
    BY DEF Referenced, Manifests
  <2>5. CollectorSparesReferenced'
    BY <1>0, <1>l, <2>1, <2>3, <2>4 DEF Advance, At, CollectorSparesReferenced
  <2> QED
    BY <1>0, <1>l, <2>1, <2>2, <2>3, <2>5 DEF Advance, At, DoneIsStored,
       PublishedComplete, SnapshotIdsUnique, dataVars
<1>7. CASE ListChunks(p)
  <2>1. UNCHANGED <<dataVars, snap, content, job, live>>
        /\ \/ Advance(p, "end")
           \/ Advance(p, "sweep") /\ doomed' = [doomed EXCEPT ![p] = chunks \ live[p]]
    BY <1>7 DEF ListChunks
  <2>2. BegunWithLock'
    BY <1>l, <1>b, <2>1 DEF BegunWithLock, Advance
  <2>3. Referenced' = Referenced
    BY <2>1 DEF Referenced, dataVars
  <2>4. Referenced \subseteq live[p] /\ p \in Collectors
    BY <1>7 DEF ListChunks, CollectorSparesReferenced
  <2>5. CollectorSparesReferenced'
    BY <1>0, <1>l, <2>1, <2>3, <2>4 DEF Advance, At, CollectorSparesReferenced
  <2> QED
    BY <1>0, <1>l, <2>1, <2>2, <2>3, <2>5 DEF Advance, At, DoneIsStored,
       PublishedComplete, SnapshotIdsUnique, dataVars
<1>8. CASE Sweep(p)
  <2>1. PICK c \in doomed[p] : chunks' = chunks \ {c} \/ chunks' = chunks
    BY <1>8 DEF Sweep
  <2>2. /\ UNCHANGED <<manifests, snap, content, job, live>>
        /\ Advance(p, "end") \/ UNCHANGED step
        /\ doomed'[p] \subseteq doomed[p] /\ \A q \in Procs \ {p} : doomed'[q] = doomed[q]
    BY <1>8 DEF Sweep
  <2>3. p \in Collectors /\ At(p, "sweep") /\ doomed[p] \intersect Referenced = {}
    BY <1>8 DEF Sweep, CollectorSparesReferenced
  <2>4. BegunWithLock'
    BY <1>l, <1>b, <2>2 DEF BegunWithLock, Advance
  <2>5. Referenced' = Referenced
    BY <2>2 DEF Referenced
  <2>6. CollectorSparesReferenced'
    BY <1>0, <1>l, <2>2, <2>3, <2>5 DEF Advance, At, CollectorSparesReferenced
  <2>7. DoneIsStored'
    BY <1>0, <1>l, <2>2, <2>3 DEF Advance, At, DoneIsStored
  <2>8. PublishedComplete'
    BY <2>1, <2>3, <2>5 DEF PublishedComplete
  <2> QED
    BY <2>2, <2>4, <2>6, <2>7, <2>8 DEF SnapshotIdsUnique
<1> QED
  BY <1>1, <1>2, <1>3, <1>4, <1>5, <1>6, <1>7, <1>8 DEF OperationStep

(* RepoInv is an invariant: a snapshot is complete because its backup held *)
(* the lock from its first job to its publication, and stays complete      *)
(* because a collector holds it from marking to sweeping.                  *)
THEOREM RepoInvariant ==
    ASSUME SafeRecovery
    PROVE  RepoSpec => []RepoInv
<1>1. RepoInit => RepoInv
  <2> SUFFICES ASSUME RepoInit PROVE RepoInv
    OBVIOUS
  <2>1. LockInit
    BY DEF RepoInit
  <2>2. LockInv
    BY <2>1, LockAssumption DEF LockInit, LockInv, LockTypeOK, AttemptLeft, OwnerKeepsLock,
       OnlyEndedExpire, RecoveryIsJustified, Locations, MaxTries
  <2>3. RepoTypeOK
    BY <2>2 DEF RepoInit, RepoTypeOK, LockInv, Steps, JobStates
  <2>4. BegunWithLock
    BY DEF RepoInit, BegunWithLock
  <2>5. \A p \in Procs : ~Holding(p)
    BY <2>1 DEF LockInit, Holding
  <2>6. DoneIsStored /\ CollectorSparesReferenced
    BY <2>5, RepositoryAssumption DEF DoneIsStored, CollectorSparesReferenced, At
  <2>7. PublishedComplete /\ SnapshotIdsUnique
    BY DEF RepoInit, PublishedComplete, Referenced, SnapshotIdsUnique
  <2> QED
    BY <2>2, <2>3, <2>4, <2>6, <2>7 DEF RepoInv
<1>2. ASSUME RepoInv, [RepoNext]_repoVars PROVE RepoInv'
  <2>1. LockInv'
    BY <1>2, LockOfRepo, StepLockTypeOK, StepLockSafety DEF RepoInv, LockInv, LockSafety
  <2>2. RepoTypeOK'
    BY <1>2, <2>1, StepRepoTypeOK DEF RepoInv, LockInv
  <2>3. Safe'
    <3>1. CASE UNCHANGED repoVars
      BY <1>2, <3>1 DEF repoVars, lockVars, dataVars, opVars, RepoInv, Safe, BegunWithLock,
         DoneIsStored, CollectorSparesReferenced, PublishedComplete, SnapshotIdsUnique,
         Referenced, At, Holding
    <3>2. ASSUME NEW c \in Chunks, Rot(c) PROVE Safe'
      BY <1>2, <3>2 DEF Rot, lockVars, opVars, RepoInv, Safe, BegunWithLock, DoneIsStored,
         CollectorSparesReferenced, PublishedComplete, SnapshotIdsUnique, Referenced, At, Holding
    <3> QED
      BY <1>2, <2>1, <3>1, <3>2, LockStepSafe, WorkSafe, OperationSafe DEF RepoNext, LockInv
  <2> QED
    BY <2>1, <2>2, <2>3 DEF RepoInv, Safe
<1> QED
  BY <1>1, <1>2, PTL DEF RepoSpec

(* Every chunk that a published snapshot refers to is in the store, at any *)
(* time, whatever fails or crashes.                                        *)
THEOREM SnapshotsStayComplete ==
    ASSUME SafeRecovery
    PROVE  RepoSpec => []PublishedComplete
<1>1. RepoInv => PublishedComplete
  BY DEF RepoInv
<1> QED
  BY <1>1, RepoInvariant, PTL

(* Manifests change and chunks go only by the steps of the invocation      *)
(* whose lock is in the store.                                             *)
THEOREM OnlyTheHolderRemoves ==
    ASSUME SafeRecovery
    PROVE  RepoSpec => RemovalsUnderLock
<1> DEFINE Step == manifests' # manifests \/ ~(chunks \subseteq chunks')
                     => \E p \in Procs : Holding(p) /\ lock = p /\ UNCHANGED lockVars
<1>1. ASSUME RepoInv, [RepoNext]_repoVars PROVE [Step]_repoVars
  <2>1. ASSUME NEW p \in Procs, OperationStep(p) PROVE Step
    <3>1. UNCHANGED lockVars /\ Holding(p)
      BY <2>1 DEF OperationStep, StartBackup, AbortBackup, Publish, ResolveSnapshot,
         Unpublish, Mark, ListChunks, Sweep, SweepDone, Recover, At
    <3>2. lock = p
      BY <1>1, <3>1 DEF RepoInv, LockInv, OwnerKeepsLock, Holding
    <3> QED
      BY <3>1, <3>2
  <2>2. ASSUME NEW p \in Procs, LockStep(p) \/ EndOperation(p) \/ Work(p) PROVE Step
    BY <2>2 DEF LockStep, EndOperation, Work, LookupChunk, VerifyChunk, StoreChunk,
       JobFrame, dataVars
  <2>3. ASSUME NEW c \in Chunks, Rot(c) PROVE Step
    BY <2>3 DEF Rot
  <2> QED
    BY <1>1, <2>1, <2>2, <2>3 DEF RepoNext
<1> QED
  BY <1>1, RepoInvariant, PTL DEF RepoSpec, RemovalsUnderLock

-----------------------------------------------------------------------------
(* What a backup publishes, and what a delete takes back *)

(* What the holder's workers are done with has not gone bad. *)
DoneIsSound ==
    \A p \in Backups : At(p, "store") =>
        \A j \in Jobs : job[p][j] = "done" => content[p][j] \notin rotten

(* The ids come from the clock, and a backup whose clock was not set back  *)
(* has a later one than what is published already.                         *)
IdsFromClock ==
    /\ \A m \in manifests : m.id <= now
    /\ \A p \in Backups : At(p, "store") =>
         /\ snap[p] <= now
         /\ p \notin Resets => \A m \in manifests : m.id < snap[p]

Dated == DoneIsSound /\ IdsFromClock

LEMMA StepDated ==
    ASSUME RepoInv, RepoInv', Dated, [RepoNext]_repoVars
    PROVE  Dated'
<1> USE RepositoryAssumption DEF Dated, DoneIsSound, IdsFromClock
<1>0. RepoTypeOK /\ RepoTypeOK' /\ LockTypeOK'
  BY DEF RepoInv, RepoTypeOK
<1>n. /\ now \in Nat /\ now' \in Nat
      /\ \A p \in Procs : snap[p] \in Nat /\ snap'[p] \in Nat
      /\ \A m \in manifests : m.id \in Nat
  <2>1. Times \union {0} \subseteq Nat
    OBVIOUS
  <2>2. \A m \in manifests : m.id \in Nat
    BY <1>0, <2>1 DEF RepoTypeOK, Manifests
  <2>3. \A p \in Procs : snap[p] \in Nat /\ snap'[p] \in Nat
    BY <1>0, <2>1 DEF RepoTypeOK
  <2> QED
    BY <1>0, <2>1, <2>2, <2>3 DEF RepoTypeOK
<1>1. CASE UNCHANGED repoVars
  BY <1>1 DEF repoVars, lockVars, dataVars, opVars, At, Holding
<1>2. ASSUME NEW p \in Procs, LockStep(p) \/ EndOperation(p) PROVE Dated'
  BY <1>0, <1>2, LockStepFrame DEF dataVars, opVars, At
<1>3. ASSUME NEW c \in Chunks, Rot(c) PROVE Dated'
  BY <1>3 DEF Rot, lockVars, opVars, At, Holding
<1>4. ASSUME NEW p \in Procs, Work(p) PROVE Dated'
  <2>1. PICK j \in Jobs, s \in JobStates :
          /\ SetJob(p, j, s) /\ JobFrame(p) /\ p \in Procs
          /\ s = "done" => content[p][j] \notin rotten
    BY <1>0, <1>4 DEF Work, LookupChunk, VerifyChunk, StoreChunk, JobStates, RepoTypeOK
  <2> QED
    BY <1>0, <2>1 DEF SetJob, JobFrame, At, Holding, lockVars, RepoTypeOK
<1>5. ASSUME NEW p \in Procs, OperationStep(p) PROVE Dated'
  <2>0. /\ Holding(p) /\ (\A q \in Procs : Holding(q) => q = p)
        /\ \A q \in Procs : Holding(q)' = Holding(q)
    BY <1>5, OperationFrame
  <2>1. CASE StartBackup(p)
    <3>1. PICK t \in Times :
            /\ t = now + 1 \/ (t <= now /\ p \in Resets)
            /\ now' = IF t > now THEN t ELSE now
            /\ snap' = [snap EXCEPT ![p] = t]
      BY <2>1 DEF StartBackup
    <3>2. /\ UNCHANGED <<dataVars, job>> /\ Advance(p, "store")
          /\ \A j \in Jobs : job[p][j] = "todo"
      BY <2>1 DEF StartBackup, At, RepoInv, BegunWithLock
    <3>3. now <= now' /\ t <= now' /\ (p \notin Resets => now < t)
      BY <1>n, <3>1
    <3>4. \A q \in Procs : At(q, "store")' => q = p
      BY <2>0 DEF At
    <3>5. snap'[p] = t /\ t \in Nat
      BY <1>0, <3>1 DEF RepoTypeOK
    <3>6. DoneIsSound'
      BY <3>2, <3>4
    <3>7. \A m \in manifests' : m.id <= now'
      BY <1>n, <3>2, <3>3 DEF dataVars
    <3>8. p \notin Resets => \A m \in manifests' : m.id < t
      BY <1>n, <3>2, <3>3, <3>5 DEF dataVars
    <3> QED
      BY <3>3, <3>4, <3>5, <3>6, <3>7, <3>8
  <2>2. CASE Publish(p)
    <3>1. /\ At(p, "store") /\ p \in Backups /\ UNCHANGED <<rotten, now, snap, content, job>>
          /\ Advance(p, "end") /\ manifests' \subseteq manifests \union {NewManifest(p)}
      BY <2>2 DEF Publish
    <3>2. \A q \in Procs : ~At(q, "store")'
      BY <1>0, <2>0, <3>1 DEF At, Advance, RepoTypeOK
    <3>3. NewManifest(p).id <= now
      BY <3>1 DEF NewManifest
    <3> QED
      BY <3>1, <3>2, <3>3
  <2>3. CASE \/ AbortBackup(p) \/ ResolveSnapshot(p) \/ Unpublish(p) \/ Mark(p)
             \/ ListChunks(p) \/ Sweep(p) \/ SweepDone(p) \/ Recover(p)
    <3>1. /\ rotten' \subseteq rotten /\ manifests' \subseteq manifests
          /\ UNCHANGED <<now, content, job>>
          /\ \A q \in Procs : step'[q] = "store" => step[q] = "store"
      BY <1>0, <2>3 DEF AbortBackup, ResolveSnapshot, Unpublish, Mark, ListChunks, Sweep,
         SweepDone, Recover, Advance, dataVars, RepoTypeOK
    <3>2. \A q \in Backups : snap'[q] = snap[q]
      BY <1>0, <2>3 DEF AbortBackup, ResolveSnapshot, Unpublish, Mark, ListChunks, Sweep,
         SweepDone, Recover, RepoTypeOK
    <3>3. \A q \in Procs : At(q, "store")' => At(q, "store")
      BY <2>0, <3>1 DEF At
    <3> QED
      BY <3>1, <3>2, <3>3
  <2> QED
    BY <1>5, <2>1, <2>2, <2>3 DEF OperationStep
<1> QED
  BY <1>1, <1>2, <1>3, <1>4, <1>5 DEF RepoNext

LEMMA InitDated == RepoInit => Dated
BY RepositoryAssumption
   DEF RepoInit, LockInit, Dated, DoneIsSound, IdsFromClock, At, Holding

LEMMA RepoDated ==
    ASSUME SafeRecovery
    PROVE  RepoSpec => [](RepoInv /\ Dated)
<1>1. RepoInv /\ RepoInv' /\ Dated /\ [RepoNext]_repoVars => Dated'
  BY StepDated
<1> QED
  BY <1>1, InitDated, RepoInvariant, PTL DEF RepoSpec

(* Snapshots come only from a backup that holds the lock, has stored every *)
(* chunk and is alone in doing so.                                         *)
LEMMA OnlyBackupsPublish ==
    ASSUME RepoInv, RepoNext, NEW m \in manifests' \ manifests
    PROVE  \E p \in Backups :
               /\ At(p, "store") /\ m = NewManifest(p)
               /\ \A j \in Jobs : job[p][j] = "done"
               /\ \A q \in Procs : Holding(q) => q = p
<1>1. PICK p \in Procs : Publish(p)
  BY DEF RepoNext, LockStep, EndOperation, OperationStep, Work, LookupChunk, VerifyChunk,
     StoreChunk, JobFrame, Rot, StartBackup, AbortBackup, ResolveSnapshot, Unpublish, Mark,
     ListChunks, Sweep, SweepDone, Recover, dataVars
<1>2. OperationStep(p)
  BY <1>1 DEF OperationStep
<1> QED
  BY <1>1, <1>2, OperationFrame DEF Publish

(* A published snapshot refers to nothing that had gone bad before its     *)
(* backup ran: what is reused was verified, and what is stored is new.     *)
THEOREM BackupsVerifyWhatTheyReuse ==
    ASSUME SafeRecovery
    PROVE  RepoSpec => PublishedVerified
<1> DEFINE Step == \A m \in manifests' \ manifests : m.refs \intersect rotten = {}
<1>1. ASSUME RepoInv, Dated, [RepoNext]_repoVars PROVE [Step]_repoVars
  <2> SUFFICES ASSUME RepoNext, NEW m \in manifests' \ manifests
               PROVE  m.refs \intersect rotten = {}
    BY <1>1
  <2>1. PICK p \in Backups : At(p, "store") /\ m = NewManifest(p) /\ \A j \in Jobs : job[p][j] = "done"
    BY <1>1, OnlyBackupsPublish
  <2>2. m.refs = {content[p][j] : j \in Jobs}
    BY <2>1 DEF NewManifest
  <2> QED
    BY <1>1, <2>1, <2>2 DEF Dated, DoneIsSound
<1> QED
  BY <1>1, RepoDated, PTL DEF RepoSpec, PublishedVerified

(* Unless the clock was set back for it, the snapshot published last has   *)
(* the greatest id.                                                        *)
THEOREM LatestIsPublishedLast ==
    ASSUME SafeRecovery
    PROVE  RepoSpec => PublishedInOrder
<1> DEFINE Step == \A p \in Backups \ Resets, m \in manifests' \ manifests, n \in manifests :
                       At(p, "store") => n.id < m.id
<1>1. ASSUME RepoInv, Dated, [RepoNext]_repoVars PROVE [Step]_repoVars
  <2> SUFFICES ASSUME RepoNext, NEW p \in Backups \ Resets, At(p, "store"),
                      NEW m \in manifests' \ manifests, NEW n \in manifests
               PROVE  n.id < m.id
    BY <1>1
  <2>1. m = NewManifest(p)
    BY <1>1, OnlyBackupsPublish, RepositoryAssumption DEF At
  <2>2. m.id = snap[p]
    BY <2>1 DEF NewManifest
  <2> QED
    BY <1>1, <2>2 DEF Dated, IdsFromClock
<1> QED
  BY <1>1, RepoDated, PTL DEF RepoSpec, PublishedInOrder

(* A snapshot leaves the catalogue only by the delete that resolved it.    *)
THEOREM SnapshotsStayUntilDeleted == RepoSpec => SnapshotsImmutable
<1> DEFINE Step == \A m \in manifests \ manifests' :
                       \E p \in Deletes : At(p, "unpublish") /\ snap[p] = m.id
<1>1. ASSUME [RepoNext]_repoVars PROVE [Step]_repoVars
  <2> SUFFICES ASSUME RepoNext, NEW m \in manifests \ manifests'
               PROVE  \E p \in Deletes : At(p, "unpublish") /\ snap[p] = m.id
    BY <1>1
  <2>1. PICK p \in Procs : Unpublish(p)
    BY DEF RepoNext, LockStep, EndOperation, OperationStep, Work, LookupChunk, VerifyChunk,
       StoreChunk, JobFrame, Rot, StartBackup, AbortBackup, Publish, ResolveSnapshot, Mark,
       ListChunks, Sweep, SweepDone, Recover, dataVars
  <2> QED
    BY <2>1 DEF Unpublish
<1> QED
  BY <1>1, PTL DEF RepoSpec, SnapshotsImmutable

-----------------------------------------------------------------------------
(* What a collection leaves *)

(* A backup that is over has a failed job, or no job to do any more,       *)
(* unless the source could not be read.                                    *)
BackupsSettle ==
    \A q \in Backups :
        /\ step[q] \in {"start", "store", "end"}
        /\ step[q] = "store" => lpc[q] \in {"held", "crashed"}
        /\ step[q] = "end" /\ ~SourceErrors =>
             (\A j \in Jobs : job[q][j] = "done") \/ (\E j \in Jobs : job[q][j] = "failed")

(* Beside what is referenced, a collector meets only what it is about to   *)
(* delete and what workers of failed backups store.                        *)
CollectorKnows(p) ==
    /\ At(p, "list") => live[p] \subseteq Referenced
    /\ At(p, "sweep") => chunks \subseteq Referenced \union Straggling \union doomed[p]

CollectorsKnow == ~SourceErrors => \A p \in Collectors : CollectorKnows(p)

Settled == BackupsSettle /\ CollectorsKnow

(* What a straggler may be storing *)
StragglingByJob ==
    \A c : c \in Straggling <=>
        \E q \in Backups, j, k \in Jobs : job[q][k] = "failed" /\ c = content[q][j]

LEMMA StragglingIs == StragglingByJob
<1> DEFINE Losers == {q \in Backups : \E j \in Jobs : job[q][j] = "failed"}
           Its(q) == {content[q][j] : j \in Jobs}
<1>1. \A q : q \in Losers <=> q \in Backups /\ \E k \in Jobs : job[q][k] = "failed"
  OBVIOUS
<1>2. \A q, c : c \in Its(q) <=> \E j \in Jobs : c = content[q][j]
  OBVIOUS
<1>3. \A c : c \in UNION {Its(q) : q \in Losers} <=> \E q \in Losers : c \in Its(q)
  OBVIOUS
<1>4. Straggling = UNION {Its(q) : q \in Losers}
  BY DEF Straggling
<1> HIDE DEF Losers, Its
<1>5. \A c : c \in Straggling <=> \E q \in Losers : c \in Its(q)
  BY <1>3, <1>4, Zenon
<1>6. ASSUME NEW c PROVE
        (\E q \in Losers : c \in Its(q)) <=>
        \E q \in Backups, j, k \in Jobs : job[q][k] = "failed" /\ c = content[q][j]
  BY <1>1, <1>2
<1> QED
  BY <1>5, <1>6, Zenon DEF StragglingByJob

(* A worker that stores a chunk while a collector has the lock is one of a *)
(* backup with a failed job.                                               *)
LEMMA WorkSettled ==
    ASSUME RepoInv, Settled, NEW q \in Procs, Work(q)
    PROVE  Settled'
<1> USE RepositoryAssumption DEF RepoInv, RepoTypeOK, Settled
<1>1. PICK j \in Jobs, s \in JobStates :
        /\ SetJob(q, j, s) /\ JobFrame(q) /\ Working(q)
        /\ job[q][j] \notin {"done", "failed"}
        /\ chunks' \subseteq chunks \union {content[q][j]}
  BY DEF Work, LookupChunk, VerifyChunk, StoreChunk, JobStates
<1>2. q \in Backups /\ lpc[q] # "crashed" /\ step[q] # "start"
  BY <1>1 DEF Working, BegunWithLock
<1>3. /\ UNCHANGED <<lpc, step, content, live, doomed, manifests>>
      /\ \A p \in Procs : Holding(p)' = Holding(p)
  BY <1>1 DEF JobFrame, lockVars, Holding
<1>4. \A p \in Backups, k \in Jobs : job[p][k] = "failed" => job'[p][k] = "failed"
  BY <1>1 DEF SetJob
<1>5. BackupsSettle'
  BY <1>1, <1>3 DEF BackupsSettle, SetJob
<1>6. Straggling \subseteq Straggling'
  <2>1. StragglingByJob /\ StragglingByJob'
    BY StragglingIs, PTL
  <2> QED
    BY <1>3, <1>4, <2>1 DEF StragglingByJob
<1>7. ASSUME ~SourceErrors, NEW p \in Collectors, At(p, "sweep")
      PROVE  content[q][j] \in Straggling
  <2>1. ~Holding(q)
    BY <1>2, <1>7, OneHolder DEF At
  <2>2. step[q] = "end"
    BY <1>2, <2>1 DEF BackupsSettle, Holding
  <2>3. \E k \in Jobs : job[q][k] = "failed"
    BY <1>1, <1>2, <1>7, <2>2 DEF BackupsSettle
  <2> QED
    BY <1>2, <2>3, StragglingIs DEF StragglingByJob
<1>8. CollectorsKnow'
  <2>1. Referenced' = Referenced
    BY <1>3 DEF Referenced
  <2>2. \A p \in Procs : /\ At(p, "sweep")' = At(p, "sweep")
                         /\ At(p, "list")' = At(p, "list")
    BY <1>3 DEF At
  <2> QED
    BY <1>1, <1>3, <1>6, <1>7, <2>1, <2>2 DEF CollectorsKnow, CollectorKnows
<1> QED
  BY <1>5, <1>8

LEMMA OperationSettled ==
    ASSUME RepoInv, Settled, NEW p \in Procs, OperationStep(p)
    PROVE  Settled'
<1> USE RepositoryAssumption DEF RepoInv, RepoTypeOK, Settled
<1>0. /\ Holding(p) /\ (\A q \in Procs : Holding(q) => q = p)
      /\ UNCHANGED lpc /\ \A q \in Procs : Holding(q)' = Holding(q)
  BY OperationFrame DEF lockVars
<1>1. CASE StartBackup(p)
  <2>1. p \in Backups /\ Advance(p, "store") /\ UNCHANGED job
    BY <1>1 DEF StartBackup
  <2>2. lpc'[p] = "held" /\ UNCHANGED lpc
    BY <1>0 DEF Holding
  <2>3. BackupsSettle'
    BY <2>1, <2>2 DEF BackupsSettle, Advance
  <2>4. \A q \in Collectors : ~At(q, "list")' /\ ~At(q, "sweep")'
    BY <1>0, <2>1 DEF At
  <2> QED
    BY <2>3, <2>4 DEF CollectorsKnow, CollectorKnows
<1>2. CASE AbortBackup(p) \/ Publish(p)
  <2>1. p \in Backups /\ Advance(p, "end") /\ UNCHANGED job
    BY <1>2 DEF AbortBackup, Publish
  <2>2. (\A j \in Jobs : job[p][j] = "done") \/ (\E j \in Jobs : job[p][j] = "failed") \/ SourceErrors
    BY <1>2 DEF AbortBackup, Publish
  <2>3. BackupsSettle'
    BY <1>0, <2>1, <2>2 DEF BackupsSettle, Advance
  <2>4. \A q \in Collectors : ~At(q, "list")' /\ ~At(q, "sweep")'
    BY <1>0, <2>1 DEF At
  <2> QED
    BY <2>3, <2>4 DEF CollectorsKnow, CollectorKnows
<1>3. CASE ResolveSnapshot(p) \/ Unpublish(p)
  <2>1. /\ p \in Deletes /\ UNCHANGED job
        /\ Advance(p, "end") \/ Advance(p, "unpublish")
    BY <1>3 DEF ResolveSnapshot, Unpublish
  <2>2. BackupsSettle'
    BY <1>0, <2>1 DEF BackupsSettle, Advance
  <2>3. \A q \in Collectors : ~At(q, "list")' /\ ~At(q, "sweep")'
    BY <1>0, <2>1 DEF At
  <2> QED
    BY <2>2, <2>3 DEF CollectorsKnow, CollectorKnows
<1>4. CASE Mark(p) \/ ListChunks(p) \/ Sweep(p) \/ SweepDone(p) \/ Recover(p)
  <2>1. /\ p \in Collectors /\ UNCHANGED <<manifests, content, job>>
        /\ \A q \in Procs \ {p} : step'[q] = step[q]
    BY <1>4 DEF Mark, ListChunks, Sweep, SweepDone, Recover, Advance, dataVars
  <2>2. BackupsSettle'
    BY <1>0, <2>1 DEF BackupsSettle
  <2>3. Referenced' = Referenced /\ Straggling' = Straggling
    BY <2>1 DEF Referenced, Straggling
  <2>4. \A q \in Collectors \ {p} : ~At(q, "list")' /\ ~At(q, "sweep")'
    BY <1>0 DEF At
  <2>5. CASE Mark(p)
    <3>1. Referenced \in SUBSET Chunks
      BY DEF Referenced, Manifests
    <3>2. \/ step'[p] = "list" /\ live'[p] = Referenced
          \/ step'[p] = "end"
      BY <2>5, <3>1 DEF Mark, Advance
    <3> QED
      BY <2>2, <2>3, <2>4, <3>2 DEF CollectorsKnow, CollectorKnows, At
  <2>6. CASE ListChunks(p)
    <3>1. At(p, "list") /\ UNCHANGED chunks
      BY <2>6 DEF ListChunks, dataVars
    <3>2. \/ step'[p] = "sweep" /\ doomed'[p] = chunks \ live[p]
          \/ step'[p] = "end"
      BY <2>6 DEF ListChunks, Advance
    <3> QED
      BY <2>1, <2>2, <2>3, <2>4, <3>1, <3>2 DEF CollectorsKnow, CollectorKnows, At
  <2>7. CASE Sweep(p)
    <3>1. At(p, "sweep")
      BY <2>7 DEF Sweep
    <3>2. \/ step'[p] = "end"
          \/ \E c : /\ step'[p] = "sweep" /\ chunks' = chunks \ {c}
                    /\ doomed'[p] = doomed[p] \ {c}
      BY <2>7 DEF Sweep, Advance, At
    <3> QED
      BY <2>1, <2>2, <2>3, <2>4, <3>1, <3>2 DEF CollectorsKnow, CollectorKnows, At
  <2>8. CASE SweepDone(p) \/ Recover(p)
    <3>1. step'[p] = "end"
      BY <2>8 DEF SweepDone, Recover, Advance
    <3> QED
      BY <2>2, <2>4, <3>1 DEF CollectorsKnow, CollectorKnows, At
  <2> QED
    BY <1>4, <2>5, <2>6, <2>7, <2>8
<1> QED
  BY <1>1, <1>2, <1>3, <1>4 DEF OperationStep

LEMMA StepSettled ==
    ASSUME RepoInv, RepoInv', Settled, [RepoNext]_repoVars
    PROVE  Settled'
<1> USE RepositoryAssumption DEF Settled
<1>0. RepoTypeOK /\ LockTypeOK /\ LockTypeOK'
  BY DEF RepoInv, RepoTypeOK
<1>1. CASE UNCHANGED repoVars
  BY <1>1 DEF repoVars, lockVars, dataVars, opVars, At, Holding, BackupsSettle, CollectorsKnow,
     CollectorKnows, Referenced, Straggling
<1>2. ASSUME NEW p \in Procs, LockStep(p) \/ EndOperation(p) PROVE Settled'
  <2>1. /\ UNCHANGED <<dataVars, opVars>>
        /\ \A q \in Procs : Holding(q)' => Holding(q) \/ step[q] = "start"
    BY <1>0, <1>2, LockStepFrame
  <2>2. \A q \in Procs : step[q] = "store" /\ lpc[q] \in {"held", "crashed"}
                            => lpc'[q] \in {"held", "crashed"}
    BY <1>0, <1>2 DEF LockStep, EndOperation, Start, AcquireStep, PutLock, PutReply, PutFault,
       FoundLocked, GetLock, Judge, DeleteStale, UnlinkStale, Finish, ReleaseStep, Release,
       UnlinkOwn, Crash, Expire, Goto, Retry, LockTypeOK
  <2>3. BackupsSettle'
    BY <2>1, <2>2 DEF BackupsSettle, opVars
  <2>4. Referenced' = Referenced /\ Straggling' = Straggling
    BY <2>1 DEF Referenced, Straggling, dataVars, opVars
  <2>5. \A q \in Procs : /\ At(q, "list")' => At(q, "list")
                         /\ At(q, "sweep")' => At(q, "sweep")
    BY <2>1 DEF At, opVars
  <2> QED
    BY <2>1, <2>3, <2>4, <2>5 DEF CollectorsKnow, CollectorKnows, dataVars, opVars
<1>3. ASSUME NEW c \in Chunks, Rot(c) PROVE Settled'
  BY <1>3 DEF Rot, lockVars, opVars, At, Holding, BackupsSettle, CollectorsKnow,
     CollectorKnows, Referenced, Straggling
<1> QED
  BY <1>1, <1>2, <1>3, WorkSettled, OperationSettled DEF RepoNext

LEMMA InitSettled == RepoInit => Settled
BY RepositoryAssumption
   DEF RepoInit, LockInit, Settled, BackupsSettle, CollectorsKnow, CollectorKnows, At, Holding

(* A collection that comes to its end leaves the chunks that the published *)
(* snapshots refer to, and no others but those that workers of a failed    *)
(* backup store meanwhile: nothing a collector listed as live is garbage,  *)
(* and nothing it did not list appears while it has the lock.              *)
THEOREM CollectorsAreExact ==
    ASSUME SafeRecovery
    PROVE  RepoSpec => CollectionIsExact
<1> DEFINE Step == \A p \in Collectors : SweepDone(p) /\ ~SourceErrors =>
                       Referenced \subseteq chunks /\ chunks \subseteq Referenced \union Straggling
<1>1. RepoInv /\ RepoInv' /\ Settled /\ [RepoNext]_repoVars => Settled'
  BY StepSettled
<1>2. RepoInv /\ Settled => Step
  BY DEF RepoInv, Settled, CollectorsKnow, CollectorKnows, SweepDone, PublishedComplete
<1>3. RepoInv /\ Settled => [Step]_repoVars
  BY <1>2
<1> QED
  BY <1>1, <1>3, InitSettled, RepoInvariant, PTL DEF RepoSpec, CollectionIsExact

-----------------------------------------------------------------------------
(* The refinement of SnapshotCatalog *)

(* Every step of an operation is a step of the catalogue, or none. *)
LEMMA OperationInCatalog ==
    ASSUME RepoInv, NEW p \in Procs, OperationStep(p)
    PROVE  [Catalog!Next]_<<manifests, chunks>>
<1> USE RepositoryAssumption DEF RepoInv, RepoTypeOK
<1>1. CASE Publish(p)
  <2>1. snap[p] \in Times /\ p \in Backups
    BY <1>1 DEF Publish, At, BegunWithLock
  <2>2. NewManifest(p) \in Manifests /\ NewManifest(p).id = snap[p]
    BY <2>1 DEF NewManifest, Manifests
  <2>3. NewManifest(p).refs \subseteq chunks
    BY <1>1 DEF Publish, DoneIsStored, NewManifest
  <2>4. CASE UNCHANGED manifests
    BY <1>1, <2>4 DEF Publish
  <2>5. CASE ~IdTaken(snap[p]) /\ manifests' = manifests \union {NewManifest(p)}
    <3>1. Catalog!Publish(NewManifest(p))
      BY <1>1, <2>2, <2>3, <2>5 DEF Publish, Catalog!Publish, IdTaken
    <3> QED
      BY <2>2, <3>1 DEF Catalog!Next
  <2> QED
    BY <1>1, <2>4, <2>5 DEF Publish
<1>2. CASE Unpublish(p)
  <2>1. CASE \E m \in manifests : m.id = snap[p] /\ manifests' # manifests
    <3>1. PICK m \in manifests : m.id = snap[p]
      BY <2>1
    <3>2. manifests' = {n \in manifests : n.id # snap[p]}
      BY <1>2, <2>1 DEF Unpublish
    <3>3. manifests' = manifests \ {m}
      BY <3>1, <3>2 DEF SnapshotIdsUnique
    <3>4. Catalog!Delete(m)
      BY <1>2, <3>3 DEF Unpublish, Catalog!Delete
    <3> QED
      BY <3>4 DEF Catalog!Next
  <2>2. CASE ~\E m \in manifests : m.id = snap[p] /\ manifests' # manifests
    <3>1. manifests' = manifests
      BY <1>2, <2>2 DEF Unpublish
    <3> QED
      BY <1>2, <3>1 DEF Unpublish
  <2> QED
    BY <2>1, <2>2
<1>3. CASE Sweep(p)
  <2>1. PICK c \in doomed[p] : chunks' = chunks \ {c} \/ chunks' = chunks
    BY <1>3 DEF Sweep
  <2>2. manifests' = manifests /\ c \notin Referenced /\ c \in Chunks
    BY <1>3 DEF Sweep, CollectorSparesReferenced
  <2>3. chunks' = chunks \ {c} => Catalog!Reclaim(c)
    BY <2>2 DEF Catalog!Reclaim, Catalog!Needed, Referenced
  <2> QED
    BY <2>1, <2>2, <2>3 DEF Catalog!Next
<1>4. CASE \/ StartBackup(p) \/ AbortBackup(p) \/ ResolveSnapshot(p) \/ Mark(p)
           \/ ListChunks(p) \/ SweepDone(p) \/ Recover(p)
  BY <1>4 DEF StartBackup, AbortBackup, ResolveSnapshot, Mark, ListChunks, SweepDone,
     Recover, dataVars
<1> QED
  BY <1>1, <1>2, <1>3, <1>4 DEF OperationStep

(* The repository implements the catalogue of snapshots: each one appears  *)
(* whole, and what it needs stays until it is deleted.                     *)
THEOREM RepositoryImplementsCatalog ==
    ASSUME SafeRecovery
    PROVE  RepoSpec => ImplementsCatalog
<1>1. RepoInit => Catalog!Init
  BY DEF RepoInit, Catalog!Init
<1>2. ASSUME RepoInv, [RepoNext]_repoVars PROVE [Catalog!Next]_<<manifests, chunks>>
  <2>1. CASE UNCHANGED repoVars
    BY <2>1 DEF repoVars, dataVars
  <2>2. ASSUME NEW p \in Procs, LockStep(p) \/ EndOperation(p)
        PROVE  UNCHANGED <<manifests, chunks>>
    BY <2>2 DEF LockStep, EndOperation, dataVars
  <2>3. ASSUME NEW p \in Procs, Work(p) PROVE [Catalog!Next]_<<manifests, chunks>>
    <3>1. manifests' = manifests /\ \E c \in Chunks : chunks' = chunks \/ chunks' = chunks \union {c}
      BY <1>2, <2>3, RepositoryAssumption DEF RepoInv, RepoTypeOK, Work, LookupChunk, VerifyChunk, StoreChunk, JobFrame, Working
    <3> QED
      BY <3>1 DEF Catalog!Next, Catalog!Store
  <2>4. ASSUME NEW c \in Chunks, Rot(c) PROVE UNCHANGED <<manifests, chunks>>
    BY <2>4 DEF Rot
  <2> QED
    BY <1>2, <2>1, <2>2, <2>3, <2>4, OperationInCatalog DEF RepoNext
<1> QED
  BY <1>1, <1>2, RepoInvariant, PTL DEF RepoSpec, Catalog!Spec, ImplementsCatalog
=============================================================================
