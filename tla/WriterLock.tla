----------------------------- MODULE WriterLock -----------------------------
(***************************************************************************)
(* The writer lock of a vestige repository: the object "write.lock", taken *)
(* by acquireWriteLock with a conditional put, recovered by an invocation  *)
(* that was given --stale-lock-after, and removed by writeLock.release     *)
(* with a conditional delete.                                              *)
(*                                                                         *)
(* A process stands for one invocation of the program: it asks for the     *)
(* lock once.  The lock's content (pid and creation time, whose hash or    *)
(* ETag is the lock's version) is unique to the invocation that wrote it,  *)
(* so the content, and the version, is the process itself.                 *)
(*                                                                         *)
(* Each step is one request to the object store.  On S3 a conditional      *)
(* delete is one atomic request; on a local directory it is a read, a      *)
(* comparison, and a later os.Remove that removes whatever is there.       *)
(***************************************************************************)
EXTENDS Naturals, FiniteSets

CONSTANTS
    Procs,           \* invocations that ask for the lock
    Recoverers,      \* those of them run with a positive --stale-lock-after
    Backend,         \* the object store: "local" or "s3"
    Faulty,          \* those whose requests to the store may fail
    LeaseHonoured,   \* does a lock reach its lease only after its writer ended?
    NoLock           \* the value of an absent lock

ASSUME LockAssumption ==
    /\ Recoverers \subseteq Procs
    /\ Backend \in {"local", "s3"}
    /\ Faulty \subseteq Procs
    /\ LeaseHonoured \in BOOLEAN
    /\ NoLock \notin Procs

VARIABLES
    lock,      \* the process whose write.lock is in the store, or NoLock
    expired,   \* processes whose created_at is older than the lease
    lpc,       \* where each process is in acquireWriteLock and release
    tries,     \* attempts each process has begun
    seen       \* the lock each process last read or wrote

lockVars == <<lock, expired, lpc, tries, seen>>

MaxTries == 2

Locations == {"idle", "put", "get", "judge", "delete", "unlink", "held",
              "release", "unlinkOwn", "released", "refused", "crashed"}

(* The invocation no longer acts on the repository for its operation. *)
Ended == {"released", "refused", "crashed"}

Holding(p) == lpc[p] = "held"

(* An S3 request may take effect although its reply is lost: the SDK then  *)
(* reports an error, or retries and meets the effect of its first request. *)
LostReplies(p) == Backend = "s3" /\ p \in Faulty

LockTypeOK ==
    /\ lock \in Procs \union {NoLock}
    /\ expired \subseteq Procs
    /\ lpc \in [Procs -> Locations]
    /\ tries \in [Procs -> 0..MaxTries]
    /\ seen \in [Procs -> Procs \union {NoLock}]

LockInit ==
    /\ lock = NoLock
    /\ expired = {}
    /\ lpc = [p \in Procs |-> "idle"]
    /\ tries = [p \in Procs |-> 0]
    /\ seen = [p \in Procs |-> NoLock]

-----------------------------------------------------------------------------
(* acquireWriteLock *)

Goto(p, loc) == lpc' = [lpc EXCEPT ![p] = loc]

(* `continue`: another attempt, or the error after the loop. *)
Retry(p) == Goto(p, IF tries[p] < MaxTries THEN "put" ELSE "refused")

(* The creation time is taken once, before the first attempt. *)
Start(p) ==
    /\ lpc[p] = "idle"
    /\ Goto(p, "put")
    /\ UNCHANGED <<lock, expired, tries, seen>>

(* errObjectExists: without a lease the caller is refused at once. *)
FoundLocked(p) == Goto(p, IF p \in Recoverers THEN "get" ELSE "refused")

(* Mutant of PutReply: a plain put, which replaces the lock that is there. *)
PutOverwrites(p) ==
    /\ lock' = p
    /\ seen' = [seen EXCEPT ![p] = p]
    /\ Goto(p, "held")

PutReply(p) ==
    \/ /\ lock = NoLock
       /\ lock' = p
       /\ seen' = [seen EXCEPT ![p] = p]
       /\ Goto(p, "held")
    \/ /\ lock # NoLock
       /\ FoundLocked(p)
       /\ UNCHANGED <<lock, seen>>

PutFault(p) ==
    /\ p \in Faulty
    /\ \/ lock' = lock /\ Goto(p, "refused")
       \/ /\ LostReplies(p)
          /\ lock = NoLock
          /\ lock' = p
          /\ Goto(p, "refused") \/ FoundLocked(p)
    /\ UNCHANGED seen

PutLock(p) ==
    /\ lpc[p] = "put"
    /\ tries' = [tries EXCEPT ![p] = @ + 1]
    /\ PutReply(p) \/ PutFault(p)
    /\ UNCHANGED expired

GetLock(p) ==
    /\ lpc[p] = "get"
    /\ \/ lock = NoLock /\ Retry(p) /\ UNCHANGED seen
       \/ /\ lock # NoLock
          /\ seen' = [seen EXCEPT ![p] = lock]
          /\ Goto(p, "judge")
       \/ p \in Faulty /\ Goto(p, "refused") /\ UNCHANGED seen
    /\ UNCHANGED <<lock, expired, tries>>

(* Mutants of Judge: the age is ignored; a lock that is not stale is waited *)
(* for; the comparison of the ages is turned round.                         *)
JudgeAnyStale(p) ==
    /\ lpc[p] = "judge"
    /\ Goto(p, "delete")
    /\ UNCHANGED <<lock, expired, tries, seen>>

JudgeWaits(p) ==
    /\ lpc[p] = "judge"
    /\ Goto(p, IF seen[p] \in expired THEN "delete" ELSE "get")
    /\ UNCHANGED <<lock, expired, tries, seen>>

JudgeReversed(p) ==
    /\ lpc[p] = "judge"
    /\ Goto(p, IF seen[p] \in expired THEN "refused" ELSE "delete")
    /\ UNCHANGED <<lock, expired, tries, seen>>

(* lockDataIsStale on the content that was read *)
Judge(p) ==
    /\ lpc[p] = "judge"
    /\ Goto(p, IF seen[p] \in expired THEN "delete" ELSE "refused")
    /\ UNCHANGED <<lock, expired, tries, seen>>

(* DeleteIfVersion of the version that was read: one atomic request on S3, *)
(* a read and a comparison on a local directory.                           *)
DeleteStale(p) ==
    /\ lpc[p] = "delete"
    /\ \/ /\ Backend = "s3"
          /\ lock' = IF lock = seen[p] THEN NoLock ELSE lock
          /\ Retry(p) \/ (LostReplies(p) /\ Goto(p, "refused"))
       \/ /\ Backend = "local"
          /\ IF lock = seen[p] THEN Goto(p, "unlink") ELSE Retry(p)
          /\ UNCHANGED lock
       \/ p \in Faulty /\ Goto(p, "refused") /\ UNCHANGED lock
    /\ UNCHANGED <<expired, tries, seen>>

(* The os.Remove of a local DeleteIfVersion: it names the key, not the     *)
(* version, and the next attempt follows whether or not a file was there.  *)
UnlinkStale(p) ==
    /\ lpc[p] = "unlink"
    /\ \/ lock' = NoLock /\ Retry(p)
       \/ p \in Faulty /\ Goto(p, "refused") /\ UNCHANGED lock
    /\ UNCHANGED <<expired, tries, seen>>

-----------------------------------------------------------------------------
(* writeLock.release, deferred by every operation that took the lock *)

Finish(p) ==
    /\ lpc[p] = "held"
    /\ Goto(p, "release")
    /\ UNCHANGED <<lock, expired, tries, seen>>

(* Mutant of Release: no delete. *)
ReleaseForgotten(p) ==
    /\ lpc[p] = "release"
    /\ Goto(p, "released")
    /\ UNCHANGED <<lock, expired, tries, seen>>

(* The caller ignores what release returns. *)
Release(p) ==
    /\ lpc[p] = "release"
    /\ \/ /\ Backend = "s3"
          /\ lock' = IF lock = seen[p] THEN NoLock ELSE lock
          /\ Goto(p, "released")
       \/ /\ Backend = "local"
          /\ Goto(p, IF lock = seen[p] THEN "unlinkOwn" ELSE "released")
          /\ UNCHANGED lock
       \/ p \in Faulty /\ Goto(p, "released") /\ UNCHANGED lock
    /\ UNCHANGED <<expired, tries, seen>>

UnlinkOwn(p) ==
    /\ lpc[p] = "unlinkOwn"
    /\ \/ lock' = NoLock
       \/ p \in Faulty /\ UNCHANGED lock
    /\ Goto(p, "released")
    /\ UNCHANGED <<expired, tries, seen>>

-----------------------------------------------------------------------------
(* The process dies: its lock, if it has one, stays in the store. *)
Crash(p) ==
    /\ lpc[p] \notin Ended \union {"idle"}
    /\ Goto(p, "crashed")
    /\ UNCHANGED <<lock, expired, tries, seen>>

(* The lock content p writes, or wrote, gets older than the lease.  With   *)
(* LeaseHonoured the operator gives a lease only "after confirming the     *)
(* writer crashed", so this happens to ended writers only.  Nobody asks for *)
(* the age where no invocation is given a lease.                           *)
Expire(p) ==
    /\ Recoverers # {}
    /\ lpc[p] # "idle"
    /\ p \notin expired
    /\ LeaseHonoured => lpc[p] \in Ended
    /\ expired' = expired \union {p}
    /\ UNCHANGED <<lock, lpc, tries, seen>>

AcquireStep(p) ==
    PutLock(p) \/ GetLock(p) \/ Judge(p) \/ DeleteStale(p) \/ UnlinkStale(p)

ReleaseStep(p) == Release(p) \/ UnlinkOwn(p)

LockNext ==
    \E p \in Procs :
        \/ Start(p) \/ AcquireStep(p) \/ Finish(p) \/ ReleaseStep(p)
        \/ Crash(p) \/ Expire(p)

LockSpec == LockInit /\ [][LockNext]_lockVars

-----------------------------------------------------------------------------
(* Correctness *)

(* At most one invocation is past acquireWriteLock and before its deferred *)
(* release: acquireWriteLock "serializes repository mutations".            *)
MutualExclusion ==
    \A p, q \in Procs : Holding(p) /\ Holding(q) => p = q

(* The lock of an invocation stays its own from the put that took it to    *)
(* the delete that gives it back: no other invocation recovers it.         *)
OwnerKeepsLock ==
    \A p \in Procs :
        lpc[p] \in {"held", "release", "unlinkOwn"} => lock = p /\ seen[p] = p

(* With the lease honoured, only the lock of an ended writer is stale. *)
OnlyEndedExpire == \A p \in expired : lpc[p] \in Ended

(* A recovery about to delete has read a stale lock, and between the       *)
(* comparison and the os.Remove of a local delete that lock is still there. *)
RecoveryIsJustified ==
    \A p \in Procs :
        /\ lpc[p] \in {"get", "judge", "delete", "unlink"} => p \in Recoverers
        /\ lpc[p] = "judge" => seen[p] \in Procs
        /\ lpc[p] \in {"delete", "unlink"} => seen[p] \in expired
        /\ lpc[p] = "unlink" => Backend = "local" /\ lock = seen[p]

(* An invocation about to put the lock has an attempt left. *)
AttemptLeft == \A p \in Procs : lpc[p] \in {"idle", "put"} => tries[p] < MaxTries

(* The strengthening of MutualExclusion that every step preserves, when    *)
(* recovery is safe: leases are honoured, and a local directory, whose     *)
(* delete is not atomic, has one recovering invocation at most.            *)
SafeRecovery ==
    /\ LeaseHonoured
    /\ Backend = "s3" \/ \A p, q \in Recoverers : p = q

LockInv ==
    LockTypeOK /\ AttemptLeft /\ OwnerKeepsLock /\ OnlyEndedExpire /\ RecoveryIsJustified

(* Whatever the lease, a lock leaves the store only because it is stale or *)
(* because its own writer releases it: "a stale-lock recovery cannot       *)
(* delete a lock that another writer acquired after our read".             *)
RemovedWhenStaleOrReleased ==
    [][lock # NoLock /\ lock' # lock
         => lock \in expired \/ lpc[lock] = "release"]_lockVars

(* Unless its requests fail, a lock outlives only a writer that crashed:   *)
(* every other invocation that took it has given it back when it ends.     *)
NoLockLeftBehind ==
    lock \in Procs \ Faulty => lpc[lock] \notin {"idle", "put", "refused", "released"}

(* Every invocation that asks for the lock is answered. *)
Answered ==
    \A p \in Procs : lpc[p] = "put" ~> Holding(p) \/ lpc[p] \in Ended

(* A stale lock does not survive a recovering invocation: by the time it   *)
(* is answered, the lock it started under is gone, unless it crashed or    *)
(* its requests fail.                                                      *)
StaleLockIsReclaimed ==
    \A p \in Procs, r \in Recoverers \ Faulty :
        (lock = p /\ p \in expired /\ lpc[r] = "put") ~> (lock # p \/ lpc[r] = "crashed")

(* The lock implements the exclusive writer: the writer is the holder, and *)
(* an invocation is over when it was refused, crashed or began to release. *)
holder == IF \E p \in Procs : Holding(p)
          THEN CHOOSE p \in Procs : Holding(p)
          ELSE NoLock

over == {p \in Procs : lpc[p] \in Ended \union {"release", "unlinkOwn"}}

Exclusive == INSTANCE ExclusiveWriter
             WITH writer <- holder, past <- over, Nobody <- NoLock

ImplementsExclusiveWriter == Exclusive!Spec
=============================================================================
