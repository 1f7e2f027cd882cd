----------------------------- MODULE Repository -----------------------------
(***************************************************************************)
(* A vestige repository and the operations that mutate it: backup, delete  *)
(* snapshot, garbage collection and recover.  Each runs in an invocation   *)
(* of its own and takes the writer lock first (WriterLock).                *)
(*                                                                         *)
(* A chunk is its hash.  A snapshot is the manifest object that publishes  *)
(* it: its id, a timestamp, and the set of chunks its files refer to.  A   *)
(* backup stores its chunks from concurrent workers, one request to the    *)
(* object store per step, and publishes its manifest last.  When a backup  *)
(* fails, its main goroutine returns and releases the lock while its       *)
(* workers, which nothing cancels, go on until the process exits.          *)
(***************************************************************************)
EXTENDS WriterLock

CONSTANTS
    Chunks,         \* the chunks that file contents are cut into
    Jobs,           \* the chunk positions of a backup, one job each
    Times,          \* readings of the clock, which name the snapshots
    Backups,        \* invocations that run a backup
    Deletes,        \* invocations that delete a snapshot
    Collectors,     \* invocations that collect garbage, or only recover
    SourceErrors,   \* may reading the source tree fail a backup?
    BitRot,         \* may stored chunks go bad, between operations?
    Resets          \* backups that may read the clock when it is set back

ASSUME RepositoryAssumption ==
    /\ Times \subseteq Nat
    /\ 0 \notin Times
    /\ Backups \subseteq Procs
    /\ Deletes \subseteq Procs \ Backups
    /\ Collectors \subseteq Procs \ (Backups \union Deletes)
    /\ SourceErrors \in BOOLEAN
    /\ BitRot \in BOOLEAN
    /\ Resets \subseteq Backups

VARIABLES
    chunks,      \* chunk objects in the store
    rotten,      \* those whose content no longer matches their hash
    manifests,   \* published snapshots
    now,         \* the latest reading of the clock, 0 at first
    step,        \* where each operation is
    snap,        \* the snapshot id an operation creates or deletes
    content,     \* the chunk each job of a backup has to store
    job,         \* the state of each job of a backup
    live,        \* the chunks a collector found referenced
    doomed       \* the unreferenced chunks it listed and has yet to delete

dataVars == <<chunks, rotten, manifests>>
opVars == <<now, step, snap, content, job, live, doomed>>
repoVars == <<lockVars, dataVars, opVars>>

Steps == {"start", "store", "unpublish", "list", "sweep", "end"}
JobStates == {"todo", "verify", "put", "done", "failed"}
Manifests == [id : Times, refs : SUBSET Chunks]

(* The chunks that published snapshots need. *)
Referenced == UNION {m.refs : m \in manifests}

RepoTypeOK ==
    /\ LockTypeOK
    /\ chunks \subseteq Chunks
    /\ rotten \subseteq chunks
    /\ manifests \subseteq Manifests
    /\ now \in Times \union {0}
    /\ step \in [Procs -> Steps]
    /\ snap \in [Procs -> Times \union {0}]
    /\ content \in [Procs -> [Jobs -> Chunks]]
    /\ job \in [Procs -> [Jobs -> JobStates]]
    /\ live \in [Procs -> SUBSET Chunks]
    /\ doomed \in [Procs -> SUBSET Chunks]

RepoInit ==
    /\ LockInit
    /\ chunks = {} /\ rotten = {} /\ manifests = {}
    /\ now = 0
    /\ step = [p \in Procs |-> "start"]
    /\ snap = [p \in Procs |-> 0]
    /\ \E c \in Chunks : content = [p \in Procs |-> [j \in Jobs |-> c]]
    /\ job = [p \in Procs |-> [j \in Jobs |-> "todo"]]
    /\ live = [p \in Procs |-> {}]
    /\ doomed = [p \in Procs |-> {}]

(* The operation of p holds the lock and is at s. *)
At(p, s) == Holding(p) /\ step[p] = s

Advance(p, s) == step' = [step EXCEPT ![p] = s]

-----------------------------------------------------------------------------
(* BackupWithOptions *)

(* Mutant of StartBackup: the clock is read before the lock is taken. *)
StartBackupUnlocked(p) ==
    /\ p \in Backups
    /\ lpc[p] \in {"put", "held"}
    /\ step[p] = "start"
    /\ \E t \in Times, f \in [Jobs -> Chunks] :
        /\ t = now + 1 \/ (t <= now /\ p \in Resets)
        /\ now' = IF t > now THEN t ELSE now
        /\ snap' = [snap EXCEPT ![p] = t]
        /\ content' = [content EXCEPT ![p] = f]
    /\ Advance(p, "store")
    /\ UNCHANGED <<lockVars, dataVars, job, live, doomed>>

(* The clock names the snapshot, and the walk of the source tree fixes     *)
(* what is to be stored.  Only the order of the readings matters, so that  *)
(* a later one is the next one.                                            *)
StartBackup(p) ==
    /\ p \in Backups
    /\ At(p, "start")
    /\ \E t \in Times, f \in [Jobs -> Chunks] :
        /\ t = now + 1 \/ (t <= now /\ p \in Resets)
        /\ now' = IF t > now THEN t ELSE now
        /\ snap' = [snap EXCEPT ![p] = t]
        /\ content' = [content EXCEPT ![p] = f]
    /\ Advance(p, "store")
    /\ UNCHANGED <<lockVars, dataVars, job, live, doomed>>

(* An early return: the source cannot be read or a file changed, or the    *)
(* first failed job was collected.  The other jobs are not cancelled.      *)
AbortBackup(p) ==
    /\ p \in Backups
    /\ \/ SourceErrors /\ (At(p, "start") \/ At(p, "store"))
       \/ At(p, "store") /\ \E j \in Jobs : job[p][j] = "failed"
    /\ Advance(p, "end")
    /\ UNCHANGED <<lockVars, dataVars, now, snap, content, job, live, doomed>>

(* The workers of p run from the start of its backup to the exit of its    *)
(* process, whether or not p still holds the lock.                         *)
Working(p) == p \in Backups /\ snap[p] # 0 /\ lpc[p] # "crashed"

SetJob(p, j, s) == job' = [job EXCEPT ![p][j] = s]

JobFrame(p) ==
    UNCHANGED <<lockVars, manifests, rotten, now, step, snap, content, live, doomed>>

(* Mutant of LookupChunk: a chunk that is there is reused as it is. *)
LookupTrusts(p, j) ==
    /\ Working(p) /\ job[p][j] = "todo"
    /\ SetJob(p, j, IF content[p][j] \in chunks THEN "done" ELSE "put")
    /\ UNCHANGED chunks /\ JobFrame(p)

(* PutChunk: the first Get *)
LookupChunk(p, j) ==
    /\ Working(p) /\ job[p][j] = "todo"
    /\ \/ SetJob(p, j, IF content[p][j] \in chunks THEN "verify" ELSE "put")
       \/ p \in Faulty /\ SetJob(p, j, "failed")
    /\ UNCHANGED chunks /\ JobFrame(p)

(* Mutant of VerifyChunk: a corrupt chunk is waited for. *)
VerifyWaits(p, j) ==
    /\ Working(p) /\ job[p][j] = "verify"
    /\ content[p][j] \in chunks \ rotten
    /\ SetJob(p, j, "done")
    /\ UNCHANGED chunks /\ JobFrame(p)

(* verifyChunk: a chunk that exists is read again, decoded and hashed *)
VerifyChunk(p, j) ==
    /\ Working(p) /\ job[p][j] = "verify"
    /\ \/ SetJob(p, j, IF content[p][j] \in chunks \ rotten THEN "done" ELSE "failed")
       \/ p \in Faulty /\ SetJob(p, j, "failed")
    /\ UNCHANGED chunks /\ JobFrame(p)

(* PutChunk: the PutIfAbsent *)
StoreChunk(p, j) ==
    /\ Working(p) /\ job[p][j] = "put"
    /\ \/ IF content[p][j] \in chunks
          THEN SetJob(p, j, "verify") /\ UNCHANGED chunks
          ELSE SetJob(p, j, "done") /\ chunks' = chunks \union {content[p][j]}
       \/ p \in Faulty /\ SetJob(p, j, "failed") /\ UNCHANGED chunks
       \/ /\ LostReplies(p)
          /\ chunks' = chunks \union {content[p][j]}
          /\ SetJob(p, j, "failed") \/ SetJob(p, j, "verify")
    /\ JobFrame(p)

Work(p) == \E j \in Jobs : LookupChunk(p, j) \/ VerifyChunk(p, j) \/ StoreChunk(p, j)

NewManifest(p) == [id |-> snap[p], refs |-> {content[p][j] : j \in Jobs}]

IdTaken(t) == \E m \in manifests : m.id = t

(* Mutants of Publish: when the jobs are handed out; a plain put, which    *)
(* replaces the snapshot that has the id.                                  *)
PublishEarly(p) ==
    /\ p \in Backups
    /\ At(p, "store")
    /\ \A j \in Jobs : job[p][j] \in {"verify", "put", "done"}
    /\ ~IdTaken(snap[p])
    /\ manifests' = manifests \union {NewManifest(p)}
    /\ Advance(p, "end")
    /\ UNCHANGED <<lockVars, chunks, rotten, now, snap, content, job, live, doomed>>

PublishOverwrites(p) ==
    /\ p \in Backups
    /\ At(p, "store")
    /\ \A j \in Jobs : job[p][j] = "done"
    /\ manifests' = {m \in manifests : m.id # snap[p]} \union {NewManifest(p)}
    /\ Advance(p, "end")
    /\ UNCHANGED <<lockVars, chunks, rotten, now, snap, content, job, live, doomed>>

(* publishManifest, once every job has delivered its reference *)
Publish(p) ==
    /\ p \in Backups
    /\ At(p, "store")
    /\ \A j \in Jobs : job[p][j] = "done"
    /\ \/ ~IdTaken(snap[p]) /\ manifests' = manifests \union {NewManifest(p)}
       \/ (IdTaken(snap[p]) \/ p \in Faulty) /\ UNCHANGED manifests
    /\ Advance(p, "end")
    /\ UNCHANGED <<lockVars, chunks, rotten, now, snap, content, job, live, doomed>>

-----------------------------------------------------------------------------
(* DeleteSnapshot: ReadManifest resolves the snapshot, "latest" included;  *)
(* a dry run, a missing snapshot and a read error end it there.            *)
ResolveSnapshot(p) ==
    /\ p \in Deletes
    /\ At(p, "start")
    /\ \/ \E m \in manifests :
           snap' = [snap EXCEPT ![p] = m.id] /\ Advance(p, "unpublish")
       \/ Advance(p, "end") /\ UNCHANGED snap
    /\ UNCHANGED <<lockVars, dataVars, now, content, job, live, doomed>>

(* Mutant of Unpublish: the chunks of the snapshot go with it. *)
UnpublishWithChunks(p) ==
    /\ p \in Deletes
    /\ At(p, "unpublish")
    /\ manifests' = {m \in manifests : m.id # snap[p]}
    /\ chunks' = chunks \ UNION {m.refs : m \in {n \in manifests : n.id = snap[p]}}
    /\ rotten' = rotten \intersect chunks'
    /\ Advance(p, "end")
    /\ UNCHANGED <<lockVars, now, snap, content, job, live, doomed>>

Unpublish(p) ==
    /\ p \in Deletes
    /\ At(p, "unpublish")
    /\ \/ manifests' = {m \in manifests : m.id # snap[p]}
       \/ p \in Faulty /\ UNCHANGED manifests
    /\ Advance(p, "end")
    /\ UNCHANGED <<lockVars, chunks, rotten, now, snap, content, job, live, doomed>>

-----------------------------------------------------------------------------
(* GarbageCollect *)

(* The manifests are listed and read, unless one of them cannot be. *)
Mark(p) ==
    /\ p \in Collectors
    /\ At(p, "start")
    /\ \/ live' = [live EXCEPT ![p] = Referenced] /\ Advance(p, "list")
       \/ p \in Faulty /\ Advance(p, "end") /\ UNCHANGED live
    /\ UNCHANGED <<lockVars, dataVars, now, snap, content, job, doomed>>

(* The chunks are listed; a dry run only counts the unreferenced ones. *)
ListChunks(p) ==
    /\ p \in Collectors
    /\ At(p, "list")
    /\ \/ doomed' = [doomed EXCEPT ![p] = chunks \ live[p]] /\ Advance(p, "sweep")
       \/ Advance(p, "end") /\ UNCHANGED doomed
    /\ UNCHANGED <<lockVars, dataVars, now, snap, content, job, live>>

(* Mutant of Sweep: it stops before the last chunk. *)
SweepAllButOne(p) ==
    /\ p \in Collectors
    /\ At(p, "sweep")
    /\ \E c \in doomed[p] :
        /\ chunks' = IF doomed[p] = {c} THEN chunks ELSE chunks \ {c}
        /\ rotten' = rotten \intersect chunks'
        /\ doomed' = [doomed EXCEPT ![p] = @ \ {c}]
    /\ UNCHANGED <<lockVars, manifests, now, step, snap, content, job, live>>

(* Unreferenced chunks are deleted one by one; the first error ends it. A  *)
(* local delete of a chunk that is gone is an error.                       *)
Sweep(p) ==
    /\ p \in Collectors
    /\ At(p, "sweep")
    /\ \E c \in doomed[p] :
        \/ /\ c \in chunks \/ Backend = "s3"
           /\ chunks' = chunks \ {c}
           /\ rotten' = rotten \ {c}
           /\ doomed' = [doomed EXCEPT ![p] = @ \ {c}]
           /\ UNCHANGED step
        \/ /\ p \in Faulty \/ (c \notin chunks /\ Backend = "local")
           /\ Advance(p, "end")
           /\ UNCHANGED <<chunks, rotten, doomed>>
    /\ UNCHANGED <<lockVars, manifests, now, snap, content, job, live>>

SweepDone(p) ==
    /\ p \in Collectors
    /\ At(p, "sweep")
    /\ doomed[p] = {}
    /\ Advance(p, "end")
    /\ UNCHANGED <<lockVars, dataVars, now, snap, content, job, live, doomed>>

-----------------------------------------------------------------------------
(* Recover: abandoned staging directories hold neither chunks nor          *)
(* snapshots, so it changes nothing but the lock.                          *)
Recover(p) ==
    /\ p \in Collectors
    /\ At(p, "start")
    /\ Advance(p, "end")
    /\ UNCHANGED <<lockVars, dataVars, now, snap, content, job, live, doomed>>

-----------------------------------------------------------------------------
(* A chunk goes bad in the store, while no operation runs. *)
Rot(c) ==
    /\ BitRot
    /\ \A p \in Procs : ~Holding(p)
    /\ c \in chunks \ rotten
    /\ rotten' = rotten \union {c}
    /\ UNCHANGED <<lockVars, chunks, manifests, opVars>>

OperationStep(p) ==
    \/ StartBackup(p) \/ AbortBackup(p) \/ Publish(p)
    \/ ResolveSnapshot(p) \/ Unpublish(p)
    \/ Mark(p) \/ ListChunks(p) \/ Sweep(p) \/ SweepDone(p)
    \/ Recover(p)

(* The operation returns: its deferred release runs. *)
EndOperation(p) ==
    /\ step[p] = "end"
    /\ Finish(p)
    /\ UNCHANGED <<dataVars, opVars>>

LockStep(p) ==
    /\ Start(p) \/ AcquireStep(p) \/ ReleaseStep(p) \/ Crash(p) \/ Expire(p)
    /\ UNCHANGED <<dataVars, opVars>>

RepoNext ==
    \/ \E p \in Procs : LockStep(p) \/ OperationStep(p) \/ Work(p) \/ EndOperation(p)
    \/ \E c \in Chunks : Rot(c)

RepoSpec == RepoInit /\ [][RepoNext]_repoVars

(* A process that is not dead takes the steps of its main goroutine and of *)
(* its workers.                                                            *)
RepoFairness ==
    \A p \in Procs :
        /\ WF_repoVars((AcquireStep(p) \/ ReleaseStep(p)) /\ UNCHANGED <<dataVars, opVars>>)
        /\ WF_repoVars(OperationStep(p) \/ EndOperation(p))
        /\ WF_repoVars(Work(p))

FairRepoSpec == RepoSpec /\ RepoFairness

-----------------------------------------------------------------------------
(* Correctness *)

(* Every chunk a published snapshot refers to is in the store: an          *)
(* incomplete backup never appears as a snapshot, and neither deleting     *)
(* other snapshots nor collecting garbage breaks one.                      *)
PublishedComplete == Referenced \subseteq chunks

(* A backup publishes no reference to a chunk that has gone bad before it  *)
(* ran: what it reuses it has verified.                                    *)
PublishedVerified ==
    [][\A m \in manifests' \ manifests : m.refs \intersect rotten = {}]_repoVars

(* Snapshots are immutable: one leaves the catalogue only when a delete    *)
(* that resolved it unpublishes it, however often an id is read twice.     *)
SnapshotsImmutable ==
    [][\A m \in manifests \ manifests' :
        \E p \in Deletes : At(p, "unpublish") /\ snap[p] = m.id]_repoVars

(* Ids are unique, even when the clock is set back. *)
SnapshotIdsUnique == \A m, n \in manifests : m.id = n.id => m = n

(* Unless the clock was set back for it, the snapshot published last has   *)
(* the greatest id, which is how LatestSnapshot finds it.                  *)
PublishedInOrder ==
    [][\A p \in Backups \ Resets, m \in manifests' \ manifests, n \in manifests :
        At(p, "store") => n.id < m.id]_repoVars

(* Manifests change, and chunks are removed, only by the invocation whose  *)
(* lock is in the store.                                                   *)
RemovalsUnderLock ==
    [][manifests' # manifests \/ ~(chunks \subseteq chunks')
         => \E p \in Procs : Holding(p) /\ lock = p /\ UNCHANGED lockVars]_repoVars

(* What acquireWriteLock says of every mutation: chunks are added, too,    *)
(* only under the lock.                                                    *)
MutationsUnderLock ==
    [][UNCHANGED <<chunks, manifests>> \/ \E p \in Procs : Holding(p)]_repoVars

(* The chunks of backups with a failed job: other workers may still store  *)
(* theirs.                                                                 *)
Straggling ==
    UNION {{content[p][j] : j \in Jobs} : p \in {q \in Backups : \E j \in Jobs : job[q][j] = "failed"}}

(* A collection that comes to its end leaves the chunks that the published *)
(* snapshots refer to, and no others but those that workers of a failed    *)
(* backup store meanwhile.  (While the source can be read.)                *)
CollectionIsExact ==
    [][\A p \in Collectors : SweepDone(p) /\ ~SourceErrors =>
        Referenced \subseteq chunks /\ chunks \subseteq Referenced \union Straggling]_repoVars

(* Every operation that gets the lock comes to its end. *)
OperationsEnd == \A p \in Procs : Holding(p) ~> lpc[p] \in Ended

(* The strengthening of PublishedComplete that every step preserves when   *)
(* recovery is safe: an operation begins when it has the lock; what the    *)
(* holder's workers are done with is stored; what the holder found live    *)
(* covers what is referenced, and what it is about to delete is not.       *)
BegunWithLock ==
    \A p \in Procs :
        /\ lpc[p] \in {"idle", "put", "get", "judge", "delete", "unlink"} => step[p] = "start"
        /\ step[p] = "start" => snap[p] = 0 /\ \A j \in Jobs : job[p][j] = "todo"
        /\ step[p] = "store" => snap[p] # 0

DoneIsStored ==
    \A p \in Backups : At(p, "store") =>
        \A j \in Jobs : job[p][j] = "done" => content[p][j] \in chunks

CollectorSparesReferenced ==
    \A p \in Collectors :
        /\ At(p, "list") => Referenced \subseteq live[p]
        /\ At(p, "sweep") => doomed[p] \intersect Referenced = {}

RepoInv ==
    /\ LockInv /\ RepoTypeOK
    /\ BegunWithLock /\ DoneIsStored /\ CollectorSparesReferenced
    /\ PublishedComplete /\ SnapshotIdsUnique

(* The repository implements the catalogue of snapshots. *)
Catalog == INSTANCE SnapshotCatalog WITH published <- manifests, available <- chunks

ImplementsCatalog == Catalog!Spec
=============================================================================
