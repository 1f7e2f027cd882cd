# Verification of vestige

TLA+ specifications of vestige (`src/`), a Go program that keeps deduplicated,
optionally encrypted snapshots of directory trees in an object store, either a
local directory or an S3 bucket.  TLC checks the specifications on small
instances; TLAPS proves the main results for every value of the constants.

All paths below are relative to `src/`; `repository/` stands for
`internal/repository/`.

## 1. The system

| Part | Source | State | Operations | Interacts with |
| --- | --- | --- | --- | --- |
| object stores | `repository/store.go` | objects under keys, each with a version (hash or ETag) | `Get`, `PutIfAbsent`, `DeleteIfVersion`, `ReplaceIfVersion`, `Delete`, `List` | called by all others |
| writer lock | `repository/lock.go` | the object `write.lock` | `acquireWriteLock`, recovery with `--stale-lock-after`, `release` | taken by every mutating operation |
| mutations | `repository/repository.go`, `lifecycle.go`, `gc.go` | objects `chunks/*` and `snapshots/*/manifest` | `BackupWithOptions`, `DeleteSnapshot`, `GarbageCollect`, `Recover` | lock, stores |
| file pipeline | `repository.go` 686-760 | work and results channels, file workers | feeder, workers, closer, collecting loop | the source tree, which changes; chunk pipeline |
| chunk pipeline | `repository.go` 755-835 | jobs and results channels, chunk workers | splitter, workers, closer, collector | `PutChunk` |
| configuration | `repository.go` 120-360 | the object `config.json` | `ensureConfig`, `configureEncryption`, `RotatePassphrase` | stores, lock |
| restore | `repository.go` 989-1180 | the destination tree | `RestoreWithOptions` and its helpers | manifests, chunks, file system |
| retention and prune | `retention.go`, `cmd/vestige/prune.go` | a list of candidates | `RetentionCandidates`, then `DeleteSnapshot` one by one | backups and deletes that run meanwhile |
| check | `repository/check.go` | a report | one read-only scan | writers that run meanwhile |
| verify | `repository/verify.go` | a checkpoint file | verification, interrupted and resumed | writers; damage in the store |
| source walk | `repository.go` 606-682, 1300-1310 | the hard links met, the jobs | one visit per name | the source tree, which changes; file pipeline |
| chunker | `internal/chunker/chunker.go` | buffer, ring window, rolling hash | `Split` | chunk pipeline, which takes over its buffers |
| replication | `repository/replicate.go` | objects of a second repository | `ReplicateTo` | the source read without its lock, the target under its lock |
| recovery kit | `repository/recoverykit.go` | a zip file | `ExportRecoveryKit`, `ValidateRecoveryKit` | writers of the repository |
| others | drill, filter, codec, single-file restore, command line, benchmark | | | see section 8 |

What is hard here:

* **Invocations are separate processes** that meet only in the object store.
  Only mutations take the lock, and the lock is itself an object: acquiring it,
  recovering a stale one and releasing it are sequences of requests that
  interleave with those of other processes.
* **A process may die between any two requests**, a request may fail, and on S3
  a request may take effect although its reply is lost.
* **A backup is concurrent inside**: file workers, each with chunk workers and
  bounded channels, an early return at the first error, and workers that nothing
  cancels.
* **Readers take no lock**: check, verify, restore, the export of a kit, the
  source side of a replication and the listing of prune see a repository that
  changes between their steps.
* **The order of things carries meaning**: chunks before the manifest,
  references in the order of the content, hard links after their file,
  directory metadata after the children.

What makes each part correct is said with its module in section 3.

## 2. Modules

| Module | What it is |
| --- | --- |
| `ExclusiveWriter` | abstract: one writer at a time, and who is over does not come back |
| `WriterLock` | `write.lock`, one step per request; implements `ExclusiveWriter` |
| `SnapshotCatalog` | abstract: a snapshot appears whole, stays as it is, and what it needs stays until it is deleted |
| `Repository` | backup, delete and collection under the lock; EXTENDS `WriterLock`, implements `SnapshotCatalog` |
| `Chunker` | `chunker.Split`, byte by byte, and where a stream is to be cut |
| `ChunkPipeline` | goroutines, channels and buffers of `storeFileChunks`; EXTENDS `Chunker` |
| `SourceWalk` | the walk of a backup and its recognition of hard links |
| `FilePipeline` | goroutines and channels of `BackupWithOptions`, over a source that changes; EXTENDS `SourceWalk` |
| `RepositoryConfig` | races to create `config.json` and rotations; uses `ExclusiveWriter` as its lock |
| `Restore` | `RestoreWithOptions` over a destination tree |
| `Retention` | the pass of `RetentionCandidates`, and what a policy promises |
| `Prune` | `prune --yes` beside backups, deletes and other prunes; EXTENDS `Retention` |
| `StoredRepository` | the repository as a reader sees it: `SnapshotCatalog` steps and damage |
| `RepositoryCheck` | the scan of `check`; EXTENDS `StoredRepository` |
| `Verification` | `verify --state`; EXTENDS `StoredRepository` |
| `RecoveryKit` | the export of a kit, and which kits validate; EXTENDS `StoredRepository` |
| `Readers` | verify, check or the export of a kit, one of them, beside the others |
| `Replication` | `ReplicateTo`; EXTENDS `StoredRepository` for the source and has an INSTANCE of it for the target |
| `*Proofs` | the theorems of a module and their proofs |
| `MC*` | constant values and symmetry for TLC |

The composition is layered by refinement.  `WriterLock` is checked to implement
`ExclusiveWriter`, which is all that `RepositoryConfig` uses of it; `Repository`
is checked to implement `SnapshotCatalog`, which is all that the readers'
modules use of it.  So what the readers meet is what the writers were shown to
do, without multiplying their states.  A replication is a reader of one catalogue
and a writer of another, and is shown to keep the promises of the second.

## 3. How the modules correspond to the code

**WriterLock.**  A process is one invocation; it asks for the lock once.  The
lock's content has a process id and a creation time, so its version identifies
the invocation that wrote it, and the version *is* that invocation.  `PutLock`,
`GetLock`, `Judge`, `DeleteStale`/`UnlinkStale` are the loop of
`acquireWriteLock` (two attempts, `MaxTries`); `Release`/`UnlinkOwn` is the
deferred release.  On S3 a conditional delete is one step.  On a local directory
it is a read and a comparison, and then an `os.Remove` of whatever is at the
path (`store.go` 115-127), hence the `Unlink` actions.  `Expire` lets a lock
grow older than the lease.

**Repository.**  A chunk is its hash; a manifest is an id and a set of chunks.
`StartBackup` reads the clock for the id under the lock; `LookupChunk`,
`VerifyChunk` and `StoreChunk` are the three requests of `PutChunk`, made by
workers that go on after a failed backup has returned (`Working`); `Publish` is
`publishManifest`.  `ResolveSnapshot`, `Unpublish` are `DeleteSnapshot`; `Mark`,
`ListChunks`, `Sweep` are `GarbageCollect`, one chunk per step.  `Rot` lets a
stored chunk go bad.  The correctness of the repository: a snapshot never refers
to a chunk that is not stored, is never replaced, and collections remove what is
not needed and nothing else.

**Chunker, ChunkPipeline.**  A word is the set of its one bits, so that rotation
and exclusive or are what they are in the code; a byte is known by its word in
the table.  `ReadByte` is one turn of the inner loop of `Split`, `Roll` the ring
window and the hash, `Emitted` the new buffer after a chunk was handed over.  A
buffer is a place in `memory`, and a job refers to the place: a worker hashes
and stores what is there when it comes to it.  A channel is a sequence with the
capacity of the `make`; a send waits while it is full and a receive while it is
empty and open.  Every goroutine is an action or a few: `Split`, `Emit`,
`CloseJobs` (the caller's), `Receive`, `Put`, `Send` (workers), `CloseResults`
(closer), `Collect`, `Return`.

**SourceWalk, FilePipeline.**  `VisitOther`, `VisitFile`, `VisitAlias` are the
callback of the walk for one name; `HardLinkKey` is the whole `lstat`, times
included, as the code formats it.  `Change` writes to a file, `Touch` reads it
or changes its attributes.  `WalkEnds` starts feeder and workers: `Feed`,
`CloseWork`, `CloseFileResults`, `Receive`, `ReadFirst`, `ReadRest`,
`StatAfter`, `Fail`, `Collect`, `Complete`.  A worker reads a file in two parts
between which it may change, and what a part holds is the version it was read
from.  `Change` and `Touch` are left out where they could make no difference:
before the walk has met the file, or while nobody is going to read it.

**RepositoryConfig.**  A data key is the invocation that generated it; wrapping
it with a passphrase is a pair.  `Get`, `Put`, `Reget` are `ensureConfig`;
`StartRotation` to `Unlock` are `RotatePassphrase`, where a local
`ReplaceIfVersion` is a comparison (`Replace`) and a rename (`Rename`).  The
backend is chosen in `Init`.

**Restore.**  What the manifest says comes from the walk of the source: of the
names of an inode the first in walk order is the file and the others are hard
links to it; the manifest is sorted by whole paths, which is another order.
A path of the destination is bound to an old or a new node.  Overwriting writes
to a temporary file and renames; `RemoveReplaced`/`RenameAgain` is the second
attempt of `replaceFile`.  Options, the source tree and the older destination
are chosen in `Init`; `faults` records the faults met.

**Retention, Prune.**  `Retained` is the code's pass, a fold over the snapshots
from the newest; `Protected` is the reference definition, without an order.
`ListCandidates` runs without the lock, `DeleteCandidate` deletes the newest
candidate first and stops at the first error.  `byHand` records what others
delete.

**StoredRepository, RepositoryCheck, Verification, RecoveryKit.**  A listing is
one step and so is reading one object.  `Staging` is the temporary file of a local
put, which a listing of chunks comes across, or fails on when it vanishes.  `lasting` and `excused` are history variables of
`RepositoryCheck`: what has been wrong since the scan began, and what has been
bad, lost or deleted at some time since, or could not be read once.  `found` in
`Verification` is a history variable, too: the chunks found intact by the runs
that a checkpoint carries on.  A kit is whether its zip file is whole, the
manifests in it and which of them are bad.

**Replication.**  `published`, `available`, `damaged` are the source, `copies`,
`stored`, `bad` the target.  `Lock` to `SourceRead` read the source; then for
each snapshot, the oldest first, `Skip`, or `Begin`, `CopyChunk` (a read of the
source and `PutChunk` in the target) and `Publish`.  `Stop` is each error the
state gives cause for, `Interrupted` a request that fails, a reply that is lost
or a crash; either may leave the lock.  `steady` (what the source has had since
the listing) and `badBefore` are history variables.

## 4. Runs

| Run | Module, cfg | What it shows |
| --- | --- | --- |
| `repo_safety` | `MCRepository`, `RepoSafety` | S3, a backup, a delete and a collection, the last two of which may recover stale locks; source errors, failing requests, lost replies, crashes.  `MutualExclusion`, `PublishedComplete`; `RemovedWhenStaleOrReleased`, `RemovalsUnderLock`; refinement of `ExclusiveWriter` and of `SnapshotCatalog` |
| `repo_progress` | `MCRepository`, `RepoProgress` | local directory, two backups and a recovering collection; crashes, chunks that go bad, a clock that is set back.  `SnapshotsImmutable`, `PublishedVerified`, `PublishedInOrder`, `CollectionIsExact`, `NoLockLeftBehind`; under fairness `Answered`, `StaleLockIsReclaimed`, `OperationsEnd` |
| `chunk_pipeline` | `ChunkPipeline`, `ChunkPipeline` | every input of up to six bytes: cuts are where the hash of the window, computed from nothing, puts them; what is reported stored is the input, in order, although buffers wait in channels; the call returns |
| `file_pipeline` | `FilePipeline`, `FilePipeline` | any tree of four names: a file that nothing touches is backed up once; a stored backup holds every file as the walk saw it; a worker that has a file can always send its result; every worker and the backup end |
| `config` | `RepositoryConfig`, `Config` | handles agree on the data key; nobody gets a policy it did not ask for; a rotation that reports success holds |
| `restore` | `MCRestore`, `Restore` | what is restored is whole, with nothing old left and directories as recorded (`RestoredFaithfully`); what was not selected is untouched, an overwritten file is old or new at any moment, temporary files are removed, a restore fails for a reason |
| `prune` | `MCPrune`, `Prune` | the pass keeps what the policy protects; no protected snapshot is pruned; a success left no candidate |
| `readers` | `MCReaders`, `Readers` | a verification, a scan or an export beside writers and damage.  Success of `verify` means found intact by the runs of the checkpoint; lasting damage is reported; what is reported was wrong at some time since the start; a kit that validates has every snapshot that was there throughout |
| `replication` | `Replication`, `Replication` | the target keeps the promises of a repository; success means replicated; what is published refers to no chunk that was bad before; a replication that is run again completes |
| `lock_local_recoverers` | `WriterLock`, `LockLocalRecoverers` | *violation* of `MutualExclusion` |
| `repo_stragglers` | `Repository`, `RepoStragglers` | *violation* of `MutationsUnderLock` |
| `restore_stale_link` | `MCRestore`, `RestoreStaleLink` | *violation* of `WholeSnapshotFaithful` |

Each property of a passing run has a mutant: an operator beside the definition
it alters (`JudgeAnyStale` beside `Judge`, ...), the way a plausible bug would,
under which TLC finds the property violated.  The mutants are listed in
`PROJECT.json`; no specification uses them.

### Bounds, and why they are enough

* `repo_safety`: three invocations, two chunks, two jobs, two times.  The
  hazards are of two or three parties: a holder, its recoverer, and a third that
  acquires in between; a backup that reuses a chunk, a collection that removes
  it, a delete that makes it removable.  Chunks, jobs and backups are
  symmetrical.  One publication is enough to be broken by the others.
* `repo_progress`: two backups and a collection, for order and immutability
  need two snapshots.  One job and two chunks.  No symmetry, for liveness.
* `chunk_pipeline`: words of three bits, a window of two bytes, chunks of one to
  three, a target of two, two different bytes, inputs of up to six.  So a chunk
  ends at its size, at a hash and at the end of the input; windows reach over
  cuts, and bytes leave them at every position of the ring.  Two workers (the
  function takes any number; a backup asks for one) and channels of four.  The
  jobs channel fills up with six chunks when both workers wait.
* `file_pipeline`: two workers and four names, of which at most two are not the
  first name of a file to back up: a directory, a device, a second name.  One
  write or one touch, for one is what the comparisons have to find.  The work channel holds four, so that at this bound the feeder
  never waits; the results channel is as long as the jobs, which is what lets
  workers end after an early return.
* `config`: two invocations, two passphrases and none, two compressions, both
  stores.  Each may create, open and rotate.
* `restore`: `d/x`, `d/y`, `e` with each assignment of inodes and symbolic
  links, modes, options, selections and older destinations; files of two chunks.
  The other tree, `a/z` and `a.txt`, is one on which walk order and manifest order differ.
* `prune`: four snapshots over two weeks of two days, counts up to two, two
  prunes with one policy.  (Prunes with other policies count as deletes by hand.)
* `readers`: two chunks and two snapshots; each snapshot may share chunks.  One
  reader at a time, as readers change nothing in the repository.
* `replication`: two chunks and two snapshots in either repository, to begin with
  any that a repository can hold, and two disturbances: steps of other
  writers, damage, failures, crashes.  Two are enough for the change of one
  repository during a run and the failure of another.

Bounds that are constants of a specification: `Times` and `Jobs` (finite),
`MaxChanges`, `MaxOthers`, `NameCount`, `MaxLength`, `MaxDisturbances`,
`MaxKeep`, `FileChunks`.  `MaxTries` is the code's own.

### Deadlock

`CHECK_DEADLOCK FALSE` where invocations end and none is left: `Repository`,
`WriterLock`, `RepositoryConfig`, `Prune`, `Replication` and the readers, whose
writers may have nothing left to do.  The pipelines and `Restore` have explicit terminal
steps (`Returned`, `Ended`), so that TLC looks for deadlocks there.

### Fairness

Weak fairness of each goroutine's next step: the Go scheduler runs every
goroutine that can run, and a channel operation that stays possible is made.
For `repo_progress` it is weak fairness of the main goroutine and of the workers
of each live process: a request to the store is answered, with an error or
without.  Crashes, the ageing of locks, changes of the source, damage and the
starting of invocations are not fair.  For `replication` it is weak fairness of the run's
next step and of running it again once the lock is free, which is the
operator's part: `RunAgainCompletes` says that repetition is all that is needed,
unless each run meets damage or a change that stops it, or nobody recovers the
lock of a crashed one (which is not fair).  No property needs strong fairness.

## 5. Where code and text disagree

1. **Two recoveries on a local directory** (`lock_local_recoverers`).
   `DeleteIfVersion` of the local store reads and compares, and then removes
   whatever is at the path (`store.go` 115-127).  Of two invocations that
   recover the same stale lock the slower one can remove the lock that the
   faster one has just taken, and both hold it; `lock.go` 25 says that
   `acquireWriteLock` serializes mutations.  On S3, or with one recovering
   invocation, it does (`MutualExclusion`, proved).
2. **Leftover workers** (`repo_stragglers`).  When one file fails,
   `BackupWithOptions` returns and its deferred release gives the lock back
   while its other workers go on storing chunks.  `PublishedComplete` and
   `RemovalsUnderLock` hold all the same: what they store is at worst an orphan.
3. **Hard links that sort before their file** (`restore_stale_link`).  With
   `--overwrite`, `a.txt` is linked to the old `a/z`, which is then replaced; the
   restore reports success and `a.txt` has old content.

Others that were met while modelling.  Each is what bounds a property of a
passing run, which would be violated without it:

* Without `--overwrite` such a link cannot be made, and the snapshot cannot be
  restored; nor can, with `--include`, a link whose file is not selected, while
  with `--overwrite` it becomes a name of the old file (`FollowsItsFile` in
  `RestoredFaithfully` and `Restorable`).
* A directory is created with its recorded mode before its children
  (`repository.go` 1046), so that an ordinary user cannot restore a read-only
  directory with children (`Restorable`).
* When a rename fails, `replaceFile` removes the destination first; a crash or a
  second failure then loses the old file (`OldOrNew` excepts it).
* An invocation that asks for no compression and loses the race to create a
  gzip repository is refused, since `ensureConfig` has made the empty value
  "none" by then (`repository.go` 150, 191; `PolicyAsAsked` allows a refusal).
* When somebody deletes by hand a snapshot that a prune keeps, the prune goes on
  to delete the one that has become the newest of its bucket (`Present` in
  `KeepsProtected` counts the snapshot that was deleted).
* Check reports a snapshot that is deleted during the scan, or an object that
  one read fails for, as damage (`excused` in `NoFalseAlarm`).  On a local
  directory it reports the staging file of an unfinished put as an
  `invalid_chunk_key`, and any listing fails when such a file vanishes under it.
* `hardLinkKey` formats all of `lstat`, access and change times included, while
  its comment (`repository.go` 1302) calls that enough to recognise aliases.  A file
  that is touched between the visits of two of its names is stored as two files;
  `AliasesStoredOnce` speaks of names with one and the same stat.
* `--workers` has no effect: `BackupOptions.Workers` is validated
  (`repository.go` 572), and `storeFileChunks` is called with one worker (705).
* A snapshot that the target of a replication has already is skipped when the
  manifests are equal; its chunks are not read, so that those that went bad in
  the target stay bad.  A missing one is not noticed either, which is why the target of
  `Replication` loses none.
* `vestige replicate` passes no lease (`cmd/vestige/replicate.go` 30), so that the
  lock of a crashed replication has to be recovered by another command.
* A rotation reads the version of `config.json` under the lock, but not the
  configuration, which it has from when it opened the repository
  (`repository.go` 348): one that another invocation completed in between is
  replaced by it.  `RotationHolds` says that a rotation holds until it reports.
* A kit exported before a rotation opens with the old passphrase.  A crash leaves a
  partial kit, which does not validate and makes the next export to that path
  fail, for it creates the file exclusively (`recoverykit.go` 35).

## 6. What is proved

Every safety property that a passing run checks is also a theorem, for any sets
of invocations, workers, chunks and snapshots, any trees, orders, inputs and
sizes, and any number of faults and crashes.  A few theorems state what no run
lists, as it follows from a property that a run does check or says what bounds
one: `PolicyStaysImmutable`, `CheckpointOnlyGrows`, `PruneKeepsProtected`,
`RepositoryUsesTheLock`, `WalkOrderRestoresAll`, `TypesHold`, and the
`SomeGoroutineRuns` and `StepsAreBounded` of the pipelines.

| Theorems | Assuming | Argument |
| --- | --- | --- |
| `LockInvariant`, `LockMutualExclusion`, `LockImplementsExclusiveWriter` | `SafeRecovery`: leases honoured, and S3 or one recoverer | `LockInv`: from the put that takes the lock to the delete that gives it back the lock in the store is the holder's own; only locks of ended writers expire; a recovery about to delete has read an expired lock.  `MutualExclusion` alone is not inductive, as it says nothing of the store |
| `AtomicRecovery` | S3 | a lock is removed only when stale or by its own writer, whatever the lease |
| `LocksAreGivenBack`, `RepositoryUsesTheLock`, `OperationsGiveLocksBack` | | `OwnersKnown`: a lock in the store whose writer's requests do not fail is of a writer that holds it, is releasing it or crashed; every step of the repository is one of `WriterLock` or leaves the lock alone, so that what holds of the lock is inherited |
| `RepoInvariant`, `SnapshotsStayComplete`, `OnlyTheHolderRemoves`, `RepositoryImplementsCatalog` | `SafeRecovery` | `RepoInv`: `LockInv`; what the holder's jobs are done with is stored; what a collector found live covers what is referenced, and what it is about to delete is not.  Only the holder removes anything, so leftover workers disturb none of it |
| `BackupsVerifyWhatTheyReuse`, `LatestIsPublishedLast` | `SafeRecovery` | `Dated`: what the holder's workers are done with has not gone bad; no id is past the clock, and a backup whose clock was not set back has a later one than what is published |
| `SnapshotsStayUntilDeleted` | | each action that touches a manifest is a publication or the delete that resolved it |
| `CollectorsAreExact` | `SafeRecovery` | `Settled`: beside what is referenced a collector meets only what it is about to delete and what workers of failed backups store, and a backup that is over has done all its jobs or failed in one |
| `ConfigInvariant`, `HandlesAlwaysAgree`, `PolicyAlwaysAsAsked`, `PolicyStaysImmutable`, `RotationAlwaysHolds` | | `ConfigInv`, taken apart by invocation: who is past opening has the key and the policy in the store, who is replacing holds the lock and has seen the configuration that is there, who has replaced it finds it as written |
| `PruneInvariant`, `PruneKeepsProtected`, `PruneLosesNothingProtected` | `Times` are numbers, later times are not of earlier days or weeks; `taken` stays finite | more snapshots protect none that was not protected, and removing an unprotected one protects no other; both by counting newer snapshots and later buckets |
| `PassIsFaithful` | the same | the snapshots can be sorted, and the fold goes through them place by place.  After k places what is kept is what is protected of the k newest; the buckets are those of the k newest as long as there are places, so one opens for the snapshot that heads it.  Without monotonous days it would be false |
| `PruneIsExact` | | `Accounted`: what a prune has listed, may delete and still finds is left to delete, for ids are not used again |
| `PipelineInvariant`, `CutsAlwaysFollowContent`, `OrderIsRetained`, `TypesHold`, `SomeGoroutineRuns`, `StepsAreBounded` (`ChunkPipelineProofs`) | | see below |
| `PipelineInvariant`, `FilesAreStoredWhole`, `WalkStoresAliasesOnce`, `WorkersNeverWait`, `SomeGoroutineRuns` (`FilePipelineProofs`) | | `PipelineInv`: a visited file has a job or links to a name of the same inode and version that has one; what a worker has read is not older than what the walk saw nor newer than what there is, so that an unchanged version means a whole file; a job that was fed waits, is with a worker, has a result or an entry, until the backup fails; and the order in which feeder, workers, closer and main goroutine end.  `RoomInv`: what is in the channels and with workers is at most what was fed, so that the results channel, as long as the jobs, has room for every worker that has a file; it is closed when none has |
| `RestoreInvariant`, `FilesAreOldOrNew`, `OthersStayUntouched`, `TempsAreRemoved`, `SuccessIsFaithful`, `WalkOrderRestoresAll`, `FailureHasACause` | the orders are orders of all entries with directories before what is in them | `RestoreInv`: what has been handled is restored and stays so, unless it is a link that does not follow its file; without a fault nothing is in the way of the next entry (`WayClear`); a directory that is stamped stays so, as its children come before it; and the inode of a name is the first of its names in walk order (`Given`) |
| `ReadersInvariant`, `CheckRaisesNoFalseAlarm`, `CheckReportsDamage`, `KitIsComplete`, `SuccessMeansFound`, `CheckpointOnlyGrows` | `NoKit` is no kit | `ReadersInv`.  `ScanInv`: what the scan has yet to read, has found live or has listed is there or is excused, since every step that takes something away excuses it.  `DamageInv`: a problem that has lasted is reported, or its manifest is yet to be read, or its chunk to be looked at.  `KitInv`: a snapshot that stays is to be read, to be copied or in the kit, whose file is whole only after the last one.  `VerifyInv`: what the checkpoint and the run's memory list was found, and what the run has not verified is left.  Readers change nothing in the repository |
| `ReplicationInvariant`, `ReplicationKeepsPromises`, `ReplicationSucceeds`, `ReplicationVerifies` | | `ReplicationInv`: a run that is going on has the lock, so nothing it has put is taken away; each steady snapshot is yet to be read, queued or in the target; and what is copied is not in the target.  `SuccessMeansReplicated` alone says nothing of a run before its end.  `PutIntact`: while a run has the lock nothing bad in the target gets well, and no chunk it relies on was bad |

**The chunk pipeline.**  Its invariant has four parts, each needed by the next.

* `SplitInv`.  `RingInv`: the ring holds the last bytes of the input, the oldest
  at `pos`, and the fingerprint is `Hash` of them, the hash computed from
  nothing.  `Chunked`: there is a function of the ends of the chunks emitted so
  far, each the first place to cut at after the one before, and their buffers,
  and the one in use, have the parts of the input between them.
* `HandInv`: a job is about the buffer of an emitted chunk, and a result, or a
  reference the collector has, is what that buffer holds.  It is preserved since
  the splitter never writes into a buffer it has handed over (`StepSplit`).
* `PhaseInv`: jobs is closed after the split, workers end on an empty closed
  channel, results is closed after the workers, and the call returns after that.
* `NothingLost`: an emitted chunk is in the jobs channel, with a worker, in the
  results channel or referenced, unless the collector has seen an error.

At the return every channel is empty, so that `NothingLost` leaves the references,
`HandInv` makes them the chunks, and `Chunked` puts the cuts where they belong.

That the call returns is proved but for the scheduler's part.  `SomeGoroutineRuns`,
from `PhaseInv`: in every state before the return some step has its guards; it
assumes that there is a worker, as `BackupWithOptions` asks for one.
`StepsAreBounded`: every step lowers `Work`, which counts what each byte, chunk
and worker may still need.  That a step which stays possible is
taken is the fairness of `FairSpec`, under which TLC checks `Terminates`.

That `Roll` keeps the fingerprint is algebra of words as sets of bits: a rotation
permutes the bits and so distributes over exclusive or (`RotateXor`), rotations
add up modulo the width (`RotateAgain`), and the first byte of a window
contributes itself rotated by the window's length less one (`HashFirst`), so that
exclusive or with it rotated once more takes it out (`HashSlides`).

**Induction over data.**  The induction theorems of the library take an operator,
which the provers cannot instantiate.  Where a fold or a recursive function has to
be shown to have its values (`Hash`, the ends in `IsSplit`, the pass of
`Retained`), induction is used as a fact about sets: a set of numbers that has 0
and with a number the next one has them all (`UpTo`, from the well-foundedness of
`<`).  First the function that defines the fold is shown to exist
(`IteratesExists`), then it is read off place by place (`HashSteps`,
`PassIsStepwise`).

Assumptions on the constants are the named `ASSUME`s of the modules; TLC
evaluates them in the runs.  `RetentionAssumption` has that a later
time is not of an earlier day or week, as both are computed from the time in UTC.

## 7. What is only model-checked

* Liveness: `Answered`, `StaleLockIsReclaimed`, `OperationsEnd`, `Terminates`,
  `EverythingEnds`, `RunAgainCompletes`.  TLAPS does not prove liveness under fairness;
  for the pipelines the theorems of section 6 leave only the use of fairness open,
  and for the file pipeline the number of its steps.
* The absence of deadlocks, by TLC where a specification may not stop.
* What a run expects to be violated, and that each mutant is.

## 8. What is not modelled

* Compression, encryption and hashing: a chunk that is read is what was written,
  or an error.  Requests of the S3 SDK are atomic steps.  Listing is one step.
* Windows, where `hardLinkKey` is empty and every name is a file of its own.
* Names that come and go in the source while it is walked, modes and link
  targets of entries; the pattern matching of the filter and `safeJoin`, whose
  outcome `SourceWalk` and `Restore` take as given.  Single-file restore, drills,
  statistics, diff, find, the printing of the commands, the benchmark: loops over
  what other parts return, without a state of their own.
* The configuration and the passphrase in a recovery kit: the data key never
  changes (`RepositoryConfig`), so that they decide only which passphrase opens it.
* A restore beside a delete and a collection is modelled as a chunk
  that cannot be read, at any point of the restore.
* Chunks that the target of a replication loses (section 5).

## 9. Plan

Done: all components of section 3 modelled and checked, and their safety
properties proved.

To be done next: a bound on the steps of the file pipeline; the steps from which
the liveness of replication and of the lock follows, in the same way; the lemmas on
folds and sorting stated once, where two modules need them.
