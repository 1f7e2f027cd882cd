----------------------------- MODULE Replication -----------------------------
(***************************************************************************)
(* ReplicateTo: the snapshots of one encrypted repository, the source, are *)
(* copied to another one, the target, that has a data key of its own.  The *)
(* source is read without its lock, while its writers go on; the target is *)
(* written under its lock, which a replication never recovers from others. *)
(* A replication that failed or crashed is run again.                      *)
(***************************************************************************)
EXTENDS StoredRepository, FiniteSetsExt

CONSTANT MaxDisturbances  \* steps of others, damage, and requests that fail

ASSUME ReplicationAssumption == MaxDisturbances \in Nat

VARIABLES
    copies, stored, bad,  \* the target: its manifests, its chunks, those damaged
    lock,                 \* the target's: free, of the run, or left by one
    pc,                   \* what the run is doing, or how the last one ended
    toRead,               \* snapshots listed in the source and yet to be read
    queue,                \* manifests read and yet to be copied
    put,                  \* chunks of the first of them that are in the target
    steady,               \* snapshots in the source since the run listed them
    badBefore,            \* what was bad in the target when the run began
    disturbances

target == <<copies, stored, bad>>
run == <<pc, toRead, queue, put>>
vars == <<store, target, lock, run, steady, badBefore, disturbances>>

Target == INSTANCE StoredRepository
          WITH published <- copies, available <- stored, damaged <- bad

Idle == {"new", "done", "failed"}

TypeOK ==
    /\ StoreTypeOK /\ Target!StoreTypeOK
    /\ lock \in {"free", "run", "left"}
    /\ pc \in Idle \union {"list", "read", "compare", "copy"}
    /\ toRead \subseteq Ids /\ put \subseteq Chunks
    /\ queue \subseteq Manifests /\ steady \subseteq Manifests
    /\ badBefore \subseteq Ids \union Chunks
    /\ disturbances \in 0..MaxDisturbances

Init ==
    /\ StoreInit /\ Target!StoreInit
    /\ lock = "free" /\ pc = "new"
    /\ toRead = {} /\ queue = {} /\ put = {}
    /\ steady = {} /\ badBefore = {} /\ disturbances = 0

Disturb == disturbances < MaxDisturbances /\ disturbances' = disturbances + 1

Steady == steady' = steady \intersect published'

-----------------------------------------------------------------------------
(* The others *)

SourceChanges ==
    /\ StoreStep /\ Disturb /\ Steady
    /\ UNCHANGED <<target, lock, run, badBefore>>

(* Writers of the target need its lock, but for the workers that a failed  *)
(* backup left behind.  What they lock they release.  (A chunk that the    *)
(* target loses would break its promises whatever a replication does.)     *)
TargetChanges ==
    /\ \/ lock = "free" /\ Target!Write
       \/ (\E c \in Chunks \ stored : Target!Catalog!Store(c)) /\ UNCHANGED bad
       \/ Target!Spoil
    /\ Disturb
    /\ UNCHANGED <<store, lock, run, steady, badBefore>>

(* Somebody recovers the lock that a replication left. *)
Recover ==
    /\ lock = "left" /\ lock' = "free"
    /\ UNCHANGED <<store, target, run, steady, badBefore, disturbances>>

-----------------------------------------------------------------------------
(* A run *)

Frame == UNCHANGED <<store, target, lock, steady, badBefore, disturbances>>

Lock ==
    /\ pc \in Idle /\ lock = "free"
    /\ lock' = "run" /\ pc' = "list"
    /\ toRead' = {} /\ queue' = {} /\ put' = {} /\ steady' = {}
    /\ badBefore' = bad
    /\ UNCHANGED <<store, target, disturbances>>

(* Snapshots: the manifests are listed and all of them read. *)
ListSource ==
    /\ pc = "list" /\ pc' = "read"
    /\ toRead' = IdsOf(published) /\ steady' = published
    /\ UNCHANGED <<store, target, lock, queue, put, badBefore, disturbances>>

ReadManifest ==
    /\ pc = "read" /\ toRead # {}
    /\ \E m \in Readable :
        /\ m.id = Min(toRead)
        /\ queue' = queue \union {m} /\ toRead' = toRead \ {m.id}
    /\ UNCHANGED <<pc, put>> /\ Frame

SourceRead ==
    /\ pc = "read" /\ toRead = {} /\ pc' = "compare"
    /\ UNCHANGED <<toRead, queue, put>> /\ Frame

(* The oldest snapshot is the next one. *)
Oldest == {m \in queue : \A n \in queue : m.id <= n.id}

Current == CHOOSE m \in Oldest : TRUE

InTarget == {m \in copies : m.id = Current.id}

(* Mutants of Skip: the id is enough; what is there stops the run.         *)
SkipById ==
    /\ pc = "compare" /\ Oldest # {} /\ InTarget # {}
    /\ queue' = queue \ {Current} /\ UNCHANGED <<pc, toRead, put>> /\ Frame

SkipNothing ==
    /\ pc = "compare" /\ Oldest # {} /\ InTarget # {}
    /\ pc' = "failed" /\ lock' = "free"
    /\ UNCHANGED <<store, target, toRead, queue, put, steady, badBefore, disturbances>>

(* A snapshot that the target has already, as it is in the source *)
Skip ==
    /\ pc = "compare" /\ Oldest # {} /\ Current \in Target!Readable
    /\ queue' = queue \ {Current} /\ UNCHANGED <<pc, toRead, put>> /\ Frame

Begin ==
    /\ pc = "compare" /\ Oldest # {} /\ InTarget = {}
    /\ pc' = "copy" /\ UNCHANGED <<toRead, queue, put>> /\ Frame

(* Mutant of Reusable: a chunk that is there is not read again. *)
ReusableUnread(c) == c \in stored

Reusable(c) == c \in stored \ bad

(* The chunk is read from the source, where it must be intact, and put     *)
(* into the target (PutChunk), where one that is there is verified.        *)
CopyChunk(c) ==
    /\ pc = "copy" /\ c \in Current.refs \ put
    /\ c \in Intact
    /\ c \in stored => Reusable(c)
    /\ stored' = stored \union {c} /\ put' = put \union {c}
    /\ UNCHANGED <<store, copies, bad, lock, pc, toRead, queue, steady, badBefore, disturbances>>

(* Mutant of Publish: the manifest is published while chunks are copied.   *)
PublishEarly ==
    /\ pc = "copy" /\ put # {}
    /\ copies' = copies \union {Current} /\ queue' = queue \ {Current}
    /\ put' = {} /\ pc' = "compare"
    /\ UNCHANGED <<store, stored, bad, lock, toRead, steady, badBefore, disturbances>>

(* publishManifest, after the last chunk *)
Publish ==
    /\ pc = "copy" /\ Current.refs \subseteq put
    /\ copies' = copies \union {Current} /\ queue' = queue \ {Current}
    /\ put' = {} /\ pc' = "compare"
    /\ UNCHANGED <<store, stored, bad, lock, toRead, steady, badBefore, disturbances>>

-----------------------------------------------------------------------------
(* How a run ends: with its lock released, unless that request fails       *)
End(how) ==
    /\ pc' = how
    /\ \/ lock' = "free" /\ UNCHANGED disturbances
       \/ lock' = "left" /\ Disturb
    /\ UNCHANGED <<store, toRead, queue, put, steady, badBefore>>

Done == pc = "compare" /\ queue = {} /\ End("done") /\ UNCHANGED target

(* What the next request meets that ends the run: a manifest of the source *)
(* that is gone or bad, one of the target that is bad or another, a chunk  *)
(* that is gone or bad in the source or bad in the target                  *)
Obstructed ==
    \/ pc = "read" /\ toRead # {} /\ Min(toRead) \notin IdsOf(Readable)
    \/ pc = "compare" /\ Oldest # {} /\ InTarget # {} /\ Current \notin Target!Readable
    \/ pc = "copy" /\ \E c \in Current.refs \ put : c \notin Intact \/ (c \in stored /\ ~Reusable(c))

Stop == Obstructed /\ End("failed") /\ UNCHANGED target

(* A request fails, or the process dies; the request may have had its      *)
(* effect.                                                                 *)
Interrupted ==
    /\ pc \notin Idle /\ Disturb
    /\ pc' = "failed" /\ lock' \in {"free", "left"}
    /\ \/ UNCHANGED <<copies, stored>>
       \/ /\ pc = "copy" /\ UNCHANGED copies
          /\ \E c \in (Current.refs \ put) \intersect Intact : stored' = stored \union {c}
       \/ /\ pc = "copy" /\ Current.refs \subseteq put /\ UNCHANGED stored
          /\ copies' = copies \union {Current}
    /\ UNCHANGED <<store, bad, toRead, queue, put, steady, badBefore>>

Step ==
    \/ ListSource \/ ReadManifest \/ SourceRead \/ Skip \/ Begin
    \/ (\E c \in Chunks : CopyChunk(c)) \/ Publish \/ Done \/ Stop

Next == SourceChanges \/ TargetChanges \/ Recover \/ Lock \/ Step \/ Interrupted

Spec == Init /\ [][Next]_vars

(* A live process goes on, and a replication is run again, though the lock *)
(* that a dead one left may never be recovered.                            *)
FairSpec == Spec /\ WF_vars(Step) /\ WF_vars(Lock)

-----------------------------------------------------------------------------
(* Correctness *)

(* The target keeps the promises of a repository while it is copied to: a  *)
(* snapshot appears in it with everything it needs, "a failed copy never   *)
(* exposes an incomplete snapshot", and nothing replaces one.              *)
TargetKeepsPromises == [][Target!Catalog!Next]_<<copies, stored>>

(* A run that reports success leaves every snapshot that the source has    *)
(* had since the run listed them in the target, as it is in the source.    *)
SuccessMeansReplicated ==
    [][pc' = "done" /\ pc # "done" => steady \subseteq copies']_vars

(* What a run publishes refers to nothing that was bad in the target       *)
(* before: a chunk that it did not have to copy it has verified.           *)
CopiesVerified ==
    [][\A m \in copies' \ copies : lock = "run" => m.refs \intersect badBefore = {}]_vars

(* A replication that is run again after a failure completes, however far  *)
(* the failed one had come, unless each run meets the same obstacle or     *)
(* nobody recovers the lock.                                               *)
RunAgainCompletes == <>(pc = "done") \/ []<>Obstructed \/ <>[](lock = "left")

(* The strengthening of TargetKeepsPromises and SuccessMeansReplicated     *)
(* that every step preserves                                               *)
ReplicationInv ==
    /\ TypeOK
    /\ \A m, n \in published : m.id = n.id => m = n
    /\ pc \notin Idle => lock = "run" /\ put \subseteq stored
    /\ pc \in {"read", "compare", "copy"} =>
        \A m \in steady : m \in published /\ (m.id \in toRead \/ m \in queue \union copies)
    /\ pc \in {"compare", "copy"} => toRead = {}
    /\ pc = "copy" => Current \in queue /\ InTarget = {}

(* The strengthening of CopiesVerified: in a run nothing gets well again,  *)
(* and no chunk it relies on was bad.                                      *)
PutIntact == pc \notin Idle => badBefore \subseteq bad /\ put \intersect badBefore = {}
=============================================================================
