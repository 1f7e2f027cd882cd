---------------------------- MODULE Verification ----------------------------
(***************************************************************************)
(* VerifyWithOptions with --state: a verification that is interrupted is   *)
(* resumed by a later run, which skips the chunks that a checkpoint file   *)
(* lists as verified.  Runs read without the writer lock, one after the    *)
(* other, and each may be for another selector: a snapshot, "latest" or    *)
(* all of them.  Before the first run there may be no checkpoint, or one   *)
(* that was written for another repository.                                *)
(***************************************************************************)
EXTENDS StoredRepository

CONSTANTS
    All, Latest, \* the selectors of every snapshot, and of the newest
    NoFile       \* there is no checkpoint

Selectors == {All, Latest} \union Ids
Checkpoints == [repository : {"this", "other"}, selector : Selectors, verified : SUBSET Chunks]

ASSUME VerificationAssumption ==
    /\ All # Latest /\ {All, Latest} \intersect Ids = {} /\ NoFile \notin Checkpoints

VARIABLES
    pc,            \* what the run is doing, or how the last one ended
    selector,
    toRead,        \* snapshots listed and yet to be read
    read,          \* manifests read
    left,          \* chunks to verify
    verified,      \* state.Verified
    checkpoint,    \* the checkpoint file
    found          \* chunks found intact by a run since the file came to be

run == <<pc, selector, toRead, read, left, verified>>
vars == <<store, run, checkpoint, found>>

Idle == {"new", "verified", "failed"}

TypeOK ==
    /\ StoreTypeOK
    /\ pc \in Idle \union {"resolve", "read", "load", "verify", "save"}
    /\ selector \in Selectors
    /\ toRead \subseteq Ids /\ read \subseteq Manifests
    /\ left \subseteq Chunks /\ verified \subseteq Chunks /\ found \subseteq Chunks
    /\ checkpoint \in Checkpoints \union {NoFile}

Init ==
    /\ StoreInit
    /\ pc = "new" /\ selector = All
    /\ toRead = {} /\ read = {} /\ left = {} /\ verified = {} /\ found = {}
    /\ checkpoint \in {NoFile} \union {c \in Checkpoints : c.repository = "other"}

Others == StoreStep /\ UNCHANGED <<run, checkpoint, found>>

Goto(loc) == pc' = loc

Start ==
    /\ pc \in Idle
    /\ selector' \in Selectors
    /\ Goto("resolve")
    /\ toRead' = {} /\ read' = {} /\ left' = {} /\ verified' = {}
    /\ found' = IF checkpoint = NoFile THEN {} ELSE found
    /\ UNCHANGED <<store, checkpoint>>

(* An error, or an interruption, ends the run and its memory. *)
Fail ==
    /\ pc \notin Idle
    /\ Goto("failed")
    /\ toRead' = {} /\ read' = {} /\ left' = {} /\ verified' = {}
    /\ UNCHANGED <<store, selector, checkpoint, found>>

(* verifyManifests: one snapshot is read, or all are listed. *)
Resolve ==
    /\ pc = "resolve"
    /\ toRead' = IF selector \in Ids THEN {selector} ELSE IdsOf(published)
    /\ Goto("read")
    /\ UNCHANGED <<store, selector, read, left, verified, checkpoint, found>>

ReadManifest(id) ==
    /\ pc = "read" /\ id \in toRead
    /\ \E m \in Readable :
        /\ m.id = id
        /\ read' = read \union {m}
    /\ toRead' = toRead \ {id}
    /\ UNCHANGED <<store, pc, selector, left, verified, checkpoint, found>>

ManifestUnreadable ==
    /\ pc = "read"
    /\ \E id \in toRead : id \notin IdsOf(Readable)
    /\ Fail

Newest == {m \in read : \A n \in read : n.id <= m.id}

(* The manifests that the selector selects, once all are read *)
Selected == IF selector = Latest THEN Newest ELSE read

ManifestsRead ==
    /\ pc = "read" /\ toRead = {}
    /\ IF selector = Latest /\ read = {} THEN Goto("failed") ELSE Goto("load")
    /\ UNCHANGED <<store, selector, toRead, read, left, verified, checkpoint, found>>

Resume(done) ==
    /\ verified' = done
    /\ left' = NeededBy(Selected) \ done
    /\ Goto("verify")

(* Mutant of Load: the file is taken whoever it was written for. *)
LoadAny ==
    /\ pc = "load"
    /\ Resume(IF checkpoint = NoFile THEN {} ELSE checkpoint.verified)
    /\ UNCHANGED <<store, selector, toRead, read, checkpoint, found>>

(* loadVerifyState *)
Load ==
    /\ pc = "load"
    /\ IF checkpoint = NoFile THEN Resume({})
       ELSE IF checkpoint.repository = "this" /\ checkpoint.selector = selector
       THEN Resume(checkpoint.verified)
       ELSE Goto("failed") /\ UNCHANGED <<left, verified>>
    /\ UNCHANGED <<store, selector, toRead, read, checkpoint, found>>

(* verifyChunk *)
VerifyChunk(c) ==
    /\ pc = "verify" /\ c \in left
    /\ c \in Intact
    /\ left' = left \ {c}
    /\ verified' = verified \union {c}
    /\ found' = found \union {c}
    /\ Goto("save")
    /\ UNCHANGED <<store, selector, toRead, read, checkpoint>>

ChunkBad == pc = "verify" /\ (\E c \in left : c \notin Intact) /\ Fail

Save ==
    /\ pc = "save"
    /\ checkpoint' = [repository |-> "this", selector |-> selector, verified |-> verified]
    /\ Goto("verify")
    /\ UNCHANGED <<store, selector, toRead, read, left, verified, found>>

(* The checkpoint is removed when every chunk is verified. *)
Remove ==
    /\ pc = "verify" /\ left = {}
    /\ checkpoint' = NoFile
    /\ Goto("verified")
    /\ UNCHANGED <<store, selector, toRead, read, left, verified, found>>

(* A read of the store, or the checkpoint file, fails; the process is      *)
(* interrupted.                                                            *)
Fault == Fail

Step ==
    \/ Start \/ Resolve \/ ManifestUnreadable \/ ManifestsRead
    \/ Load \/ ChunkBad \/ Save \/ Remove \/ Fault
    \/ \E id \in Ids : ReadManifest(id)
    \/ \E c \in Chunks : VerifyChunk(c)

Next == Others \/ Step

Spec == Init /\ [][Next]_vars

-----------------------------------------------------------------------------
(* Correctness *)

(* When a verification reports success, every chunk of the snapshots it    *)
(* was asked for was found intact, by this run or by one that it resumes.  *)
VerifiedMeansFound == pc = "verified" => NeededBy(Selected) \subseteq found

(* The checkpoint lists no chunk that was not found intact since the last  *)
(* complete verification.                                                  *)
CheckpointHonest ==
    checkpoint # NoFile /\ checkpoint.repository = "this" => checkpoint.verified \subseteq found

(* What a run has in memory was found too and includes what the checkpoint *)
(* has, and what it has not is left: the strengthening of                  *)
(* VerifiedMeansFound and CheckpointGrows that every step preserves.       *)
NothingSkipped ==
    pc \in {"verify", "save", "verified"} =>
        /\ verified \subseteq found
        /\ NeededBy(Selected) \subseteq verified \union left
        /\ IF pc = "verified" THEN left = {}
           ELSE checkpoint # NoFile => checkpoint.verified \subseteq verified

VerifyInv == TypeOK /\ CheckpointHonest /\ NothingSkipped

(* No work is lost: the checkpoint only grows until it "is removed only    *)
(* after a complete successful verification".                              *)
CheckpointGrows ==
    [][checkpoint # NoFile /\ checkpoint' # checkpoint =>
        \/ checkpoint' = NoFile /\ pc' = "verified" /\ NeededBy(Selected) \subseteq found
        \/ /\ checkpoint' # NoFile
           /\ checkpoint.verified \subseteq checkpoint'.verified]_vars
=============================================================================
