---------------------------- MODULE RecoveryKit ----------------------------
(***************************************************************************)
(* ExportRecoveryKit writes config.json and the manifests of an encrypted  *)
(* repository to a zip file, reading them one after the other without the  *)
(* lock, while snapshots come and go.  ValidateRecoveryKit says whether a  *)
(* file opens as a kit.  The data key in config.json never changes         *)
(* (RepositoryConfig), so that a rotation meanwhile only decides which     *)
(* passphrase opens the kit: configuration and passphrase are left out.    *)
(***************************************************************************)
EXTENDS StoredRepository

CONSTANT NoKit      \* there is no file at the destination

VARIABLES
    pc,             \* what the export is doing, or how the last one ended
    toRead,         \* snapshots listed and yet to be read
    toCopy,         \* snapshots read and yet to be written to the kit
    kit,            \* the file at the destination
    steady          \* snapshots that were there during the whole export

vars == <<store, pc, toRead, toCopy, kit, steady>>

(* A zip file that is not closed has no directory and does not open.       *)
(* Its entries are objects as they are in the store, bad ones too.         *)
Kits == [whole : BOOLEAN, manifests : SUBSET Manifests, bad : SUBSET Ids]

EmptyKit == [whole |-> FALSE, manifests |-> {}, bad |-> {}]

Idle == {"new", "done", "failed"}

TypeOK ==
    /\ StoreTypeOK
    /\ pc \in Idle \union {"list", "read", "copy"}
    /\ toRead \subseteq Ids /\ toCopy \subseteq Ids
    /\ kit \in Kits \union {NoKit}
    /\ steady \subseteq Manifests

Init ==
    /\ StoreInit
    /\ pc = "new" /\ toRead = {} /\ toCopy = {} /\ kit = NoKit /\ steady = {}

(* What happens between exports is what Init allows anyhow. *)
Others ==
    /\ pc \notin Idle
    /\ StoreStep
    /\ steady' = steady \intersect published'
    /\ UNCHANGED <<pc, toRead, toCopy, kit>>

(* The file is created, and must not be there; config.json is written.     *)
Create ==
    /\ pc \in Idle
    /\ IF kit = NoKit
       THEN pc' = "list" /\ kit' = EmptyKit /\ toRead' = {} /\ toCopy' = {} /\ steady' = published
       ELSE pc' = "failed" /\ UNCHANGED <<toRead, toCopy, kit, steady>>
    /\ UNCHANGED store

(* Snapshots: they are listed and all of them read, which fails when one   *)
(* is gone or bad.                                                         *)
ListSnapshots ==
    /\ pc = "list" /\ pc' = "read"
    /\ toRead' = IdsOf(published)
    /\ UNCHANGED <<store, toCopy, kit, steady>>

ReadManifest(id) ==
    /\ pc = "read" /\ id \in toRead \intersect IdsOf(Readable)
    /\ toRead' = toRead \ {id} /\ toCopy' = toCopy \union {id}
    /\ UNCHANGED <<store, pc, kit, steady>>

SnapshotsRead ==
    /\ pc = "read" /\ toRead = {} /\ pc' = "copy"
    /\ UNCHANGED <<store, toRead, toCopy, kit, steady>>

(* Then each object is read again and written as it is. *)
WriteManifest(m) ==
    /\ pc = "copy" /\ m \in published /\ m.id \in toCopy
    /\ toCopy' = toCopy \ {m.id}
    /\ kit' = [kit EXCEPT !.manifests = @ \union {m}, !.bad = @ \union ({m.id} \intersect damaged)]
    /\ UNCHANGED <<store, pc, toRead, steady>>

(* Mutant of Close: the file is closed although an object could not be     *)
(* read.                                                                   *)
CloseAnyhow ==
    /\ pc = "copy" /\ pc' = "done"
    /\ kit' = [kit EXCEPT !.whole = TRUE]
    /\ UNCHANGED <<store, toRead, toCopy, steady>>

Close ==
    /\ pc = "copy" /\ toCopy = {} /\ pc' = "done"
    /\ kit' = [kit EXCEPT !.whole = TRUE]
    /\ UNCHANGED <<store, toRead, toCopy, steady>>

(* Any error removes the file; a crash leaves it as it is. *)
Fail ==
    /\ pc \notin Idle /\ pc' = "failed"
    /\ kit' \in {NoKit, kit}
    /\ UNCHANGED <<store, toRead, toCopy, steady>>

(* The owner moves the file elsewhere. *)
Discard ==
    /\ pc \in Idle /\ kit # NoKit /\ kit' = NoKit
    /\ UNCHANGED <<store, pc, toRead, toCopy, steady>>

Next ==
    \/ Others \/ Create \/ ListSnapshots \/ SnapshotsRead
    \/ (\E id \in Ids : ReadManifest(id)) \/ (\E m \in Manifests : WriteManifest(m))
    \/ Close \/ Fail \/ Discard

Spec == Init /\ [][Next]_vars

(* ValidateRecoveryKit, given the passphrase: the file is a whole zip, and *)
(* every manifest in it can be decrypted.                                  *)
Validates == kit # NoKit /\ kit.whole /\ kit.bad = {}

-----------------------------------------------------------------------------
(* Correctness *)

(* A file that validates has every snapshot that was there during the      *)
(* whole export that wrote it.                                             *)
ValidKitIsComplete == Validates => steady \subseteq kit.manifests

(* The strengthening of ValidKitIsComplete that every step preserves: what *)
(* stays has yet to be read, is to be copied, or is in the kit, whose file *)
(* is whole only after the last one.                                       *)
KitInv ==
    /\ TypeOK
    /\ \A m, n \in published : m.id = n.id => m = n
    /\ pc \notin Idle => kit # NoKit /\ ~kit.whole /\ steady \subseteq published
    /\ pc = "read" => IdsOf(steady) \subseteq toRead \union toCopy
    /\ pc = "copy" => \A m \in steady : m.id \in toCopy \/ m \in kit.manifests
    /\ ValidKitIsComplete
=============================================================================
