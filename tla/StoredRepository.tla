-------------------------- MODULE StoredRepository --------------------------
(***************************************************************************)
(* The objects of a repository as those see them who read it without the   *)
(* writer lock.  Backups, deletes and garbage collections change them in   *)
(* the steps of a SnapshotCatalog, which Repository implements; and        *)
(* objects go bad or get lost in the store.                                *)
(***************************************************************************)
EXTENDS Naturals, FiniteSets

CONSTANTS
    Chunks,
    Ids           \* snapshot ids

ASSUME StoredAssumption == Ids \subseteq Nat /\ Ids \intersect Chunks = {}

VARIABLES
    published,    \* the manifests in the store
    available,    \* the chunks in the store
    damaged       \* manifests, by their ids, and chunks that went bad

store == <<published, available, damaged>>

Manifests == [id : Ids, refs : SUBSET Chunks]

Catalog == INSTANCE SnapshotCatalog

IdsOf(ms) == {m.id : m \in ms}

NeededBy(ms) == UNION {m.refs : m \in ms}

Readable == {m \in published : m.id \notin damaged}

Intact == available \ damaged

StoreTypeOK ==
    /\ published \subseteq Manifests
    /\ available \subseteq Chunks
    /\ damaged \subseteq available \union IdsOf(published)

(* Any state a repository can be in, before the first damage *)
StoreInit ==
    /\ published \in SUBSET Manifests
    /\ \A m, n \in published : m.id = n.id => m = n
    /\ available \in SUBSET Chunks
    /\ NeededBy(published) \subseteq available
    /\ damaged = {}

(* A step of a writer *)
Write ==
    /\ \/ \E m \in Manifests : Catalog!Publish(m)
       \/ \E c \in Chunks \ available : Catalog!Store(c)
       \/ \E m \in published : Catalog!Delete(m)
       \/ \E c \in available : Catalog!Reclaim(c)
    /\ damaged' = damaged \intersect (available' \union IdsOf(published'))

(* An object goes bad; a chunk gets lost. *)
Spoil ==
    /\ \E x \in (available \union IdsOf(published)) \ damaged : damaged' = damaged \union {x}
    /\ UNCHANGED <<published, available>>

Lose ==
    /\ \E c \in available : available' = available \ {c} /\ damaged' = damaged \ {c}
    /\ UNCHANGED published

StoreStep == Write \/ Spoil \/ Lose
=============================================================================
