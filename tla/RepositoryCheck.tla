-------------------------- MODULE RepositoryCheck --------------------------
(***************************************************************************)
(* Check: a read-only scan of the repository, without the writer lock.     *)
(* It lists the snapshots and reads their manifests, lists the chunks,     *)
(* and then reads every chunk that a manifest refers to.  A listing is one *)
(* step, and so is reading one object.                                     *)
(***************************************************************************)
EXTENDS StoredRepository

CONSTANT Staging   \* a file of an unfinished put in a local directory

VARIABLES
    pc,         \* what the scan is doing
    toRead,     \* snapshots listed and yet to be read
    live,       \* chunks that the manifests it has read refer to
    stored,     \* chunks listed
    checked,    \* chunks of live it has looked at
    issues,     \* the issues reported
    lasting,    \* what has been wrong ever since the scan began
    excused     \* what has been bad, lost or deleted since, or not read once

vars == <<store, pc, toRead, live, stored, checked, issues, lasting, excused>>

Kinds == {"invalid_manifest", "missing_chunk", "corrupt_chunk", "orphan_chunk", "invalid_chunk_key"}
Objects == Ids \union Chunks \union {Staging}
Issue(kind, x) == [kind |-> kind, object |-> x]

(* What is wrong: a manifest that cannot be read, or a chunk it needs.     *)
Problems ==
    {<<m, m.id>> : m \in published \ Readable}
    \union UNION {{<<m, c>> : c \in m.refs \ Intact} : m \in Readable}

TypeOK ==
    /\ StoreTypeOK
    /\ pc \in {"list", "read", "verify", "done", "failed"}
    /\ toRead \subseteq Ids
    /\ live \subseteq Chunks /\ stored \subseteq Chunks /\ checked \subseteq Chunks
    /\ issues \subseteq [kind : Kinds, object : Objects]
    /\ excused \subseteq Ids \union Chunks
    /\ lasting \subseteq Manifests \X (Ids \union Chunks)

Init ==
    /\ StoreInit
    /\ pc = "list"
    /\ toRead = {} /\ live = {} /\ stored = {} /\ checked = {} /\ issues = {}
    /\ lasting = {} /\ excused = {}

Lost == (IdsOf(published) \ IdsOf(published')) \union (available \ available')

Watch ==
    IF pc = "list" THEN UNCHANGED <<lasting, excused>>
    ELSE /\ lasting' = lasting \intersect Problems'
         /\ excused' = excused \union damaged' \union Lost

Others ==
    /\ StoreStep
    /\ Watch
    /\ UNCHANGED <<pc, toRead, live, stored, checked, issues>>

ListSnapshots ==
    /\ pc = "list"
    /\ toRead' = IdsOf(published)
    /\ lasting' = Problems
    /\ excused' = damaged \union (NeededBy(published) \ available)
    /\ pc' = "read"
    /\ UNCHANGED <<store, live, stored, checked, issues>>

(* Mutant of ReadManifest: a manifest that cannot be read is passed over.  *)
ReadManifestPassesOver(id) ==
    /\ pc = "read" /\ id \in toRead
    /\ toRead' = toRead \ {id}
    /\ live' = live \union NeededBy({m \in Readable : m.id = id})
    /\ UNCHANGED <<store, pc, stored, checked, issues, lasting, excused>>

(* Any error, also a passing one of the store, is an invalid manifest; the *)
(* scan goes on.                                                           *)
ReadManifest(id) ==
    /\ pc = "read" /\ id \in toRead
    /\ toRead' = toRead \ {id}
    /\ \/ \E m \in Readable :
            /\ m.id = id
            /\ live' = live \union m.refs
            /\ UNCHANGED <<issues, excused>>
       \/ /\ issues' = issues \union {Issue("invalid_manifest", id)}
          /\ excused' = IF id \in IdsOf(Readable) THEN excused \union {id} ELSE excused
          /\ UNCHANGED live
    /\ UNCHANGED <<store, pc, stored, checked, lasting>>

(* A local put stages its object in a file beside it, which a crash leaves *)
(* there.  The walk that lists the chunks comes across it, or fails when   *)
(* it vanishes meanwhile.                                                  *)
ListChunks ==
    /\ pc = "read" /\ toRead = {}
    /\ stored' = available
    /\ UNCHANGED issues \/ issues' = issues \union {Issue("invalid_chunk_key", Staging)}
    /\ pc' = "verify"
    /\ UNCHANGED <<store, toRead, live, checked, lasting, excused>>

ListFails ==
    /\ pc = "read" /\ toRead = {}
    /\ pc' = "failed"
    /\ UNCHANGED <<store, toRead, live, stored, checked, issues, lasting, excused>>

(* Mutant of ToCheck: the manifests are read after the chunks were listed. *)
ToCheckRereads == NeededBy(Readable) \ checked

ToCheck == live \ checked

(* A chunk that was not listed is missing; any error reading it makes it a *)
(* corrupt one.                                                            *)
CheckChunk(c) ==
    /\ pc = "verify" /\ c \in ToCheck
    /\ checked' = checked \union {c}
    /\ \/ /\ c \notin stored
          /\ issues' = issues \union {Issue("missing_chunk", c)}
          /\ UNCHANGED excused
       \/ c \in stored \intersect Intact /\ UNCHANGED <<issues, excused>>
       \/ /\ c \in stored
          /\ issues' = issues \union {Issue("corrupt_chunk", c)}
          /\ excused' = IF c \in Intact THEN excused \union {c} ELSE excused
    /\ UNCHANGED <<store, pc, toRead, live, stored, lasting>>

(* What is stored and not referred to is an orphan. *)
Report ==
    /\ pc = "verify" /\ ToCheck = {}
    /\ issues' = issues \union {Issue("orphan_chunk", c) : c \in stored \ live}
    /\ pc' = "done"
    /\ UNCHANGED <<store, toRead, live, stored, checked, lasting, excused>>

Step ==
    \/ ListSnapshots \/ ListChunks \/ ListFails \/ Report
    \/ \E id \in Ids : ReadManifest(id)
    \/ \E c \in Chunks : CheckChunk(c)

Next == Others \/ Step

Spec == Init /\ [][Next]_vars

-----------------------------------------------------------------------------
(* Correctness *)

Reported(problem) ==
    \E issue \in issues :
        /\ issue.object \in {problem[1].id, problem[2]}
        /\ issue.kind \notin {"orphan_chunk", "invalid_chunk_key"}

(* What is wrong from before the scan to its end is reported, itself or    *)
(* with the snapshot it belongs to, whatever writers do meanwhile.         *)
DamageIsReported == pc = "done" => \A problem \in lasting : Reported(problem)

(* What the scan reports, other than orphans and staging files, has been   *)
(* bad, missing or deleted since it began, or could not be read at the     *)
(* first try.  In particular a backup that runs meanwhile looks like no    *)
(* damage: manifests are read before the chunks are listed, and a backup   *)
(* stores before it publishes.                                             *)
NoFalseAlarm ==
    \A issue \in issues :
        issue.kind \in {"orphan_chunk", "invalid_chunk_key"} \/ issue.object \in excused

(* The strengthening of NoFalseAlarm that every step preserves *)
ScanInv ==
    /\ TypeOK /\ NoFalseAlarm
    /\ IF pc = "list" THEN live = {} /\ stored = {} /\ toRead = {} /\ issues = {}
       ELSE damaged \subseteq excused /\ NeededBy(published) \subseteq available \union excused
    /\ toRead \subseteq IdsOf(published) \union excused
    /\ live \subseteq available \union excused
    /\ stored \subseteq available \union excused
    /\ pc \in {"verify", "done"} => live \subseteq stored \union excused

(* The strengthening of DamageIsReported: a problem that has lasted is     *)
(* there still, and it is reported, or its manifest is yet to be read, or  *)
(* its chunk is yet to be looked at.                                       *)
DamageInv ==
    /\ \A m, n \in published : m.id = n.id => m = n
    /\ pc \in {"list", "read"} => checked = {}
    /\ pc # "list" => lasting \subseteq Problems
    /\ pc \in {"read", "verify", "done"} => \A problem \in lasting :
        \/ Reported(problem)
        \/ pc = "read" /\ problem[1].id \in toRead
        \/ pc # "done" /\ problem[2] \in live \ checked
=============================================================================
