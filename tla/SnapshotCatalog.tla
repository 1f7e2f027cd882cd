--------------------------- MODULE SnapshotCatalog ---------------------------
(***************************************************************************)
(* What a repository promises to those who use its snapshots: a snapshot   *)
(* appears whole, at once, when everything it needs can be read; it does   *)
(* not change, and what it needs stays, until it is deleted.               *)
(***************************************************************************)
CONSTANTS Chunks, Manifests

VARIABLES
    published,    \* the snapshots that can be restored
    available     \* the chunks that can be read

Needed == UNION {m.refs : m \in published}

Init == published = {} /\ available = {}

Publish(m) ==
    /\ m.refs \subseteq available
    /\ \A n \in published : n.id # m.id
    /\ published' = published \union {m}
    /\ UNCHANGED available

Delete(m) ==
    /\ published' = published \ {m}
    /\ UNCHANGED available

Store(c) ==
    /\ available' = available \union {c}
    /\ UNCHANGED published

Reclaim(c) ==
    /\ c \notin Needed
    /\ available' = available \ {c}
    /\ UNCHANGED published

Next ==
    \/ \E m \in Manifests : Publish(m)
    \/ \E m \in published : Delete(m)
    \/ \E c \in Chunks : Store(c) \/ Reclaim(c)

Spec == Init /\ [][Next]_<<published, available>>
=============================================================================
