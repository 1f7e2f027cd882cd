------------------------------- MODULE Prune -------------------------------
(***************************************************************************)
(* "vestige prune --yes": the candidates of a retention policy are listed  *)
(* without the writer lock, and then each of them is deleted by a          *)
(* DeleteSnapshot of its own, which takes the lock.  Backups, other prunes *)
(* and deletes run in between.                                             *)
(*                                                                         *)
(* The candidates are the snapshots that the policy does not protect;      *)
(* RetainedIsProtected says that this is what the code's pass over the     *)
(* snapshots selects.                                                      *)
(***************************************************************************)
EXTENDS Retention

CONSTANTS
    Pruners,        \* invocations of prune
    MaxKeep,        \* bound on the counts of a policy
    StoreFaults     \* may a delete fail, or find the repository locked?

ASSUME PruneAssumption ==
    /\ MaxKeep \in Nat /\ StoreFaults \in BOOLEAN

VARIABLES
    published,    \* the snapshots there are
    taken,        \* the ids there have been
    byHand,       \* those deleted otherwise than by these prunes
    policy,       \* the policy of the prunes
    pc,           \* where each prune is
    listed,       \* the snapshots it has read
    left          \* the candidates it has yet to delete

vars == <<published, taken, byHand, policy, pc, listed, left>>

BoundedPolicies == [last : 0..MaxKeep, daily : 0..MaxKeep, weekly : 0..MaxKeep]

TypeOK ==
    /\ published \subseteq taken /\ taken \subseteq Times
    /\ byHand \subseteq taken \ published
    /\ policy \in BoundedPolicies
    /\ pc \in [Pruners -> {"list", "delete", "done", "failed"}]
    /\ listed \in [Pruners -> SUBSET taken]
    /\ left \in [Pruners -> SUBSET taken]

Init ==
    /\ published = {} /\ taken = {} /\ byHand = {}
    /\ policy \in BoundedPolicies
    /\ pc = [p \in Pruners |-> "list"]
    /\ listed = [p \in Pruners |-> {}]
    /\ left = [p \in Pruners |-> {}]

(* A backup publishes a snapshot; the clock may have been set back. *)
Backup ==
    \E t \in Times \ taken :
        /\ published' = published \union {t}
        /\ taken' = taken \union {t}
        /\ UNCHANGED <<byHand, policy, pc, listed, left>>

(* A snapshot is deleted by hand, or by a prune with another policy. *)
OtherDelete ==
    /\ \E t \in published :
        published' = published \ {t} /\ byHand' = byHand \union {t}
    /\ UNCHANGED <<taken, policy, pc, listed, left>>

Goto(p, loc) == pc' = [pc EXCEPT ![p] = loc]

(* Mutant of ListCandidates: the weekly buckets are forgotten. *)
ListCandidatesNoWeeks(p) ==
    /\ pc[p] = "list"
    /\ listed' = [listed EXCEPT ![p] = published]
    /\ left' = [left EXCEPT ![p] =
                  published \ Protected([policy EXCEPT !.weekly = 0], published)]
    /\ Goto(p, "delete")
    /\ UNCHANGED <<published, taken, byHand, policy>>

(* RetentionCandidates *)
ListCandidates(p) ==
    /\ pc[p] = "list"
    /\ \/ /\ listed' = [listed EXCEPT ![p] = published]
          /\ left' = [left EXCEPT ![p] = published \ Protected(policy, published)]
          /\ Goto(p, "delete")
       \/ StoreFaults /\ Goto(p, "failed") /\ UNCHANGED <<listed, left>>
    /\ UNCHANGED <<published, taken, byHand, policy>>

(* Mutant of DeleteCandidate: one that cannot be deleted is passed over. *)
DeleteCandidatePassesOver(p) ==
    /\ pc[p] = "delete"
    /\ \E t \in left[p] :
        /\ \A u \in left[p] : u <= t
        /\ left' = [left EXCEPT ![p] = @ \ {t}]
        /\ \/ published' = published \ {t}
           \/ StoreFaults /\ UNCHANGED published
    /\ UNCHANGED <<taken, byHand, policy, pc, listed>>

(* DeleteSnapshot of the newest candidate.  It is an error that ends the   *)
(* prune if the snapshot is gone, or the store fails; a snapshot may be    *)
(* deleted and the reply lost.                                             *)
DeleteCandidate(p) ==
    /\ pc[p] = "delete"
    /\ \E t \in left[p] :
        /\ \A u \in left[p] : u <= t
        /\ \/ /\ t \in published
              /\ published' = published \ {t}
              /\ left' = [left EXCEPT ![p] = @ \ {t}]
              /\ UNCHANGED pc
           \/ /\ t \notin published \/ StoreFaults
              /\ published' \in {published, published \ {t}}
              /\ Goto(p, "failed")
              /\ UNCHANGED left
    /\ UNCHANGED <<taken, byHand, policy, listed>>

Pruned(p) ==
    /\ pc[p] = "delete" /\ left[p] = {}
    /\ Goto(p, "done")
    /\ UNCHANGED <<published, taken, byHand, policy, listed, left>>

Next ==
    \/ Backup \/ OtherDelete
    \/ \E p \in Pruners : ListCandidates(p) \/ DeleteCandidate(p) \/ Pruned(p)

Spec == Init /\ [][Next]_vars

-----------------------------------------------------------------------------
(* Correctness *)

(* One pass over the snapshots, the newest first, keeps what the policy    *)
(* protects, and nothing else.                                             *)
RetainedIsProtected == Retained(policy, published) = Protected(policy, published)

(* The snapshots there would be if the prunes alone had deleted any. *)
Present == published \union byHand

(* What a prune is about to delete is not protected, though the candidates *)
(* were listed without the lock and snapshots come and go since.           *)
KeepsProtected ==
    \A p \in Pruners : pc[p] = "delete" =>
        \A t \in left[p] \intersect published : ~Protects(policy, Present, t)

(* However prunes, backups and other deletes interleave, every snapshot    *)
(* that the policy would protect if nothing had been deleted is there, or  *)
(* was deleted by hand.                                                    *)
NothingProtectedPruned == Protected(policy, taken) \subseteq Present

(* The strengthening of these two that every step preserves *)
PruneInv ==
    /\ TypeOK /\ IsFiniteSet(taken)
    /\ KeepsProtected /\ NothingProtectedPruned

(* A prune that reports success has left, of the snapshots it listed, none *)
(* that the policy does not protect.                                       *)
PruneExact ==
    \A p \in Pruners : pc[p] = "done" =>
        published \intersect listed[p] \subseteq Protected(policy, listed[p])
=============================================================================
