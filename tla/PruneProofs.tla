---------------------------- MODULE PruneProofs ----------------------------
(***************************************************************************)
(* Proofs about prune, for any finite history of snapshots and any policy: *)
(* candidates that were listed without the lock stay unprotected while     *)
(* backups and other prunes with the policy run, no snapshot is lost that  *)
(* the policy would protect if nothing had been pruned, and the code's     *)
(* pass over the snapshots keeps what is protected.                        *)
(***************************************************************************)
EXTENDS Prune, FiniteSetTheorems, WellFoundedInduction, TLAPS

LEMMA SurjectionFinite ==
    ASSUME NEW X, NEW Y, NEW g \in Surjection(X, Y), IsFiniteSet(X)
    PROVE  IsFiniteSet(Y)
BY FS_Surjection

LEMMA LaterBucketsFinite ==
    ASSUME NEW T, IsFiniteSet(T), NEW t, NEW bucket
    PROVE  IsFiniteSet(LaterBuckets(T, t, bucket))
<1> DEFINE L == {v \in T : bucket[v] > bucket[t]}
           B == LaterBuckets(T, t, bucket)
           f == [v \in L |-> bucket[v]]
<1>1. IsFiniteSet(L)
  BY FS_Subset
<1>2. f \in Surjection(L, B)
  BY DEF LaterBuckets, Surjection
<1> HIDE DEF L, B, f
<1>4. IsFiniteSet(B)
  BY <1>1, <1>2, SurjectionFinite
<1> QED
  BY <1>4 DEF B

LEMMA Smaller ==
    ASSUME NEW A, NEW B, A \subseteq B, IsFiniteSet(B)
    PROVE  /\ Cardinality(A) \in Nat /\ Cardinality(B) \in Nat
           /\ Cardinality(A) <= Cardinality(B)
BY FS_Subset, FS_CardinalityType

(* A larger set has more newer snapshots, and more later buckets. *)
LEMMA Counts ==
    ASSUME NEW S, NEW T, S \subseteq T, IsFiniteSet(T), NEW t, NEW bucket
    PROVE  /\ Cardinality(Newer(S, t)) \in Nat
           /\ Cardinality(Newer(T, t)) \in Nat
           /\ Cardinality(Newer(S, t)) <= Cardinality(Newer(T, t))
           /\ Cardinality(LaterBuckets(S, t, bucket)) \in Nat
           /\ Cardinality(LaterBuckets(T, t, bucket)) \in Nat
           /\ Cardinality(LaterBuckets(S, t, bucket)) <= Cardinality(LaterBuckets(T, t, bucket))
<1>1. Newer(S, t) \subseteq Newer(T, t) /\ Newer(T, t) \subseteq T
  BY DEF Newer
<1>2. IsFiniteSet(Newer(T, t))
  BY <1>1, FS_Subset
<1>3. LaterBuckets(S, t, bucket) \subseteq LaterBuckets(T, t, bucket)
  BY DEF LaterBuckets
<1> QED
  BY <1>1, <1>2, <1>3, LaterBucketsFinite, Smaller

(* More snapshots protect none that was not protected. *)
LEMMA MoreProtectNoMore ==
    ASSUME NEW S, NEW T, S \subseteq T, IsFiniteSet(T), NEW t \in S,
           NEW pol \in Policies, Protects(pol, T, t)
    PROVE  Protects(pol, S, t)
<1>1. \A n \in Nat : AmongNewest(T, t, n) => AmongNewest(S, t, n)
  BY Counts DEF AmongNewest
<1>2. ASSUME NEW bucket, NEW n \in Nat, HeadsBucket(T, t, bucket, n)
      PROVE  HeadsBucket(S, t, bucket, n)
  <2>1. NewestOfBucket(S, t, bucket)
    BY <1>2 DEF HeadsBucket, NewestOfBucket, Newer
  <2>2. Cardinality(LaterBuckets(S, t, bucket)) < n
    BY <1>2, Counts DEF HeadsBucket
  <2> QED
    BY <2>1, <2>2 DEF HeadsBucket
<1> QED
  BY <1>1, <1>2 DEF Protects, Policies

(* The newest snapshots stay the newest when one that is not among them is *)
(* removed.                                                                *)
LEMMA RemoveFromRest ==
    ASSUME NEW S, S \subseteq Nat, IsFiniteSet(S), NEW u \in S, NEW t \in S \ {u}, NEW n \in Nat,
           ~AmongNewest(S, u, n), AmongNewest(S \ {u}, t, n)
    PROVE  AmongNewest(S, t, n)
<1>0. u \in Nat /\ t \in Nat /\ \A v \in S : v \in Nat
  OBVIOUS
<1>1. CASE u > t
  <2>0. \A v \in S : v > u => v # u /\ v > t
    BY <1>0, <1>1
  <2>1. Newer(S, u) \subseteq Newer(S \ {u}, t)
    BY <2>0, Zenon DEF Newer
  <2>2. IsFiniteSet(Newer(S \ {u}, t))
    BY FS_Subset DEF Newer
  <2>3. /\ Cardinality(Newer(S, u)) \in Nat
        /\ Cardinality(Newer(S \ {u}, t)) \in Nat
        /\ Cardinality(Newer(S, u)) <= Cardinality(Newer(S \ {u}, t))
    BY <2>1, <2>2, Smaller
  <2> QED
    BY <2>3 DEF AmongNewest
<1>2. CASE ~(u > t)
  <2>1. Newer(S, t) = Newer(S \ {u}, t)
    BY <1>2 DEF Newer
  <2> QED
    BY <2>1 DEF AmongNewest
<1> QED
  BY <1>1, <1>2

(* Likewise the heads of the newest buckets. *)
LEMMA RemoveFromBuckets ==
    ASSUME NEW S, S \subseteq Times, IsFiniteSet(S), NEW u \in S, NEW t \in S \ {u}, NEW n \in Nat,
           NEW bucket \in [Times -> Nat],
           ~HeadsBucket(S, u, bucket, n), HeadsBucket(S \ {u}, t, bucket, n)
    PROVE  HeadsBucket(S, t, bucket, n)
<1> DEFINE R == S \ {u}
<1> USE RetentionAssumption
<1>0. /\ t \in Nat /\ u \in Nat /\ bucket[t] \in Nat /\ bucket[u] \in Nat
      /\ S \subseteq Nat /\ \A v \in S : bucket[v] \in Nat
  OBVIOUS
<1>1. /\ Cardinality(LaterBuckets(R, t, bucket)) < n
      /\ NewestOfBucket(R, t, bucket)
  BY DEF HeadsBucket
<1>2. ASSUME bucket[u] >= bucket[t], NewestOfBucket(S, u, bucket)
      PROVE  FALSE
  <2>1. \A v \in S : bucket[v] > bucket[u] => v \in R /\ bucket[v] > bucket[t]
    BY <1>0, <1>2
  <2>2. LaterBuckets(S, u, bucket) \subseteq LaterBuckets(R, t, bucket)
    BY <2>1, Zenon DEF LaterBuckets
  <2>3. IsFiniteSet(LaterBuckets(R, t, bucket))
    BY LaterBucketsFinite, FS_Subset
  <2>4. ~(Cardinality(LaterBuckets(S, u, bucket)) < n)
    BY <1>2 DEF HeadsBucket
  <2> QED
    BY <1>1, <2>2, <2>3, <2>4, Smaller
<1>3. NewestOfBucket(S, t, bucket)
  <2> SUFFICES ASSUME NEW v \in Newer(S, t), bucket[v] = bucket[t] PROVE FALSE
    BY DEF NewestOfBucket
  <2>1. v = u
    BY <1>1 DEF NewestOfBucket, Newer
  <2>2. NewestOfBucket(S, u, bucket)
    BY <1>0, <1>1, <2>1 DEF NewestOfBucket, Newer
  <2> QED
    BY <1>0, <1>2, <2>1, <2>2
<1>4. LaterBuckets(S, t, bucket) = LaterBuckets(R, t, bucket)
  <2>1. CASE bucket[u] > bucket[t]
    <3>1. ~NewestOfBucket(S, u, bucket)
      BY <1>0, <1>2, <2>1
    <3>2. PICK v \in Newer(S, u) : bucket[v] = bucket[u]
      BY <3>1 DEF NewestOfBucket
    <3>3. v \in R /\ bucket[v] = bucket[u]
      BY <1>0, <3>2 DEF Newer
    <3> QED
      BY <2>1, <3>3 DEF LaterBuckets
  <2>2. CASE ~(bucket[u] > bucket[t])
    BY <2>2 DEF LaterBuckets
  <2> QED
    BY <2>1, <2>2
<1> QED
  BY <1>1, <1>3, <1>4 DEF HeadsBucket

(* Removing an unprotected snapshot protects no other. *)
LEMMA RemoveProtectsNone ==
    ASSUME NEW S, S \subseteq Times, IsFiniteSet(S), NEW u \in S, NEW t \in S \ {u},
           NEW pol \in Policies, ~Protects(pol, S, u), Protects(pol, S \ {u}, t)
    PROVE  Protects(pol, S, t)
<1>1. S \subseteq Nat
  BY RetentionAssumption
<1> QED
  BY <1>1, RemoveFromRest, RemoveFromBuckets, RetentionAssumption DEF Protects, Policies

-----------------------------------------------------------------------------
(* The invariant *)

LEMMA PolicyIsOne == TypeOK => policy \in Policies
BY PruneAssumption DEF TypeOK, BoundedPolicies, Policies

LEMMA InitPruneInv == Init => PruneInv
<1> SUFFICES ASSUME Init PROVE PruneInv
  OBVIOUS
<1>1. TypeOK
  BY DEF Init, TypeOK
<1>2. IsFiniteSet(taken)
  BY FS_EmptySet DEF Init
<1> QED
  BY <1>1, <1>2 DEF Init, PruneInv, KeepsProtected, NothingProtectedPruned, Protected

LEMMA StepPruneInv ==
    ASSUME PruneInv, [Next]_vars
    PROVE  PruneInv'
<1> USE DEF PruneInv
<1>0. /\ Present \subseteq taken /\ taken \subseteq Times /\ published \subseteq Present
      /\ policy \in Policies
  BY PolicyIsOne DEF TypeOK, Present
<1>1. CASE Backup
  <2>1. PICK t \in Times \ taken :
            /\ published' = published \union {t}
            /\ taken' = taken \union {t}
            /\ UNCHANGED <<byHand, policy, pc, listed, left>>
    BY <1>1 DEF Backup
  <2>2. TypeOK'
    BY <2>1 DEF TypeOK
  <2>3. Present' = Present \union {t}
    BY <2>1 DEF Present
  <2>4. IsFiniteSet(taken') /\ IsFiniteSet(Present')
    BY <1>0, <2>1, <2>3, FS_AddElement, FS_Subset
  <2>5. KeepsProtected'
    <3> SUFFICES ASSUME NEW p \in Pruners, pc[p] = "delete",
                        NEW u \in left[p] \intersect published',
                        Protects(policy, Present', u)
                 PROVE  FALSE
      BY <2>1 DEF KeepsProtected
    <3>1. u \in published
      BY <2>1 DEF TypeOK
    <3>2. Protects(policy, Present, u)
      BY <1>0, <2>3, <2>4, <3>1, MoreProtectNoMore
    <3> QED
      BY <3>1, <3>2 DEF KeepsProtected
  <2>6. ASSUME NEW u \in taken', Protects(policy, taken', u)
        PROVE  u \in Present'
    <3>1. CASE u \in taken
      <4>1. Protects(policy, taken, u)
        BY <1>0, <2>1, <2>4, <2>6, <3>1, MoreProtectNoMore
      <4> QED
        BY <2>3, <3>1, <4>1 DEF NothingProtectedPruned, Protected
    <3> QED
      BY <2>1, <2>3, <3>1
  <2> QED
    BY <2>1, <2>2, <2>4, <2>5, <2>6 DEF NothingProtectedPruned, Protected
<1>2. CASE OtherDelete
  <2>1. PICK t \in published : published' = published \ {t} /\ byHand' = byHand \union {t}
    BY <1>2 DEF OtherDelete
  <2>2. Present' = Present
    BY <2>1 DEF Present
  <2>3. UNCHANGED <<taken, policy, pc, listed, left>>
    BY <1>2 DEF OtherDelete
  <2>4. TypeOK'
    BY <2>1, <2>3 DEF TypeOK
  <2> QED
    BY <2>1, <2>2, <2>3, <2>4 DEF KeepsProtected, NothingProtectedPruned
<1>3. ASSUME NEW p \in Pruners, ListCandidates(p)
      PROVE  PruneInv'
  <2>1. TypeOK'
    BY <1>3 DEF TypeOK, ListCandidates, Goto
  <2>2. UNCHANGED <<published, taken, policy, Present>>
    BY <1>3 DEF ListCandidates, Present
  <2>3. ASSUME NEW u \in published \ Protected(policy, published) PROVE ~Protects(policy, Present, u)
    <3>1. IsFiniteSet(Present)
      BY <1>0, FS_Subset
    <3> QED
      BY <1>0, <3>1, MoreProtectNoMore DEF Protected
  <2>4. KeepsProtected'
    BY <1>3, <2>2, <2>3 DEF KeepsProtected, TypeOK, ListCandidates, Goto
  <2> QED
    BY <2>1, <2>2, <2>4 DEF NothingProtectedPruned
<1>4. ASSUME NEW q \in Pruners, DeleteCandidate(q)
      PROVE  PruneInv'
  <2>1. UNCHANGED <<taken, byHand, policy, listed>> /\ pc[q] = "delete"
    BY <1>4 DEF DeleteCandidate
  <2>2. CASE UNCHANGED <<published, left>> /\ Goto(q, "failed")
    BY <2>1, <2>2 DEF TypeOK, KeepsProtected, NothingProtectedPruned, Present, Goto
  <2>3. ASSUME NEW t \in left[q] \intersect published,
               published' = published \ {t},
               \/ left' = [left EXCEPT ![q] = @ \ {t}] /\ UNCHANGED pc
               \/ UNCHANGED left /\ Goto(q, "failed")
        PROVE  PruneInv'
    <3>1. TypeOK'
      BY <2>1, <2>3 DEF TypeOK, Goto
    <3>2. Present' = Present \ {t}
      BY <2>1, <2>3 DEF Present, TypeOK
    <3>3. /\ Present \subseteq Times /\ IsFiniteSet(Present)
          /\ t \in Present /\ ~Protects(policy, Present, t)
      BY <1>0, <2>1, FS_Subset DEF KeepsProtected
    <3>4. KeepsProtected'
      <4> SUFFICES ASSUME NEW p \in Pruners, pc'[p] = "delete",
                          NEW u \in left'[p] \intersect published',
                          Protects(policy, Present', u)
                   PROVE  FALSE
        BY <2>1 DEF KeepsProtected
      <4>1. u \in left[p] /\ u \in published \ {t} /\ pc[p] = "delete"
        BY <2>3 DEF TypeOK, Goto
      <4>2. u \in Present \ {t}
        BY <1>0, <4>1
      <4>3. Protects(policy, Present, u)
        BY <1>0, <3>2, <3>3, <4>2, RemoveProtectsNone
      <4> QED
        BY <4>1, <4>3 DEF KeepsProtected
    <3>5. ~Protects(policy, taken, t)
      BY <1>0, <3>3, MoreProtectNoMore
    <3> QED
      BY <2>1, <3>1, <3>2, <3>4, <3>5 DEF NothingProtectedPruned, Protected
  <2>4. CASE \E t \in left[q] : t \notin published /\ published' \in {published, published \ {t}}
                                /\ UNCHANGED left /\ Goto(q, "failed")
    BY <2>2, <2>4
  <2> QED
    BY <1>4, <2>2, <2>3, <2>4 DEF DeleteCandidate
<1>5. ASSUME NEW p \in Pruners, Pruned(p)
      PROVE  PruneInv'
  BY <1>5 DEF Pruned, Goto, TypeOK, KeepsProtected, NothingProtectedPruned, Present
<1>6. CASE UNCHANGED vars
  BY <1>6 DEF vars, TypeOK, KeepsProtected, NothingProtectedPruned, Present
<1> QED
  BY <1>1, <1>2, <1>3, <1>4, <1>5, <1>6 DEF Next

(* PruneInv holds in every state, for any policy and any history of        *)
(* backups, prunes and other deletes.                                      *)
THEOREM PruneInvariant == Spec => []PruneInv
BY InitPruneInv, StepPruneInv, PTL DEF Spec

(* What a prune is about to delete is not protected by its policy, however *)
(* old its list of candidates is.                                          *)
THEOREM PruneKeepsProtected == Spec => []KeepsProtected
<1>1. PruneInv => KeepsProtected
  BY DEF PruneInv
<1> QED
  BY <1>1, PruneInvariant, PTL

(* Backups, prunes and other deletes in any order leave every snapshot     *)
(* that the policy would protect if nothing had been deleted, except those *)
(* that were deleted by hand.                                              *)
THEOREM PruneLosesNothingProtected == Spec => []NothingProtectedPruned
<1>1. PruneInv => NothingProtectedPruned
  BY DEF PruneInv
<1> QED
  BY <1>1, PruneInvariant, PTL

(* What a prune has listed, may delete and still finds is yet to delete:   *)
(* ids are not used again, so that nothing it deleted comes back.          *)
Accounted(p) ==
    /\ pc[p] \in {"delete", "done"} =>
         (published \intersect listed[p]) \ Protected(policy, listed[p]) \subseteq left[p]
    /\ pc[p] = "done" => left[p] = {}

AllAccounted == \A p \in Pruners : Accounted(p)

LEMMA StepAccounted ==
    ASSUME PruneInv, AllAccounted, [Next]_vars
    PROVE  AllAccounted'
<1> USE DEF PruneInv, TypeOK, AllAccounted, Accounted
<1>1. CASE Backup \/ OtherDelete \/ UNCHANGED vars
  <2>1. UNCHANGED <<policy, pc, listed, left>> /\ published' \intersect taken \subseteq published
    BY <1>1 DEF Backup, OtherDelete, vars
  <2>2. \A p \in Pruners : Protected(policy, listed[p])' = Protected(policy, listed[p])
    BY <2>1 DEF Protected
  <2> QED
    BY <2>1, <2>2
<1>2. ASSUME NEW q \in Pruners, ListCandidates(q) PROVE AllAccounted'
  <2>1. UNCHANGED <<published, policy>> /\ \A p \in Pruners \ {q} :
          pc'[p] = pc[p] /\ listed'[p] = listed[p] /\ left'[p] = left[p]
    BY <1>2 DEF ListCandidates, Goto
  <2>2. \/ /\ listed'[q] = published
           /\ left'[q] = published \ Protected(policy, published) /\ pc'[q] = "delete"
        \/ pc'[q] = "failed"
    BY <1>2 DEF ListCandidates, Goto
  <2> QED
    BY <2>1, <2>2 DEF Protected
<1>3. ASSUME NEW q \in Pruners, DeleteCandidate(q) \/ Pruned(q) PROVE AllAccounted'
  <2>1. UNCHANGED <<policy, listed>> /\ published' \subseteq published
    BY <1>3 DEF DeleteCandidate, Pruned
  <2>2. \A p \in Pruners \ {q} : pc'[p] = pc[p] /\ left'[p] = left[p]
    BY <1>3 DEF DeleteCandidate, Pruned, Goto
  <2>3. \/ pc'[q] = "failed"
        \/ pc'[q] = "done" /\ pc[q] = "delete" /\ left'[q] = left[q] /\ left[q] = {}
        \/ /\ pc'[q] = "delete" /\ pc[q] = "delete"
           /\ \E t : published' = published \ {t} /\ left'[q] = left[q] \ {t}
    BY <1>3 DEF DeleteCandidate, Pruned, Goto
  <2>4. \A p \in Pruners : Protected(policy, listed[p])' = Protected(policy, listed[p])
    BY <2>1 DEF Protected
  <2> QED
    BY <2>1, <2>2, <2>3, <2>4
<1> QED
  BY <1>1, <1>2, <1>3 DEF Next

(* A prune that reports success has left, of the snapshots it listed, none *)
(* that its policy does not protect.                                       *)
THEOREM PruneIsExact == Spec => []PruneExact
<1>1. Init => AllAccounted
  BY DEF Init, AllAccounted, Accounted
<1>2. AllAccounted => PruneExact
  BY DEF AllAccounted, Accounted, PruneExact
<1> QED
  BY <1>1, <1>2, PruneInvariant, StepAccounted, PTL DEF Spec

-----------------------------------------------------------------------------
(* The pass over the snapshots *)

(* A set of numbers that is not empty has a least number. *)
LEMMA Least ==
    ASSUME NEW T, T \subseteq Nat, T # {}
    PROVE  \E x \in T : \A y \in T : x <= y
<1>1. PICK x \in T : \A y \in T : <<y, x>> \notin OpToRel(<, Nat)
  BY NatLessThanWellFounded, WFMin, Zenon
<1>2. \A y \in T : ~(y < x)
  BY <1>1 DEF OpToRel
<1> QED
  BY <1>2

(* Induction, as a fact about sets of numbers *)
LEMMA UpTo ==
    ASSUME NEW n \in Nat, NEW T, 0 \in T, \A k \in 0..n - 1 : k \in T => k + 1 \in T
    PROVE  0..n \subseteq T
<1> SUFFICES ASSUME (0..n) \ T # {} PROVE FALSE
  OBVIOUS
<1>1. PICK x \in (0..n) \ T : \A y \in (0..n) \ T : x <= y
  <2>1. (0..n) \ T \subseteq Nat
    OBVIOUS
  <2> QED
    BY <2>1, Least
<1>2. x # 0 /\ x - 1 \in 0..n - 1
  BY <1>1
<1>3. x - 1 \in T
  BY <1>1, <1>2
<1> QED
  BY <1>1, <1>2, <1>3

Descending(q) == \A i, j \in DOMAIN q : i < j => q[i] > q[j]

(* The snapshots can be sorted: the oldest comes after all the others. *)
LEMMA CanBeSorted ==
    ASSUME NEW S, S \subseteq Nat, IsFiniteSet(S)
    PROVE  \E q \in [1..Cardinality(S) -> S] : Descending(q)
<1> DEFINE n == Cardinality(S)
           T == {m \in 0..n : \A R \in SUBSET S : Cardinality(R) = m => \E q \in [1..m -> R] : Descending(q)}
<1>0. n \in Nat
  BY FS_CardinalityType
<1>1. 0 \in T
  <2>1. ASSUME NEW R \in SUBSET S PROVE \E q \in [1..0 -> R] : Descending(q)
    <3>1. <<>> \in [1..0 -> R] /\ Descending(<<>>)
      BY DEF Descending
    <3> QED
      BY <3>1
  <2> QED
    BY <1>0, <2>1
<1>2. ASSUME NEW m \in 0..n - 1, m \in T PROVE m + 1 \in T
  <2>1. ASSUME NEW R \in SUBSET S, Cardinality(R) = m + 1
        PROVE  \E q \in [1..m + 1 -> R] : Descending(q)
    <3>1. IsFiniteSet(R) /\ R # {} /\ R \subseteq Nat
      <4>1. IsFiniteSet(R)
        BY FS_Subset
      <4>2. m + 1 # 0
        BY <1>0
      <4> QED
        BY <2>1, <4>1, <4>2, FS_EmptySet
    <3>2. PICK x \in R : \A y \in R : x <= y
      BY <3>1, Least
    <3>3. Cardinality(R \ {x}) = m /\ R \ {x} \in SUBSET S
      <4>1. Cardinality(R \ {x}) = Cardinality(R) - 1
        BY <3>1, FS_RemoveElement
      <4> QED
        BY <1>0, <2>1, <4>1
    <3>4. PICK g \in [1..m -> R \ {x}] : Descending(g)
      BY <1>2, <3>3
    <3> DEFINE e == m + 1
               q == [i \in 1..e |-> IF i = e THEN x ELSE g[i]]
    <3>5. m \in Nat /\ e \in Nat /\ \A i \in 1..e : i # e => i \in 1..m
      BY <1>0
    <3>6. q \in [1..e -> R]
      BY <3>4, <3>5
    <3>7. ASSUME NEW i \in 1..e, NEW j \in 1..e, i < j PROVE q[i] > q[j]
      <4>1. i \in 1..m /\ q[i] = g[i] /\ g[i] \in R \ {x}
        BY <3>4, <3>5, <3>7
      <4>2. CASE j = e
        <5>1. q[j] = x
          BY <4>2
        <5>2. q[i] \in Nat /\ x \in Nat /\ q[i] # x /\ x <= q[i]
          BY <3>1, <3>2, <4>1
        <5> QED
          BY <5>1, <5>2
      <4>3. CASE j # e
        BY <3>4, <3>5, <3>7, <4>1, <4>3 DEF Descending
      <4> QED
        BY <4>2, <4>3
    <3>8. Descending(q)
      BY <3>6, <3>7 DEF Descending
    <3> QED
      BY <3>6, <3>8
  <2>2. m + 1 \in 0..n
    BY <1>0
  <2> QED
    BY <2>1, <2>2
<1> HIDE DEF T
<1>3. 0..n \subseteq T
  BY <1>0, <1>1, <1>2, UpTo
<1>4. n \in T
  BY <1>0, <1>3
<1> QED
  BY <1>4 DEF T

(* The pass begins with the newest snapshot and comes to every one. *)
LEMMA NewestFirstSorts ==
    ASSUME NEW S, S \subseteq Nat, IsFiniteSet(S)
    PROVE  LET q == NewestFirst(S)
           IN  /\ q \in [1..Cardinality(S) -> S] /\ Descending(q)
               /\ \A t \in S : \E i \in 1..Cardinality(S) : q[i] = t
<1> DEFINE q == NewestFirst(S)
           n == Cardinality(S)
<1>1. q \in [1..n -> S] /\ Descending(q)
  <2>1. \E f \in [1..n -> S] : \A i, j \in DOMAIN f : i < j => f[i] > f[j]
    BY CanBeSorted DEF Descending
  <2> QED
    BY <2>1 DEF NewestFirst, Descending
<1>2. n \in Nat /\ IsFiniteSet(1..n) /\ Cardinality(1..n) = n
  BY FS_CardinalityType, FS_Interval
<1> HIDE DEF q, n
<1>3. \A i, j \in 1..n : i # j => q[i] # q[j]
  <2> SUFFICES ASSUME NEW i \in 1..n, NEW j \in 1..n, i # j PROVE q[i] # q[j]
    OBVIOUS
  <2>1. q[i] \in Nat /\ q[j] \in Nat
    BY <1>1
  <2>2. i < j \/ j < i
    BY <1>2
  <2>3. q[i] > q[j] \/ q[j] > q[i]
    BY <1>1, <2>2 DEF Descending
  <2> QED
    BY <2>1, <2>3
<1>4. q \in Injection(1..n, S)
  BY <1>1, <1>3 DEF Injection, IsInjective
<1>5. q \in Surjection(1..n, S)
  BY <1>2, <1>4, FS_Injection DEF n
<1> QED
  BY <1>1, <1>5 DEF Surjection, q, n

(* What the pass knows at any place *)
Seen == [index : Nat, keep : SUBSET Times, days : SUBSET Nat, weeks : SUBSET Nat]

LEMMA VisitType ==
    ASSUME NEW pol \in Policies, NEW seen \in Seen, NEW t \in Times
    PROVE  Visit(pol, seen, t) \in Seen
BY RetentionAssumption DEF Visit, Seen

(* it is the function that FoldLeft defines over the sets of places of q,  *)
(* up to the place m.                                                      *)
Iterates(it, pol, q, m) ==
    it = [T \in SUBSET (1..m) |->
            IF T = {} THEN Unseen ELSE Visit(pol, it[T \ {Max(T)}], q[Max(T)])]

(* h has what the pass knows after each place of q. *)
Passes(h, pol, q, n) ==
    /\ h \in [0..n -> Seen] /\ h[0] = Unseen
    /\ \A k \in 1..n : h[k] = Visit(pol, h[k - 1], q[k])

(* The greatest of a set of places that has m and nothing beyond it *)
LEMMA MaxIs ==
    ASSUME NEW m \in Nat, NEW S \in SUBSET (1..m), m \in S
    PROVE  Max(S) = m
<1>1. \A x \in S : m >= x
  OBVIOUS
<1>2. Max(S) \in S /\ \A y \in S : Max(S) >= y
  BY <1>1 DEF Max
<1> DEFINE x == Max(S)
<1> HIDE DEF x
<1>3. x \in 1..m /\ x >= m
  BY <1>2 DEF x
<1>4. x = m
  BY <1>3
<1> QED
  BY <1>4 DEF x

LEMMA IteratesExists ==
    ASSUME NEW pol \in Policies, NEW n \in Nat, NEW q \in [1..n -> Times]
    PROVE  \E it \in [SUBSET (1..n) -> Seen] : Iterates(it, pol, q, n)
<1> DEFINE T == {m \in 0..n : \E it \in [SUBSET (1..m) -> Seen] : Iterates(it, pol, q, m)}
<1>0. Unseen \in Seen
  BY DEF Unseen, Seen
<1>1. 0 \in T
  <2> DEFINE it == [R \in SUBSET (1..0) |-> Unseen]
  <2>1. it \in [SUBSET (1..0) -> Seen]
    BY <1>0
  <2>2. \A R \in SUBSET (1..0) : R = {}
    OBVIOUS
  <2>3. Iterates(it, pol, q, 0)
    BY <2>2 DEF Iterates
  <2> HIDE DEF it
  <2>4. \E f \in [SUBSET (1..0) -> Seen] : Iterates(f, pol, q, 0)
    BY <2>1, <2>3
  <2>5. 0 \in 0..n
    OBVIOUS
  <2> QED
    BY <2>4, <2>5, Zenon
<1>2. ASSUME NEW m \in 0..n - 1, m \in T PROVE m + 1 \in T
  <2>1. PICK it \in [SUBSET (1..m) -> Seen] : Iterates(it, pol, q, m)
    BY <1>2
  <2> DEFINE e == m + 1
             big == [R \in SUBSET (1..e) |->
                       IF e \in R THEN Visit(pol, it[R \ {e}], q[e]) ELSE it[R]]
  <2>2. m \in Nat /\ e \in Nat /\ e \in 1..n /\ q[e] \in Times
    BY <1>2
  <2>3. ASSUME NEW R \in SUBSET (1..e)
        PROVE  /\ R \ {e} \in SUBSET (1..m)
               /\ e \notin R => R \in SUBSET (1..m)
    BY <2>2
  <2>4. big \in [SUBSET (1..e) -> Seen]
    <3> SUFFICES ASSUME NEW R \in SUBSET (1..e)
                 PROVE  (IF e \in R THEN Visit(pol, it[R \ {e}], q[e]) ELSE it[R]) \in Seen
      OBVIOUS
    <3>1. it[R \ {e}] \in Seen /\ (e \notin R => it[R] \in Seen)
      BY <2>1, <2>3
    <3> QED
      BY <2>2, <3>1, VisitType
  <2>5. ASSUME NEW R \in SUBSET (1..e)
        PROVE  big[R] = IF R = {} THEN Unseen ELSE Visit(pol, big[R \ {Max(R)}], q[Max(R)])
    <3>1. CASE e \in R
      <4>1. Max(R) = e
        BY <2>2, <3>1, MaxIs
      <4>2. R \ {e} \in SUBSET (1..e) /\ e \notin R \ {e}
        OBVIOUS
      <4>3. big[R \ {e}] = it[R \ {e}]
        BY <4>2
      <4> QED
        BY <3>1, <4>1, <4>3
    <3>2. CASE e \notin R
      <4>1. R \in SUBSET (1..m)
        BY <2>3, <3>2
      <4>2. big[R] = it[R]
        BY <3>2
      <4>3. it[R] = IF R = {} THEN Unseen ELSE Visit(pol, it[R \ {Max(R)}], q[Max(R)])
        BY <2>1, <4>1 DEF Iterates
      <4>4. R \ {Max(R)} \in SUBSET (1..e) /\ e \notin R \ {Max(R)}
        BY <3>2
      <4>5. big[R \ {Max(R)}] = it[R \ {Max(R)}]
        BY <4>4
      <4> QED
        BY <4>2, <4>3, <4>5
    <3> QED
      BY <3>1, <3>2
  <2> HIDE DEF big
  <2>6. Iterates(big, pol, q, e)
    BY <2>4, <2>5 DEF Iterates
  <2> QED
    BY <2>2, <2>4, <2>6
<1> HIDE DEF T
<1>3. 0..n \subseteq T
  BY <1>1, <1>2, UpTo
<1>4. n \in T
  BY <1>3
<1> QED
  BY <1>4 DEF T

(* So the code's pass goes from place to place. *)
LEMMA PassIsStepwise ==
    ASSUME NEW pol \in Policies, NEW S, NEW n \in Nat,
           NEW q \in [1..n -> Times], q = NewestFirst(S)
    PROVE  \E h : Passes(h, pol, q, n) /\ Retained(pol, S) = h[n].keep
<1> DEFINE it == CHOOSE f : Iterates(f, pol, q, n)
           h == [k \in 0..n |-> it[1..k]]
<1>1. Iterates(it, pol, q, n)
  BY IteratesExists, Zenon
<1>2. Retained(pol, S) = it[1..n].keep
  BY DEF Retained, FoldLeft, MapThenFoldSet, Iterates
<1> HIDE DEF it
<1>3. it[{}] = Unseen /\ 1..0 = {} /\ Unseen \in Seen
  BY <1>1 DEF Iterates, Unseen, Seen
<1>4. ASSUME NEW k \in 1..n PROVE it[1..k] = Visit(pol, it[1..(k - 1)], q[k])
  <2>1. Max(1..k) = k
    BY MaxIs
  <2>2. (1..k) \ {k} = 1..(k - 1) /\ 1..k \in SUBSET (1..n) /\ 1..k # {}
    OBVIOUS
  <2>3. it[1..k] = Visit(pol, it[(1..k) \ {Max(1..k)}], q[Max(1..k)])
    BY <1>1, <2>2 DEF Iterates
  <2> QED
    BY <2>1, <2>2, <2>3
<1> DEFINE T == {k \in 0..n : it[1..k] \in Seen}
<1>5. 0 \in T
  <2>1. it[1..0] \in Seen
    BY <1>3, Zenon
  <2>2. 0 \in 0..n
    OBVIOUS
  <2> QED
    BY <2>1, <2>2, Zenon
<1>6. ASSUME NEW k \in 0..n - 1, k \in T PROVE k + 1 \in T
  <2>1. k + 1 \in 1..n /\ k + 1 \in 0..n /\ (k + 1) - 1 = k /\ q[k + 1] \in Times
    OBVIOUS
  <2>2. it[1..(k + 1)] = Visit(pol, it[1..k], q[k + 1])
    BY <1>4, <2>1
  <2>3. it[1..(k + 1)] \in Seen
    BY <1>6, <2>1, <2>2, VisitType
  <2> QED
    BY <2>1, <2>3
<1> HIDE DEF T
<1>7. 0..n \subseteq T
  BY <1>5, <1>6, UpTo
<1>8. h \in [0..n -> Seen] /\ h[0] = Unseen /\ h[n] = it[1..n]
  BY <1>3, <1>7 DEF T
<1>9. \A k \in 1..n : h[k] = Visit(pol, h[k - 1], q[k])
  BY <1>4
<1> QED
  BY <1>2, <1>8, <1>9 DEF Passes

(* The buckets that have a snapshot, as long as there are places *)
Filled(buckets, places, keys) ==
    /\ IsFiniteSet(keys) /\ buckets \subseteq keys
    /\ Cardinality(buckets) <= places
    /\ Cardinality(buckets) < places => buckets = keys

LEMMA StaysFilled ==
    ASSUME NEW buckets, NEW places \in Nat, NEW keys, NEW key, Filled(buckets, places, keys)
    PROVE  Filled(IF Opens(places, buckets, key) THEN buckets \union {key} ELSE buckets,
                  places, keys \union {key})
<1>1. IsFiniteSet(keys \union {key}) /\ IsFiniteSet(buckets) /\ Cardinality(buckets) \in Nat
  BY FS_AddElement, FS_Subset, FS_CardinalityType DEF Filled
<1>2. CASE Opens(places, buckets, key)
  <2>1. key \notin buckets /\ Cardinality(buckets) < places /\ buckets = keys
    BY <1>2 DEF Opens, Filled
  <2>2. Cardinality(buckets \union {key}) = Cardinality(buckets) + 1
    BY <1>1, <2>1, FS_AddElement
  <2>3. Cardinality(buckets \union {key}) <= places
    BY <1>1, <2>1, <2>2
  <2> QED
    BY <1>1, <1>2, <2>1, <2>3 DEF Filled
<1>3. CASE ~Opens(places, buckets, key)
  <2>1. Cardinality(buckets) < places => buckets = keys /\ key \in buckets
    BY <1>3 DEF Opens, Filled
  <2>2. Cardinality(buckets) < places => buckets = keys \union {key}
    BY <2>1
  <2> QED
    BY <1>1, <1>3, <2>2 DEF Filled
<1> QED
  BY <1>2, <1>3

(* Of the newer snapshots, none is of an earlier bucket, so a bucket opens *)
(* for the snapshot that heads it, and for no other.                       *)
LEMMA OpensForTheHead ==
    ASSUME NEW S, S \subseteq Times, NEW t \in S, NEW bucket \in [Times -> Nat],
           \A s, u \in Times : s < u => bucket[s] <= bucket[u],
           NEW buckets, NEW places \in Nat, Filled(buckets, places, {bucket[u] : u \in Newer(S, t)})
    PROVE  Opens(places, buckets, bucket[t]) <=> HeadsBucket(S, t, bucket, places)
<1> DEFINE keys == {bucket[u] : u \in Newer(S, t)}
<1>1. /\ IsFiniteSet(keys) /\ buckets \subseteq keys /\ Cardinality(keys) \in Nat
      /\ Cardinality(buckets) \in Nat /\ Cardinality(buckets) <= Cardinality(keys)
      /\ Cardinality(buckets) < places => buckets = keys
  BY Smaller DEF Filled
<1>2. bucket[t] \notin keys <=> NewestOfBucket(S, t, bucket)
  BY DEF NewestOfBucket
<1>3. NewestOfBucket(S, t, bucket) => LaterBuckets(S, t, bucket) = keys
  <2> SUFFICES ASSUME NewestOfBucket(S, t, bucket)
               PROVE  {v \in S : bucket[v] > bucket[t]} = Newer(S, t)
    BY DEF LaterBuckets
  <2>1. \A v \in S : v \in Nat /\ t \in Nat /\ bucket[v] \in Nat /\ bucket[t] \in Nat
    BY RetentionAssumption
  <2>2. ASSUME NEW v \in S PROVE bucket[v] > bucket[t] <=> v > t
    <3>1. v > t => bucket[t] <= bucket[v] /\ bucket[v] # bucket[t]
      BY <2>1 DEF NewestOfBucket, Newer
    <3>2. v < t => bucket[v] <= bucket[t]
      BY <2>1
    <3>3. v > t \/ v < t \/ v = t
      BY <2>1
    <3> QED
      BY <2>1, <3>1, <3>2, <3>3
  <2> QED
    BY <2>2 DEF Newer
<1> HIDE DEF keys
<1>4. ASSUME Opens(places, buckets, bucket[t]) PROVE HeadsBucket(S, t, bucket, places)
  <2>1. bucket[t] \notin buckets /\ Cardinality(buckets) < places
    BY <1>4 DEF Opens
  <2> QED
    BY <1>1, <1>2, <1>3, <2>1 DEF HeadsBucket
<1>5. ASSUME HeadsBucket(S, t, bucket, places) PROVE Opens(places, buckets, bucket[t])
  <2>1. bucket[t] \notin keys /\ Cardinality(keys) < places
    BY <1>2, <1>3, <1>5 DEF HeadsBucket
  <2> QED
    BY <1>1, <2>1 DEF Opens
<1> QED
  BY <1>4, <1>5

(* What the pass has kept is what is protected, of the snapshots it has    *)
(* come to, and the buckets are filled with theirs.                        *)
LEMMA PassKeepsProtected ==
    ASSUME NEW pol \in Policies, NEW S, S \subseteq Times, IsFiniteSet(S)
    PROVE  Retained(pol, S) = Protected(pol, S)
<1> DEFINE q == NewestFirst(S)
           n == Cardinality(S)
<1>0. /\ n \in Nat /\ q \in [1..n -> S] /\ q \in [1..n -> Times] /\ Descending(q)
      /\ \A t \in S : \E i \in 1..n : q[i] = t
  BY FS_CardinalityType, NewestFirstSorts, RetentionAssumption
<1>1. PICK h : Passes(h, pol, q, n) /\ Retained(pol, S) = h[n].keep
  BY <1>0, PassIsStepwise
<1> HIDE DEF q, n
<1> DEFINE visited(k) == {q[i] : i \in 1..k}
           T == {k \in 0..n :
                   /\ h[k].index = k
                   /\ h[k].keep = {t \in visited(k) : Protects(pol, S, t)}
                   /\ Filled(h[k].days, pol.daily, {Day[t] : t \in visited(k)})
                   /\ Filled(h[k].weeks, pol.weekly, {Week[t] : t \in visited(k)})}
<1>2. \A k \in 0..n - 1 : /\ k \in Nat /\ k + 1 \in 1..n /\ (k + 1) - 1 = k /\ k + 1 \in 0..n /\ k \in 0..n
                          /\ q[k + 1] \in S /\ q[k + 1] \in Times
  BY <1>0
<1>3. /\ pol.last \in Nat /\ pol.daily \in Nat /\ pol.weekly \in Nat
  BY DEF Policies
<1>4. 0 \in T
  <2>1. visited(0) = {} /\ 0 \in 0..n
    BY <1>0
  <2>2. h[0] = Unseen
    BY <1>1 DEF Passes
  <2>3. \A places \in Nat : Filled({}, places, {})
    BY FS_EmptySet DEF Filled
  <2> QED
    BY <1>3, <2>1, <2>2, <2>3 DEF Unseen
<1>5. ASSUME NEW k \in 0..n - 1
      PROVE  /\ visited(k + 1) = visited(k) \union {q[k + 1]}
             /\ Newer(S, q[k + 1]) = visited(k) /\ Cardinality(visited(k)) = k
  <2>1. visited(k + 1) = visited(k) \union {q[k + 1]}
    <3>1. 1..k + 1 = (1..k) \union {k + 1}
      BY <1>2
    <3> QED
      BY <3>1
  <2>2. \A i, j \in 1..n : i < j <=> q[i] > q[j]
    <3> SUFFICES ASSUME NEW i \in 1..n, NEW j \in 1..n PROVE i < j <=> q[i] > q[j]
      OBVIOUS
    <3>1. q[i] \in Nat /\ q[j] \in Nat
      BY <1>0, RetentionAssumption
    <3>2. i < j => q[i] > q[j]
      BY <1>0 DEF Descending
    <3>3. j < i => q[j] > q[i]
      BY <1>0 DEF Descending
    <3>4. i < j \/ j < i \/ i = j
      BY <1>0
    <3> QED
      BY <3>1, <3>2, <3>3, <3>4
  <2>3. Newer(S, q[k + 1]) = visited(k)
    <3>1. ASSUME NEW i \in 1..n PROVE q[i] > q[k + 1] <=> i \in 1..k
      <4>1. q[i] > q[k + 1] <=> i < k + 1
        BY <1>2, <2>2
      <4> QED
        BY <1>0, <1>2, <4>1
    <3>2. 1..k \subseteq 1..n
      BY <1>0, <1>2
    <3> QED
      BY <1>0, <3>1, <3>2 DEF Newer
  <2>4. Cardinality(visited(k)) = k
    <3> DEFINE f == [i \in 1..k |-> q[i]]
    <3>1. 1..k \subseteq 1..n /\ IsFiniteSet(1..k) /\ Cardinality(1..k) = k
      BY <1>0, <1>2, FS_Interval
    <3>2. \A i, j \in 1..k : q[i] = q[j] => i = j
      <4> SUFFICES ASSUME NEW i \in 1..k, NEW j \in 1..k, q[i] = q[j] PROVE i = j
        OBVIOUS
      <4>1. i \in 1..n /\ j \in 1..n /\ q[i] \in Nat
        BY <1>0, <3>1, RetentionAssumption
      <4>2. ~(i < j) /\ ~(j < i)
        BY <2>2, <4>1
      <4> QED
        BY <1>0, <4>1, <4>2
    <3>3. f \in Surjection(1..k, visited(k))
      BY DEF Surjection
    <3>4. f \in Injection(1..k, visited(k))
      BY <3>2 DEF Injection, IsInjective
    <3> HIDE DEF f, visited
    <3> QED
      BY <3>1, <3>3, <3>4, FS_Surjection
  <2> QED
    BY <2>1, <2>3, <2>4
<1> HIDE DEF visited
<1>6. ASSUME NEW k \in 0..n - 1, k \in T PROVE k + 1 \in T
  <2> DEFINE t == q[k + 1]
             byDay == Opens(pol.daily, h[k].days, Day[t])
             byWeek == Opens(pol.weekly, h[k].weeks, Week[t])
  <2>1. /\ h[k].index = k /\ h[k].keep = {u \in visited(k) : Protects(pol, S, u)}
        /\ Filled(h[k].days, pol.daily, {Day[u] : u \in visited(k)})
        /\ Filled(h[k].weeks, pol.weekly, {Week[u] : u \in visited(k)})
    BY <1>6
  <2>2. t \in S /\ t \in Times /\ k \in Nat
    BY <1>2
  <2>3. visited(k + 1) = visited(k) \union {t} /\ Newer(S, t) = visited(k) /\ Cardinality(visited(k)) = k
    BY <1>5
  <2>4. h[k + 1] = Visit(pol, h[k], t)
    BY <1>1, <1>2 DEF Passes
  <2> HIDE DEF t
  <2>5. byDay <=> HeadsBucket(S, t, Day, pol.daily)
    BY <1>3, <2>1, <2>2, <2>3, OpensForTheHead, RetentionAssumption
  <2>6. byWeek <=> HeadsBucket(S, t, Week, pol.weekly)
    BY <1>3, <2>1, <2>2, <2>3, OpensForTheHead, RetentionAssumption
  <2>7. k < pol.last <=> AmongNewest(S, t, pol.last)
    BY <2>3 DEF AmongNewest
  <2>8. h[k + 1].keep = {u \in visited(k + 1) : Protects(pol, S, u)}
    <3>1. k < pol.last \/ byDay \/ byWeek <=> Protects(pol, S, t)
      BY <2>5, <2>6, <2>7 DEF Protects
    <3>2. h[k + 1].keep = IF k < pol.last \/ byDay \/ byWeek THEN h[k].keep \union {t} ELSE h[k].keep
      BY <2>1, <2>4 DEF Visit
    <3> QED
      BY <2>1, <2>3, <3>1, <3>2
  <2>9. h[k + 1].index = k + 1
    BY <2>1, <2>4 DEF Visit
  <2>10. Filled(h[k + 1].days, pol.daily, {Day[u] : u \in visited(k + 1)})
    <3>1. h[k + 1].days = IF byDay THEN h[k].days \union {Day[t]} ELSE h[k].days
      BY <2>4 DEF Visit
    <3>2. {Day[u] : u \in visited(k + 1)} = {Day[u] : u \in visited(k)} \union {Day[t]}
      BY <2>3
    <3>3. Filled(IF byDay THEN h[k].days \union {Day[t]} ELSE h[k].days,
                 pol.daily, {Day[u] : u \in visited(k)} \union {Day[t]})
      BY <1>3, <2>1, StaysFilled
    <3> QED
      BY <3>1, <3>2, <3>3
  <2>11. Filled(h[k + 1].weeks, pol.weekly, {Week[u] : u \in visited(k + 1)})
    <3>1. h[k + 1].weeks = IF byWeek THEN h[k].weeks \union {Week[t]} ELSE h[k].weeks
      BY <2>4 DEF Visit
    <3>2. {Week[u] : u \in visited(k + 1)} = {Week[u] : u \in visited(k)} \union {Week[t]}
      BY <2>3
    <3>3. Filled(IF byWeek THEN h[k].weeks \union {Week[t]} ELSE h[k].weeks,
                 pol.weekly, {Week[u] : u \in visited(k)} \union {Week[t]})
      BY <1>3, <2>1, StaysFilled
    <3> QED
      BY <3>1, <3>2, <3>3
  <2> QED
    BY <1>2, <2>8, <2>9, <2>10, <2>11
<1> HIDE DEF T
<1>7. 0..n \subseteq T
  BY <1>0, <1>4, <1>6, UpTo
<1>8. n \in T
  BY <1>0, <1>7
<1>9. h[n].keep = {t \in visited(n) : Protects(pol, S, t)}
  BY <1>8 DEF T
<1>10. visited(n) = S
  BY <1>0 DEF visited
<1> QED
  BY <1>1, <1>9, <1>10 DEF Protected

(* RetainedIsProtected: whatever snapshots there are, the pass of          *)
(* RetentionCandidates keeps those that the policy protects: the newest,   *)
(* and the newest of the newest days and weeks that have one.              *)
THEOREM PassIsFaithful == Spec => []RetainedIsProtected
<1>1. PruneInv => RetainedIsProtected
  <2> SUFFICES ASSUME PruneInv PROVE RetainedIsProtected
    OBVIOUS
  <2>1. published \subseteq taken /\ taken \subseteq Times /\ IsFiniteSet(taken) /\ policy \in Policies
    BY PolicyIsOne DEF PruneInv, TypeOK
  <2>2. IsFiniteSet(published) /\ published \subseteq Times
    BY <2>1, FS_Subset
  <2> QED
    BY <2>1, <2>2, PassKeepsProtected DEF RetainedIsProtected
<1> QED
  BY <1>1, PruneInvariant, PTL
=============================================================================
