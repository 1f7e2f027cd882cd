----------------------------- MODULE Retention -----------------------------
(***************************************************************************)
(* RetentionCandidates: which snapshots a retention policy keeps.          *)
(*                                                                         *)
(* A snapshot is its id, the time it was created at.  The code goes        *)
(* through the snapshots once, the newest first, and fills the buckets as  *)
(* it goes (Retained).  Protected says, without an order, what it must     *)
(* keep: the newest KeepLast snapshots, and the newest snapshot of each of *)
(* the newest KeepDaily days, and KeepWeekly weeks, that have one.         *)
(***************************************************************************)
EXTENDS Naturals, FiniteSets, SequencesExt

CONSTANTS
    Times,      \* creation times, which are the ids
    Day, Week   \* the UTC day, and the ISO week, of each

(* A later time is not of an earlier day, or of an earlier week. *)
ASSUME RetentionAssumption ==
    /\ Times \subseteq Nat
    /\ Day \in [Times -> Nat] /\ Week \in [Times -> Nat]
    /\ \A s, t \in Times : s < t => Day[s] <= Day[t] /\ Week[s] <= Week[t]

Policies == [last : Nat, daily : Nat, weekly : Nat]

-----------------------------------------------------------------------------
(* What the code computes *)

NewestFirst(S) ==
    CHOOSE q \in [1..Cardinality(S) -> S] : \A i, j \in DOMAIN q : i < j => q[i] > q[j]

(* Mutant of Opens: one place more. *)
OpensOneMore(places, buckets, key) ==
    places > 0 /\ key \notin buckets /\ Cardinality(buckets) <= places

(* A snapshot takes a place in its bucket, unless the bucket has one or    *)
(* the places are taken.                                                   *)
Opens(places, buckets, key) ==
    key \notin buckets /\ Cardinality(buckets) < places

Visit(policy, seen, t) ==
    LET byDay == Opens(policy.daily, seen.days, Day[t])
        byWeek == Opens(policy.weekly, seen.weeks, Week[t])
    IN  [index |-> seen.index + 1,
         keep  |-> IF seen.index < policy.last \/ byDay \/ byWeek
                   THEN seen.keep \union {t} ELSE seen.keep,
         days  |-> IF byDay THEN seen.days \union {Day[t]} ELSE seen.days,
         weeks |-> IF byWeek THEN seen.weeks \union {Week[t]} ELSE seen.weeks]

Unseen == [index |-> 0, keep |-> {}, days |-> {}, weeks |-> {}]

Retained(policy, S) ==
    FoldLeft(LAMBDA seen, t : Visit(policy, seen, t), Unseen, NewestFirst(S)).keep

-----------------------------------------------------------------------------
(* What a policy promises *)

Newer(S, t) == {u \in S : u > t}

AmongNewest(S, t, n) == Cardinality(Newer(S, t)) < n

NewestOfBucket(S, t, bucket) == \A u \in Newer(S, t) : bucket[u] # bucket[t]

LaterBuckets(S, t, bucket) == {bucket[u] : u \in {v \in S : bucket[v] > bucket[t]}}

HeadsBucket(S, t, bucket, n) ==
    /\ NewestOfBucket(S, t, bucket)
    /\ Cardinality(LaterBuckets(S, t, bucket)) < n

Protects(policy, S, t) ==
    \/ AmongNewest(S, t, policy.last)
    \/ HeadsBucket(S, t, Day, policy.daily)
    \/ HeadsBucket(S, t, Week, policy.weekly)

Protected(policy, S) == {t \in S : Protects(policy, S, t)}
=============================================================================
