------------------------ MODULE ChunkPipelineProofs ------------------------
(***************************************************************************)
(* Proofs about ChunkPipeline, for every input, every table, every size of *)
(* window and of chunk, and every number of workers: the splitter cuts     *)
(* where the content says, the references of a stored file are those of    *)
(* its chunks, in order, and the call returns, in a bounded number of      *)
(* steps, if a goroutine that can run does.                                *)
(*                                                                         *)
(* The invariant has four parts.  SplitInv is about the splitter: what the *)
(* ring and its fingerprint are, and where the chunks emitted so far end.  *)
(* HandInv is about what the goroutines hand to each other, PhaseInv about *)
(* the order in which they end, and NothingLost says that an emitted chunk *)
(* is always somewhere on its way to the collector.                        *)
(*                                                                         *)
(* What Hash computes, a fold over a sequence, and what the ends of chunks *)
(* are, a recursive function, take induction over numbers.  It is used in  *)
(* the form of UpTo: a set of numbers that has 0 and, with a number, the   *)
(* next one, has them all.                                                 *)
(***************************************************************************)
EXTENDS ChunkPipeline, SequenceTheorems, FiniteSetTheorems, WellFoundedInduction, TLAPS

(* A set of numbers that is not empty has a least number. *)
LEMMA Least ==
    ASSUME NEW T, T \subseteq Nat, T # {}
    PROVE  \E x \in T : \A y \in T : x <= y
<1>1. PICK x \in T : \A y \in T : <<y, x>> \notin OpToRel(<, Nat)
  BY NatLessThanWellFounded, WFMin, Zenon
<1>2. \A y \in T : ~(y < x)
  BY <1>1 DEF OpToRel
<1> QED
  BY <1>2

(* Induction, as a fact about sets of numbers *)
LEMMA UpTo ==
    ASSUME NEW n \in Nat, NEW T, 0 \in T, \A k \in 0..n - 1 : k \in T => k + 1 \in T
    PROVE  0..n \subseteq T
<1> SUFFICES ASSUME (0..n) \ T # {} PROVE FALSE
  OBVIOUS
<1>1. PICK x \in (0..n) \ T : \A y \in (0..n) \ T : x <= y
  <2>1. (0..n) \ T \subseteq Nat
    OBVIOUS
  <2> QED
    BY <2>1, Least
<1>2. x # 0 /\ x - 1 \in 0..n - 1
  BY <1>1
<1>3. x - 1 \in T
  BY <1>1, <1>2
<1> QED
  BY <1>1, <1>2, <1>3

-----------------------------------------------------------------------------
(* Words *)

Words == SUBSET (0..WordBits - 1)

(* Remainders, without division *)
LEMMA Turn ==
    ASSUME NEW w \in Nat \ {0}, NEW x \in 0..w - 1, NEW k \in 0..w
    PROVE  (x + k) % w = IF x + k < w THEN x + k ELSE x + k - w
<1>1. (x + k) % w \in 0..w - 1 /\ x + k = w * ((x + k) \div w) + ((x + k) % w)
  OBVIOUS
<1>2. (x + k) \div w \in {0, 1}
  OBVIOUS
<1> QED
  BY <1>1, <1>2

LEMMA NextTurn ==
    ASSUME NEW w \in Nat \ {0}, NEW k \in Nat
    PROVE  /\ k % w \in 0..w - 1
           /\ (k + 1) % w = IF k % w = w - 1 THEN 0 ELSE (k % w) + 1
<1> DEFINE q == k \div w
           p == (k + 1) \div w
<1>1. k % w \in 0..w - 1 /\ (k + 1) % w \in 0..w - 1 /\ q \in Int /\ p \in Int
  OBVIOUS
<1>2. k = w * q + (k % w) /\ k + 1 = w * p + ((k + 1) % w)
  OBVIOUS
<1> HIDE DEF q, p
<1>3. w * (p - q) = (k % w) + 1 - ((k + 1) % w)
  BY <1>1, <1>2
<1>4. p - q \in {0, 1}
  <2>1. p - q >= 0
    <3> SUFFICES ASSUME p - q <= -1 PROVE FALSE
      BY <1>1
    <3>1. w * (p - q) <= -w
      BY <1>1
    <3> QED
      BY <1>1, <1>3, <3>1
  <2>2. p - q <= 1
    <3> SUFFICES ASSUME p - q >= 2 PROVE FALSE
      BY <1>1
    <3>1. w * (p - q) >= w * 2
      BY <1>1
    <3> QED
      BY <1>1, <1>3, <3>1
  <2> QED
    BY <1>1, <2>1, <2>2
<1> QED
  BY <1>1, <1>3, <1>4

(* What is known of the constants *)
LEMMA Sizes ==
    /\ WordBits \in Nat \ {0} /\ Window \in Nat \ {0} /\ MinSize \in Nat \ {0}
    /\ MaxSize \in Nat \ {0} /\ MaxLength \in Nat /\ TargetBits \in 0..WordBits
    /\ Bytes \subseteq Words /\ {} \in Words
BY ChunkerAssumption DEF Words

(* A rotation permutes the bits of a word, so it can be taken under Xor,   *)
(* and rotating by one after k is rotating by k + 1, modulo the width.     *)
LEMMA RotateType ==
    ASSUME NEW a \in Words, NEW k \in 0..WordBits
    PROVE  RotateLeft(a, k) \in Words
<1>1. \A bit \in a : (bit + k) % WordBits \in 0..WordBits - 1
  BY Sizes DEF Words
<1> QED
  BY <1>1 DEF RotateLeft, Words

LEMMA XorType == \A a, b \in Words : Xor(a, b) \in Words
BY DEF Xor, Words

LEMMA RotateXor ==
    ASSUME NEW a \in Words, NEW b \in Words, NEW k \in 0..WordBits
    PROVE  RotateLeft(Xor(a, b), k) = Xor(RotateLeft(a, k), RotateLeft(b, k))
<1>1. \A x, y \in 0..WordBits - 1 : (x + k) % WordBits = (y + k) % WordBits => x = y
  <2> TAKE x, y \in 0..WordBits - 1
  <2>1. (x + k) % WordBits = IF x + k < WordBits THEN x + k ELSE x + k - WordBits
    BY Turn, Sizes
  <2>2. (y + k) % WordBits = IF y + k < WordBits THEN y + k ELSE y + k - WordBits
    BY Turn, Sizes
  <2> QED
    BY <2>1, <2>2, Sizes
<1> DEFINE turned(x) == (x + k) % WordBits
<1>2. \A x \in a, y \in b : turned(x) = turned(y) => x = y
  BY <1>1 DEF Words
<1> HIDE DEF turned
<1>3. {turned(x) : x \in Xor(a, b)} = Xor({turned(x) : x \in a}, {turned(x) : x \in b})
  BY <1>2 DEF Xor
<1> QED
  BY <1>3 DEF RotateLeft, turned

LEMMA RotateNone == \A a \in Words : RotateLeft(a, 0) = a
<1> TAKE a \in Words
<1>1. \A bit \in a : (bit + 0) % WordBits = bit
  <2> TAKE bit \in a
  <2>1. WordBits \in Nat \ {0} /\ bit \in 0..WordBits - 1 /\ 0 \in 0..WordBits
    BY Sizes DEF Words
  <2>2. (bit + 0) % WordBits = IF bit + 0 < WordBits THEN bit + 0 ELSE bit + 0 - WordBits
    BY <2>1, Turn
  <2> QED
    BY <2>1, <2>2
<1> QED
  BY <1>1 DEF RotateLeft

LEMMA RotateEmpty == \A k : RotateLeft({}, k) = {}
BY DEF RotateLeft

LEMMA RotateAgain ==
    ASSUME NEW a \in Words, NEW k \in Nat
    PROVE  RotateLeft(RotateLeft(a, k % WordBits), 1) = RotateLeft(a, (k + 1) % WordBits)
<1>1. /\ k % WordBits \in 0..WordBits - 1
      /\ (k + 1) % WordBits = IF k % WordBits = WordBits - 1 THEN 0 ELSE (k % WordBits) + 1
  BY NextTurn, Sizes
<1> DEFINE r == k % WordBits
           t == (k + 1) % WordBits
<1> HIDE DEF r, t
<1>2. \A x \in 0..WordBits - 1 : (((x + r) % WordBits) + 1) % WordBits = (x + t) % WordBits
  <2> TAKE x \in 0..WordBits - 1
  <2>0. r \in 0..WordBits - 1 /\ t = (IF r = WordBits - 1 THEN 0 ELSE r + 1) /\ WordBits \in Nat \ {0}
    BY <1>1, Sizes DEF r, t
  <2>1. r \in 0..WordBits /\ t \in 0..WordBits /\ 1 \in 0..WordBits
    BY <2>0
  <2>2. (x + r) % WordBits = IF x + r < WordBits THEN x + r ELSE x + r - WordBits
    BY <2>0, <2>1, Turn
  <2>3. (x + t) % WordBits = IF x + t < WordBits THEN x + t ELSE x + t - WordBits
    BY <2>0, <2>1, Turn
  <2> DEFINE y == (x + r) % WordBits
  <2>4. y \in 0..WordBits - 1
    BY <2>0, <2>2
  <2> HIDE DEF y
  <2>5. (y + 1) % WordBits = IF y + 1 < WordBits THEN y + 1 ELSE y + 1 - WordBits
    BY <2>0, <2>1, <2>4, Turn
  <2>6. y = IF x + r < WordBits THEN x + r ELSE x + r - WordBits
    BY <2>2 DEF y
  <2>7. (y + 1) % WordBits = (x + t) % WordBits
    BY <2>0, <2>3, <2>5, <2>6
  <2> QED
    BY <2>7 DEF y
<1>3. RotateLeft(RotateLeft(a, r), 1) = {(((x + r) % WordBits) + 1) % WordBits : x \in a}
  BY DEF RotateLeft
<1>4. RotateLeft(RotateLeft(a, r), 1) = RotateLeft(a, t)
  BY <1>2, <1>3 DEF RotateLeft, Words
<1> QED
  BY <1>4 DEF r, t

(* Exclusive or is a group in which every word is its own inverse: what    *)
(* takes a byte out of the fingerprint again.                              *)
LEMMA XorRules ==
    \A a, b, c : /\ Xor(a, {}) = a /\ Xor({}, a) = a
                 /\ Xor(Xor(a, b), c) = Xor(a, Xor(b, c))
                 /\ Xor(Xor(a, b), a) = b
BY DEF Xor

-----------------------------------------------------------------------------
(* The hash of a sequence of bytes, computed byte by byte *)

(* h has the hash of every beginning of s. *)
Steps(h, s) ==
    /\ h \in [0..Len(s) -> Words] /\ h[0] = {}
    /\ \A k \in 1..Len(s) : h[k] = Xor(RotateLeft(h[k - 1], 1), s[k])

(* it is the function that FoldLeft defines over the sets of places of s,  *)
(* up to the place m.                                                      *)
Iterates(it, s, m) ==
    it = [S \in SUBSET (1..m) |->
            IF S = {} THEN {} ELSE Xor(RotateLeft(it[S \ {Max(S)}], 1), s[Max(S)])]

(* The greatest of a set of places that has m and nothing beyond it *)
LEMMA MaxIs ==
    ASSUME NEW m \in Nat, NEW S \in SUBSET (1..m), m \in S
    PROVE  Max(S) = m
<1>1. \A x \in S : m >= x
  OBVIOUS
<1>2. Max(S) \in S /\ \A y \in S : Max(S) >= y
  BY <1>1 DEF Max
<1> DEFINE x == Max(S)
<1> HIDE DEF x
<1>3. x \in 1..m /\ x >= m
  BY <1>2 DEF x
<1>4. x = m
  BY <1>3
<1> QED
  BY <1>4 DEF x

(* FoldLeft folds over the places of the sequence, the last one outermost. *)
(* A function that does so exists: for no place, and for one more place if *)
(* for the ones before.                                                    *)
LEMMA IteratesExists ==
    ASSUME NEW s \in Seq(Words)
    PROVE  \E it \in [SUBSET (1..Len(s)) -> Words] : Iterates(it, s, Len(s))
<1> DEFINE n == Len(s)
           T == {m \in 0..n : \E it \in [SUBSET (1..m) -> Words] : Iterates(it, s, m)}
<1>0. n \in Nat /\ \A i \in 1..n : s[i] \in Words
  BY LenProperties, ElementOfSeq
<1>1. 0 \in T
  <2> DEFINE it == [S \in SUBSET (1..0) |-> {}]
  <2>1. it \in [SUBSET (1..0) -> Words]
    BY Sizes
  <2>2. \A S \in SUBSET (1..0) : S = {}
    OBVIOUS
  <2>3. Iterates(it, s, 0)
    BY <2>2 DEF Iterates
  <2> HIDE DEF it
  <2>4. \E f \in [SUBSET (1..0) -> Words] : Iterates(f, s, 0)
    BY <2>1, <2>3
  <2>5. 0 \in 0..n
    BY <1>0
  <2> QED
    BY <2>4, <2>5, Zenon
<1>2. ASSUME NEW m \in 0..n - 1, m \in T PROVE m + 1 \in T
  <2>1. PICK it \in [SUBSET (1..m) -> Words] : Iterates(it, s, m)
    BY <1>2
  <2> DEFINE e == m + 1
             big == [S \in SUBSET (1..e) |->
                       IF e \in S THEN Xor(RotateLeft(it[S \ {e}], 1), s[e]) ELSE it[S]]
  <2>2. m \in Nat /\ e \in Nat /\ e \in 1..n /\ s[e] \in Words
    BY <1>0, <1>2
  <2>3. ASSUME NEW S \in SUBSET (1..e)
        PROVE  /\ S \ {e} \in SUBSET (1..m)
               /\ e \notin S => S \in SUBSET (1..m)
    BY <2>2
  <2>4. \A S \in SUBSET (1..m) : S \in SUBSET (1..e) /\ e \notin S
    BY <2>2
  <2>5. big \in [SUBSET (1..e) -> Words]
    <3> SUFFICES ASSUME NEW S \in SUBSET (1..e)
                 PROVE  (IF e \in S THEN Xor(RotateLeft(it[S \ {e}], 1), s[e]) ELSE it[S]) \in Words
      OBVIOUS
    <3>1. it[S \ {e}] \in Words /\ (e \notin S => it[S] \in Words)
      BY <2>1, <2>3
    <3>2. RotateLeft(it[S \ {e}], 1) \in Words
      BY <3>1, RotateType, Sizes
    <3> QED
      BY <2>2, <3>1, <3>2, XorType
  <2>6. ASSUME NEW S \in SUBSET (1..e)
        PROVE  big[S] = IF S = {} THEN {} ELSE Xor(RotateLeft(big[S \ {Max(S)}], 1), s[Max(S)])
    <3>1. CASE e \in S
      <4>1. Max(S) = e
        BY <2>2, <3>1, MaxIs
      <4>2. S \ {e} \in SUBSET (1..e) /\ e \notin S \ {e}
        OBVIOUS
      <4>3. big[S \ {e}] = it[S \ {e}]
        BY <4>2
      <4> QED
        BY <3>1, <4>1, <4>3
    <3>2. CASE e \notin S
      <4>1. S \in SUBSET (1..m)
        BY <2>3, <3>2
      <4>2. big[S] = it[S]
        BY <3>2
      <4>3. it[S] = IF S = {} THEN {} ELSE Xor(RotateLeft(it[S \ {Max(S)}], 1), s[Max(S)])
        BY <2>1, <4>1 DEF Iterates
      <4>4. S \ {Max(S)} \in SUBSET (1..e) /\ e \notin S \ {Max(S)}
        BY <3>2
      <4>5. big[S \ {Max(S)}] = it[S \ {Max(S)}]
        BY <4>4
      <4> QED
        BY <4>2, <4>3, <4>5
    <3> QED
      BY <3>1, <3>2
  <2> HIDE DEF big
  <2>7. Iterates(big, s, e)
    BY <2>5, <2>6 DEF Iterates
  <2> QED
    BY <1>0, <2>2, <2>5, <2>7
<1> HIDE DEF T
<1>3. 0..n \subseteq T
  BY <1>0, <1>1, <1>2, UpTo
<1>4. n \in T
  BY <1>0, <1>3
<1> QED
  BY <1>4 DEF T

(* So the hash is reached byte by byte. *)
LEMMA HashSteps ==
    ASSUME NEW s \in Seq(Words)
    PROVE  \E h : Steps(h, s) /\ Hash(s) = h[Len(s)]
<1> DEFINE n == Len(s)
           it == CHOOSE f : Iterates(f, s, n)
           h == [k \in 0..n |-> it[1..k]]
<1>0. n \in Nat /\ DOMAIN s = 1..n /\ \A i \in 1..n : s[i] \in Words
  BY LenProperties, ElementOfSeq
<1>1. Iterates(it, s, n)
  BY IteratesExists, Zenon
<1>2. Hash(s) = it[1..n]
  BY <1>0 DEF Hash, FoldLeft, MapThenFoldSet, Iterates
<1> HIDE DEF it
<1>3. it[{}] = {} /\ 1..0 = {}
  BY <1>1 DEF Iterates
<1>4. ASSUME NEW k \in 1..n PROVE it[1..k] = Xor(RotateLeft(it[1..(k - 1)], 1), s[k])
  <2>1. Max(1..k) = k
    BY <1>0, MaxIs
  <2>2. (1..k) \ {k} = 1..(k - 1) /\ 1..k \in SUBSET (1..n) /\ 1..k # {}
    BY <1>0
  <2>3. it[1..k] = Xor(RotateLeft(it[(1..k) \ {Max(1..k)}], 1), s[Max(1..k)])
    BY <1>1, <2>2 DEF Iterates
  <2> QED
    BY <2>1, <2>2, <2>3
<1> DEFINE T == {k \in 0..n : it[1..k] \in Words}
<1>5. 0 \in T
  <2>1. it[1..0] \in Words
    BY <1>3, Sizes, Zenon
  <2>2. 0 \in 0..n
    BY <1>0
  <2> QED
    BY <2>1, <2>2, Zenon
<1>6. ASSUME NEW k \in 0..n - 1, k \in T PROVE k + 1 \in T
  <2>1. k + 1 \in 1..n /\ (k + 1) - 1 = k /\ s[k + 1] \in Words
    BY <1>0
  <2>2. RotateLeft(it[1..k], 1) \in Words
    BY <1>6, RotateType, Sizes
  <2> QED
    BY <1>0, <1>4, <2>1, <2>2, XorType
<1> HIDE DEF T
<1>7. 0..n \subseteq T
  BY <1>0, <1>5, <1>6, UpTo
<1>8. h \in [0..n -> Words] /\ h[0] = {} /\ h[n] = it[1..n]
  BY <1>0, <1>3, <1>7 DEF T
<1>9. \A k \in 1..n : h[k] = Xor(RotateLeft(h[k - 1], 1), s[k])
  BY <1>0, <1>4
<1> QED
  BY <1>2, <1>8, <1>9 DEF Steps

(* The hashes of the beginnings are the only function of its kind. *)
LEMMA StepsUnique ==
    ASSUME NEW s \in Seq(Words), NEW h, NEW g, Steps(h, s), Steps(g, s)
    PROVE  \A k \in 0..Len(s) : h[k] = g[k]
<1> DEFINE n == Len(s)
           T == {k \in 0..n : h[k] = g[k]}
<1>0. n \in Nat
  BY LenProperties
<1>1. 0 \in T
  BY <1>0 DEF Steps
<1>2. ASSUME NEW k \in 0..n - 1, k \in T PROVE k + 1 \in T
  <2>1. k + 1 \in 1..n /\ (k + 1) - 1 = k
    BY <1>0
  <2> QED
    BY <1>0, <1>2, <2>1 DEF Steps
<1> HIDE DEF T
<1>3. 0..n \subseteq T
  BY <1>0, <1>1, <1>2, UpTo
<1> QED
  BY <1>3 DEF T

(* What is reached byte by byte is the hash. *)
LEMMA HashIs ==
    ASSUME NEW s \in Seq(Words), NEW h, Steps(h, s)
    PROVE  Hash(s) = h[Len(s)] /\ Hash(s) \in Words
<1>1. PICK g : Steps(g, s) /\ Hash(s) = g[Len(s)]
  BY HashSteps
<1>2. Len(s) \in 0..Len(s)
  BY LenProperties
<1> QED
  BY <1>1, <1>2, StepsUnique DEF Steps

LEMMA HashEmpty == Hash(<<>>) = {}
<1> DEFINE h == [k \in 0..0 |-> {}]
<1>1. <<>> \in Seq(Words) /\ Len(<<>>) = 0
  BY EmptySeq
<1>2. Steps(h, <<>>)
  BY <1>1, Sizes DEF Steps
<1>3. h[0] = {}
  OBVIOUS
<1> QED
  BY <1>1, <1>2, <1>3, HashIs

(* One byte more *)
LEMMA HashAppend ==
    ASSUME NEW s \in Seq(Words), NEW b \in Words
    PROVE  Hash(Append(s, b)) = Xor(RotateLeft(Hash(s), 1), b) /\ Hash(s) \in Words
<1> DEFINE n == Len(s)
           t == Append(s, b)
<1>0. /\ n \in Nat /\ t \in Seq(Words) /\ Len(t) = n + 1 /\ t[n + 1] = b
      /\ \A i \in 1..n : t[i] = s[i]
  BY LenProperties, AppendProperties
<1>1. PICK g : Steps(g, t) /\ Hash(t) = g[Len(t)]
  BY <1>0, HashSteps
<1> HIDE DEF t
<1> DEFINE h == [k \in 0..n |-> g[k]]
<1>2. Steps(h, s)
  <2>1. h \in [0..n -> Words] /\ h[0] = {}
    BY <1>0, <1>1 DEF Steps
  <2>2. ASSUME NEW k \in 1..n PROVE h[k] = Xor(RotateLeft(h[k - 1], 1), s[k])
    <3>1. k \in 1..Len(t) /\ k \in 0..n /\ k - 1 \in 0..n /\ t[k] = s[k]
      BY <1>0
    <3> QED
      BY <1>1, <3>1 DEF Steps
  <2> QED
    BY <2>1, <2>2 DEF Steps
<1>3. Hash(s) = g[n] /\ Hash(s) \in Words
  <2>1. h[n] = g[n]
    BY <1>0
  <2> QED
    BY <1>2, <2>1, HashIs
<1>4. g[n + 1] = Xor(RotateLeft(g[n], 1), b)
  <2>1. n + 1 \in 1..Len(t) /\ (n + 1) - 1 = n
    BY <1>0
  <2> QED
    BY <1>0, <1>1, <2>1 DEF Steps
<1>5. Hash(t) = Xor(RotateLeft(Hash(s), 1), b)
  BY <1>0, <1>1, <1>3, <1>4
<1> QED
  BY <1>3, <1>5 DEF t

(* What the first byte of a window contributes to its hash *)
LEMMA HashFirst ==
    ASSUME NEW s \in Seq(Words), s # <<>>
    PROVE  Hash(s) = Xor(RotateLeft(Head(s), (Len(s) - 1) % WordBits), Hash(Tail(s)))
<1> DEFINE x == Head(s)
           t == Tail(s)
           n == Len(t)
<1>0. /\ Len(s) = n + 1 /\ n \in Nat /\ x \in Words /\ x = s[1] /\ t \in Seq(Words)
      /\ \A i \in 1..n : t[i] = s[i + 1] /\ t[i] \in Words
  BY HeadTailProperties, LenProperties, ElementOfSeq
<1>1. PICK h : Steps(h, s) /\ Hash(s) = h[n + 1]
  BY <1>0, HashSteps
<1>2. PICK g : Steps(g, t) /\ Hash(t) = g[n]
  BY <1>0, HashSteps
<1> HIDE DEF x, t
<1> DEFINE turned(k) == RotateLeft(x, k % WordBits)
           T == {k \in 0..n : h[k + 1] = Xor(turned(k), g[k])}
<1>3. \A k \in Nat : turned(k) \in Words /\ RotateLeft(turned(k), 1) = turned(k + 1)
  <2> TAKE k \in Nat
  <2>1. k % WordBits \in 0..WordBits - 1
    BY Sizes, NextTurn
  <2>2. k % WordBits \in 0..WordBits
    BY <2>1, Sizes
  <2> QED
    BY <1>0, <2>2, RotateType, RotateAgain
<1>4. turned(0) = x
  <2>1. 0 % WordBits = 0
    <3>1. (0 + 0) % WordBits = 0
      BY Sizes, Turn
    <3> QED
      BY <3>1
  <2> QED
    BY <1>0, <2>1, RotateNone
<1> HIDE DEF turned
<1>5. 0 \in T
  <2>1. h[1] = Xor(RotateLeft({}, 1), x) /\ g[0] = {}
    <3>1. 1 \in 1..Len(s) /\ 1 - 1 = 0
      BY <1>0
    <3>2. h[1] = Xor(RotateLeft(h[0], 1), s[1]) /\ h[0] = {} /\ g[0] = {}
      BY <1>1, <1>2, <3>1 DEF Steps
    <3> QED
      BY <1>0, <3>2
  <2>2. h[1] = Xor(turned(0), g[0])
    BY <1>4, <2>1, RotateEmpty, XorRules
  <2> QED
    BY <1>0, <2>2
<1>6. ASSUME NEW k \in 0..n - 1, k \in T PROVE k + 1 \in T
  <2>0. k \in Nat /\ k + 1 \in 0..n /\ k + 1 \in 1..n /\ k + 2 \in 1..Len(s) /\ (k + 2) - 1 = k + 1
        /\ (k + 1) - 1 = k /\ (k + 1) + 1 = k + 2 /\ k \in 0..n
    BY <1>0
  <2>1. h[k + 2] = Xor(RotateLeft(h[k + 1], 1), t[k + 1])
    BY <1>0, <1>1, <2>0 DEF Steps
  <2>2. g[k + 1] = Xor(RotateLeft(g[k], 1), t[k + 1]) /\ g[k] \in Words
    BY <1>2, <2>0 DEF Steps
  <2>3. h[k + 1] = Xor(turned(k), g[k])
    BY <1>6
  <2>4. RotateLeft(h[k + 1], 1) = Xor(turned(k + 1), RotateLeft(g[k], 1))
    <3>1. turned(k) \in Words /\ RotateLeft(turned(k), 1) = turned(k + 1) /\ 1 \in 0..WordBits
      BY <1>3, <2>0, Sizes
    <3>2. RotateLeft(Xor(turned(k), g[k]), 1) = Xor(RotateLeft(turned(k), 1), RotateLeft(g[k], 1))
      BY <2>2, <3>1, RotateXor
    <3> QED
      BY <2>3, <3>1, <3>2
  <2>5. h[k + 2] = Xor(turned(k + 1), g[k + 1])
    BY <2>1, <2>2, <2>4, XorRules
  <2> QED
    BY <2>0, <2>5
<1> HIDE DEF T
<1>7. 0..n \subseteq T
  BY <1>0, <1>5, <1>6, UpTo
<1>8. n \in T
  BY <1>0, <1>7
<1>9. h[n + 1] = Xor(turned(n), g[n])
  BY <1>8 DEF T
<1>10. Len(s) - 1 = n
  BY <1>0
<1> QED
  BY <1>1, <1>2, <1>9, <1>10 DEF turned, x, t

(* One byte in and one byte out is the hash of the next window. *)
LEMMA HashSlides ==
    ASSUME NEW s \in Seq(Words), s # <<>>, NEW b \in Words
    PROVE  Hash(Append(Tail(s), b)) =
             Xor(Xor(RotateLeft(Hash(s), 1), b), RotateLeft(Head(s), Len(s) % WordBits))
<1> DEFINE x == Head(s)
           t == Tail(s)
           n == Len(t)
           out(k) == RotateLeft(x, k % WordBits)
<1>1. x \in Words /\ t \in Seq(Words) /\ n \in Nat /\ Len(s) = n + 1 /\ Len(s) - 1 = n
  BY HeadTailProperties, LenProperties
<1>2. Hash(s) = Xor(out(n), Hash(t))
  BY <1>1, HashFirst
<1>3. Hash(Append(t, b)) = Xor(RotateLeft(Hash(t), 1), b) /\ Hash(t) \in Words
  BY <1>1, HashAppend
<1>4. out(n) \in Words /\ RotateLeft(out(n), 1) = out(n + 1) /\ 1 \in 0..WordBits
  <2>1. n % WordBits \in 0..WordBits - 1
    BY <1>1, Sizes, NextTurn
  <2>2. n % WordBits \in 0..WordBits /\ 1 \in 0..WordBits
    BY <2>1, Sizes
  <2> QED
    BY <1>1, <2>2, RotateType, RotateAgain
<1> HIDE DEF x, t, n, out
<1>5. RotateLeft(Hash(s), 1) = Xor(out(n + 1), RotateLeft(Hash(t), 1))
  BY <1>2, <1>3, <1>4, RotateXor
<1>6. Xor(Xor(Xor(out(n + 1), RotateLeft(Hash(t), 1)), b), out(n + 1)) = Xor(RotateLeft(Hash(t), 1), b)
  BY XorRules
<1>7. Hash(Append(t, b)) = Xor(Xor(RotateLeft(Hash(s), 1), b), out(n + 1))
  BY <1>3, <1>5, <1>6
<1> QED
  BY <1>1, <1>7 DEF x, t, n, out

-----------------------------------------------------------------------------
(* Parts of the input *)

(* A part of a sequence, its length and its elements *)
LEMMA Part ==
    ASSUME NEW S, NEW s \in Seq(S), NEW m \in 1..Len(s) + 1, NEW n \in m - 1..Len(s)
    PROVE  /\ SubSeq(s, m, n) \in Seq(S) /\ Len(SubSeq(s, m, n)) = n - m + 1
           /\ \A i \in 1..n - m + 1 : SubSeq(s, m, n)[i] = s[m + i - 1]
<1>1. Len(s) \in Nat /\ \A i \in 1..Len(s) : s[i] \in S
  BY LenProperties, ElementOfSeq
<1>2. m \in Int /\ n \in Int /\ \A i \in m..n : s[i] \in S
  BY <1>1
<1>3. /\ SubSeq(s, m, n) \in Seq(S)
      /\ Len(SubSeq(s, m, n)) = IF m <= n THEN n - m + 1 ELSE 0
      /\ \A i \in 1..n - m + 1 : SubSeq(s, m, n)[i] = s[m + i - 1]
  BY <1>2, SubSeqProperties
<1>4. (IF m <= n THEN n - m + 1 ELSE 0) = n - m + 1
  BY <1>1
<1> QED
  BY <1>3, <1>4

(* A part that has one element more *)
LEMMA PartGrows ==
    ASSUME NEW S, NEW s \in Seq(S), NEW m \in 1..Len(s), NEW n \in m - 1..Len(s) - 1
    PROVE  SubSeq(s, m, n + 1) = Append(SubSeq(s, m, n), s[n + 1])
<1>1. Len(s) \in Nat /\ n + 1 \in 1..Len(s) /\ (n + 1) - 1 = n
  BY LenProperties
<1>2. s[n + 1] \in S /\ SubSeq(s, m, n) \in Seq(S)
  BY <1>1, ElementOfSeq, Part
<1>3. n + 1 \in m..Len(s)
  BY <1>1
<1>4. SubSeq(s, m, n + 1) = SubSeq(s, m, n) \o <<s[n + 1]>>
  BY <1>1, <1>3, SubSeqRecursiveSecond
<1> QED
  BY <1>2, <1>4, AppendIsConcat

(* The window moves on by one byte. *)
LEMMA PartMoves ==
    ASSUME NEW S, NEW s \in Seq(S), NEW m \in 1..Len(s), NEW n \in m..Len(s) - 1
    PROVE  /\ SubSeq(s, m, n) # <<>> /\ Head(SubSeq(s, m, n)) = s[m]
           /\ SubSeq(s, m + 1, n + 1) = Append(Tail(SubSeq(s, m, n)), s[n + 1])
<1>1. Len(s) \in Nat /\ n \in m..Len(s) /\ m + 1 \in 1..Len(s)
      /\ n \in (m + 1) - 1..Len(s) - 1 /\ m \in 1..Len(s) + 1 /\ n \in m - 1..Len(s)
  BY LenProperties
<1>2. Head(SubSeq(s, m, n)) = s[m] /\ Tail(SubSeq(s, m, n)) = SubSeq(s, m + 1, n)
  BY <1>1, HeadTailOfSubSeq
<1>3. Len(SubSeq(s, m, n)) = n - m + 1 /\ Len(<<>>) = 0
  BY <1>1, Part, EmptySeq
<1>4. SubSeq(s, m + 1, n + 1) = Append(SubSeq(s, m + 1, n), s[n + 1])
  BY <1>1, PartGrows
<1>5. SubSeq(s, m, n) # <<>>
  <2>1. n - m + 1 # 0
    BY <1>1
  <2> QED
    BY <1>3, <2>1
<1> QED
  BY <1>2, <1>4, <1>5

(* IsSplit by the ends of the chunks: the function it defines is the only  *)
(* one of its kind.                                                        *)
LEMMA SplitAtEnds ==
    ASSUME NEW n \in Nat, NEW S, NEW chunks \in [1..n -> Seq(S)], NEW s, NEW e \in [0..n -> Nat],
           e[0] = 0,
           \A k \in 1..n : /\ Len(chunks[k]) = e[k] - e[k - 1]
                           /\ chunks[k] = SubSeq(s, e[k - 1] + 1, e[k])
                           /\ CutAfter(s, e[k - 1], e[k])
                           /\ \A i \in e[k - 1] + 1..e[k] - 1 : ~CutAfter(s, e[k - 1], i)
    PROVE  IsSplit(chunks, s, e[n])
<1>0. Len(chunks) = n
  <2>1. chunks \in Seq(Seq(S)) /\ DOMAIN chunks = 1..n
    BY SeqDef
  <2> QED
    BY <2>1, LenProperties
<1> DEFINE end == CHOOSE f : f = [k \in 0..Len(chunks) |->
                                    IF k = 0 THEN 0 ELSE f[k - 1] + Len(chunks[k])]
<1>1. e = [k \in 0..Len(chunks) |-> IF k = 0 THEN 0 ELSE e[k - 1] + Len(chunks[k])]
  <2>1. ASSUME NEW k \in 0..n PROVE e[k] = IF k = 0 THEN 0 ELSE e[k - 1] + Len(chunks[k])
    <3>1. CASE k = 0
      BY <3>1
    <3>2. CASE k # 0
      <4>1. k \in 1..n /\ k - 1 \in 0..n /\ e[k] \in Nat /\ e[k - 1] \in Nat
        BY <3>2
      <4>2. Len(chunks[k]) = e[k] - e[k - 1]
        BY <4>1
      <4>3. e[k] = e[k - 1] + (e[k] - e[k - 1])
        BY <4>1
      <4> QED
        BY <3>2, <4>2, <4>3, Zenon
    <3> QED
      BY <3>1, <3>2
  <2> QED
    BY <1>0, <2>1
<1>2. end = [k \in 0..Len(chunks) |-> IF k = 0 THEN 0 ELSE end[k - 1] + Len(chunks[k])]
  BY <1>1, Zenon
<1> HIDE DEF end
<1> DEFINE T == {k \in 0..n : end[k] = e[k]}
<1>3. 0 \in T
  BY <1>0, <1>2
<1>4. ASSUME NEW k \in 0..n - 1, k \in T PROVE k + 1 \in T
  <2>1. k + 1 \in 0..n /\ k + 1 \in 1..n /\ (k + 1) - 1 = k /\ k + 1 # 0
    OBVIOUS
  <2>2. end[k + 1] = end[k] + Len(chunks[k + 1])
    BY <1>0, <1>2, <2>1
  <2>3. e[k + 1] = e[k] + Len(chunks[k + 1])
    BY <1>0, <1>1, <2>1
  <2> QED
    BY <1>4, <2>1, <2>2, <2>3
<1> HIDE DEF T
<1>5. 0..n \subseteq T
  BY <1>3, <1>4, UpTo
<1>6. \A k \in 0..n : end[k] = e[k]
  BY <1>5 DEF T
<1>7. end = e
  BY <1>0, <1>2, <1>6
<1>8. /\ end[Len(chunks)] = e[n]
      /\ \A k \in 1..Len(chunks) :
          /\ chunks[k] = SubSeq(s, end[k - 1] + 1, end[k])
          /\ CutAfter(s, end[k - 1], end[k])
          /\ \A i \in end[k - 1] + 1..end[k] - 1 : ~CutAfter(s, end[k - 1], i)
  BY <1>0, <1>7
<1> QED
  BY <1>8 DEF end, IsSplit

-----------------------------------------------------------------------------
(* The splitter *)

SplitTypes ==
    /\ input \in Seq(Bytes) /\ Len(input) \in 0..MaxLength /\ input \in Streams
    /\ consumed \in 0..Len(input)
    /\ memory \in [Buffers -> Seq(Bytes)]
    /\ buf \in Buffers /\ next = buf
    /\ \A b \in Buffers : b > next => memory[b] = <<>>
    /\ split \in {"read", "emit", "ok", "failed"}

(* The ring holds the last bytes, the oldest of them at pos, and the       *)
(* fingerprint is their hash.                                              *)
RingInv ==
    LET n == Len(rolling.window)
    IN  /\ rolling \in [window : Seq(Bytes), pos : 0..Window - 1, fingerprint : Words]
        /\ n = IF consumed < Window THEN consumed ELSE Window
        /\ consumed < Window => rolling.pos = 0
        /\ \A j \in 1..n : rolling.window[j] =
              input[IF j > rolling.pos THEN consumed - n + j - rolling.pos
                                       ELSE consumed - rolling.pos + j]
        /\ rolling.fingerprint = Hash(SubSeq(input, consumed - n + 1, consumed))

(* Where the sizes and the content ask for a cut *)
ContentCut(from, i) ==
    \/ i - from >= MaxSize
    \/ /\ i - from >= MinSize /\ i >= Window
       /\ WindowHash(input, i) \intersect (0..TargetBits - 1) = {}

(* to is the first place to cut at, after from. *)
NextCut(from, to) ==
    /\ CutAfter(input, from, to)
    /\ \A i \in from + 1..to - 1 : ~CutAfter(input, from, i)

(* The chunks that were emitted end at e[1], e[2], ..., each where it had  *)
(* to, and the buffer in use has what was read since.                      *)
Chunked(e) ==
    /\ e \in [0..next -> 0..consumed] /\ e[0] = 0
    /\ \A k \in 0..next : k <= e[k]
    /\ \A k \in 1..next :
         /\ e[k - 1] < e[k] /\ NextCut(e[k - 1], e[k])
         /\ memory[k - 1] = SubSeq(input, e[k - 1] + 1, e[k])
    /\ memory[next] = SubSeq(input, e[next] + 1, consumed)
    /\ \A i \in e[next] + 1..consumed - 1 : ~CutAfter(input, e[next], i)
    /\ split = "emit" => e[next] < consumed /\ CutAfter(input, e[next], consumed)
    /\ split = "read" => consumed = e[next] \/ ~ContentCut(e[next], consumed)
    /\ split = "ok" => consumed = Len(input) /\ e[next] = consumed

SplitInv == SplitTypes /\ RingInv /\ \E e : Chunked(e)

LEMMA InWords == SplitTypes => input \in Seq(Words)
BY Sizes, SeqMonotonic DEF SplitTypes

(* Roll keeps the ring: until it is full a byte is appended to the hash,   *)
(* and then the byte that leaves is taken out as rotated as it is.         *)
LEMMA RingStep ==
    ASSUME SplitTypes, RingInv, ReadByte PROVE RingInv'
<1> DEFINE r == rolling
           n == Len(r.window)
           c == consumed
           b == input[c + 1]
           w == r.window
           pos == r.pos
<1>1. /\ Window \in Nat \ {0} /\ c \in Nat /\ c + 1 \in 1..Len(input) /\ Len(input) \in Nat
      /\ c' = c + 1 /\ input' = input /\ input \in Seq(Words) /\ input \in Seq(Bytes)
      /\ b \in Bytes /\ b \in Words /\ rolling' = Roll(r, b)
  <2>1. b \in Bytes
    BY ElementOfSeq DEF SplitTypes, ReadByte
  <2> QED
    BY <2>1, Sizes, InWords DEF SplitTypes, ReadByte
<1>2. /\ w \in Seq(Bytes) /\ pos \in 0..Window - 1 /\ r.fingerprint \in Words
      /\ r = [window |-> w, pos |-> pos, fingerprint |-> r.fingerprint]
      /\ n = (IF c < Window THEN c ELSE Window) /\ n \in Nat
      /\ c < Window => pos = 0
      /\ \A j \in 1..n : w[j] = input[IF j > pos THEN c - n + j - pos ELSE c - pos + j]
      /\ r.fingerprint = Hash(SubSeq(input, c - n + 1, c))
  BY <1>1 DEF RingInv
<1>3. 1 \in 0..WordBits /\ 1 \in 0..Window /\ WordBits \in Nat \ {0}
  BY Sizes
<1> DEFINE fp == Xor(RotateLeft(r.fingerprint, 1), b)
<1>4. CASE c < Window
  <2>1. n = c /\ pos = 0 /\ n < Window
    BY <1>2, <1>4
  <2>2. rolling' = [window |-> Append(w, b), pos |-> pos, fingerprint |-> fp]
    BY <1>1, <1>2, <2>1 DEF Roll
  <2>3. /\ Append(w, b) \in Seq(Bytes) /\ Len(Append(w, b)) = c + 1
        /\ \A j \in 1..c : Append(w, b)[j] = w[j]
        /\ Append(w, b)[c + 1] = b
    BY <1>1, <1>2, <2>1, AppendProperties
  <2>4. SubSeq(input, 1, c + 1) = Append(SubSeq(input, 1, c), b) /\ SubSeq(input, 1, c) \in Seq(Words)
    <3>1. /\ 1 \in 1..Len(input) /\ c \in 1 - 1..Len(input) - 1
          /\ 1 \in 1..Len(input) + 1 /\ c \in 1 - 1..Len(input)
      BY <1>1
    <3> QED
      BY <1>1, <3>1, Part, PartGrows
  <2>5. fp = Hash(SubSeq(input, 1, c + 1)) /\ fp \in Words
    <3>1. r.fingerprint = Hash(SubSeq(input, 1, c))
      BY <1>2, <2>1
    <3>2. RotateLeft(r.fingerprint, 1) \in Words
      BY <1>2, <1>3, RotateType
    <3> QED
      BY <1>1, <2>4, <3>1, <3>2, HashAppend, XorType
  <2>6. c + 1 = IF c + 1 < Window THEN c + 1 ELSE Window
    BY <1>1, <1>4
  <2>7. \A j \in 1..c + 1 : Append(w, b)[j] =
          input[IF j > 0 THEN (c + 1) - (c + 1) + j - 0 ELSE (c + 1) - 0 + j]
    <3> TAKE j \in 1..c + 1
    <3>1. (IF j > 0 THEN (c + 1) - (c + 1) + j - 0 ELSE (c + 1) - 0 + j) = j
      BY <1>1, <2>1
    <3>2. CASE j = c + 1
      BY <2>3, <3>1, <3>2
    <3>3. CASE j # c + 1
      <4>1. j \in 1..n /\ (IF j > pos THEN c - n + j - pos ELSE c - pos + j) = j
        BY <1>1, <2>1, <3>3
      <4>2. w[j] = input[j] /\ Append(w, b)[j] = w[j]
        BY <1>2, <2>1, <2>3, <4>1
      <4> QED
        BY <3>1, <4>2
    <3> QED
      BY <3>2, <3>3
  <2>8. (c + 1) - (c + 1) + 1 = 1
    BY <1>1
  <2>10. pos = 0 /\ 0 \in 0..Window - 1
    BY <1>2, <2>1
  <2> HIDE DEF fp, b, c, w, pos
  <2>9. rolling'.window = Append(w, b) /\ rolling'.pos = 0 /\ rolling'.fingerprint = fp
        /\ rolling' \in [window : Seq(Bytes), pos : 0..Window - 1, fingerprint : Words]
    BY <2>2, <2>3, <2>5, <2>10
  <2> DEFINE n2 == Len(rolling'.window)
  <2>11. n2 = c + 1 /\ consumed' = c + 1 /\ input' = input
    BY <1>1, <2>3, <2>9 DEF c
  <2>12. rolling'.fingerprint = Hash(SubSeq(input', consumed' - n2 + 1, consumed'))
    BY <2>5, <2>8, <2>9, <2>11
  <2>13. \A j \in 1..n2 : rolling'.window[j] =
           input'[IF j > rolling'.pos THEN consumed' - n2 + j - rolling'.pos
                                      ELSE consumed' - rolling'.pos + j]
    BY <2>7, <2>9, <2>11
  <2>14. n2 = IF consumed' < Window THEN consumed' ELSE Window
    BY <2>6, <2>11
  <2> QED
    BY <2>9, <2>12, <2>13, <2>14 DEF RingInv
<1>5. CASE c >= Window
  <2>1. n = Window
    BY <1>1, <1>2, <1>5
  <2> DEFINE s == SubSeq(input, c - n + 1, c)
             out == w[pos + 1]
             ring == [w EXCEPT ![pos + 1] = b]
             pos2 == IF pos + 1 < Window THEN pos + 1 ELSE 0
             fp2 == Xor(fp, RotateLeft(out, Window % WordBits))
  <2>2. (pos + 1) % Window = pos2
    <3>1. (pos + 1) % Window = IF pos + 1 < Window THEN pos + 1 ELSE pos + 1 - Window
      BY <1>1, <1>2, <1>3, Turn
    <3> QED
      BY <1>1, <1>2, <3>1
  <2>3. rolling' = [window |-> ring, pos |-> pos2, fingerprint |-> fp2]
    BY <1>1, <1>2, <2>1, <2>2 DEF Roll
  <2>4. /\ ring \in Seq(Bytes) /\ Len(ring) = n
        /\ \A j \in 1..n : ring[j] = IF j = pos + 1 THEN b ELSE w[j]
    <3>1. pos + 1 \in 1..Len(w)
      BY <1>1, <1>2, <2>1
    <3> QED
      BY <1>1, <1>2, <3>1, ExceptSeq
  <2>5. /\ c - n + 1 \in 1..Len(input) /\ c \in c - n + 1..Len(input) - 1
        /\ c - n + 1 \in 1..Len(input) + 1 /\ c \in (c - n + 1) - 1..Len(input)
    BY <1>1, <1>2, <1>5, <2>1
  <2>6. s \in Seq(Words) /\ Len(s) = n
    <3>1. s \in Seq(Words) /\ Len(s) = c - (c - n + 1) + 1
      BY <1>1, <2>5, Part
    <3> QED
      BY <1>1, <1>2, <3>1
  <2>7. /\ s # <<>> /\ Head(s) = input[c - n + 1]
        /\ SubSeq(input, (c - n + 1) + 1, c + 1) = Append(Tail(s), b)
    BY <1>1, <2>5, PartMoves
  <2>8. out = input[c - n + 1]
    <3>1. pos + 1 \in 1..n /\ (IF pos + 1 > pos THEN c - n + (pos + 1) - pos ELSE c - pos + (pos + 1)) = c - n + 1
      BY <1>1, <1>2, <2>1
    <3> QED
      BY <1>2, <3>1
  <2>9. fp2 = Hash(SubSeq(input, (c - n + 1) + 1, c + 1)) /\ fp2 \in Words
    <3>1. fp2 = Hash(Append(Tail(s), b))
      BY <1>1, <1>2, <2>1, <2>6, <2>7, <2>8, HashSlides
    <3>2. Append(Tail(s), b) \in Seq(Words)
      BY <1>1, <2>6, <2>7, HeadTailProperties, AppendProperties
    <3>3. Hash(Append(Tail(s), b)) \in Words
      BY <3>2, HashAppend, Sizes
    <3> QED
      BY <2>7, <3>1, <3>3
  <2>10. n = (IF c + 1 < Window THEN c + 1 ELSE Window) /\ ~(c + 1 < Window)
         /\ (c - n + 1) + 1 = (c + 1) - n + 1
    BY <1>1, <1>2, <1>5, <2>1
  <2>11. \A j \in 1..n : ring[j] =
           input[IF j > pos2 THEN (c + 1) - n + j - pos2 ELSE (c + 1) - pos2 + j]
    <3> TAKE j \in 1..n
    <3>1. CASE j = pos + 1
      <4>1. (IF j > pos2 THEN (c + 1) - n + j - pos2 ELSE (c + 1) - pos2 + j) = c + 1
        BY <1>1, <1>2, <2>1, <3>1
      <4> QED
        BY <2>4, <3>1, <4>1
    <3>2. CASE j # pos + 1
      <4>1. (IF j > pos2 THEN (c + 1) - n + j - pos2 ELSE (c + 1) - pos2 + j)
              = (IF j > pos THEN c - n + j - pos ELSE c - pos + j)
        <5>0. pos \in Nat /\ pos <= Window - 1 /\ j \in 1..Window /\ c \in Nat /\ Window \in Nat
          BY <1>1, <1>2, <2>1
        <5> HIDE DEF pos, c
        <5>1. CASE pos + 1 < Window
          BY <2>1, <3>2, <5>0, <5>1
        <5>2. CASE pos + 1 = Window
          BY <2>1, <3>2, <5>0, <5>2
        <5>3. pos + 1 < Window \/ pos + 1 = Window
          BY <5>0
        <5> QED
          BY <5>1, <5>2, <5>3, Zenon
      <4>2. ring[j] = w[j]
        BY <2>4, <3>2
      <4>3. w[j] = input[IF j > pos THEN c - n + j - pos ELSE c - pos + j]
        BY <1>2
      <4> QED
        BY <4>1, <4>2, <4>3
    <3> QED
      BY <3>1, <3>2
  <2>12. pos2 \in 0..Window - 1
    BY <1>1, <1>2
  <2> HIDE DEF fp2, b, c, w, ring, pos2
  <2>13. rolling'.window = ring /\ rolling'.pos = pos2 /\ rolling'.fingerprint = fp2
         /\ rolling' \in [window : Seq(Bytes), pos : 0..Window - 1, fingerprint : Words]
    BY <2>3, <2>4, <2>9, <2>12
  <2> QED
    BY <1>1, <2>4, <2>9, <2>10, <2>11, <2>13 DEF RingInv, c
<1> QED
  BY <1>1, <1>4, <1>5

(* The splitter decides by the ring as it would by the whole input. *)
LEMMA BoundaryIsCut ==
    ASSUME RingInv', consumed' \in Nat, input' = input, NEW from \in 0..consumed'
    PROVE  Boundary(rolling', consumed' - from) <=> ContentCut(from, consumed')
<1> DEFINE n2 == Len(rolling'.window)
<1>0. Window \in Nat \ {0} /\ MinSize \in Nat /\ MaxSize \in Nat
  BY Sizes
<1>1. /\ n2 = (IF consumed' < Window THEN consumed' ELSE Window)
      /\ rolling'.fingerprint = Hash(SubSeq(input, consumed' - n2 + 1, consumed'))
  BY DEF RingInv
<1>2. n2 >= Window <=> consumed' >= Window
  BY <1>0, <1>1
<1>3. consumed' >= Window => rolling'.fingerprint = WindowHash(input, consumed')
  BY <1>0, <1>1 DEF WindowHash
<1> QED
  BY <1>2, <1>3 DEF Boundary, ContentCut

(* Before the end of the input, only sizes and content cut. *)
LEMMA CutInside ==
    ASSUME NEW from, NEW i, from \in Nat, i \in Nat, i # Len(input), i - from <= MaxSize
    PROVE  CutAfter(input, from, i) <=> ContentCut(from, i)
BY Sizes DEF CutAfter, ContentCut

LEMMA ContentCutIsCut ==
    ASSUME NEW from \in Nat, NEW i \in Nat, i - from <= MaxSize, ContentCut(from, i)
    PROVE  CutAfter(input, from, i)
BY Sizes DEF CutAfter, ContentCut

(* No chunk is longer than MaxSize. *)
LEMMA ChunkLength ==
    ASSUME NEW from \in Nat, NEW to \in Nat, \A i \in from + 1..to - 1 : ~CutAfter(input, from, i)
    PROVE  to - from <= MaxSize
<1> SUFFICES ASSUME to - from > MaxSize PROVE FALSE
  BY Sizes
<1>1. MaxSize \in Nat \ {0}
  BY Sizes
<1>2. from + MaxSize \in from + 1..to - 1 /\ (from + MaxSize) - from = MaxSize
  BY <1>1
<1>3. CutAfter(input, from, from + MaxSize)
  BY <1>2 DEF CutAfter
<1> QED
  BY <1>2, <1>3

(* The chunks stay as they are when a byte is read: the boundary is found  *)
(* where chunking cuts, and not where it does not.                         *)
LEMMA ReadByteChunks ==
    ASSUME SplitTypes, RingInv, ReadByte, next' = next, NEW e, Chunked(e)
    PROVE  SplitTypes' /\ Chunked(e)'
<1> DEFINE from == e[next]
           b == input[consumed + 1]
<1>0. /\ consumed \in Nat /\ consumed + 1 \in 1..Len(input) /\ Len(input) \in 0..MaxLength
      /\ MaxLength \in Nat /\ next \in Nat /\ next = buf /\ buf \in Buffers
      /\ consumed' = consumed + 1 /\ input' = input /\ buf' = buf /\ input \in Seq(Bytes)
      /\ memory' = [memory EXCEPT ![next] = Append(@, b)] /\ memory \in [Buffers -> Seq(Bytes)]
      /\ b \in Bytes /\ split = "read"
  <2>1. consumed + 1 \in 1..Len(input) /\ input \in Seq(Bytes)
    BY DEF SplitTypes, ReadByte
  <2>2. b \in Bytes
    BY <2>1, ElementOfSeq
  <2> QED
    BY <2>1, <2>2, Sizes DEF SplitTypes, ReadByte, Buffers
<1>1. /\ e \in [0..next -> 0..consumed] /\ from \in 0..consumed /\ from \in Nat
      /\ e \in [0..next -> 0..consumed']
  BY <1>0 DEF Chunked
<1>2. /\ memory[next] \in Seq(Bytes)
      /\ memory'[next] = Append(memory[next], b) /\ memory'[next] \in Seq(Bytes)
      /\ memory' \in [Buffers -> Seq(Bytes)]
      /\ \A k \in Buffers \ {next} : memory'[k] = memory[k]
  <2>1. Append(memory[next], b) \in Seq(Bytes)
    BY <1>0, AppendProperties
  <2> QED
    BY <1>0, <2>1
<1>3. SplitTypes'
  <2>1. split' \in {"read", "emit", "ok", "failed"}
    BY DEF ReadByte
  <2> QED
    BY <1>0, <1>2, <2>1 DEF SplitTypes
<1>4. RingInv'
  BY RingStep
<1>5. memory'[next] = SubSeq(input, from + 1, consumed + 1)
  <2>1. from + 1 \in 1..Len(input) /\ consumed \in (from + 1) - 1..Len(input) - 1
    BY <1>0, <1>1
  <2>2. memory[next] = SubSeq(input, from + 1, consumed)
    BY DEF Chunked
  <2>3. SubSeq(input, from + 1, consumed + 1) = Append(SubSeq(input, from + 1, consumed), b)
    BY <1>0, <2>1, PartGrows
  <2> QED
    BY <1>2, <2>2, <2>3
<1>6. Len(memory'[next]) = consumed' - from
  <2>1. from + 1 \in 1..Len(input) + 1 /\ consumed + 1 \in (from + 1) - 1..Len(input)
    BY <1>0, <1>1
  <2>2. Len(SubSeq(input, from + 1, consumed + 1)) = (consumed + 1) - (from + 1) + 1
    BY <1>0, <2>1, Part
  <2> QED
    BY <1>0, <1>1, <1>5, <2>2
(* No cut was due before this byte. *)
<1>7. \A i \in from + 1..consumed' - 1 : ~CutAfter(input, from, i)
  <2> TAKE i \in from + 1..consumed' - 1
  <2>1. CASE i = consumed
    <3>1. consumed # from /\ consumed # Len(input)
      BY <1>0, <1>1, <2>1
    <3>2. ~ContentCut(from, consumed)
      BY <1>0, <3>1 DEF Chunked
    <3>3. consumed - from <= MaxSize
      BY <1>0, <1>1, <3>2, Sizes DEF ContentCut
    <3> QED
      BY <1>0, <1>1, <2>1, <3>1, <3>2, <3>3, CutInside
  <2>2. CASE i # consumed
    <3>1. i \in from + 1..consumed - 1
      BY <1>0, <1>1, <2>2
    <3> QED
      BY <3>1 DEF Chunked
  <2> QED
    BY <2>1, <2>2
<1>8. Boundary(rolling', consumed' - from) <=> ContentCut(from, consumed')
  BY <1>0, <1>1, <1>4, BoundaryIsCut
<1>9. split' = "emit" => from < consumed' /\ CutAfter(input, from, consumed')
  <2> SUFFICES ASSUME split' = "emit" PROVE from < consumed' /\ CutAfter(input, from, consumed')
    OBVIOUS
  <2>1. ContentCut(from, consumed')
    BY <1>0, <1>6, <1>8 DEF ReadByte
  <2>0. consumed' \in Nat
    BY <1>0
  <2>2. consumed' - from <= MaxSize /\ consumed' \in Nat
    BY <1>1, <1>7, <2>0, ChunkLength
  <2> QED
    BY <1>0, <1>1, <2>1, <2>2, ContentCutIsCut
<1>10. split' = "read" => ~ContentCut(from, consumed')
  BY <1>0, <1>6, <1>8 DEF ReadByte
<1>11. split' # "ok"
  BY DEF ReadByte
<1>12. \A k \in 1..next : memory'[k - 1] = memory[k - 1]
  <2>1. \A k \in 1..next : k - 1 \in Buffers \ {next}
    BY <1>0 DEF Buffers
  <2> QED
    BY <1>2, <2>1
<1> QED
  BY <1>0, <1>1, <1>3, <1>5, <1>7, <1>9, <1>10, <1>11, <1>12 DEF Chunked, NextCut, ContentCut

(* The end of the input cuts what is left. *)
LEMMA EndOfInputChunks ==
    ASSUME SplitTypes, RingInv, EndOfInput, next' = next, NEW e, Chunked(e)
    PROVE  SplitTypes' /\ RingInv' /\ Chunked(e)'
<1> DEFINE from == e[next]
<1>0. /\ consumed \in Nat /\ consumed = Len(input) /\ next \in Nat /\ split = "read"
      /\ split' = IF memory[next] = <<>> THEN "ok" ELSE "emit"
      /\ UNCHANGED <<input, consumed, rolling, memory, buf>>
      /\ from \in 0..consumed /\ memory[next] = SubSeq(input, from + 1, consumed)
      /\ input \in Seq(Bytes)
  BY DEF SplitTypes, EndOfInput, Chunked, Buffers
<1>1. SplitTypes'
  BY <1>0 DEF SplitTypes
<1>2. RingInv'
  BY <1>0 DEF RingInv
<1>3. memory[next] = <<>> <=> from = consumed
  <2>1. from + 1 \in 1..Len(input) + 1 /\ consumed \in (from + 1) - 1..Len(input)
    BY <1>0
  <2>2. Len(memory[next]) = consumed - (from + 1) + 1 /\ memory[next] \in Seq(Bytes)
    BY <1>0, <2>1, Part
  <2>3. Len(memory[next]) = consumed - from
    BY <1>0, <2>2
  <2>4. memory[next] = <<>> <=> Len(memory[next]) = 0
    BY <2>2, EmptySeq
  <2> QED
    BY <1>0, <2>3, <2>4
<1>4. split' = "emit" => from < consumed /\ CutAfter(input, from, consumed)
  BY <1>0, <1>3 DEF CutAfter
<1>5. split' = "ok" => consumed = Len(input) /\ from = consumed
  BY <1>0, <1>3
<1>6. split' # "read"
  BY <1>0
<1> QED
  BY <1>0, <1>1, <1>2, <1>4, <1>5, <1>6 DEF Chunked, NextCut

LEMMA ReadFailsChunks ==
    ASSUME SplitTypes, RingInv, ReadFails, next' = next, NEW e, Chunked(e)
    PROVE  SplitTypes' /\ RingInv' /\ Chunked(e)'
<1>0. split' = "failed" /\ UNCHANGED <<input, consumed, rolling, memory, buf>>
  BY DEF ReadFails
<1> QED
  BY <1>0 DEF SplitTypes, RingInv, Chunked, NextCut

(* A buffer that is handed over ends a chunk, and the next one is empty. *)
LEMMA EmittedChunks ==
    ASSUME SplitTypes, RingInv, Emitted, next' = next + 1, NEW e, Chunked(e)
    PROVE  /\ SplitTypes' /\ RingInv' /\ \E f : Chunked(f)'
           /\ next \in Positions /\ memory[next] # <<>>
           /\ \A k \in 0..next : memory'[k] = memory[k]
<1> DEFINE from == e[next]
<1>0. /\ consumed \in Nat /\ consumed <= Len(input) /\ Len(input) \in Nat
      /\ Len(input) <= MaxLength /\ MaxLength \in Nat
      /\ next \in Nat /\ next = buf /\ split = "emit" /\ split' = "read"
      /\ UNCHANGED <<input, consumed, rolling>> /\ input \in Seq(Bytes)
      /\ buf' = next + 1 /\ memory' = [memory EXCEPT ![next + 1] = <<>>]
      /\ memory \in [Buffers -> Seq(Bytes)]
  BY Sizes DEF SplitTypes, Emitted, FreshBuffer, Buffers
<1>1. /\ e \in [0..next -> 0..consumed] /\ from \in 0..consumed /\ next <= from
      /\ from < consumed /\ NextCut(from, consumed)
      /\ memory[next] = SubSeq(input, from + 1, consumed)
  BY <1>0 DEF Chunked, NextCut
<1>2. next + 1 <= consumed /\ next + 1 \in Buffers /\ next \in Positions
  BY <1>0, <1>1 DEF Buffers, Positions
<1>3. /\ memory' \in [Buffers -> Seq(Bytes)] /\ memory'[next + 1] = <<>>
      /\ \A k \in 0..next : memory'[k] = memory[k]
  <2>1. <<>> \in Seq(Bytes)
    BY EmptySeq
  <2>2. \A k \in 0..next : k \in Buffers /\ k # next + 1
    BY <1>0, <1>2 DEF Buffers
  <2> QED
    BY <1>0, <1>2, <2>1, <2>2
<1>4. SplitTypes'
  BY <1>0, <1>2, <1>3 DEF SplitTypes
<1>5. RingInv'
  BY <1>0 DEF RingInv
<1>6. memory[next] # <<>>
  <2>1. from + 1 \in 1..Len(input) + 1 /\ consumed \in (from + 1) - 1..Len(input)
    BY <1>0, <1>1
  <2>2. Len(memory[next]) = consumed - (from + 1) + 1
    BY <1>0, <1>1, <2>1, Part
  <2>3. Len(memory[next]) # 0
    BY <1>0, <1>1, <2>2
  <2> QED
    BY <2>3, EmptySeq
<1>7. PICK f : /\ f \in [0..next + 1 -> 0..consumed] /\ f[0] = 0 /\ f[next + 1] = consumed
               /\ \A k \in 0..next : f[k] = e[k]
  <2> DEFINE g == [k \in 0..next + 1 |-> IF k = next + 1 THEN consumed ELSE e[k]]
  <2>1. e[0] = 0
    BY DEF Chunked
  <2>2. /\ g \in [0..next + 1 -> 0..consumed] /\ g[0] = 0 /\ g[next + 1] = consumed
        /\ \A k \in 0..next : g[k] = e[k]
    BY <1>0, <1>1, <2>1
  <2> QED
    BY <2>2
<1>8. \A k \in 0..next + 1 : k <= f[k]
  <2>1. \A k \in 0..next : k <= e[k]
    BY DEF Chunked
  <2> QED
    BY <1>0, <1>2, <1>7, <2>1
<1>9. ASSUME NEW k \in 1..next + 1
      PROVE  /\ f[k - 1] < f[k] /\ NextCut(f[k - 1], f[k])
             /\ memory'[k - 1] = SubSeq(input, f[k - 1] + 1, f[k])
  <2>1. CASE k = next + 1
    <3>1. k - 1 = next /\ next \in 0..next
      BY <1>0, <2>1
    <3>2. f[k - 1] = from /\ f[k] = consumed /\ memory'[k - 1] = memory[next]
      BY <1>3, <1>7, <2>1, <3>1
    <3> QED
      BY <1>1, <3>2
  <2>2. CASE k # next + 1
    <3>1. k \in 1..next /\ k \in 0..next /\ k - 1 \in 0..next
      BY <1>0, <2>2
    <3>2. f[k - 1] = e[k - 1] /\ f[k] = e[k] /\ memory'[k - 1] = memory[k - 1]
      BY <1>3, <1>7, <3>1
    <3> QED
      BY <3>1, <3>2 DEF Chunked
  <2> QED
    BY <2>1, <2>2
<1>10. SubSeq(input, consumed + 1, consumed) = <<>>
  BY <1>0, SubSeqEmpty
<1>11. Chunked(f)'
  <2>1. next' = next + 1 /\ f[next'] = consumed /\ consumed' = consumed /\ input' = input
    BY <1>0, <1>7
  <2>2. \A i \in f[next'] + 1..consumed' - 1 : FALSE
    BY <1>0, <2>1
  <2>3. memory'[next'] = SubSeq(input', f[next'] + 1, consumed')
    BY <1>3, <1>10, <2>1
  <2>4. f \in [0..next' -> 0..consumed'] /\ f[0] = 0 /\ \A k \in 0..next' : k <= f[k]
    BY <1>7, <1>8, <2>1
  <2>5. \A k \in 1..next' : /\ f[k - 1] < f[k] /\ NextCut(f[k - 1], f[k])'
                            /\ memory'[k - 1] = SubSeq(input', f[k - 1] + 1, f[k])
    BY <1>9, <2>1 DEF NextCut
  <2>6. split' = "read" /\ consumed' = f[next']
    BY <1>0, <2>1
  <2> QED
    BY <2>2, <2>3, <2>4, <2>5, <2>6 DEF Chunked
<1> QED
  BY <1>2, <1>3, <1>4, <1>5, <1>6, <1>11

(* Before anything is read *)
LEMMA SplitStart ==
    ASSUME SplitInit, next = 0 PROVE SplitInv
<1> DEFINE e == [k \in 0..0 |-> 0]
<1>0. /\ input \in Streams /\ consumed = 0 /\ buf = 0 /\ split = "read"
      /\ rolling = [window |-> <<>>, pos |-> 0, fingerprint |-> {}]
      /\ memory = [b \in Buffers |-> <<>>] /\ <<>> \in Seq(Bytes) /\ Len(<<>>) = 0
      /\ 0 \in Buffers /\ Window \in Nat \ {0} /\ {} \in Words
  BY Sizes, EmptySeq DEF SplitInit, Buffers
<1>1. input \in Seq(Bytes) /\ Len(input) \in 0..MaxLength
  <2>1. PICK n \in 0..MaxLength : input \in [1..n -> Bytes]
    BY <1>0 DEF Streams
  <2>2. n \in Nat
    BY <2>1, Sizes
  <2>3. input \in Seq(Bytes) /\ DOMAIN input = 1..n
    BY <2>1, <2>2, SeqDef
  <2>4. Len(input) = n
    BY <2>2, <2>3, LenProperties
  <2> QED
    BY <2>1, <2>3, <2>4
<1>2. SplitTypes
  BY <1>0, <1>1, Sizes DEF SplitTypes
<1>3. SubSeq(input, 1, 0) = <<>>
  BY SubSeqEmpty
<1>4. RingInv
  BY <1>0, <1>3, HashEmpty DEF RingInv
<1>5. Chunked(e)
  BY <1>0, <1>3 DEF Chunked
<1> QED
  BY <1>2, <1>4, <1>5 DEF SplitInv

-----------------------------------------------------------------------------
(* The workers and the channels *)

Job == [sequence : Positions, data : Buffers]
Result == [sequence : Positions, ref : Seq(Bytes), failed : BOOLEAN]

(* A job and its result are about a chunk that was emitted. *)
GoodJob(j) == j \in Job /\ j.sequence < next /\ j.data = j.sequence
GoodResult(r) == r \in Result /\ r.sequence < next /\ r.ref = memory[r.sequence]

HandInv ==
    /\ jobs \in Seq(Job) /\ Len(jobs) <= Capacity
    /\ \A i \in DOMAIN jobs : GoodJob(jobs[i])
    /\ results \in Seq(Result) /\ Len(results) <= Capacity
    /\ \A i \in DOMAIN results : GoodResult(results[i])
    /\ wpc \in [Workers -> {"receive", "put", "send", "done"}]
    /\ held \in [Workers -> Job \union Result \union {Nothing}]
    /\ \A w \in Workers : /\ wpc[w] = "put" => GoodJob(held[w])
                          /\ wpc[w] = "send" => GoodResult(held[w])
                          /\ wpc[w] \in {"receive", "done"} => held[w] = Nothing
    /\ refs \in [Positions -> Seq(Bytes)]
    /\ \A s \in Positions : refs[s] # NoRef => s < next /\ refs[s] = memory[s]

(* The order in which the goroutines end *)
PhaseInv ==
    /\ {jobsClosed, resultsClosed, putErr} \subseteq BOOLEAN
    /\ outcome \in {"none", "stored", "failed"}
    /\ jobsClosed => split \in {"ok", "failed"}
    /\ \A w \in Workers : wpc[w] = "done" => jobsClosed /\ jobs = <<>>
    /\ resultsClosed => jobsClosed /\ \A w \in Workers : wpc[w] = "done"
    /\ outcome # "none" => resultsClosed /\ results = <<>>
    /\ outcome = "stored" => split = "ok" /\ ~putErr

(* A chunk that was emitted waits, is with a worker, has a result that     *)
(* waits, or a reference, unless some put failed.                          *)
Accounted(s) ==
    \/ \E i \in DOMAIN jobs : jobs[i].sequence = s
    \/ \E w \in Workers : wpc[w] \in {"put", "send"} /\ held[w].sequence = s
    \/ \E i \in DOMAIN results : results[i].sequence = s
    \/ refs[s] # NoRef

NothingLost == putErr \/ \A s \in 0..next - 1 : Accounted(s)

PipelineInv == SplitInv /\ HandInv /\ PhaseInv /\ NothingLost

(* Without workers the channels have no room. *)
LEMMA Capacities ==
    /\ Capacity \in Nat /\ MaxLength \in Nat
    /\ Workers = {} => Capacity = 0
<1>1. Cardinality(Workers) \in Nat /\ Cardinality({}) = 0
  BY PipelineAssumption, FS_CardinalityType, FS_EmptySet
<1> QED
  BY <1>1, Sizes DEF Capacity

(* Every step keeps what is known of the splitter, and the chunks that     *)
(* were emitted.                                                           *)
LEMMA StepSplit ==
    ASSUME SplitInv, [Next]_vars
    PROVE  /\ SplitInv' /\ next \in Nat /\ next' \in {next, next + 1}
           /\ \A s \in 0..next - 1 : memory'[s] = memory[s]
<1>1. PICK e : Chunked(e)
  BY DEF SplitInv
<1>2. SplitTypes /\ RingInv /\ next \in Nat /\ next = buf /\ \A s \in 0..next - 1 : s # buf
  BY DEF SplitInv, SplitTypes, Buffers
<1>3. CASE Split
  <2>1. CASE ReadByte
    <3>1. next' = next /\ memory' = [memory EXCEPT ![buf] = Append(@, input[consumed + 1])]
      BY <1>3, <2>1 DEF Split, ReadByte
    <3>2. SplitTypes' /\ Chunked(e)'
      BY <1>1, <1>2, <2>1, <3>1, ReadByteChunks
    <3>3. RingInv'
      BY <1>2, <2>1, RingStep
    <3>4. memory \in [Buffers -> Seq(Bytes)] /\ \A s \in 0..next - 1 : s \in Buffers
      BY <1>2, Sizes DEF SplitTypes, Buffers
    <3> QED
      BY <1>2, <3>1, <3>2, <3>3, <3>4 DEF SplitInv
  <2>2. CASE EndOfInput
    <3>1. next' = next /\ memory' = memory
      BY <1>3, <2>2 DEF Split, EndOfInput
    <3>2. SplitTypes' /\ RingInv' /\ Chunked(e)'
      BY <1>1, <1>2, <2>2, <3>1, EndOfInputChunks
    <3> QED
      BY <1>2, <3>1, <3>2 DEF SplitInv
  <2>3. CASE ReadFails
    <3>1. next' = next /\ memory' = memory
      BY <1>3, <2>3 DEF Split, ReadFails
    <3>2. SplitTypes' /\ RingInv' /\ Chunked(e)'
      BY <1>1, <1>2, <2>3, <3>1, ReadFailsChunks
    <3> QED
      BY <1>2, <3>1, <3>2 DEF SplitInv
  <2> QED
    BY <1>3, <2>1, <2>2, <2>3 DEF Split, SplitStep
<1>4. CASE Emit
  <2>1. Emitted /\ next' = next + 1
    BY <1>4 DEF Emit
  <2>2. SplitTypes' /\ RingInv' /\ (\E f : Chunked(f)') /\ \A k \in 0..next : memory'[k] = memory[k]
    BY <1>1, <1>2, <2>1, EmittedChunks
  <2> QED
    BY <1>2, <2>1, <2>2 DEF SplitInv
<1>5. CASE UNCHANGED <<splitVars, next>>
  <2>1. UNCHANGED <<input, consumed, rolling, memory, buf, split, next>>
    BY <1>5 DEF splitVars
  <2>2. SplitTypes' /\ RingInv' /\ Chunked(e)'
    BY <1>1, <1>2, <2>1 DEF SplitTypes, RingInv, Chunked, NextCut, ContentCut
  <2> QED
    BY <1>2, <2>1, <2>2 DEF SplitInv
<1>6. Split \/ Emit \/ UNCHANGED <<splitVars, next>>
  BY DEF Next, WorkerStep, CloseJobs, CloseResults, Collect, Return, Returned, Receive, Put, Send,
     WorkerDone, vars, caller
<1> QED
  BY <1>3, <1>4, <1>5, <1>6

(* What is good about a job or a result stays good: a later step of the    *)
(* splitter does not write into the buffer of an emitted chunk.            *)
LEMMA Kept ==
    ASSUME SplitInv, [Next]_vars
    PROVE  /\ \A j : GoodJob(j) => j \in Job /\ j.sequence < next' /\ j.data = j.sequence
           /\ \A r : GoodResult(r) => r \in Result /\ r.sequence < next' /\ r.ref = memory'[r.sequence]
           /\ \A s \in Positions : s < next => s < next' /\ memory'[s] = memory[s]
<1>1. next \in Nat /\ next' \in {next, next + 1} /\ \A s \in 0..next - 1 : memory'[s] = memory[s]
  BY StepSplit
<1>2. \A s \in Positions : s \in Nat
  BY Capacities DEF Positions
<1>3. \A s \in Positions : s < next => s < next' /\ memory'[s] = memory[s]
  BY <1>1, <1>2
<1> QED
  BY <1>3 DEF GoodJob, GoodResult, Job, Result

(* A reference that is missing is the empty buffer. *)
LEMMA EmptyBuffer == <<>> \in Seq(Bytes) /\ NoRef = <<>>
BY EmptySeq DEF NoRef

(* Emitted chunks are not empty, and are parts of the input. *)
LEMMA EmittedChunk ==
    ASSUME SplitInv
    PROVE  \A s \in 0..next : /\ memory[s] \in Streams /\ Len(memory[s]) <= MaxSize
                              /\ s < next => memory[s] # <<>>
<1>1. PICK e : Chunked(e)
  BY DEF SplitInv
<1>0. /\ next \in Nat /\ input \in Seq(Bytes) /\ Len(input) \in Nat /\ Len(input) <= MaxLength
      /\ MaxLength \in Nat /\ consumed \in 0..Len(input)
  BY Sizes DEF SplitInv, SplitTypes, Buffers
<1>2. e \in [0..next -> 0..consumed]
  BY <1>1 DEF Chunked
<1>3. ASSUME NEW from \in 0..consumed, NEW to \in from..consumed,
             \A i \in from + 1..to - 1 : ~CutAfter(input, from, i)
      PROVE  LET m == SubSeq(input, from + 1, to)
             IN  m \in Streams /\ Len(m) <= MaxSize /\ (from < to => m # <<>>)
  <2> DEFINE m == SubSeq(input, from + 1, to)
  <2>0. from \in Nat /\ to \in Nat /\ from + 1 \in 1..Len(input) + 1 /\ to \in (from + 1) - 1..Len(input)
    BY <1>0
  <2>1. m \in Seq(Bytes) /\ Len(m) = to - (from + 1) + 1
    BY <1>0, <2>0, Part
  <2>6. to - from <= MaxSize
    BY <1>3, <2>0, ChunkLength
  <2>2. Len(m) = to - from /\ Len(m) \in 0..MaxLength /\ to - from <= MaxSize
    BY <1>0, <2>0, <2>1, <2>6
  <2>3. m \in [1..Len(m) -> Bytes]
    BY <2>1, LenProperties
  <2>4. m \in Streams
    BY <2>2, <2>3 DEF Streams
  <2>5. from < to => m # <<>>
    BY <2>0, <2>2, EmptySeq
  <2> QED
    BY <2>2, <2>4, <2>5
<1>4. ASSUME NEW s \in 0..next
      PROVE  memory[s] \in Streams /\ Len(memory[s]) <= MaxSize /\ (s < next => memory[s] # <<>>)
  <2>1. CASE s < next
    <3>1. s + 1 \in 1..next /\ (s + 1) - 1 = s /\ s + 1 \in 0..next
      BY <1>0, <2>1
    <3>2. e[s] < e[s + 1] /\ NextCut(e[s], e[s + 1]) /\ memory[s] = SubSeq(input, e[s] + 1, e[s + 1])
      BY <1>1, <3>1 DEF Chunked
    <3>3. e[s] \in 0..consumed /\ e[s + 1] \in e[s]..consumed
      BY <1>0, <1>2, <3>1, <3>2
    <3> QED
      BY <1>3, <3>2, <3>3 DEF NextCut
  <2>2. CASE s = next
    <3>1. /\ memory[s] = SubSeq(input, e[next] + 1, consumed)
          /\ \A i \in e[next] + 1..consumed - 1 : ~CutAfter(input, e[next], i)
      BY <1>1, <2>2 DEF Chunked
    <3>2. e[next] \in 0..consumed /\ consumed \in e[next]..consumed
      BY <1>0, <1>2
    <3>3. memory[s] \in Streams /\ Len(memory[s]) <= MaxSize
      BY <1>3, <3>1, <3>2
    <3> QED
      BY <1>0, <2>2, <3>3
  <2> QED
    BY <1>0, <2>1, <2>2
<1> QED
  BY <1>4

-----------------------------------------------------------------------------
(* Sending and receiving *)

(* A channel with one message more, and with one message less *)
LEMMA Sent ==
    ASSUME NEW S, NEW s \in Seq(S), NEW x \in S
    PROVE  /\ Append(s, x) \in Seq(S) /\ Len(Append(s, x)) = Len(s) + 1 /\ Len(s) \in Nat
           /\ \A i \in DOMAIN s : i \in DOMAIN Append(s, x) /\ Append(s, x)[i] = s[i]
           /\ Len(s) + 1 \in DOMAIN Append(s, x) /\ Append(s, x)[Len(s) + 1] = x
           /\ \A i \in DOMAIN Append(s, x) :
                 \/ i \in DOMAIN s /\ Append(s, x)[i] = s[i]
                 \/ Append(s, x)[i] = x
<1>1. /\ Append(s, x) \in Seq(S) /\ Len(Append(s, x)) = Len(s) + 1
      /\ \A i \in 1..Len(s) : Append(s, x)[i] = s[i]
      /\ Append(s, x)[Len(s) + 1] = x
  BY AppendProperties
<1>2. DOMAIN s = 1..Len(s) /\ Len(s) \in Nat /\ DOMAIN Append(s, x) = 1..Len(s) + 1
  BY <1>1, LenProperties
<1> QED
  BY <1>1, <1>2

LEMMA Received ==
    ASSUME NEW S, NEW s \in Seq(S), s # <<>>
    PROVE  /\ Tail(s) \in Seq(S) /\ Head(s) \in S /\ Len(Tail(s)) = Len(s) - 1 /\ Len(s) \in Nat
           /\ 1 \in DOMAIN s /\ Head(s) = s[1]
           /\ \A i \in DOMAIN Tail(s) : i + 1 \in DOMAIN s /\ Tail(s)[i] = s[i + 1]
           /\ \A i \in DOMAIN s : i = 1 \/ (i - 1 \in DOMAIN Tail(s) /\ Tail(s)[i - 1] = s[i])
<1>1. /\ Tail(s) \in Seq(S) /\ Head(s) \in S /\ Len(Tail(s)) = Len(s) - 1
      /\ \A i \in 1..Len(Tail(s)) : Tail(s)[i] = s[i + 1]
      /\ Head(s) = s[1]
  BY HeadTailProperties
<1>2. DOMAIN s = 1..Len(s) /\ Len(s) \in Nat /\ DOMAIN Tail(s) = 1..Len(s) - 1 /\ Len(s) # 0
  BY <1>1, LenProperties, EmptySeq
<1>3. \A i \in DOMAIN s : i = 1 \/ (i - 1 \in DOMAIN Tail(s) /\ Tail(s)[i - 1] = s[i])
  <2> SUFFICES ASSUME NEW i \in 1..Len(s), i # 1
               PROVE  i - 1 \in DOMAIN Tail(s) /\ Tail(s)[i - 1] = s[i]
    BY <1>2
  <2>1. i - 1 \in 1..Len(Tail(s)) /\ (i - 1) + 1 = i
    BY <1>1, <1>2
  <2> QED
    BY <1>1, <1>2, <2>1
<1> QED
  BY <1>1, <1>2, <1>3

(* A channel without room for a message *)
LEMMA NoneLeft ==
    ASSUME NEW S, NEW s \in Seq(S), Len(s) <= 0 PROVE s = <<>>
BY EmptySeq

(* A worker without a job or a result has neither. *)
LEMMA RecordsDiffer ==
    /\ Nothing \notin Job /\ Nothing \notin Result
    /\ \A s \in Positions : s \in Nat /\ s < MaxLength
<1>1. \A s \in Positions : s \in Nat /\ s < MaxLength
  BY Capacities DEF Positions
<1>2. Nothing.sequence = MaxLength /\ MaxLength \notin Positions
  BY <1>1, Capacities DEF Nothing
<1> QED
  BY <1>1, <1>2 DEF Job, Result

-----------------------------------------------------------------------------
(* What is handed from one goroutine to the next *)

(* Every step keeps what the goroutines hand to each other. *)
LEMMA StepHand ==
    ASSUME SplitInv, HandInv, PhaseInv, [Next]_vars PROVE HandInv'
<1>0. /\ SplitInv' /\ next \in Nat /\ next' \in {next, next + 1} /\ Capacity \in Nat
  BY StepSplit, Capacities
<1>1. /\ \A j : GoodJob(j) => j \in Job /\ j.sequence < next' /\ j.data = j.sequence
      /\ \A r : GoodResult(r) => r \in Result /\ r.sequence < next' /\ r.ref = memory'[r.sequence]
      /\ \A s \in Positions : s < next => s < next' /\ memory'[s] = memory[s]
  BY Kept
(* A component that did not change keeps its part. *)
<1>2. jobs' = jobs => /\ jobs' \in Seq(Job) /\ Len(jobs') <= Capacity
                      /\ \A i \in DOMAIN jobs' : GoodJob(jobs[i])'
  BY <1>1 DEF HandInv, GoodJob
<1>3. results' = results => /\ results' \in Seq(Result) /\ Len(results') <= Capacity
                            /\ \A i \in DOMAIN results' : GoodResult(results[i])'
  BY <1>1 DEF HandInv, GoodResult
<1>4. ASSUME NEW w \in Workers, wpc'[w] = wpc[w], held'[w] = held[w]
      PROVE  /\ wpc'[w] = "put" => GoodJob(held[w])'
             /\ wpc'[w] = "send" => GoodResult(held[w])'
             /\ wpc'[w] \in {"receive", "done"} => held'[w] = Nothing
  BY <1>1, <1>4 DEF HandInv, GoodJob, GoodResult
<1>5. UNCHANGED workers => /\ wpc' \in [Workers -> {"receive", "put", "send", "done"}]
                           /\ held' \in [Workers -> Job \union Result \union {Nothing}]
                           /\ \A w \in Workers : wpc'[w] = wpc[w] /\ held'[w] = held[w]
  BY DEF HandInv, workers
<1>6. refs' = refs => /\ refs' \in [Positions -> Seq(Bytes)]
                      /\ \A s \in Positions : refs'[s] # NoRef => s < next' /\ refs'[s] = memory'[s]
  BY <1>1 DEF HandInv
<1>7. CASE Emit
  <2>1. /\ Len(jobs) < Capacity /\ jobs' = Append(jobs, [sequence |-> next, data |-> buf])
        /\ next' = next + 1 /\ Emitted /\ UNCHANGED <<results, workers, refs>>
    BY <1>7 DEF Emit, CallerFrame, collector
  <2>2. next \in Positions /\ buf = next /\ buf \in Buffers
    <3>1. PICK e : Chunked(e)
      BY DEF SplitInv
    <3> QED
      BY <2>1, <3>1, EmittedChunks DEF SplitInv, SplitTypes
  <2> DEFINE j == [sequence |-> next, data |-> buf]
  <2>3. j \in Job /\ j.sequence = next /\ j.data = next
    BY <2>2 DEF Job
  <2>4. jobs \in Seq(Job)
    BY DEF HandInv
  <2> HIDE DEF j
  <2>5. /\ jobs' \in Seq(Job) /\ Len(jobs') <= Capacity
        /\ \A i \in DOMAIN jobs' : (i \in DOMAIN jobs /\ jobs'[i] = jobs[i]) \/ jobs'[i] = j
    <3>1. jobs' = Append(jobs, j)
      BY <2>1 DEF j
    <3>2. Len(jobs') = Len(jobs) + 1 /\ Len(jobs) \in Nat
      BY <2>3, <2>4, <3>1, Sent
    <3> QED
      BY <1>0, <2>1, <2>3, <2>4, <3>1, <3>2, Sent
  <2>6. \A i \in DOMAIN jobs' : GoodJob(jobs[i])'
    <3> TAKE i \in DOMAIN jobs'
    <3>1. CASE i \in DOMAIN jobs /\ jobs'[i] = jobs[i]
      BY <1>1, <3>1 DEF HandInv, GoodJob
    <3>2. CASE jobs'[i] = j
      BY <1>0, <2>1, <2>3, <3>2 DEF GoodJob
    <3> QED
      BY <2>5, <3>1, <3>2
  <2>7. results' = results /\ UNCHANGED workers /\ refs' = refs
    BY <2>1
  <2> QED
    BY <1>3, <1>4, <1>5, <1>6, <2>5, <2>6, <2>7 DEF HandInv, GoodResult, GoodJob
<1>8. ASSUME NEW w \in Workers, Receive(w) PROVE HandInv'
  <2>1. /\ wpc[w] = "receive" /\ jobs # <<>> /\ jobs' = Tail(jobs)
        /\ held' = [held EXCEPT ![w] = Head(jobs)] /\ wpc' = [wpc EXCEPT ![w] = "put"]
        /\ results' = results /\ refs' = refs
    BY <1>8 DEF Receive, collector
  <2>2. jobs \in Seq(Job) /\ Len(jobs) <= Capacity /\ \A i \in DOMAIN jobs : GoodJob(jobs[i])
    BY DEF HandInv
  <2>3. /\ Tail(jobs) \in Seq(Job) /\ Len(Tail(jobs)) = Len(jobs) - 1 /\ Len(jobs) \in Nat
        /\ 1 \in DOMAIN jobs /\ Head(jobs) = jobs[1] /\ Head(jobs) \in Job
        /\ \A i \in DOMAIN Tail(jobs) : i + 1 \in DOMAIN jobs /\ Tail(jobs)[i] = jobs[i + 1]
    BY <2>1, <2>2, Received
  <2>4. /\ jobs' \in Seq(Job) /\ Len(jobs') <= Capacity
        /\ \A i \in DOMAIN jobs' : GoodJob(jobs[i])'
    BY <1>0, <1>1, <2>1, <2>2, <2>3 DEF GoodJob
  <2>5. /\ wpc' \in [Workers -> {"receive", "put", "send", "done"}]
        /\ held' \in [Workers -> Job \union Result \union {Nothing}]
        /\ wpc'[w] = "put" /\ held'[w] = Head(jobs)
        /\ \A v \in Workers \ {w} : wpc'[v] = wpc[v] /\ held'[v] = held[v]
    BY <2>1, <2>3 DEF HandInv
  <2>6. GoodJob(held[w])'
    BY <1>1, <2>2, <2>3, <2>5 DEF GoodJob
  <2>7. \A v \in Workers : /\ wpc'[v] = "put" => GoodJob(held[v])'
                           /\ wpc'[v] = "send" => GoodResult(held[v])'
                           /\ wpc'[v] \in {"receive", "done"} => held'[v] = Nothing
    BY <1>4, <2>5, <2>6
  <2> QED
    BY <1>3, <1>6, <2>1, <2>4, <2>5, <2>7 DEF HandInv
<1>9. ASSUME NEW w \in Workers, Put(w) PROVE HandInv'
  <2>1. PICK f \in {FALSE, PutErrors} :
          held' = [held EXCEPT ![w] = [sequence |-> @.sequence, ref |-> memory[@.data], failed |-> f]]
    BY <1>9 DEF Put
  <2>2. /\ wpc[w] = "put" /\ wpc' = [wpc EXCEPT ![w] = "send"]
        /\ jobs' = jobs /\ results' = results /\ refs' = refs /\ memory' = memory
    BY <1>9 DEF Put, collector, caller, splitVars
  <2>3. GoodJob(held[w]) /\ held[w] \in Job
    BY <2>2 DEF HandInv, GoodJob
  <2> DEFINE r == [sequence |-> held[w].sequence, ref |-> memory[held[w].data], failed |-> f]
  <2>4. r \in Result /\ GoodResult(r)
    <3>1. memory[held[w].data] \in Seq(Bytes)
      BY <2>3 DEF SplitInv, SplitTypes, Job
    <3>2. f \in BOOLEAN
      BY <2>1, PipelineAssumption
    <3> QED
      BY <2>3, <3>1, <3>2 DEF Result, Job, GoodJob, GoodResult
  <2>5. /\ wpc' \in [Workers -> {"receive", "put", "send", "done"}]
        /\ held' \in [Workers -> Job \union Result \union {Nothing}]
        /\ wpc'[w] = "send" /\ held'[w] = r
        /\ \A v \in Workers \ {w} : wpc'[v] = wpc[v] /\ held'[v] = held[v]
    BY <2>1, <2>2, <2>4 DEF HandInv
  <2> HIDE DEF r
  <2>6. GoodResult(held[w])'
    BY <1>1, <2>4, <2>5 DEF GoodResult
  <2>7. \A v \in Workers : /\ wpc'[v] = "put" => GoodJob(held[v])'
                           /\ wpc'[v] = "send" => GoodResult(held[v])'
                           /\ wpc'[v] \in {"receive", "done"} => held'[v] = Nothing
    BY <1>4, <2>5, <2>6
  <2> QED
    BY <1>2, <1>3, <1>6, <2>2, <2>5, <2>7 DEF HandInv
<1>10. ASSUME NEW w \in Workers, Send(w) PROVE HandInv'
  <2>1. /\ wpc[w] = "send" /\ Len(results) < Capacity /\ results' = Append(results, held[w])
        /\ held' = [held EXCEPT ![w] = Nothing] /\ wpc' = [wpc EXCEPT ![w] = "receive"]
        /\ jobs' = jobs /\ refs' = refs
    BY <1>10 DEF Send, collector
  <2>2. /\ results \in Seq(Result) /\ (\A i \in DOMAIN results : GoodResult(results[i]))
        /\ GoodResult(held[w]) /\ held[w] \in Result
    BY <2>1 DEF HandInv, GoodResult
  <2>3. /\ results' \in Seq(Result) /\ Len(results') = Len(results) + 1 /\ Len(results) \in Nat
        /\ \A i \in DOMAIN results' : \/ i \in DOMAIN results /\ results'[i] = results[i]
                                      \/ results'[i] = held[w]
    BY <2>1, <2>2, Sent
  <2>4. Len(results') <= Capacity /\ \A i \in DOMAIN results' : GoodResult(results[i])'
    <3>1. Len(results') <= Capacity
      BY <1>0, <2>1, <2>3
    <3>2. \A i \in DOMAIN results' : GoodResult(results'[i])
      BY <2>2, <2>3
    <3>3. \A i \in DOMAIN results' : GoodResult(results[i])'
      BY <1>1, <3>2 DEF GoodResult
    <3> QED
      BY <3>1, <3>3
  <2>5. /\ wpc' \in [Workers -> {"receive", "put", "send", "done"}]
        /\ held' \in [Workers -> Job \union Result \union {Nothing}]
        /\ wpc'[w] = "receive" /\ held'[w] = Nothing
        /\ \A v \in Workers \ {w} : wpc'[v] = wpc[v] /\ held'[v] = held[v]
    BY <2>1 DEF HandInv
  <2>7. \A v \in Workers : /\ wpc'[v] = "put" => GoodJob(held[v])'
                           /\ wpc'[v] = "send" => GoodResult(held[v])'
                           /\ wpc'[v] \in {"receive", "done"} => held'[v] = Nothing
    BY <1>4, <2>5
  <2> QED
    BY <1>2, <1>6, <2>1, <2>3, <2>4, <2>5, <2>7 DEF HandInv
<1>11. ASSUME NEW w \in Workers, WorkerDone(w) PROVE HandInv'
  <2>1. /\ wpc[w] = "receive" /\ wpc' = [wpc EXCEPT ![w] = "done"]
        /\ jobs' = jobs /\ results' = results /\ held' = held /\ refs' = refs
    BY <1>11 DEF WorkerDone, collector
  <2>2. /\ wpc' \in [Workers -> {"receive", "put", "send", "done"}]
        /\ held' \in [Workers -> Job \union Result \union {Nothing}]
        /\ wpc'[w] = "done" /\ held'[w] = Nothing
        /\ \A v \in Workers \ {w} : wpc'[v] = wpc[v] /\ held'[v] = held[v]
    BY <2>1 DEF HandInv
  <2>3. \A v \in Workers : /\ wpc'[v] = "put" => GoodJob(held[v])'
                           /\ wpc'[v] = "send" => GoodResult(held[v])'
                           /\ wpc'[v] \in {"receive", "done"} => held'[v] = Nothing
    BY <1>4, <2>2
  <2> QED
    BY <1>2, <1>3, <1>6, <2>1, <2>2, <2>3 DEF HandInv
<1>12. CASE Collect
  <2>1. /\ results # <<>> /\ results' = Tail(results) /\ jobs' = jobs /\ UNCHANGED workers
        /\ refs' = IF Head(results).failed THEN refs
                   ELSE [refs EXCEPT ![Head(results).sequence] = Head(results).ref]
        /\ memory' = memory /\ next' = next
    BY <1>12 DEF Collect, caller, splitVars
  <2>2. /\ results \in Seq(Result) /\ Len(results) <= Capacity
        /\ \A i \in DOMAIN results : GoodResult(results[i])
    BY DEF HandInv
  <2>3. /\ Tail(results) \in Seq(Result) /\ Len(Tail(results)) = Len(results) - 1 /\ Len(results) \in Nat
        /\ 1 \in DOMAIN results /\ Head(results) = results[1] /\ Head(results) \in Result
        /\ \A i \in DOMAIN Tail(results) : i + 1 \in DOMAIN results /\ Tail(results)[i] = results[i + 1]
    BY <2>1, <2>2, Received
  <2>4. /\ results' \in Seq(Result) /\ Len(results') <= Capacity
        /\ \A i \in DOMAIN results' : GoodResult(results[i])'
    BY <1>0, <1>1, <2>1, <2>2, <2>3 DEF GoodResult
  <2>5. /\ refs' \in [Positions -> Seq(Bytes)]
        /\ \A s \in Positions : refs'[s] # NoRef => s < next' /\ refs'[s] = memory'[s]
    <3>1. GoodResult(Head(results)) /\ Head(results).sequence \in Positions
          /\ Head(results).ref \in Seq(Bytes)
      BY <2>2, <2>3 DEF Result
    <3>2. refs \in [Positions -> Seq(Bytes)]
          /\ \A s \in Positions : refs[s] # NoRef => s < next /\ refs[s] = memory[s]
      BY DEF HandInv
    <3>3. CASE Head(results).failed
      BY <2>1, <3>2, <3>3
    <3>4. CASE ~Head(results).failed
      BY <2>1, <3>1, <3>2, <3>4 DEF GoodResult
    <3> QED
      BY <3>3, <3>4
  <2> QED
    BY <1>2, <1>4, <1>5, <2>1, <2>4, <2>5 DEF HandInv
<1>13. CASE UNCHANGED <<jobs, results, workers, refs>>
  BY <1>2, <1>3, <1>4, <1>5, <1>6, <1>13 DEF HandInv, GoodJob, GoodResult
<1>14. Split \/ CloseJobs \/ CloseResults \/ Return \/ Returned \/ UNCHANGED vars
         => UNCHANGED <<jobs, results, workers, refs>>
  BY DEF Split, CloseJobs, CloseResults, Return, Returned, vars, CallerFrame, collector
<1> QED
  BY <1>7, <1>8, <1>9, <1>10, <1>11, <1>12, <1>13, <1>14 DEF Next, WorkerStep

(* Every step keeps the order in which they end: no worker is done while   *)
(* there is a job, and results is closed when all of them are done.        *)
LEMMA StepPhase ==
    ASSUME SplitInv, HandInv, PhaseInv, [Next]_vars PROVE PhaseInv'
<1> USE DEF PhaseInv, HandInv
<1>1. CASE Split
  <2>1. split = "read" /\ UNCHANGED <<jobs, jobsClosed, results, resultsClosed, wpc, putErr, outcome>>
    BY <1>1 DEF Split, SplitStep, ReadByte, EndOfInput, ReadFails, CallerFrame, workers, collector
  <2> QED
    BY <2>1
<1>2. CASE Emit
  <2>1. split = "emit" /\ UNCHANGED <<jobsClosed, results, resultsClosed, wpc, putErr, outcome>>
    BY <1>2 DEF Emit, Emitted, CallerFrame, workers, collector
  <2> QED
    BY <2>1
<1>3. CASE CloseJobs
  <2>1. /\ split \in {"ok", "failed"} /\ ~jobsClosed /\ jobsClosed' = TRUE
        /\ UNCHANGED <<split, jobs, results, resultsClosed, wpc, putErr, outcome>>
    BY <1>3 DEF CloseJobs, CallerFrame, workers, collector, splitVars
  <2> QED
    BY <2>1
<1>4. CASE CloseResults
  <2>1. /\ jobsClosed /\ ~resultsClosed /\ (\A w \in Workers : wpc[w] = "done") /\ resultsClosed' = TRUE
        /\ UNCHANGED <<split, jobs, jobsClosed, results, wpc, putErr, outcome>>
    BY <1>4 DEF CloseResults, caller, workers, collector, splitVars
  <2> QED
    BY <2>1
<1>5. CASE Collect
  <2>1. /\ results # <<>> /\ putErr' \in {TRUE, putErr}
        /\ UNCHANGED <<split, jobs, jobsClosed, resultsClosed, wpc, outcome>>
    BY <1>5 DEF Collect, caller, workers, splitVars
  <2> QED
    BY <2>1
<1>6. CASE Return
  <2>1. /\ resultsClosed /\ results = <<>>
        /\ outcome' = IF split = "failed" \/ putErr THEN "failed" ELSE "stored"
        /\ UNCHANGED <<split, jobs, jobsClosed, results, resultsClosed, wpc, putErr>>
    BY <1>6 DEF Return, caller, workers, splitVars
  <2> QED
    BY <2>1
<1>7. ASSUME NEW w \in Workers, WorkerStep(w) PROVE PhaseInv'
  <2>1. UNCHANGED <<split, jobsClosed, resultsClosed, putErr, outcome>>
    BY <1>7 DEF WorkerStep, Receive, Put, Send, WorkerDone, caller, collector, splitVars
  <2>2. wpc[w] # "done" /\ ~resultsClosed /\ outcome = "none"
    BY <1>7 DEF WorkerStep, Receive, Put, Send, WorkerDone
  <2>3. CASE WorkerDone(w)
    <3>1. jobs = <<>> /\ jobsClosed /\ jobs' = jobs /\ wpc' = [wpc EXCEPT ![w] = "done"]
      BY <2>3 DEF WorkerDone
    <3> QED
      BY <2>1, <2>2, <3>1
  <2>4. CASE Receive(w)
    <3>1. jobs # <<>> /\ wpc' = [wpc EXCEPT ![w] = "put"]
      BY <2>4 DEF Receive
    <3> QED
      BY <2>1, <2>2, <3>1
  <2>5. CASE Put(w) \/ Send(w)
    <3>1. jobs' = jobs /\ \E loc \in {"send", "receive"} : wpc' = [wpc EXCEPT ![w] = loc]
      BY <2>5 DEF Put, Send
    <3> QED
      BY <2>1, <2>2, <3>1
  <2> QED
    BY <1>7, <2>3, <2>4, <2>5 DEF WorkerStep
<1>8. CASE UNCHANGED vars
  BY <1>8 DEF vars, caller, workers, collector, splitVars
<1> QED
  BY <1>1, <1>2, <1>3, <1>4, <1>5, <1>6, <1>7, <1>8 DEF Next, Returned

(* A step hands a chunk on, but loses none. *)
LEMMA StepAccounted ==
    ASSUME SplitInv, HandInv, PhaseInv, NothingLost, [Next]_vars PROVE NothingLost'
<1>0. /\ next \in Nat /\ next' \in {next, next + 1}
      /\ jobs \in Seq(Job) /\ results \in Seq(Result)
      /\ wpc \in [Workers -> {"receive", "put", "send", "done"}]
      /\ held \in [Workers -> Job \union Result \union {Nothing}]
      /\ refs \in [Positions -> Seq(Bytes)]
  BY StepSplit DEF HandInv
<1>1. CASE Emit
  <2>1. /\ jobs' = Append(jobs, [sequence |-> next, data |-> buf]) /\ next' = next + 1 /\ Emitted
        /\ UNCHANGED <<results, wpc, held, refs, putErr>>
    BY <1>1 DEF Emit, CallerFrame, collector, workers
  <2>2. next \in Positions /\ buf \in Buffers
    <3>1. PICK e : Chunked(e)
      BY DEF SplitInv
    <3> QED
      BY <2>1, <3>1, EmittedChunks DEF SplitInv, SplitTypes
  <2> DEFINE j == [sequence |-> next, data |-> buf]
  <2>3. j \in Job /\ j.sequence = next
    BY <2>2 DEF Job
  <2> HIDE DEF j
  <2>4. /\ \A i \in DOMAIN jobs : i \in DOMAIN jobs' /\ jobs'[i] = jobs[i]
        /\ Len(jobs) + 1 \in DOMAIN jobs' /\ jobs'[Len(jobs) + 1] = j
    <3>1. jobs' = Append(jobs, j)
      BY <2>1 DEF j
    <3> QED
      BY <1>0, <2>3, <3>1, Sent
  <2>5. \A s \in 0..next - 1 : Accounted(s) => Accounted(s)'
    BY <2>1, <2>4 DEF Accounted
  <2>6. \A s : s = next => Accounted(s)'
    BY <2>3, <2>4 DEF Accounted
  <2>7. \A s \in 0..next' - 1 : s \in 0..next - 1 \/ s = next
    BY <1>0, <2>1
  <2>8. CASE putErr
    BY <2>1, <2>8 DEF NothingLost
  <2>9. CASE \A s \in 0..next - 1 : Accounted(s)
    <3>1. ASSUME NEW s \in 0..next' - 1 PROVE Accounted(s)'
      <4>1. CASE s \in 0..next - 1
        BY <2>5, <2>9, <4>1
      <4>2. CASE s = next
        BY <2>6, <4>2
      <4> QED
        BY <2>7, <4>1, <4>2
    <3> QED
      BY <3>1 DEF NothingLost
  <2> QED
    BY <2>8, <2>9 DEF NothingLost
<1> SUFFICES ASSUME ~Emit, NEW s \in 0..next - 1, Accounted(s), ~putErr'
             PROVE  Accounted(s)'
  <2>1. ~Emit => next' = next
    BY DEF Next, WorkerStep, Split, CloseJobs, CloseResults, Collect, Return, Returned, Receive, Put,
       Send, WorkerDone, vars, caller
  <2>2. putErr' \/ ~putErr
    BY DEF Next, WorkerStep, Split, Emit, CloseJobs, CloseResults, Collect, Return, Returned, Receive, Put,
       Send, WorkerDone, vars, caller, CallerFrame, collector
  <2> QED
    BY <1>1, <2>1, <2>2 DEF NothingLost
<1>2. ASSUME NEW w \in Workers, Receive(w) PROVE Accounted(s)'
  <2>1. /\ wpc[w] = "receive" /\ jobs # <<>> /\ jobs' = Tail(jobs)
        /\ held' = [held EXCEPT ![w] = Head(jobs)] /\ wpc' = [wpc EXCEPT ![w] = "put"]
        /\ results' = results /\ refs' = refs
    BY <1>2 DEF Receive, collector
  <2>2. /\ Head(jobs) = jobs[1]
        /\ \A i \in DOMAIN jobs : i = 1 \/ (i - 1 \in DOMAIN jobs' /\ jobs'[i - 1] = jobs[i])
    BY <1>0, <2>1, Received
  <2>3. /\ wpc'[w] = "put" /\ held'[w] = jobs[1]
        /\ \A v \in Workers \ {w} : wpc'[v] = wpc[v] /\ held'[v] = held[v]
    BY <1>0, <2>1, <2>2
  <2>4. ASSUME NEW i \in DOMAIN jobs, jobs[i].sequence = s PROVE Accounted(s)'
    <3>1. CASE i = 1
      BY <2>3, <2>4, <3>1 DEF Accounted
    <3>2. CASE i - 1 \in DOMAIN jobs' /\ jobs'[i - 1] = jobs[i]
      BY <2>4, <3>2 DEF Accounted
    <3> QED
      BY <2>2, <3>1, <3>2
  <2>5. ASSUME NEW v \in Workers, wpc[v] \in {"put", "send"}, held[v].sequence = s PROVE Accounted(s)'
    BY <2>1, <2>3, <2>5 DEF Accounted
  <2>6. CASE \/ \E i \in DOMAIN results : results[i].sequence = s
             \/ refs[s] # NoRef
    BY <2>1, <2>6 DEF Accounted
  <2> QED
    BY <2>4, <2>5, <2>6 DEF Accounted
<1>3. ASSUME NEW w \in Workers, Put(w) PROVE Accounted(s)'
  <2>1. /\ wpc[w] = "put" /\ wpc' = [wpc EXCEPT ![w] = "send"]
        /\ jobs' = jobs /\ results' = results /\ refs' = refs
        /\ \E f \in {FALSE, PutErrors} :
             held' = [held EXCEPT ![w] = [sequence |-> @.sequence, ref |-> memory[@.data], failed |-> f]]
    BY <1>3 DEF Put, collector
  <2>2. /\ wpc'[w] = "send" /\ held'[w].sequence = held[w].sequence
        /\ \A v \in Workers \ {w} : wpc'[v] = wpc[v] /\ held'[v] = held[v]
    BY <1>0, <2>1
  <2>3. \A v \in Workers : wpc[v] \in {"put", "send"} =>
          wpc'[v] \in {"put", "send"} /\ held'[v].sequence = held[v].sequence
    BY <2>2
  <2> QED
    BY <2>1, <2>3 DEF Accounted
<1>4. ASSUME NEW w \in Workers, Send(w) PROVE Accounted(s)'
  <2>1. /\ wpc[w] = "send" /\ results' = Append(results, held[w])
        /\ held' = [held EXCEPT ![w] = Nothing] /\ wpc' = [wpc EXCEPT ![w] = "receive"]
        /\ jobs' = jobs /\ refs' = refs
    BY <1>4 DEF Send, collector
  <2>2. held[w] \in Result
    BY <2>1 DEF HandInv, GoodResult
  <2>3. /\ \A i \in DOMAIN results : i \in DOMAIN results' /\ results'[i] = results[i]
        /\ Len(results) + 1 \in DOMAIN results' /\ results'[Len(results) + 1] = held[w]
    BY <1>0, <2>1, <2>2, Sent
  <2>4. \A v \in Workers \ {w} : wpc'[v] = wpc[v] /\ held'[v] = held[v]
    BY <1>0, <2>1
  <2>5. ASSUME NEW v \in Workers, wpc[v] \in {"put", "send"}, held[v].sequence = s PROVE Accounted(s)'
    <3>1. CASE v = w
      BY <2>3, <2>5, <3>1 DEF Accounted
    <3>2. CASE v # w
      BY <2>4, <2>5, <3>2 DEF Accounted
    <3> QED
      BY <3>1, <3>2
  <2>6. CASE \/ \E i \in DOMAIN jobs : jobs[i].sequence = s
             \/ \E i \in DOMAIN results : results[i].sequence = s
             \/ refs[s] # NoRef
    BY <2>1, <2>3, <2>6 DEF Accounted
  <2> QED
    BY <2>5, <2>6 DEF Accounted
<1>5. ASSUME NEW w \in Workers, WorkerDone(w) PROVE Accounted(s)'
  <2>1. /\ wpc[w] = "receive" /\ wpc' = [wpc EXCEPT ![w] = "done"]
        /\ jobs' = jobs /\ results' = results /\ held' = held /\ refs' = refs
    BY <1>5 DEF WorkerDone, collector
  <2>2. \A v \in Workers : wpc[v] \in {"put", "send"} => wpc'[v] = wpc[v]
    BY <1>0, <2>1
  <2> QED
    BY <2>1, <2>2 DEF Accounted
<1>6. CASE Collect
  <2>1. /\ results # <<>> /\ results' = Tail(results) /\ UNCHANGED <<jobs, wpc, held, memory, next>>
        /\ ~Head(results).failed
        /\ refs' = [refs EXCEPT ![Head(results).sequence] = Head(results).ref]
    BY <1>6 DEF Collect, caller, splitVars, workers
  <2>2. /\ Head(results) = results[1] /\ 1 \in DOMAIN results /\ Head(results) \in Result
        /\ \A i \in DOMAIN results : i = 1 \/ (i - 1 \in DOMAIN results' /\ results'[i - 1] = results[i])
    BY <1>0, <2>1, Received
  <2>3. GoodResult(results[1])
    BY <2>2 DEF HandInv
  <2>4. /\ results[1].sequence \in Positions /\ results[1].ref # NoRef
    <3>1. results[1].sequence \in 0..next - 1
      BY <1>0, <2>3, RecordsDiffer DEF GoodResult, Result
    <3>2. results[1].ref = memory[results[1].sequence] /\ results[1] \in Result
      BY <2>3 DEF GoodResult
    <3>3. \A k \in 0..next - 1 : memory[k] # <<>>
      <4> TAKE k \in 0..next - 1
      <4>1. k \in 0..next /\ k < next
        BY <1>0
      <4> QED
        BY <4>1, EmittedChunk
    <3> QED
      BY <3>1, <3>2, <3>3 DEF NoRef, Result
  <2>5. /\ refs'[results[1].sequence] # NoRef
        /\ \A t : refs[t] # NoRef /\ t \in Positions => refs'[t] # NoRef
    BY <1>0, <2>1, <2>2, <2>4
  <2>6. s \in Positions
    <3>1. next <= MaxLength
      BY Sizes DEF SplitInv, SplitTypes, Buffers
    <3> QED
      BY <1>0, <3>1, Sizes DEF Positions
  <2>7. ASSUME NEW i \in DOMAIN results, results[i].sequence = s PROVE Accounted(s)'
    <3>1. CASE i = 1
      BY <2>5, <2>7, <3>1 DEF Accounted
    <3>2. CASE i - 1 \in DOMAIN results' /\ results'[i - 1] = results[i]
      BY <2>7, <3>2 DEF Accounted
    <3> QED
      BY <2>2, <3>1, <3>2
  <2>8. CASE \/ \E i \in DOMAIN jobs : jobs[i].sequence = s
             \/ \E v \in Workers : wpc[v] \in {"put", "send"} /\ held[v].sequence = s
             \/ refs[s] # NoRef
    BY <2>1, <2>5, <2>6, <2>8 DEF Accounted
  <2> QED
    BY <2>7, <2>8 DEF Accounted
<1>7. CASE UNCHANGED <<jobs, results, wpc, held, refs>>
  BY <1>7 DEF Accounted
<1>8. Split \/ CloseJobs \/ CloseResults \/ Return \/ Returned \/ UNCHANGED vars
        => UNCHANGED <<jobs, results, wpc, held, refs>>
  BY DEF Split, CloseJobs, CloseResults, Return, Returned, vars, CallerFrame, collector, workers
<1> QED
  BY <1>2, <1>3, <1>4, <1>5, <1>6, <1>7, <1>8 DEF Next, WorkerStep

-----------------------------------------------------------------------------
(* The theorems *)

LEMMA InitPipeline == Init => PipelineInv
<1> SUFFICES ASSUME Init PROVE PipelineInv
  OBVIOUS
<1>1. SplitInv
  BY SplitStart DEF Init
<1>2. /\ <<>> \in Seq(Job) /\ <<>> \in Seq(Result) /\ <<>> \in Seq(Bytes)
      /\ Len(<<>>) = 0 /\ DOMAIN <<>> = {}
  BY EmptySeq
<1>3. HandInv
  BY <1>2, Capacities DEF Init, HandInv, NoRef
<1>4. PhaseInv
  BY DEF Init, PhaseInv
<1>5. NothingLost
  BY DEF Init, NothingLost
<1> QED
  BY <1>1, <1>3, <1>4, <1>5 DEF PipelineInv

LEMMA StepPipeline == PipelineInv /\ [Next]_vars => PipelineInv'
<1> SUFFICES ASSUME PipelineInv, [Next]_vars PROVE PipelineInv'
  OBVIOUS
<1>1. SplitInv /\ HandInv /\ PhaseInv /\ NothingLost
  BY DEF PipelineInv
<1>2. SplitInv'
  BY <1>1, StepSplit
<1>3. HandInv'
  BY <1>1, StepHand
<1>4. PhaseInv'
  BY <1>1, StepPhase
<1>5. NothingLost'
  BY <1>1, StepAccounted
<1> QED
  BY <1>2, <1>3, <1>4, <1>5 DEF PipelineInv

(* Everywhere in a run the ring and its fingerprint describe the last      *)
(* bytes, the buffers hold the chunks that chunking defines, and a chunk   *)
(* that was emitted is somewhere between the jobs channel and the          *)
(* collector, with its place and its bytes.                                *)
THEOREM PipelineInvariant == Spec => []PipelineInv
BY InitPipeline, StepPipeline, PTL DEF Spec

(* No step takes a channel over its capacity, or a buffer over MaxSize.    *)
THEOREM TypesHold == Spec => []TypeOK
<1>1. ASSUME PipelineInv PROVE TypeOK
  <2>1. SplitInv /\ HandInv /\ PhaseInv
    BY <1>1 DEF PipelineInv
  <2>2. /\ input \in Streams /\ consumed \in 0..Len(input) /\ buf \in Buffers /\ next = buf
        /\ split \in {"read", "emit", "ok", "failed"} /\ \A b \in Buffers : b > next => memory[b] = <<>>
    BY <2>1 DEF SplitInv, SplitTypes
  <2>3. /\ Buffers = 0..MaxLength /\ MaxLength \in Nat /\ next \in 0..MaxLength
        /\ Len(<<>>) = 0 /\ <<>> \in Streams
    <3>1. <<>> \in [1..0 -> Bytes]
      OBVIOUS
    <3> QED
      BY <2>2, <3>1, Sizes, EmptySeq DEF Buffers, Streams
  <2>4. \A b \in Buffers : Len(memory[b]) <= MaxSize
    <3> TAKE b \in Buffers
    <3>1. CASE b > next
      BY <2>2, <2>3, <3>1, Sizes
    <3>2. CASE ~(b > next)
      <4>1. b \in 0..next
        BY <2>3, <3>2
      <4> QED
        BY <2>1, <4>1, EmittedChunk
    <3> QED
      BY <3>1, <3>2
  <2>5. /\ Len(rolling.window) <= Window /\ rolling.pos \in 0..Window - 1
        /\ rolling.fingerprint \subseteq 0..WordBits - 1
    <3>1. consumed \in Nat
      BY <2>2
    <3> QED
      BY <2>1, <3>1, Sizes DEF SplitInv, RingInv, Words
  <2>6. SplitTypeOK
    BY <2>2, <2>4, <2>5 DEF SplitTypeOK
  <2>7. \A s \in Positions : s < next => memory[s] \in Streams
    <3> SUFFICES ASSUME NEW s \in Positions, s < next PROVE memory[s] \in Streams
      OBVIOUS
    <3>1. s \in 0..next
      BY <2>3 DEF Positions
    <3> QED
      BY <2>1, <3>1, EmittedChunk
  <2>8. \A i \in DOMAIN results : results[i].ref \in Streams
    BY <2>1, <2>7 DEF HandInv, GoodResult, Result
  <2>9. refs \in [Positions -> Streams]
    <3>1. \A s \in Positions : refs[s] \in Streams
      BY <2>1, <2>3, <2>7 DEF HandInv, NoRef
    <3> QED
      BY <2>1, <3>1 DEF HandInv
  <2>10. \A w \in Workers : held[w].sequence \in Positions \union {MaxLength}
    BY <2>1 DEF HandInv, Job, Result, Nothing
  <2> QED
    BY <2>1, <2>3, <2>6, <2>8, <2>9, <2>10 DEF TypeOK, HandInv, PhaseInv, Job
<1> QED
  BY <1>1, PipelineInvariant, PTL

(* CutsFollowContent: the chunks in the buffers, when the splitter is      *)
(* about to emit one more, are the chunks that chunking defines for what   *)
(* has been read, hashing each window of the input from nothing.           *)
THEOREM CutsAlwaysFollowContent == Spec => []CutsFollowContent
<1>1. ASSUME PipelineInv PROVE CutsFollowContent
  <2> SUFFICES ASSUME split = "emit", buf = next
               PROVE  IsSplit([k \in 1..next + 1 |-> memory[k - 1]], input, consumed)
    BY DEF CutsFollowContent
  <2>1. SplitInv
    BY <1>1 DEF PipelineInv
  <2>2. PICK e : Chunked(e)
    BY <2>1 DEF SplitInv
  <2> DEFINE n == next + 1
             chunks == [k \in 1..n |-> memory[k - 1]]
             f == [k \in 0..n |-> IF k = n THEN consumed ELSE e[k]]
  <2>3. /\ next \in Nat /\ input \in Seq(Bytes) /\ consumed \in 0..Len(input) /\ Len(input) \in Nat
        /\ memory \in [Buffers -> Seq(Bytes)] /\ 0..next \subseteq Buffers
        /\ n \in Nat /\ n - 1 = next /\ consumed \in Nat
    BY <2>1, Sizes DEF SplitInv, SplitTypes, Buffers
  <2>4. /\ e \in [0..next -> 0..consumed] /\ e[0] = 0
        /\ \A k \in 1..next : e[k - 1] < e[k] /\ NextCut(e[k - 1], e[k])
                              /\ memory[k - 1] = SubSeq(input, e[k - 1] + 1, e[k])
        /\ memory[next] = SubSeq(input, e[next] + 1, consumed)
        /\ e[next] < consumed /\ NextCut(e[next], consumed)
    BY <2>2 DEF Chunked, NextCut
  <2>5. chunks \in [1..n -> Seq(Bytes)]
    <3>1. \A k \in 1..n : k - 1 \in 0..next
      BY <2>3
    <3> QED
      BY <2>3, <3>1
  <2>6. f \in [0..n -> Nat] /\ f[0] = 0 /\ f[n] = consumed
    <3>1. \A k \in 0..n : k # n => k \in 0..next
      BY <2>3
    <3> QED
      BY <2>3, <2>4, <3>1
  <2>7. ASSUME NEW k \in 1..n
        PROVE  /\ f[k - 1] \in Nat /\ f[k] \in 0..consumed /\ f[k - 1] < f[k]
               /\ NextCut(f[k - 1], f[k])
               /\ chunks[k] = SubSeq(input, f[k - 1] + 1, f[k])
    <3>1. k - 1 \in 0..next /\ k - 1 \in 0..n /\ k - 1 # n /\ k \in 0..n
      BY <2>3
    <3>2. f[k - 1] = e[k - 1] /\ chunks[k] = memory[k - 1] /\ e[k - 1] \in Nat
      BY <2>3, <2>4, <3>1
    <3>3. CASE k = n
      BY <2>3, <2>4, <2>6, <3>2, <3>3
    <3>4. CASE k # n
      <4>1. k \in 1..next /\ k \in 0..next
        BY <2>3, <3>4
      <4>2. f[k] = e[k]
        BY <3>1, <3>4
      <4> QED
        BY <2>4, <3>2, <4>1, <4>2
    <3> QED
      BY <3>3, <3>4
  <2> HIDE DEF n, chunks, f
  <2>8. ASSUME NEW k \in 1..n PROVE Len(chunks[k]) = f[k] - f[k - 1]
    <3>1. f[k - 1] + 1 \in 1..Len(input) + 1 /\ f[k] \in (f[k - 1] + 1) - 1..Len(input)
      BY <2>3, <2>7
    <3>2. Len(SubSeq(input, f[k - 1] + 1, f[k])) = f[k] - (f[k - 1] + 1) + 1
      BY <2>3, <3>1, Part
    <3>3. f[k] - (f[k - 1] + 1) + 1 = f[k] - f[k - 1]
      BY <2>3, <2>7
    <3>4. chunks[k] = SubSeq(input, f[k - 1] + 1, f[k])
      BY <2>7
    <3> QED
      BY <3>2, <3>3, <3>4, Zenon
  <2>9. \A k \in 1..n : /\ Len(chunks[k]) = f[k] - f[k - 1]
                        /\ chunks[k] = SubSeq(input, f[k - 1] + 1, f[k])
                        /\ CutAfter(input, f[k - 1], f[k])
                        /\ \A i \in f[k - 1] + 1..f[k] - 1 : ~CutAfter(input, f[k - 1], i)
    BY <2>7, <2>8 DEF NextCut
  <2>10. IsSplit(chunks, input, f[n])
    BY <2>3, <2>5, <2>6, <2>9, SplitAtEnds
  <2> QED
    BY <2>6, <2>10 DEF chunks, n
<1> QED
  BY <1>1, PipelineInvariant, PTL

(* OrderRetained: the references of a file that is reported stored are, in *)
(* their places, those of the chunks of its content, whatever the number   *)
(* of workers and the order they finish in.                                *)
THEOREM OrderIsRetained == Spec => []OrderRetained
<1>1. ASSUME PipelineInv PROVE OrderRetained
  <2> SUFFICES ASSUME outcome = "stored"
               PROVE  /\ \A s \in Positions : refs[s] # NoRef <=> s < next
                      /\ IsSplit([k \in 1..next |-> refs[k - 1]], input, Len(input))
    BY DEF OrderRetained
  <2>1. SplitInv /\ HandInv /\ PhaseInv /\ NothingLost
    BY <1>1 DEF PipelineInv
  <2>2. PICK e : Chunked(e)
    BY <2>1 DEF SplitInv
  <2>3. /\ results = <<>> /\ split = "ok" /\ ~putErr
        /\ \A w \in Workers : wpc[w] = "done" /\ jobs = <<>>
    BY <2>1 DEF PhaseInv
  <2>4. jobs = <<>>
    <3>1. CASE Workers = {}
      <4>1. Len(jobs) <= 0 /\ jobs \in Seq(Job)
        BY <2>1, <3>1, Capacities DEF HandInv
      <4>2. Len(jobs) = 0
        BY <4>1, LenProperties
      <4> QED
        BY <4>1, <4>2, EmptySeq
    <3> QED
      BY <2>3, <3>1
  <2>5. /\ next \in Nat /\ input \in Seq(Bytes) /\ Len(input) \in Nat /\ consumed = Len(input)
        /\ memory \in [Buffers -> Seq(Bytes)] /\ 0..next \subseteq Buffers
        /\ \A s \in 0..next - 1 : s \in Positions /\ s < next /\ s \in Buffers
    <3>1. /\ input \in Seq(Bytes) /\ Len(input) \in Nat /\ memory \in [Buffers -> Seq(Bytes)]
          /\ next \in 0..MaxLength /\ MaxLength \in Nat
      BY <2>1, Sizes DEF SplitInv, SplitTypes, Buffers
    <3>2. consumed = Len(input)
      BY <2>2, <2>3 DEF Chunked
    <3>3. 0..next \subseteq Buffers /\ \A s \in 0..next - 1 : s \in Positions /\ s < next /\ s \in Buffers
      BY <3>1 DEF Buffers, Positions
    <3> QED
      BY <3>1, <3>2, <3>3
  <2>6. ASSUME NEW s \in 0..next - 1 PROVE refs[s] # NoRef /\ refs[s] = memory[s]
    <3>1. Accounted(s)
      BY <2>1, <2>3 DEF NothingLost
    <3>2. DOMAIN <<>> = {}
      BY EmptySeq
    <3>3. refs[s] # NoRef
      BY <2>3, <2>4, <3>1, <3>2 DEF Accounted
    <3> QED
      BY <2>1, <2>5, <3>3 DEF HandInv
  <2>7. ASSUME NEW s \in Positions PROVE refs[s] # NoRef <=> s < next
    <3>1. s < next => s \in 0..next - 1
      BY <2>5, Capacities DEF Positions
    <3> QED
      BY <2>1, <2>6, <3>1 DEF HandInv
  <2> DEFINE n == next
             chunks == [k \in 1..n |-> refs[k - 1]]
  <2>8. /\ e \in [0..n -> Nat] /\ e[0] = 0 /\ e[n] = Len(input)
        /\ \A k \in 0..n : e[k] \in 0..Len(input)
        /\ \A k \in 1..n : e[k - 1] < e[k] /\ NextCut(e[k - 1], e[k])
                           /\ memory[k - 1] = SubSeq(input, e[k - 1] + 1, e[k])
    <3>1. e \in [0..next -> 0..consumed] /\ e[0] = 0 /\ e[next] = consumed
      BY <2>2, <2>3 DEF Chunked
    <3>2. \A k \in 1..next : e[k - 1] < e[k] /\ NextCut(e[k - 1], e[k])
                               /\ memory[k - 1] = SubSeq(input, e[k - 1] + 1, e[k])
      BY <2>2 DEF Chunked
    <3> QED
      BY <2>5, <3>1, <3>2
  <2>9. ASSUME NEW k \in 1..n
        PROVE  /\ k \in 0..n /\ k - 1 \in 0..n /\ chunks[k] \in Seq(Bytes)
               /\ chunks[k] = SubSeq(input, e[k - 1] + 1, e[k])
    <3>1. k - 1 \in 0..next - 1 /\ k - 1 \in 0..n /\ k \in 0..n
      BY <2>5
    <3>2. chunks[k] = memory[k - 1] /\ k - 1 \in Buffers
      BY <2>5, <2>6, <3>1
    <3> QED
      BY <2>5, <2>8, <3>1, <3>2
  <2>10. chunks \in [1..n -> Seq(Bytes)]
    BY <2>9
  <2> HIDE DEF chunks
  <2>11. ASSUME NEW k \in 1..n PROVE Len(chunks[k]) = e[k] - e[k - 1]
    <3>1. e[k - 1] < e[k] /\ e[k - 1] \in 0..Len(input) /\ e[k] \in 0..Len(input)
      BY <2>8, <2>9
    <3>2. e[k - 1] + 1 \in 1..Len(input) + 1 /\ e[k] \in (e[k - 1] + 1) - 1..Len(input)
      <4>1. Len(input) \in Nat
        BY <2>5
      <4>2. \A i, j \in 0..Len(input) : i < j => i + 1 \in 1..Len(input) + 1 /\ j \in (i + 1) - 1..Len(input)
        BY <4>1
      <4> QED
        BY <3>1, <4>2
    <3>3. Len(SubSeq(input, e[k - 1] + 1, e[k])) = e[k] - (e[k - 1] + 1) + 1
      BY <2>5, <3>2, Part
    <3>4. e[k] - (e[k - 1] + 1) + 1 = e[k] - e[k - 1]
      BY <3>1
    <3>5. chunks[k] = SubSeq(input, e[k - 1] + 1, e[k])
      BY <2>9
    <3> QED
      BY <3>3, <3>4, <3>5, Zenon
  <2>12. \A k \in 1..n : /\ Len(chunks[k]) = e[k] - e[k - 1]
                         /\ chunks[k] = SubSeq(input, e[k - 1] + 1, e[k])
                         /\ CutAfter(input, e[k - 1], e[k])
                         /\ \A i \in e[k - 1] + 1..e[k] - 1 : ~CutAfter(input, e[k - 1], i)
    BY <2>8, <2>9, <2>11 DEF NextCut
  <2>13. IsSplit(chunks, input, e[n])
    BY <2>5, <2>8, <2>10, <2>12, SplitAtEnds
  <2> QED
    BY <2>7, <2>8, <2>13 DEF chunks
<1> QED
  BY <1>1, PipelineInvariant, PTL

-----------------------------------------------------------------------------
(* Why storeFileChunks returns: until it has, a goroutine can run, and     *)
(* every step leaves less to do                                            *)

At(loc) == {w \in Workers : wpc[w] = loc}
Places == {"receive", "put", "send", "done"}
count == [loc \in Places |-> Cardinality(At(loc))]

(* The guards of the steps *)
SomeoneCanRun ==
    \/ split = "read"
    \/ split = "emit" /\ Len(jobs) < Capacity
    \/ split \in {"ok", "failed"} /\ ~jobsClosed
    \/ jobs # <<>> /\ At("receive") # {}
    \/ jobs = <<>> /\ jobsClosed /\ At("receive") # {}
    \/ At("put") # {}
    \/ At("send") # {} /\ Len(results) < Capacity
    \/ jobsClosed /\ ~resultsClosed /\ \A w \in Workers : wpc[w] = "done"
    \/ results # <<>>
    \/ resultsClosed /\ results = <<>>

NeverStuck == outcome = "none" => SomeoneCanRun

(* The work that is left: the most steps that may still be taken.  A byte  *)
(* may become a chunk, and a chunk takes a receive, a put, a send and a    *)
(* collect.                                                                *)
SplitWork ==
    IF split = "read" THEN IF memory[buf] = <<>> THEN 2 ELSE 9
    ELSE IF split = "emit" THEN 8 ELSE 0

InputWork == 8 * (Len(input) - consumed) + SplitWork

ChannelWork == 4 * Len(jobs) + Len(results)

WorkersWork == 4 * count["put"] + 3 * count["send"] + count["receive"]

EndWork ==
    (IF jobsClosed THEN 0 ELSE 1) + (IF resultsClosed THEN 0 ELSE 1) + (IF outcome = "none" THEN 1 ELSE 0)

Work == InputWork + ChannelWork + WorkersWork + EndWork

WorkRunsOut == [][Work' \in Nat /\ Work' < Work]_vars

(* The call never waits for good: with a worker at least, which is what    *)
(* storeFileChunks is called with, some goroutine can take its next step   *)
(* until the call returns, whatever the channels hold and whatever fails.  *)
THEOREM SomeGoroutineRuns ==
    ASSUME Workers # {}
    PROVE  Spec => []NeverStuck
<1>1. PipelineInv => NeverStuck
  <2> SUFFICES ASSUME PipelineInv, outcome = "none", ~SomeoneCanRun PROVE FALSE
    BY DEF NeverStuck
  <2>1. HandInv /\ PhaseInv /\ split \in {"read", "emit", "ok", "failed"}
    BY DEF PipelineInv, SplitInv, SplitTypes
  <2>2. Capacity \in Nat /\ Capacity # 0
    <3>1. Cardinality(Workers) \in Nat /\ Cardinality(Workers) # 0
      BY PipelineAssumption, FS_CardinalityType, FS_EmptySet
    <3> QED
      BY <3>1 DEF Capacity
  <2>3. results = <<>> /\ ~resultsClosed /\ At("put") = {} /\ split # "read"
    BY DEF SomeoneCanRun
  <2>4. At("send") = {}
    BY <2>2, <2>3, EmptySeq DEF SomeoneCanRun
  <2>5. \A w \in Workers : wpc[w] \in {"receive", "done"}
    BY <2>1, <2>3, <2>4 DEF HandInv, At
  <2>6. CASE split = "emit"
    <3>1. jobs # <<>>
      BY <2>2, <2>6, EmptySeq DEF SomeoneCanRun
    <3>2. \A w \in Workers : wpc[w] = "done"
      BY <2>5, <3>1 DEF SomeoneCanRun, At
    <3> QED
      BY <2>1, <2>6, <3>2 DEF PhaseInv
  <2>7. CASE split \in {"ok", "failed"}
    <3>1. jobsClosed
      BY <2>7 DEF SomeoneCanRun
    <3>2. \A w \in Workers : wpc[w] = "done"
      BY <2>5, <3>1 DEF SomeoneCanRun, At
    <3> QED
      BY <2>3, <3>1, <3>2 DEF SomeoneCanRun
  <2> QED
    BY <2>1, <2>3, <2>6, <2>7
<1> QED
  BY <1>1, PipelineInvariant, PTL

(* A worker that goes from one place to another *)
LEMMA Moves ==
    ASSUME HandInv, NEW w \in Workers, NEW a \in Places, NEW b \in Places, a # b,
           wpc[w] = a, wpc' = [wpc EXCEPT ![w] = b]
    PROVE  /\ count'[a] = count[a] - 1
           /\ count'[b] = count[b] + 1
           /\ \A c \in Places \ {a, b} : count'[c] = count[c]
<1>1. wpc \in [Workers -> {"receive", "put", "send", "done"}]
  BY DEF HandInv
<1>2. IsFiniteSet(At(a)) /\ IsFiniteSet(At(b))
  <2>1. At(a) \subseteq Workers /\ At(b) \subseteq Workers
    BY DEF At
  <2> QED
    BY <2>1, PipelineAssumption, FS_Subset
<1>3. At(a)' = At(a) \ {w} /\ w \in At(a) /\ At(b)' = At(b) \union {w} /\ w \notin At(b)
  BY <1>1 DEF At
<1>4. \A c : c \notin {a, b} => At(c)' = At(c)
  BY <1>1 DEF At
<1>5. Cardinality(At(a)') = Cardinality(At(a)) - 1
  BY <1>2, <1>3, FS_RemoveElement
<1>6. Cardinality(At(b)') = Cardinality(At(b)) + 1
  BY <1>2, <1>3, FS_AddElement
<1> QED
  BY <1>4, <1>5, <1>6 DEF count

(* What is counted *)
CountTypes ==
    /\ Len(input) \in Nat /\ consumed \in Nat /\ consumed <= Len(input)
    /\ SplitWork \in Nat
    /\ Len(jobs) \in Nat /\ Len(results) \in Nat
    /\ count \in [Places -> Nat]

WorkTypes == InputWork \in Nat /\ ChannelWork \in Nat /\ WorkersWork \in Nat /\ EndWork \in Nat

LEMMA WorkIsCounted == PipelineInv => CountTypes /\ WorkTypes
<1> SUFFICES ASSUME PipelineInv PROVE CountTypes /\ WorkTypes
  OBVIOUS
<1>1. SplitInv /\ HandInv
  BY DEF PipelineInv
<1>2. Len(input) \in Nat /\ consumed \in Nat /\ consumed <= Len(input)
  BY <1>1, LenProperties DEF SplitInv, SplitTypes
<1>3. Len(jobs) \in Nat /\ Len(results) \in Nat
  BY <1>1, LenProperties DEF HandInv
<1>4. ASSUME NEW loc PROVE Cardinality(At(loc)) \in Nat
  <2>1. At(loc) \subseteq Workers
    BY DEF At
  <2> QED
    BY <2>1, PipelineAssumption, FS_Subset, FS_CardinalityType
<1>5. count \in [Places -> Nat]
  BY <1>4 DEF count
<1>6. SplitWork \in Nat
  BY DEF SplitWork
<1>7. InputWork \in Nat
  BY <1>2, <1>6 DEF InputWork
<1>8. ChannelWork \in Nat
  BY <1>3 DEF ChannelWork
<1>9. WorkersWork \in Nat
  <2>1. count["put"] \in Nat /\ count["send"] \in Nat /\ count["receive"] \in Nat
    BY <1>5 DEF Places
  <2> QED
    BY <2>1 DEF WorkersWork
<1>10. EndWork \in Nat
  BY DEF EndWork
<1> QED
  BY <1>2, <1>3, <1>5, <1>6, <1>7, <1>8, <1>9, <1>10 DEF CountTypes, WorkTypes

(* Every step of storeFileChunks leaves less work, so that it takes a      *)
(* bounded number of them: at most 8 for a byte of the input, one for a    *)
(* worker, and 5.  With SomeGoroutineRuns this is why the call returns;    *)
(* that a goroutine which can run does run is the scheduler's part.        *)
THEOREM StepsAreBounded == Spec => WorkRunsOut
<1>1. ASSUME PipelineInv, PipelineInv', CountTypes, CountTypes', WorkTypes, WorkTypes', Next, vars' # vars
      PROVE  Work' \in Nat /\ Work' < Work
  <2>0. SplitInv /\ HandInv /\ SplitInv' /\ HandInv'
    BY <1>1 DEF PipelineInv
  <2>1. /\ InputWork \in Nat /\ ChannelWork \in Nat /\ WorkersWork \in Nat /\ EndWork \in Nat
        /\ InputWork' \in Nat /\ ChannelWork' \in Nat /\ WorkersWork' \in Nat /\ EndWork' \in Nat
    BY <1>1 DEF WorkTypes
  <2>2. /\ Len(input) \in Nat /\ consumed \in Nat /\ SplitWork \in Nat /\ SplitWork' \in Nat
        /\ Len(jobs) \in Nat /\ Len(results) \in Nat
        /\ count["put"] \in Nat /\ count["send"] \in Nat /\ count["receive"] \in Nat
        /\ count'["put"] \in Nat /\ count'["send"] \in Nat /\ count'["receive"] \in Nat
    BY <1>1 DEF CountTypes, Places
  (* What a step leaves alone *)
  <2>3. UNCHANGED splitVars => InputWork' = InputWork
    BY DEF InputWork, SplitWork, splitVars
  <2>4. UNCHANGED <<jobs, results>> => ChannelWork' = ChannelWork
    BY DEF ChannelWork
  <2>5. UNCHANGED wpc => WorkersWork' = WorkersWork
    BY DEF WorkersWork, count, At
  <2>6. /\ WorkersWork = 4 * count["put"] + 3 * count["send"] + count["receive"]
        /\ WorkersWork' = 4 * count'["put"] + 3 * count'["send"] + count'["receive"]
    BY DEF WorkersWork
  <2>7. PICK p \in Nat, s \in Nat, r \in Nat : p = count["put"] /\ s = count["send"] /\ r = count["receive"]
    BY <2>2
  <2>8. WorkersWork = 4 * p + 3 * s + r
    BY <2>6, <2>7
  <2>9. UNCHANGED <<jobsClosed, resultsClosed, outcome>> => EndWork' = EndWork
    BY DEF EndWork
  <2>10. CASE Split
    <3>1. UNCHANGED <<jobs, results, wpc, jobsClosed, resultsClosed, outcome>>
      BY <2>10 DEF Split, CallerFrame, workers, collector
    <3>2. InputWork' < InputWork
      <4>1. CASE ReadByte
        <5>1. input' = input /\ consumed' = consumed + 1 /\ SplitWork >= 2 /\ SplitWork' <= 9
          BY <4>1 DEF ReadByte, SplitWork
        <5> QED
          BY <2>2, <5>1 DEF InputWork
      <4>2. CASE EndOfInput
        <5>1. input' = input /\ consumed' = consumed /\ SplitWork' < SplitWork
          BY <4>2 DEF EndOfInput, SplitWork
        <5> QED
          BY <2>2, <5>1 DEF InputWork
      <4>3. CASE ReadFails
        <5>1. input' = input /\ consumed' = consumed /\ SplitWork' < SplitWork
          BY <4>3 DEF ReadFails, SplitWork
        <5> QED
          BY <2>2, <5>1 DEF InputWork
      <4> QED
        BY <2>10, <4>1, <4>2, <4>3 DEF Split, SplitStep
    <3>3. ChannelWork' = ChannelWork /\ WorkersWork' = WorkersWork /\ EndWork' = EndWork
      BY <2>4, <2>5, <2>9, <3>1
    <3>4. PICK k \in Nat \ {0} : InputWork' = InputWork - k
      <4>1. \A m, n \in Nat : m < n => n - m \in Nat \ {0} /\ m = n - (n - m)
        OBVIOUS
      <4> QED
        BY <2>1, <3>2, <4>1
    <3> QED
      BY <2>1, <3>3, <3>4 DEF Work
  <2>11. CASE Emit
    <3>1. UNCHANGED <<input, consumed, results, wpc, jobsClosed, resultsClosed, outcome>>
      BY <2>11 DEF Emit, CallerFrame, workers, collector, Emitted
    <3>2. ChannelWork' = ChannelWork + 4
      <4>1. jobs' = Append(jobs, [sequence |-> next, data |-> buf]) /\ jobs' \in Seq(Job) /\ jobs \in Seq(Job)
        BY <2>0, <2>11 DEF Emit, HandInv
      <4>2. Len(jobs') = Len(jobs) + 1
        BY <4>1
      <4> QED
        BY <2>2, <3>1, <4>2 DEF ChannelWork
    <3>3. InputWork' = InputWork - 6
      <4>1. memory \in [Buffers -> Seq(Bytes)] /\ buf' \in Buffers
        BY <2>0 DEF SplitInv, SplitTypes
      <4>2. SplitWork = 8 /\ SplitWork' = 2
        BY <2>11, <4>1 DEF Emit, Emitted, SplitWork
      <4> QED
        BY <2>2, <3>1, <4>2 DEF InputWork
    <3> QED
      BY <2>1, <2>5, <2>9, <3>1, <3>2, <3>3 DEF Work
  <2>12. CASE CloseJobs
    <3>1. UNCHANGED <<splitVars, jobs, results, wpc>> /\ EndWork' = EndWork - 1
      BY <2>12 DEF CloseJobs, CallerFrame, workers, collector, EndWork
    <3> QED
      BY <2>1, <2>3, <2>4, <2>5, <3>1 DEF Work
  <2>13. CASE CloseResults
    <3>1. UNCHANGED <<splitVars, jobs, results, wpc>> /\ EndWork' = EndWork - 1
      BY <2>13 DEF CloseResults, caller, workers, collector, EndWork
    <3> QED
      BY <2>1, <2>3, <2>4, <2>5, <3>1 DEF Work
  <2>14. CASE Collect
    <3>1. /\ UNCHANGED <<splitVars, jobs, wpc, jobsClosed, resultsClosed, outcome>>
          /\ results # <<>> /\ results' = Tail(results)
      BY <2>14 DEF Collect, caller, workers
    <3>2. Len(results') = Len(results) - 1
      BY <2>0, <3>1, Received DEF HandInv
    <3>3. ChannelWork' = ChannelWork - 1
      BY <2>2, <3>1, <3>2 DEF ChannelWork
    <3> QED
      BY <2>1, <2>3, <2>5, <2>9, <3>1, <3>3 DEF Work
  <2>15. CASE Return
    <3>1. UNCHANGED <<splitVars, jobs, results, wpc>> /\ EndWork' = EndWork - 1
      BY <2>15 DEF Return, caller, workers, EndWork
    <3> QED
      BY <2>1, <2>3, <2>4, <2>5, <3>1 DEF Work
  <2>16. ASSUME NEW w \in Workers, WorkerStep(w)
         PROVE  Work' < Work
    <3>1. UNCHANGED <<splitVars, jobsClosed, resultsClosed, outcome>>
      BY <2>16 DEF WorkerStep, Receive, Put, Send, WorkerDone, caller, collector
    <3>2. CASE Receive(w)
      <4>1. /\ wpc[w] = "receive" /\ wpc' = [wpc EXCEPT ![w] = "put"]
            /\ jobs # <<>> /\ jobs' = Tail(jobs) /\ results' = results
        BY <3>2 DEF Receive
      <4>2. Len(jobs') = Len(jobs) - 1
        BY <2>0, <4>1, Received DEF HandInv
      <4>3. ChannelWork' = ChannelWork - 4
        BY <2>2, <4>1, <4>2 DEF ChannelWork
      <4>4. /\ count'["receive"] = count["receive"] - 1 /\ count'["put"] = count["put"] + 1
            /\ count'["send"] = count["send"]
        BY <2>0, <4>1, Moves DEF Places
      <4>5. WorkersWork' = WorkersWork + 3
        <5>1. WorkersWork' = 4 * (p + 1) + 3 * s + (r - 1)
          BY <2>6, <2>7, <4>4
        <5> QED
          BY <2>8, <5>1
      <4> QED
        BY <2>1, <2>3, <2>9, <3>1, <4>3, <4>5 DEF Work
    <3>3. CASE Put(w)
      <4>1. wpc[w] = "put" /\ wpc' = [wpc EXCEPT ![w] = "send"] /\ jobs' = jobs /\ results' = results
        BY <3>3 DEF Put
      <4>2. /\ count'["put"] = count["put"] - 1 /\ count'["send"] = count["send"] + 1
            /\ count'["receive"] = count["receive"]
        BY <2>0, <4>1, Moves DEF Places
      <4>3. WorkersWork' = WorkersWork - 1
        <5>1. WorkersWork' = 4 * (p - 1) + 3 * (s + 1) + r
          BY <2>6, <2>7, <4>2
        <5> QED
          BY <2>8, <5>1
      <4> QED
        BY <2>1, <2>3, <2>4, <2>9, <3>1, <4>1, <4>3 DEF Work
    <3>4. CASE Send(w)
      <4>1. /\ wpc[w] = "send" /\ wpc' = [wpc EXCEPT ![w] = "receive"]
            /\ jobs' = jobs /\ results' = Append(results, held[w])
        BY <3>4 DEF Send
      <4>2. Len(results') = Len(results) + 1
        BY <2>0, <4>1 DEF HandInv
      <4>3. ChannelWork' = ChannelWork + 1
        BY <2>2, <4>1, <4>2 DEF ChannelWork
      <4>4. /\ count'["send"] = count["send"] - 1 /\ count'["receive"] = count["receive"] + 1
            /\ count'["put"] = count["put"]
        BY <2>0, <4>1, Moves DEF Places
      <4>5. WorkersWork' = WorkersWork - 2
        <5>1. WorkersWork' = 4 * p + 3 * (s - 1) + (r + 1)
          BY <2>6, <2>7, <4>4
        <5> QED
          BY <2>8, <5>1
      <4> QED
        BY <2>1, <2>3, <2>9, <3>1, <4>3, <4>5 DEF Work
    <3>5. CASE WorkerDone(w)
      <4>1. wpc[w] = "receive" /\ wpc' = [wpc EXCEPT ![w] = "done"] /\ jobs' = jobs /\ results' = results
        BY <3>5 DEF WorkerDone
      <4>2. /\ count'["receive"] = count["receive"] - 1
            /\ count'["put"] = count["put"] /\ count'["send"] = count["send"]
        BY <2>0, <4>1, Moves DEF Places
      <4>3. WorkersWork' = WorkersWork - 1
        <5>1. WorkersWork' = 4 * p + 3 * s + (r - 1)
          BY <2>6, <2>7, <4>2
        <5> QED
          BY <2>8, <5>1
      <4> QED
        BY <2>1, <2>3, <2>4, <2>9, <3>1, <4>1, <4>3 DEF Work
    <3> QED
      BY <2>16, <3>2, <3>3, <3>4, <3>5 DEF WorkerStep
  <2>17. Work' \in Nat
    <3>1. \A m, n \in Nat : m + n \in Nat
      OBVIOUS
    <3> QED
      BY <2>1, <3>1 DEF Work
  <2>18. ~Returned
    BY <1>1 DEF Returned
  <2>19. Split \/ Emit \/ CloseJobs \/ CloseResults \/ Collect \/ Return \/ \E w \in Workers : WorkerStep(w)
    BY <1>1, <2>18 DEF Next
  <2> QED
    BY <2>10, <2>11, <2>12, <2>13, <2>14, <2>15, <2>16, <2>17, <2>19
<1>2. ASSUME PipelineInv, PipelineInv', CountTypes, CountTypes', WorkTypes, WorkTypes', [Next]_vars
      PROVE  [Work' \in Nat /\ Work' < Work]_vars
  BY <1>1, <1>2
<1> QED
  BY <1>2, WorkIsCounted, PipelineInvariant, PTL DEF Spec, WorkRunsOut
=============================================================================
