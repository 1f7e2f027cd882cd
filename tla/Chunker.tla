------------------------------ MODULE Chunker ------------------------------
(***************************************************************************)
(* chunker.Split: a byte stream is cut where the rolling hash of its last  *)
(* Window bytes ends in zeros, into chunks of MinSize to MaxSize bytes.    *)
(*                                                                         *)
(* A word of WordBits bits (64 in the code) is the set of its bits that    *)
(* are one, so exclusive or is the symmetric difference.  The table gives  *)
(* every byte a word of its own: a byte is known by its word here.         *)
(***************************************************************************)
EXTENDS Integers, Sequences, FiniteSets, SequencesExt

CONSTANTS
    WordBits, Window, MinSize, TargetBits, MaxSize,  \* TargetSize = 2^TargetBits
    Bytes,         \* the bytes, each known by its word in the table
    MaxLength,     \* bound on the length of the input
    ReadErrors     \* may reading the input fail?

ASSUME ChunkerAssumption ==
    /\ {WordBits, Window, MinSize, MaxSize} \subseteq Nat \ {0}
    /\ TargetBits \in 0..WordBits /\ MaxLength \in Nat
    /\ MinSize <= 2^TargetBits /\ 2^TargetBits <= MaxSize
    /\ Bytes \subseteq SUBSET (0..WordBits - 1)
    /\ ReadErrors \in BOOLEAN

VARIABLES
    input,      \* the bytes of the stream
    consumed,   \* how many of them have been read
    rolling,    \* window, seen, pos and fingerprint
    memory,     \* the contents of the buffers
    buf,        \* the buffer in use
    split       \* "read", "emit" or, when Split has returned, "ok" or "failed"

splitVars == <<input, consumed, rolling, memory, buf, split>>

Buffers == 0..MaxLength
Streams == UNION {[1..n -> Bytes] : n \in 0..MaxLength}

Xor(a, b) == (a \ b) \union (b \ a)

RotateLeft(word, k) == {(bit + k) % WordBits : bit \in word}

SplitTypeOK ==
    /\ input \in Streams /\ consumed \in 0..Len(input)
    /\ Len(rolling.window) <= Window /\ rolling.pos \in 0..Window - 1
    /\ rolling.fingerprint \subseteq 0..WordBits - 1
    /\ buf \in Buffers /\ \A b \in Buffers : Len(memory[b]) <= MaxSize
    /\ split \in {"read", "emit", "ok", "failed"}

SplitInit ==
    /\ input \in Streams
    /\ consumed = 0
    /\ rolling = [window |-> <<>>, pos |-> 0, fingerprint |-> {}]
    /\ memory = [b \in Buffers |-> <<>>] /\ buf = 0
    /\ split = "read"

(* Mutant of Roll: the byte that leaves is taken out as it came in. *)
RollUnrotated(r, b) ==
    LET fp == Xor(RotateLeft(r.fingerprint, 1), b)
    IN  IF Len(r.window) < Window
        THEN [r EXCEPT !.window = Append(@, b), !.fingerprint = fp]
        ELSE [window |-> [r.window EXCEPT ![r.pos + 1] = b],
              pos |-> (r.pos + 1) % Window,
              fingerprint |-> Xor(fp, r.window[r.pos + 1])]

(* One byte enters the window, and once it is full one leaves.  (The code  *)
(* counts the bytes of a window that is not full yet in seen.)             *)
Roll(r, b) ==
    LET fp == Xor(RotateLeft(r.fingerprint, 1), b)
    IN  IF Len(r.window) < Window
        THEN [r EXCEPT !.window = Append(@, b), !.fingerprint = fp]
        ELSE [window |-> [r.window EXCEPT ![r.pos + 1] = b],
              pos |-> (r.pos + 1) % Window,
              fingerprint |-> Xor(fp, RotateLeft(r.window[r.pos + 1], Window % WordBits))]

Boundary(r, size) ==
    \/ size >= MaxSize
    \/ /\ size >= MinSize /\ Len(r.window) >= Window
       /\ r.fingerprint \intersect (0..TargetBits - 1) = {}

ReadByte ==
    /\ split = "read" /\ consumed < Len(input)
    /\ LET b == input[consumed + 1]
       IN  /\ memory' = [memory EXCEPT ![buf] = Append(@, b)]
           /\ rolling' = Roll(rolling, b)
    /\ split' = IF Boundary(rolling', Len(memory'[buf])) THEN "emit" ELSE "read"
    /\ consumed' = consumed + 1
    /\ UNCHANGED <<input, buf>>

(* At the end of the input what is left is a chunk, unless nothing is. *)
EndOfInput ==
    /\ split = "read" /\ consumed = Len(input)
    /\ split' = IF memory[buf] = <<>> THEN "ok" ELSE "emit"
    /\ UNCHANGED <<input, consumed, rolling, memory, buf>>

ReadFails ==
    /\ ReadErrors /\ split = "read"
    /\ split' = "failed"
    /\ UNCHANGED <<input, consumed, rolling, memory, buf>>

(* Mutant of FreshBuffer: the buffer of the chunk before is used again. *)
SameBuffer(b) == b

(* A chunk is emitted with the buffer it is in, which is not used again. *)
FreshBuffer(b) == b + 1

Emitted ==
    /\ split = "emit"
    /\ buf' = FreshBuffer(buf)
    /\ memory' = [memory EXCEPT ![buf'] = <<>>]
    /\ split' = "read"
    /\ UNCHANGED <<input, consumed, rolling>>

SplitStep == ReadByte \/ EndOfInput \/ ReadFails

-----------------------------------------------------------------------------
(* Where the stream is to be cut: hash each window of it from nothing *)

Hash(s) == FoldLeft(LAMBDA fp, b : Xor(RotateLeft(fp, 1), b), {}, s)

WindowHash(s, i) == Hash(SubSeq(s, i - Window + 1, i))

CutAfter(s, from, i) ==
    \/ i - from = MaxSize
    \/ i - from >= MinSize /\ i >= Window /\ WindowHash(s, i) \intersect (0..TargetBits - 1) = {}
    \/ i = Len(s)

(* The cuts of a stream are the positions that a chain of chunks reaches.  *)
IsSplit(chunks, s, upTo) ==
    LET end[k \in 0..Len(chunks)] == IF k = 0 THEN 0 ELSE end[k - 1] + Len(chunks[k])
    IN  /\ end[Len(chunks)] = upTo
        /\ \A k \in 1..Len(chunks) :
            /\ chunks[k] = SubSeq(s, end[k - 1] + 1, end[k])
            /\ CutAfter(s, end[k - 1], end[k])
            /\ \A i \in end[k - 1] + 1..end[k] - 1 : ~CutAfter(s, end[k - 1], i)
=============================================================================
