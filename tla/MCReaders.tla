----------------------------- MODULE MCReaders -----------------------------
(***************************************************************************)
(* Model checking of Readers: chunks are interchangeable.                  *)
(***************************************************************************)
EXTENDS Readers, TLC

Symmetry == Permutations(Chunks)
=============================================================================
