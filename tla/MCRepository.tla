---------------------------- MODULE MCRepository ----------------------------
(***************************************************************************)
(* Model checking of Repository: chunks, jobs and backups are              *)
(* interchangeable.                                                        *)
(***************************************************************************)
EXTENDS Repository, TLC

Symmetry == Permutations(Backups) \union Permutations(Chunks) \union Permutations(Jobs)
=============================================================================
