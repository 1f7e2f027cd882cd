------------------------------ MODULE MCPrune ------------------------------
(***************************************************************************)
(* Days of two snapshots, and weeks of two days.                           *)
(***************************************************************************)
EXTENDS Prune, TLC

DayOf == [t \in Times |-> t \div 2]
WeekOf == [t \in Times |-> t \div 4]

Symmetry == Permutations(Pruners)
=============================================================================
