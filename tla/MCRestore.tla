----------------------------- MODULE MCRestore -----------------------------
(***************************************************************************)
(* Two trees to restore.  In the first the walk and the manifest agree on  *)
(* the order; in the second the name "a.txt" sorts between the directory   *)
(* "a" and its file "a/z".                                                 *)
(***************************************************************************)
EXTENDS Restore

CONSTANTS d, dx, dy, e, a, az, atxt

(* d/x, d/y, e *)
TreeDirs == {d}
TreePaths == {dx, dy, e}
TreeDirOf == [p \in TreePaths |-> IF p = e THEN Top ELSE d]
TreeOrder == <<d, dx, dy, e>>

(* a.txt, a/z *)
DotDirs == {a}
DotPaths == {az, atxt}
DotDirOf == [p \in DotPaths |-> IF p = az THEN a ELSE Top]
DotWalkOrder == <<a, az, atxt>>
DotSortOrder == <<a, atxt, az>>
=============================================================================
