------------------------- MODULE MCFolderComparison -------------------------
(* Three names: all fold to the same, so that two may compete for one on      *)
(* either side, or one of them does not. Files that are empty, and two that   *)
(* only reading tells apart.                                                 *)
EXTENDS FolderComparison

CONSTANTS empty, a, b

MCFoldings == {<<1, 1, 1>>, <<1, 2, 1>>}
MCSizeOf == [c \in {empty, a, b} |-> IF c = empty THEN 0 ELSE 1]
Alike == Permutations({a, b})
=============================================================================
