---------------------------- MODULE MCPanelCursor ----------------------------
(* The root with a folder and a file, the folder with a file; another folder *)
(* and another file in it can be created, by the user or by other programs. *)
EXTENDS PanelCursor

CONSTANTS root, sub, deep, above, one, two

MCParentOf == [i \in {sub, deep, above, one, two} |-> IF i \in {sub, above} THEN root ELSE sub]
MCPlace == [i \in {root, sub, deep, above, one, two} |->
  CASE i = root -> 0 [] i = sub -> 1 [] i = above -> 2
    [] i = deep -> 3 [] i = one -> 4 [] i = two -> 5]
MCTrees == {{root, sub, above, one}}
=============================================================================
