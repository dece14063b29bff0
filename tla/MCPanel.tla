------------------------------ MODULE MCPanel ------------------------------
(* A root, a folder in it and one in that. *)
EXTENDS Panel

CONSTANTS root, sub, deep

MCFolders == {root, sub, deep}
MCPathHierarchy ==
  [f \in MCFolders |-> CASE f = root -> <<root>>
                        [] f = sub  -> <<sub, root>>
                        [] f = deep -> <<deep, sub, root>>]
=============================================================================
