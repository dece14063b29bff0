---------------------------- MODULE MCPanelTabs ----------------------------
(* Three tabs, which can be closed, moved and opened again; folders and      *)
(* layouts are told apart by nothing but being the same or not.               *)
EXTENDS PanelTabs, TLC

Alike == Permutations(Paths) \cup Permutations(Layouts)
=============================================================================
