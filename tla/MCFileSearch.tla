---------------------------- MODULE MCFileSearch ----------------------------
(* Two workers and four slots, and enough files that do not match to fill    *)
(* them.                                                                     *)
EXTENDS FileSearch

MCMatching == {1, 6}
=============================================================================
