-------------------------- MODULE MCTreeOperation --------------------------
(* Small sources in which links lead out of the selection, sideways into it *)
(* and back up, with one entry that may appear late.                        *)
EXTENDS TreeOperation

(* r and s can be selected, x and y lie outside.                            *)
MCEntries == {"r", "s", "f", "l", "x", "y"}

Base == [kind |-> [e \in MCEntries |-> IF e \in {"r", "s", "x"} THEN "Directory"
                                       ELSE IF e = "l" THEN "DirectoryLink" ELSE "File"],
         listing |-> [e \in MCEntries |-> <<>>],
         target |-> [e \in MCEntries |-> "x"],
         identity |-> TRUE, sameDevice |-> FALSE,
         late |-> {}, readOnly |-> {}, roots |-> <<"r">>]

(* r holds a link to x, which lies outside and holds a directory.           *)
LeadsOut == [Base EXCEPT !.listing["r"] = <<"l">>, !.listing["x"] = <<"s">>,
                         !.listing["s"] = <<"f">>]

(* r holds s and a link to s, in either order.                              *)
LeadsSideways(listing) ==
  [Base EXCEPT !.target["l"] = "s", !.listing["r"] = listing, !.listing["s"] = <<"f">>]

(* r holds s, and s a link to r.                                            *)
LeadsBack(told) ==
  [Base EXCEPT !.target["l"] = "r", !.listing["r"] = <<"s">>, !.listing["s"] = <<"l">>,
               !.identity = told]

(* r holds two files, one of them created by others on the way.             *)
Grows == [Base EXCEPT !.listing["r"] = <<"f", "y">>, !.late = {"y"}, !.readOnly = {"f"}]

(* A file or a special file is selected and a directory.                    *)
TwoRoots(kind) ==
  [Base EXCEPT !.kind["l"] = kind, !.listing["s"] = <<"f">>, !.roots = <<"l", "s">>]

OnOneDevice(w) == [w EXCEPT !.sameDevice = TRUE]

MCWorlds ==
  {LeadsOut, LeadsSideways(<<"s", "l">>), OnOneDevice(LeadsSideways(<<"l", "s">>)),
   LeadsBack(TRUE), LeadsBack(FALSE), Grows, OnOneDevice(Grows),
   TwoRoots("File"), TwoRoots("Other")}
=============================================================================
