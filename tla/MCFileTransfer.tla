--------------------------- MODULE MCFileTransfer ---------------------------
(* One entry with two possible names, every situation, one change by others. *)
EXTENDS FileTransfer, TLC

(* Nothing tells one name from another.                                     *)
NameSymmetry == Permutations(Names)

NothingRemembered == [kind \in IssueKind |-> NoAction]
MCPolicies ==
  {NothingRemembered,
   [NothingRemembered EXCEPT !["FileReplacement"] = "Replace",
                             !["ReadOnlySourceRemoval"] = "MakeWritable"]}

(* Only a move of an owned entry ever renames its source, so only there it   *)
(* matters whether a rename can reach the destination; an empty file and a   *)
(* file system without exclusive renames are told apart for regular files.   *)
MCSettings ==
  {situation \in [requestKind: {"Copy", "Move"}, ownership: {"Owned", "Borrowed"},
                  entryKind: {"RegularFile", "FileLink", "Other"}, size: {0, 2},
                  sameDevice: BOOLEAN, exclusiveRename: BOOLEAN] :
     LET moves == situation.requestKind = "Move"
         owns == moves /\ situation.ownership = "Owned"
     IN
     /\ ~moves => situation.ownership = "Owned"
     /\ ~owns => situation.sameDevice
     /\ situation.size = 0 => ~moves /\ situation.exclusiveRename
     /\ ~situation.exclusiveRename => ~moves \/ owns
     /\ situation.entryKind # "RegularFile" => situation.size = 2 /\ situation.exclusiveRename}
=============================================================================
