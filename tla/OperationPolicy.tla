--------------------------- MODULE OperationPolicy ---------------------------
(***************************************************************************)
(* The questions an operation can put to the user, the answers each one    *)
(* allows, and the answers that may be repeated unattended.                *)
(***************************************************************************)
IssueKind == {"FileReplacement", "RootDirectoryMerge", "TypeMismatch",
              "ActionFailed", "ReadOnlySourceRemoval", "UnsupportedEntry"}

DecisionAction == {"Skip", "Replace", "Merge", "MakeWritable", "Rename", "Retry", "Cancel"}
Scope == {"ThisItem", "RemainingMatchingIssues"}

allowedActionsFor(kind) ==
  {"Skip", "Cancel"} \cup
  CASE kind = "FileReplacement"       -> {"Replace", "Rename"}
    [] kind = "RootDirectoryMerge"    -> {"Merge", "Rename"}
    [] kind = "TypeMismatch"          -> {"Rename"}
    [] kind = "ActionFailed"          -> {"Retry"}
    [] kind = "ReadOnlySourceRemoval" -> {"MakeWritable", "Retry"}
    [] OTHER                          -> {}

isActionRememberable(kind, action) ==
  \/ action = "Skip"
  \/ kind = "FileReplacement" /\ action = "Replace"
  \/ kind = "RootDirectoryMerge" /\ action = "Merge"
  \/ kind = "ReadOnlySourceRemoval" /\ action = "MakeWritable"

(* No answer is remembered for a kind of question.                          *)
NoAction == "none"
=============================================================================
