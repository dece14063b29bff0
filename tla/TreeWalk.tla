------------------------------ MODULE TreeWalk ------------------------------
(***************************************************************************)
(* What transferring and deleting trees have in common: the selected roots *)
(* one after the other, each scanned into a manifest that is then walked   *)
(* depth-first; the questions, the totals and the counters; and the source *)
(* as others change it.                                                    *)
(*                                                                         *)
(* The recursion of the executors is the stack "frames"; its top is the    *)
(* directory whose children are being processed, "next" the node to come.  *)
(***************************************************************************)
EXTENDS SourceTree, OperationPolicy

CONSTANTS
  Worlds, Requests,  (* the situations an operation may start in            *)
  MaxMeddling        (* bound: changes made by other programs               *)

Request == {"Copy", "Move", "Delete"}

ASSUME WorldsAssumption == Worlds \subseteq World
ASSUME RequestsAssumption == Requests \subseteq Request
ASSUME MeddlingAssumption == MaxMeddling \in Nat

VARIABLES
  request, world,
  present,          (* entries at their place                               *)
  writable,         (* entries whose read-only flag was cleared             *)
  meddling,         (* changes other programs have made                     *)
  cancelRequested,
  root,             (* index of the current root                            *)
  manifest,         (* of the current root, <<>> until it is scanned        *)
  next,             (* the first node not yet begun                         *)
  frames,           (* open directories, innermost last                     *)
  totals,           (* roots with unresolved totals, items known so far     *)
  tally, itemsProcessed,
  remembered,
  anyFailed,
  pc, resume,       (* where the executor is, where a retry resumes         *)
  result,           (* of the last root; in the end the operation's status  *)
  taken,            (* entries the operation removed or renamed away        *)
  left              (* nodes of the current root left in place, and why      *)

sourceVars == <<present, writable, taken>>
walkVars == <<root, manifest, next, frames, left>>
accountVars == <<totals, tally, itemsProcessed>>
controlVars == <<pc, resume, result, anyFailed>>
outerVars == <<request, world, meddling, cancelRequested>>

NodeOutcome == {"Completed", "AlreadySatisfied", "Skipped", "Partial", "Failed", "Cancelled"}
Root == world.roots[root]
Unscanned == manifest = <<>>
Node == manifest[next]
Top == frames[Len(frames)]
Owned(node) == node.ownership = "Owned"

WalkInit ==
  /\ request \in Requests
  /\ world \in Worlds
  /\ present = Entries \ world.late
  /\ writable = Entries \ world.readOnly
  /\ meddling = 0 /\ cancelRequested = FALSE
  /\ root = 1 /\ manifest = <<>> /\ next = 1 /\ frames = <<>>
  /\ totals = [unresolved |-> Len(world.roots), items |-> 0]
  /\ tally = [completed |-> 0, skipped |-> 0, satisfied |-> 0, failed |-> 0]
  /\ itemsProcessed = 0
  /\ remembered = [kind \in IssueKind |-> NoAction]
  /\ anyFailed = FALSE
  /\ pc = "root" /\ resume = "none" /\ result = "none"
  /\ taken = {} /\ left = {}

-----------------------------------------------------------------------------
(* Questions.                                                              *)

(* A remembered answer applies without asking, cancelled or not; otherwise  *)
(* a cancelled worker gets none, which every caller treats as Cancel.       *)
resolveDecision(kind, scopeAllowed, action) ==
  IF scopeAllowed /\ remembered[kind] # NoAction
  THEN action = remembered[kind] /\ UNCHANGED remembered
  ELSE /\ action \in IF cancelRequested THEN {"Cancel"} ELSE allowedActionsFor(kind)
       /\ \/ UNCHANGED remembered
          \/ /\ scopeAllowed /\ isActionRememberable(kind, action)
             /\ remembered' = [remembered EXCEPT ![kind] = action]

Goto(label) == pc' = label /\ resume' = "none" /\ UNCHANGED <<result, anyFailed>>

(* A call failed: Retry will come back to label.                            *)
Fails(label) ==
  /\ pc' = "askFailed" /\ resume' = label
  /\ UNCHANGED <<result, anyFailed>>

-----------------------------------------------------------------------------
(* Accounting and the way back up.                                         *)

Count(counter, items) == tally' = [tally EXCEPT ![counter] = @ + items]
advance(items) == itemsProcessed' = itemsProcessed + items

rootTotalsResolved(items) ==
  totals' = [unresolved |-> totals.unresolved - 1, items |-> totals.items + items]

aggregateChildOutcome(aggregate, child) ==
  IF "Cancelled" \in {aggregate, child} THEN "Cancelled"
  ELSE IF "Failed" \in {aggregate, child} THEN "Failed"
  ELSE IF child \in {"Skipped", "Partial"} THEN "Partial"
  ELSE aggregate

(* The loops break and every directory above returns at once.               *)
Unwind ==
  /\ pc' = "rootEnds" /\ result' = "Cancelled" /\ frames' = <<>>
  /\ resume' = "none" /\ UNCHANGED anyFailed

(* What a directory keeps of the outcome of one of its children.            *)
WithChildOutcome(frame, outcome) ==
  [frame EXCEPT !.aggregate = aggregateChildOutcome(@, outcome),
                !.allCompleted = @ /\ outcome = "Completed"]

(* An outcome is handed to the directory above, or is the root's.           *)
Return(outcome, above) ==
  IF outcome = "Cancelled" THEN Unwind
  ELSE IF above = <<>>
  THEN /\ pc' = "rootEnds" /\ result' = outcome /\ frames' = <<>>
       /\ resume' = "none" /\ UNCHANGED anyFailed
  ELSE /\ frames' = [above EXCEPT ![Len(above)] = WithChildOutcome(@, outcome)]
       /\ Goto("node")

(* A node and everything below it was dealt with without descending.        *)
PassOver(counter, outcome) ==
  /\ Count(counter, itemCount(manifest, next))
  /\ advance(itemCount(manifest, next))
  /\ next' = next + itemCount(manifest, next)
  /\ left' = IF counter = "completed" THEN left
             ELSE left \cup Subtree(manifest, next) \X {counter}
  /\ Return(outcome, frames)
  /\ UNCHANGED <<root, manifest, totals>>

accountSkippedSubtree == PassOver("skipped", "Skipped")
accountAlreadySatisfiedSubtree == PassOver("satisfied", "AlreadySatisfied")
accountRenamedSubtree == PassOver("completed", "Completed")

(* A root that ended before its manifest was built counts as one item.      *)
finishUnscannedRoot(outcome) ==
  /\ CASE outcome = "Completed" -> Count("completed", 1) /\ advance(1) /\ rootTotalsResolved(1)
       [] outcome = "Skipped" ->
            Count("skipped", 1) /\ rootTotalsResolved(0) /\ UNCHANGED itemsProcessed
       [] outcome = "AlreadySatisfied" ->
            Count("satisfied", 1) /\ rootTotalsResolved(0) /\ UNCHANGED itemsProcessed
       [] OTHER -> rootTotalsResolved(0) /\ UNCHANGED <<tally, itemsProcessed>>
  /\ pc' = "rootEnds" /\ result' = outcome /\ resume' = "none"
  /\ UNCHANGED <<anyFailed, walkVars>>

(* Mutant: skipping ends a root as if it had no manifest.                   *)
SkipHere_AsUnscanned == finishUnscannedRoot("Skipped")

(* Skip and Cancel, for a root that is not scanned yet and for a node.      *)
SkipHere ==
  IF Unscanned THEN finishUnscannedRoot("Skipped") ELSE accountSkippedSubtree
CancelHere ==
  IF Unscanned THEN finishUnscannedRoot("Cancelled")
  ELSE Unwind /\ UNCHANGED <<root, manifest, next, left, accountVars>>

CheckpointThen(label) ==
  IF cancelRequested THEN CancelHere ELSE Goto(label) /\ UNCHANGED <<walkVars, accountVars>>

(* Retry, Skip or Cancel for a failed action.                               *)
askActionFailed ==
  /\ pc = "askFailed"
  /\ \/ resolveDecision("ActionFailed", TRUE, "Retry") /\ Goto(resume)
        /\ UNCHANGED <<walkVars, accountVars>>
     \/ resolveDecision("ActionFailed", TRUE, "Skip") /\ SkipHere
     \/ resolveDecision("ActionFailed", TRUE, "Cancel") /\ CancelHere
  /\ UNCHANGED <<sourceVars, outerVars>>

-----------------------------------------------------------------------------
(* Roots.                                                                  *)

beginRoot ==
  /\ pc = "root"
  /\ CheckpointThen("inspectRoot")
  /\ UNCHANGED <<sourceVars, outerVars, remembered>>

inspectionFails ==
  /\ pc = "inspectRoot"
  /\ Fails("inspectRoot")
  /\ UNCHANGED <<walkVars, accountVars, sourceVars, outerVars, remembered>>

(* The manifest is built, or the scan fails or notices the cancellation.    *)
scan(mode, label) ==
  /\ pc = "scan"
  /\ \/ /\ Root \in present
        /\ \E tree \in {buildSourceTree(world, mode, present, Root)} \ {Stopped} :
             manifest' = tree /\ rootTotalsResolved(Len(tree))
        /\ Goto(label)
        /\ UNCHANGED <<root, next, frames, left, tally, itemsProcessed>>
     \/ Fails("scan") /\ UNCHANGED <<walkVars, accountVars>>
     \/ cancelRequested /\ CancelHere
  /\ UNCHANGED <<sourceVars, outerVars, remembered>>

(* Mutant: only the last root's outcome makes the operation's status.      *)
nextRoot_LastOutcome ==
  /\ pc = "rootEnds"
  /\ anyFailed' = (result = "Failed")
  /\ manifest' = <<>> /\ next' = 1 /\ left' = {}
  /\ IF result = "Cancelled" \/ root = Len(world.roots)
     THEN /\ pc' = "done"
          /\ result' = IF result = "Cancelled" THEN "Cancelled"
                       ELSE IF anyFailed' THEN "Failed" ELSE "Completed"
          /\ UNCHANGED root
     ELSE pc' = "root" /\ root' = root + 1 /\ UNCHANGED result
  /\ UNCHANGED <<resume, frames, accountVars, sourceVars, outerVars, remembered>>

(* The loop over the roots: a cancellation leaves the rest untouched.       *)
nextRoot ==
  /\ pc = "rootEnds"
  /\ anyFailed' = (anyFailed \/ result = "Failed")
  /\ manifest' = <<>> /\ next' = 1 /\ left' = {}
  /\ IF result = "Cancelled" \/ root = Len(world.roots)
     THEN /\ pc' = "done"
          /\ result' = IF result = "Cancelled" THEN "Cancelled"
                       ELSE IF anyFailed' THEN "Failed" ELSE "Completed"
          /\ UNCHANGED root
     ELSE pc' = "root" /\ root' = root + 1 /\ UNCHANGED result
  /\ UNCHANGED <<resume, frames, accountVars, sourceVars, outerVars, remembered>>

-----------------------------------------------------------------------------
(* The user and other programs.                                            *)

cancel ==
  /\ pc # "done" /\ ~cancelRequested
  /\ cancelRequested' = TRUE
  /\ UNCHANGED <<request, world, meddling, sourceVars, walkVars, accountVars, controlVars,
                 remembered>>

Meddle == pc # "done" /\ meddling < MaxMeddling /\ meddling' = meddling + 1

(* An entry is taken away with all it holds.                                *)
entryVanishes(e) ==
  /\ Meddle
  /\ e \in present
  /\ present' = present \ Within(world, e)
  /\ UNCHANGED <<writable, taken, request, world, cancelRequested, walkVars, accountVars,
                 controlVars, remembered>>

(* A new entry appears in a directory that is still there.                  *)
entryAppears(e) ==
  /\ Meddle
  /\ e \in world.late \ present /\ e \notin taken
  /\ \E d \in present : world.kind[d] = "Directory" /\ Contains(world.listing[d], e)
  /\ present' = present \cup {e}
  /\ UNCHANGED <<writable, taken, request, world, cancelRequested, walkVars, accountVars,
                 controlVars, remembered>>

others == \E e \in Entries : entryVanishes(e) \/ entryAppears(e)
=============================================================================
