---------------------------- MODULE TransferTree ----------------------------
(***************************************************************************)
(* Copying and moving trees, CTransferExecutor: the roots, the directories *)
(* and the order in which nodes are handled.  An entry that is no          *)
(* directory is handled by FileTransfer; here it is one step with the      *)
(* outcomes and effects its contract allows.                               *)
(*                                                                         *)
(* What the destination holds is not modelled: an inspection may find      *)
(* anything there.  Bytes are FileTransfer's subject, items this one's.    *)
(***************************************************************************)
EXTENDS TreeWalk

VARIABLES
  rootKind,         (* of the root, when it was inspected                   *)
  choice,           (* the resolved way into the directory at hand          *)
  knownCrossDevice  (* renames of the node at hand cannot work              *)

planVars == <<rootKind, choice, knownCrossDevice>>
transferVars == <<sourceVars, walkVars, accountVars, controlVars, outerVars, remembered,
                  planVars>>

Move == request = "Move"
FrameOf(node) == [node |-> node, aggregate |-> "Completed", allCompleted |-> TRUE,
                  cross |-> knownCrossDevice]

TransferInit ==
  /\ WalkInit
  /\ rootKind = "File" /\ choice = "none" /\ knownCrossDevice = FALSE

(* An entry leaves its place, and with a directory all that is in it.       *)
TakeAway(e) ==
  /\ present' = present \ Within(world, e)
  /\ taken' = taken \cup (Within(world, e) \cap present)
  /\ UNCHANGED writable

-----------------------------------------------------------------------------
(* Native rename, tried first wherever the entry is owned.                 *)

(* What follows a rename that is blocked.                                   *)
AfterRename(error) ==
  CASE pc = "renameRoot" -> "resolveRoot"
    [] pc = "renameResolved" -> IF error = "CrossDevice" THEN "scan" ELSE "resolveRoot"
    [] OTHER -> "resolveDirectory"

rename ==
  /\ pc \in {"renameRoot", "renameResolved", "renameNode"}
  /\ LET e == IF Unscanned THEN Root ELSE Node.entry
     IN \/ /\ world.sameDevice /\ e \in present
           /\ TakeAway(e)
           /\ IF Unscanned THEN finishUnscannedRoot("Completed") ELSE accountRenamedSubtree
           /\ UNCHANGED knownCrossDevice
        \/ \E error \in {"CrossDevice", "AlreadyExists"} :
             /\ error = "CrossDevice" => ~world.sameDevice
             /\ knownCrossDevice' = (knownCrossDevice \/ error = "CrossDevice")
             /\ Goto(AfterRename(error))
             /\ UNCHANGED <<walkVars, accountVars, sourceVars>>
        \/ Fails(pc) /\ UNCHANGED <<walkVars, accountVars, sourceVars, knownCrossDevice>>
  /\ UNCHANGED <<rootKind, choice, outerVars, remembered>>

-----------------------------------------------------------------------------
(* Roots, before they are scanned.                                         *)

DirectoryLike(kind) == kind \in {"Directory", "DirectoryLink"}

inspectRoot ==
  /\ pc = "inspectRoot" /\ Root \in present
  /\ rootKind' = ReportedKind(world, present, Root)
  /\ knownCrossDevice' = FALSE
  /\ Goto(IF Move \/ rootKind' = "File" THEN "parent"
          ELSE IF DirectoryLike(rootKind') THEN "resolveDirectory" ELSE "leafRoot")
  /\ UNCHANGED <<choice, walkVars, accountVars, sourceVars, outerVars, remembered>>

(* ensureDestinationParentExistsWithPolicy: the parent exists, was created, *)
(* or something that is no directory raced into its place.                  *)
ensureParent ==
  /\ pc = "parent"
  /\ IF cancelRequested THEN CancelHere
     ELSE /\ \/ Goto(IF DirectoryLike(rootKind) THEN "renameRoot" ELSE "leafRoot")
             \/ Goto("parent")
             \/ Fails("parent")
          /\ UNCHANGED <<walkVars, accountVars>>
  /\ UNCHANGED <<planVars, sourceVars, outerVars, remembered>>

(* A root that is no directory needs no scan.                               *)
leafRoot ==
  /\ pc = "leafRoot"
  /\ manifest' = <<[entry |-> Root, kind |-> rootKind, ownership |-> "Owned", depth |-> 1]>>
  /\ rootTotalsResolved(1)
  /\ Goto("node")
  /\ UNCHANGED <<root, next, frames, left, tally, itemsProcessed, planVars, sourceVars,
                 outerVars, remembered>>

(* Mutant: moveRoot's loop does not look at the cancellation.               *)
resolveRoot_WithoutCheckpoint ==
  /\ pc = "resolveRoot"
  /\ Goto("resolveDirectory")
  /\ UNCHANGED <<walkVars, accountVars, planVars, sourceVars, outerVars, remembered>>

(* moveRoot's loop over resolution and renaming.                            *)
resolveRoot ==
  /\ pc = "resolveRoot"
  /\ CheckpointThen("resolveDirectory")
  /\ UNCHANGED <<planVars, sourceVars, outerVars, remembered>>

-----------------------------------------------------------------------------
(* resolveDirectoryDestination and what its caller does with the answer.   *)

SelectedRoot == Unscanned \/ frames = <<>>

(* For a root the decision comes first and the scan after it.               *)
Choose(way) ==
  /\ choice' = way
  /\ Goto(IF ~Unscanned THEN "enter"
          ELSE IF Move /\ way = "Use" /\ ~knownCrossDevice THEN "renameResolved"
          ELSE "scan")
  /\ UNCHANGED <<walkVars, accountVars, rootKind, knownCrossDevice>>

resolveDirectory ==
  /\ pc = "resolveDirectory"
  /\ \/ Choose("Use")                                   (* nothing is there *)
     \/ /\ IF Unscanned THEN finishUnscannedRoot("AlreadySatisfied")
           ELSE accountAlreadySatisfiedSubtree           (* the entry itself *)
        /\ UNCHANGED planVars
     \/ ~SelectedRoot /\ Choose("Merge")                 (* a directory      *)
     \/ /\ \/ SelectedRoot /\ Goto("askMerge")
           \/ Goto("askMismatch")                        (* something else   *)
           \/ Fails("resolveDirectory")
        /\ UNCHANGED <<walkVars, accountVars, planVars>>
  /\ UNCHANGED <<sourceVars, outerVars, remembered>>

promptForCollision(kind) ==
  /\ pc = IF kind = "RootDirectoryMerge" THEN "askMerge" ELSE "askMismatch"
  /\ \/ resolveDecision(kind, TRUE, "Merge") /\ Choose("Merge")
     \/ /\ resolveDecision(kind, TRUE, "Rename")
        /\ Goto("resolveDirectory")
        /\ UNCHANGED <<walkVars, accountVars, planVars>>
     \/ resolveDecision(kind, TRUE, "Skip") /\ SkipHere /\ UNCHANGED planVars
     \/ resolveDecision(kind, TRUE, "Cancel") /\ CancelHere /\ UNCHANGED planVars
  /\ UNCHANGED <<sourceVars, outerVars>>

-----------------------------------------------------------------------------
(* Nodes.                                                                  *)

(* Mutant: a directory counts as moved as soon as it is entered.            *)
CountsOnEntry_AlsoWhenMoved(node) == TRUE

(* A copied or borrowed directory is done once it exists; a moved one only  *)
(* when its source is gone.                                                 *)
CountsOnEntry(node) == ~Move \/ ~Owned(node)

(* copyDirectoryContents, moveDirectoryContents: the children come next.    *)
EnterContents ==
  /\ frames' = Append(frames, FrameOf(next))
  /\ next' = next + 1
  /\ IF CountsOnEntry(Node) THEN Count("completed", 1) /\ advance(1)
     ELSE UNCHANGED <<tally, itemsProcessed>>
  /\ choice' = "none"
  /\ Goto("node")
  /\ UNCHANGED <<root, manifest, left, totals, rootKind, knownCrossDevice>>

(* runDirectoryNode.  What appeared since the resolution is resolved anew,  *)
(* without a checkpoint; it takes another program to make it appear.        *)
enterDirectory ==
  /\ pc = "enter"
  /\ \/ EnterContents /\ UNCHANGED meddling
     \/ /\ choice = "Use"
        /\ \/ Goto("resolveDirectory") /\ Meddle
           \/ Fails("enter") /\ UNCHANGED meddling
        /\ UNCHANGED <<walkVars, accountVars, planVars>>
  /\ UNCHANGED <<sourceVars, request, world, cancelRequested, remembered>>

MoreChildren ==
  frames # <<>> => next \in Subtree(manifest, Top.node)

(* copyNode and moveNode up to the kind of the entry.                       *)
visitDirectory ==
  /\ pc = "node" /\ MoreChildren
  /\ DirectoryLike(Node.kind)
  /\ knownCrossDevice' = (frames # <<>> /\ Top.cross)
  /\ CheckpointThen(IF Move /\ Owned(Node) /\ ~knownCrossDevice' THEN "renameNode"
                    ELSE "resolveDirectory")
  /\ UNCHANGED <<rootKind, choice, sourceVars, outerVars, remembered>>

(* A moved, owned entry loses its source, by a rename or after the copy.    *)
LosesSource == Move /\ Owned(Node)

(* The entry is there, on the way the scan took to it.                      *)
Reachable(i) ==
  \A j \in Ancestors(manifest, i) \cup {i} : manifest[j].entry \in present

entryCompletes ==
  /\ Reachable(next)
  /\ Node.kind = "Other" => LosesSource /\ world.sameDevice
  /\ IF LosesSource THEN TakeAway(Node.entry) ELSE UNCHANGED sourceVars
  /\ accountRenamedSubtree

(* The copy is published but its source could not be removed.               *)
entryFails ==
  /\ Node.kind = "File" /\ LosesSource
  /\ PassOver("failed", "Failed")
  /\ UNCHANGED sourceVars

(* As entryFails, when the question about the source is answered by Cancel. *)
entryFailsCancelled ==
  /\ Node.kind = "File" /\ LosesSource
  /\ PassOver("failed", "Cancelled")
  /\ UNCHANGED sourceVars

visitEntry ==
  /\ pc = "node" /\ MoreChildren
  /\ ~DirectoryLike(Node.kind)
  /\ \/ ~cancelRequested /\ entryCompletes
     \/ ~cancelRequested /\ (entryFails \/ entryFailsCancelled)
     \/ ~cancelRequested /\ accountSkippedSubtree /\ UNCHANGED sourceVars
     \/ /\ ~cancelRequested /\ Node.kind = "File"
        /\ accountAlreadySatisfiedSubtree
        /\ UNCHANGED sourceVars
     \/ CancelHere /\ UNCHANGED sourceVars
  /\ UNCHANGED <<planVars, outerVars, remembered>>

-----------------------------------------------------------------------------
(* Directories, after their children.                                      *)

(* Mutant: an entry that was in place already does not hold its parent.     *)
MayRemoveSource_WhenNothingWasSkipped(frame) == frame.aggregate = "Completed"

(* An entry that was in place already keeps its source, like a skipped one. *)
MayRemoveSource(frame) == frame.allCompleted

leaveDirectory ==
  /\ pc = "node" /\ ~MoreChildren
  /\ LET directory == Top.node
         removes == Move /\ Owned(manifest[directory])
     IN \/ /\ ~removes
           /\ Return(Top.aggregate, Front(frames))
           /\ UNCHANGED <<left, accountVars>>
        \/ /\ removes /\ ~MayRemoveSource(Top)
           /\ advance(1)
           /\ left' = left \cup {<<directory, "kept">>}
           /\ Return(IF Top.aggregate = "Completed" THEN "Partial" ELSE Top.aggregate,
                     Front(frames))
           /\ UNCHANGED <<tally, totals>>
        \/ /\ removes /\ MayRemoveSource(Top)
           /\ Goto("removeSource")
           /\ UNCHANGED <<left, frames, accountVars>>
  /\ UNCHANGED <<root, manifest, next, planVars, sourceVars, outerVars, remembered>>

(* A directory can be removed only when it is empty, a link always.         *)
Empty(e) == Within(world, e) \cap present = {e}

(* The source is removed; gone already is as good.                          *)
removeSource ==
  /\ pc = "removeSource"
  /\ LET e == manifest[Top.node].entry
     IN \/ /\ e \notin present \/ Empty(e)
           /\ IF e \in present THEN TakeAway(e) ELSE UNCHANGED sourceVars
           /\ Count("completed", 1) /\ advance(1)
           /\ Return("Completed", Front(frames))
        \/ /\ Goto("askRemoval")
           /\ UNCHANGED <<frames, tally, itemsProcessed, sourceVars>>
  /\ UNCHANGED <<root, manifest, next, left, totals, planVars, outerVars, remembered>>

(* Both the source and the copy stay; the answer holds for this entry only. *)
recordTerminalCleanupFailure(outcome) ==
  /\ Count("failed", 1) /\ advance(1)
  /\ left' = left \cup {<<Top.node, "failed">>}
  /\ Return(outcome, Front(frames))

askRemoval ==
  /\ pc = "askRemoval"
  /\ \/ /\ resolveDecision("ActionFailed", FALSE, "Retry") /\ Goto("removeSource")
        /\ UNCHANGED <<frames, left, tally, itemsProcessed>>
     \/ resolveDecision("ActionFailed", FALSE, "Skip") /\ recordTerminalCleanupFailure("Failed")
     \/ resolveDecision("ActionFailed", FALSE, "Cancel") /\ recordTerminalCleanupFailure("Cancelled")
  /\ UNCHANGED <<root, manifest, next, totals, planVars, sourceVars, outerVars>>

TransferStep ==
  /\ \/ beginRoot \/ inspectionFails \/ scan("MaterializingTransfer", "enter") \/ askActionFailed
     \/ nextRoot
  /\ UNCHANGED planVars

TransferNext ==
  \/ TransferStep
  \/ rename \/ inspectRoot \/ ensureParent \/ leafRoot \/ resolveRoot
  \/ resolveDirectory
  \/ promptForCollision("RootDirectoryMerge") \/ promptForCollision("TypeMismatch")
  \/ enterDirectory \/ visitDirectory \/ visitEntry \/ leaveDirectory \/ removeSource \/ askRemoval
=============================================================================
