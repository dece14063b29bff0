----------------------------- MODULE DeleteTree -----------------------------
(***************************************************************************)
(* Permanent deletion, CDeleteExecutor: each root is scanned without       *)
(* following links and removed from the leaves up; a directory under which *)
(* something was kept is kept itself.                                      *)
(***************************************************************************)
EXTENDS TreeWalk

VARIABLE
  makeWritableAuthorized  (* the entry's read-only flag may be cleared      *)

deleteVars == <<sourceVars, walkVars, accountVars, controlVars, outerVars, remembered,
                makeWritableAuthorized>>

DeleteInit ==
  /\ WalkInit
  /\ makeWritableAuthorized = FALSE

FrameWithin(node) == [node |-> node, aggregate |-> "Completed", allCompleted |-> TRUE,
                      cross |-> FALSE]

(* The entry being removed: the directory at the top, children done.        *)
Entry == manifest[Top.node].entry
RemediableFile == world.kind[Entry] = "File"

-----------------------------------------------------------------------------
(* Roots.                                                                  *)

inspectDeleteRoot ==
  /\ pc = "inspectRoot"
  /\ IF Root \in present THEN Goto("scan") /\ UNCHANGED <<walkVars, accountVars>>
     ELSE finishUnscannedRoot("AlreadySatisfied")
  /\ UNCHANGED <<makeWritableAuthorized, sourceVars, outerVars, remembered>>

(* A root that vanished before or during its scan is what was wanted.       *)
scanFindsNothing ==
  /\ pc = "scan" /\ Root \notin present
  /\ finishUnscannedRoot("AlreadySatisfied")
  /\ UNCHANGED <<makeWritableAuthorized, sourceVars, outerVars, remembered>>

-----------------------------------------------------------------------------
(* Nodes.                                                                  *)

beginNode ==
  /\ pc = "node"
  /\ frames # <<>> => next \in Subtree(manifest, Top.node)
  /\ IF cancelRequested THEN CancelHere
     ELSE /\ frames' = Append(frames, FrameWithin(next))
          /\ next' = next + 1
          /\ Goto("node")
          /\ UNCHANGED <<root, manifest, left, accountVars>>
  /\ UNCHANGED <<makeWritableAuthorized, sourceVars, outerVars, remembered>>

(* Mutant: only a failure keeps the directory.                              *)
KeepsDirectory_IfFailed(aggregate) == aggregate = "Failed"

KeepsDirectory(aggregate) == aggregate # "Completed"

(* The children are done: what was kept keeps its directory.                *)
endNode ==
  /\ pc = "node"
  /\ frames # <<>> /\ next \notin Subtree(manifest, Top.node)
  /\ IF KeepsDirectory(Top.aggregate)
     THEN /\ advance(1)
          /\ left' = left \cup {<<Top.node, "kept">>}
          /\ Return(Top.aggregate, Front(frames))
          /\ UNCHANGED <<tally, makeWritableAuthorized>>
     ELSE /\ Goto("tryRemove")
          /\ makeWritableAuthorized' = FALSE
          /\ UNCHANGED <<frames, left, tally, itemsProcessed>>
  /\ UNCHANGED <<root, manifest, next, totals, sourceVars, outerVars, remembered>>

(* The entry's end: it is counted and its outcome handed up.                *)
EndEntry(counter, outcome) ==
  /\ Count(counter, 1) /\ advance(1)
  /\ left' = IF counter = "skipped" THEN left \cup {<<Top.node, "skipped">>} ELSE left
  /\ Return(outcome, Front(frames))
  /\ UNCHANGED <<root, manifest, next, totals>>

recordEntrySkipped == EndEntry("skipped", "Skipped")

(* The top of the removal's loop, with the look at the read-only flag.      *)
tryRemove ==
  /\ pc = "tryRemove"
  /\ CheckpointThen(
       IF makeWritableAuthorized THEN "makeWritable"
       ELSE IF RemediableFile /\ Entry \in present \ writable THEN "askReadOnly" ELSE "remove")
  /\ UNCHANGED <<makeWritableAuthorized, sourceVars, outerVars, remembered>>

(* Inspecting the flag may fail: the removal will show what is wrong.       *)
preflightFails ==
  /\ pc = "tryRemove" /\ ~cancelRequested /\ ~makeWritableAuthorized /\ RemediableFile
  /\ Goto("remove")
  /\ UNCHANGED <<makeWritableAuthorized, walkVars, accountVars, sourceVars, outerVars, remembered>>

(* Before the removal the remedy is applied at once, after a refused one    *)
(* the loop begins anew; either way with the next look at the flag.         *)
askReadOnly ==
  /\ pc \in {"askReadOnly", "askRefused"}
  /\ \/ /\ resolveDecision("ReadOnlySourceRemoval", TRUE, "MakeWritable")
        /\ makeWritableAuthorized' = TRUE
        /\ Goto(IF pc = "askReadOnly" THEN "makeWritable" ELSE "tryRemove")
        /\ UNCHANGED <<walkVars, accountVars>>
     \/ /\ resolveDecision("ReadOnlySourceRemoval", TRUE, "Retry")
        /\ Goto("tryRemove")
        /\ UNCHANGED <<makeWritableAuthorized, walkVars, accountVars>>
     \/ /\ resolveDecision("ReadOnlySourceRemoval", TRUE, "Skip")
        /\ recordEntrySkipped
        /\ UNCHANGED makeWritableAuthorized
     \/ /\ resolveDecision("ReadOnlySourceRemoval", TRUE, "Cancel")
        /\ CancelHere
        /\ UNCHANGED makeWritableAuthorized
  /\ UNCHANGED <<sourceVars, outerVars>>

(* The flag is cleared, or the question is whether to try again.            *)
makeWritable ==
  /\ pc = "makeWritable"
  /\ \/ /\ Entry \in present
        /\ writable' = writable \cup {Entry}
        /\ makeWritableAuthorized' = FALSE
        /\ Goto("remove")
     \/ Goto("askEntryFailed") /\ UNCHANGED <<writable, makeWritableAuthorized>>
  /\ UNCHANGED <<present, taken, walkVars, accountVars, outerVars, remembered>>

(* The native removal: done, nothing there, refused or failed.              *)
remove ==
  /\ pc = "remove"
  /\ \/ /\ Entry \in present /\ Within(world, Entry) \cap present = {Entry}
        /\ present' = present \ {Entry}
        /\ taken' = taken \cup {Entry}
        /\ EndEntry("completed", "Completed")
     \/ /\ Entry \notin present
        /\ EndEntry("satisfied", "AlreadySatisfied")
        /\ UNCHANGED <<present, taken>>
     \/ /\ RemediableFile /\ Entry \in present \ writable
        /\ Goto("askRefused")
        /\ UNCHANGED <<present, taken, walkVars, accountVars>>
     \/ /\ Goto("askEntryFailed")
        /\ UNCHANGED <<present, taken, walkVars, accountVars>>
  /\ UNCHANGED <<writable, makeWritableAuthorized, outerVars, remembered>>

askEntryFailed ==
  /\ pc = "askEntryFailed"
  /\ \/ /\ resolveDecision("ActionFailed", TRUE, "Retry")
        /\ Goto("tryRemove")
        /\ UNCHANGED <<walkVars, accountVars>>
     \/ resolveDecision("ActionFailed", TRUE, "Skip") /\ recordEntrySkipped
     \/ resolveDecision("ActionFailed", TRUE, "Cancel") /\ CancelHere
  /\ UNCHANGED <<makeWritableAuthorized, sourceVars, outerVars>>

DeleteStep ==
  /\ \/ beginRoot \/ inspectionFails \/ scan("PermanentDelete", "node") \/ askActionFailed
     \/ nextRoot
  /\ UNCHANGED makeWritableAuthorized

DeleteNext ==
  \/ DeleteStep
  \/ inspectDeleteRoot \/ scanFindsNothing \/ beginNode \/ endNode \/ tryRemove \/ preflightFails
  \/ askReadOnly \/ makeWritable \/ remove \/ askEntryFailed
=============================================================================
