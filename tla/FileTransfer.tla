---------------------------- MODULE FileTransfer ----------------------------
(***************************************************************************)
(* Copying or moving one non-directory entry: CTransferExecutor's copyNode *)
(* and moveNode with everything they call - destination resolution, native *)
(* rename, the staged copy (CStagedFileCopy) with its retries, the removal *)
(* of a published move's source - and the accounting of the result.        *)
(*                                                                         *)
(* The worker runs one native call at a time; between any two of them the  *)
(* user may cancel and other programs may change the source and the        *)
(* destination entries.  Every native call may fail.                       *)
(*                                                                         *)
(* Other programs are assumed to leave alone what the transfer published;  *)
(* the source keeps its size; names are abstract (no case respelling).     *)
(***************************************************************************)
EXTENDS Naturals, OperationPolicy

CONSTANTS
  Names,        (* names the entry may be given at the destination          *)
  Settings,     (* the situations a transfer may start in                   *)
  Policies,     (* answers remembered from earlier entries                  *)
  MaxMeddling,  (* bound: changes made by other programs                    *)
  MaxWarnings   (* bound: problems with the removal of staging files        *)

Setting == [requestKind: {"Copy", "Move"}, ownership: {"Owned", "Borrowed"},
            entryKind: {"RegularFile", "FileLink", "Other"}, size: Nat,
            sameDevice: BOOLEAN,        (* a rename can reach the destination *)
            exclusiveRename: BOOLEAN]   (* the file system can rename exclusively *)
Policy == [IssueKind -> DecisionAction \cup {NoAction}]

ASSUME SettingsAssumption == Settings \subseteq Setting
ASSUME PoliciesAssumption ==
  /\ Policies \subseteq Policy
  /\ \A policy \in Policies, kind \in IssueKind :
       policy[kind] = NoAction \/ isActionRememberable(kind, policy[kind])
ASSUME BoundsAssumption == MaxMeddling \in Nat /\ MaxWarnings \in Nat

VARIABLES
  setting,
  source,           (* the source entry: present, removed by us, gone       *)
  readOnly,         (* its read-only flag                                   *)
  entries,          (* what each destination name holds                     *)
  session,          (* the staged copy, CStagedFileCopy                     *)
  leftovers,        (* staging files nobody will remove                     *)
  proposed, replacement, knownCrossDevice, makeWritableAuthorized,
  rechecked,        (* an inexact exclusive rename has checked its target   *)
  tally,            (* the summary's counters                               *)
  progress,         (* bytes and items processed, bytes of this entry       *)
  remembered,
  cancelRequested,
  pc, verdict,
  approved,         (* names for which Replace was answered                 *)
  overwritten,      (* names where an entry of others was replaced          *)
  lateUnits,        (* units of work begun after the cancellation           *)
  meddling          (* changes other programs have made                     *)

fileVars == <<source, readOnly, entries>>
stagingVars == <<session, leftovers>>
planVars == <<proposed, replacement, knownCrossDevice, makeWritableAuthorized, rechecked>>
accountVars == <<tally, progress>>
ghostVars == <<approved, overwritten, lateUnits>>
controlVars == <<pc, verdict>>
outerVars == <<setting, cancelRequested, meddling>>
vars == <<fileVars, stagingVars, planVars, accountVars, remembered, controlVars, ghostVars,
          outerVars>>

NodeOutcome == {"Completed", "AlreadySatisfied", "Skipped", "Failed", "Cancelled"}
NoSession == [state |-> "none", written |-> 0, flushed |-> FALSE, stamped |-> FALSE]
NewSession == [NoSession EXCEPT !.state = "Transferring"]

Move == setting.requestKind = "Move"
Owned == Move /\ setting.ownership = "Owned"
PublishedSourceIsRemoved == Owned

Init ==
  /\ setting \in Settings
  /\ source = "present" /\ readOnly \in BOOLEAN
  /\ entries \in [Names -> {"absent", "file", "directory", "sameFile"}]
  /\ session = NoSession /\ leftovers = 0
  /\ proposed \in Names
  /\ replacement = "RequireAbsent" /\ rechecked = FALSE
  /\ knownCrossDevice \in {FALSE, ~setting.sameDevice}
  /\ makeWritableAuthorized = "unasked"
  /\ tally = [completed |-> 0, skipped |-> 0, satisfied |-> 0, failed |-> 0, warnings |-> 0]
  /\ progress = [bytes |-> 0, entryBytes |-> 0, items |-> 0]
  /\ remembered \in Policies
  /\ cancelRequested = FALSE
  /\ pc = "enter" /\ verdict = "none"
  /\ approved = {} /\ overwritten = {} /\ lateUnits = 0
  /\ meddling = 0

-----------------------------------------------------------------------------
(* Control, the user's answers, accounting.                                *)

Goto(label) == pc' = label /\ UNCHANGED verdict
Return(result) == pc' = "returning" /\ verdict' = result

(* A checkpoint that fails returns at once; nothing was done.               *)
CheckpointThen(label) ==
  IF cancelRequested THEN Return("Cancelled") ELSE Goto(label)

(* Mutant: a cancelled worker still gets answers.                           *)
AnswersTo_IgnoringTheCancel(kind) == allowedActionsFor(kind)

(* A cancelled worker gets no answer, which every caller treats as Cancel.  *)
AnswersTo(kind) == IF cancelRequested THEN {"Cancel"} ELSE allowedActionsFor(kind)

(* A remembered answer applies without asking.                              *)
resolveDecision(kind, scopeAllowed, action) ==
  IF scopeAllowed /\ remembered[kind] # NoAction
  THEN action = remembered[kind] /\ UNCHANGED remembered
  ELSE /\ action \in AnswersTo(kind)
       /\ \/ UNCHANGED remembered
          \/ /\ scopeAllowed /\ isActionRememberable(kind, action)
             /\ remembered' = [remembered EXCEPT ![kind] = action]

Count(counter) == [tally EXCEPT ![counter] = @ + 1]
advanceWithoutTransfer(bytes) ==
  [progress EXCEPT !.bytes = @ + bytes, !.items = @ + 1, !.entryBytes = 0]

(* Mutant: the bytes of a failed attempt stay counted.                      *)
currentEntryAbandoned_KeepingTheBytes == [progress EXCEPT !.entryBytes = 0]

currentEntryAbandoned == [progress EXCEPT !.bytes = @ - progress.entryBytes, !.entryBytes = 0]
itemCompleted == [progress EXCEPT !.items = @ + 1, !.entryBytes = 0]

accountSkippedSubtree ==
  /\ tally' = Count("skipped")
  /\ progress' = advanceWithoutTransfer(setting.size)

(* A unit of work: what is done between two looks at the cancellation flag. *)
BeginUnit ==
  lateUnits' = IF cancelRequested /\ lateUnits < 2 THEN lateUnits + 1 ELSE lateUnits

(* Retry, Skip or Cancel for a failed action.                               *)
AskActionFailed(retry) ==
  /\ \/ resolveDecision("ActionFailed", TRUE, "Retry") /\ Goto(retry) /\ UNCHANGED accountVars
     \/ resolveDecision("ActionFailed", TRUE, "Skip") /\ Return("Skipped") /\ accountSkippedSubtree
     \/ resolveDecision("ActionFailed", TRUE, "Cancel") /\ Return("Cancelled") /\ UNCHANGED accountVars
  /\ UNCHANGED <<fileVars, stagingVars, planVars, ghostVars, outerVars>>

-----------------------------------------------------------------------------
(* Native rename.  One call, except where the exclusive primitive is        *)
(* missing: there a check precedes a rename that replaces what it finds.    *)
(* A file system may claim a collision that a fresh look does not confirm.  *)

NeedsRecheck == replacement = "RequireAbsent" /\ ~setting.exclusiveRename /\ ~rechecked

CanTake(name, isSource) ==
  \/ entries[name] = "absent"
  \/ /\ replacement = "ReplaceExistingFile" \/ rechecked
     /\ entries[name] # "directory"
  \/ isSource /\ setting.exclusiveRename /\ entries[name] = "sameFile"

recheckDestination ==
  /\ pc \in {"renameFirst", "renameResolved", "publish"}
  /\ NeedsRecheck /\ entries[proposed] = "absent"
  /\ rechecked' = TRUE
  /\ UNCHANGED <<fileVars, stagingVars, proposed, replacement, knownCrossDevice,
                 makeWritableAuthorized, accountVars, remembered, controlVars, ghostVars,
                 outerVars>>

Overwrites(name) == entries[name] \in {"file", "directory"} \/ (rechecked /\ entries[name] = "sameFile")

renameSource ==
  /\ pc \in {"renameFirst", "renameResolved"}
  /\ ~NeedsRecheck
  /\ setting.sameDevice /\ source = "present"
  /\ CanTake(proposed, TRUE)
  /\ BeginUnit
  /\ source' = "removed"
  /\ entries' = [entries EXCEPT ![proposed] = "moved"]
  /\ overwritten' = IF Overwrites(proposed) THEN overwritten \cup {proposed} ELSE overwritten
  /\ rechecked' = FALSE
  /\ tally' = Count("completed")
  /\ progress' = advanceWithoutTransfer(setting.size)
  /\ Return("Completed")
  /\ UNCHANGED <<readOnly, stagingVars, proposed, replacement, knownCrossDevice,
                 makeWritableAuthorized, remembered, approved, outerVars>>

AfterEntry == IF setting.entryKind = "Other" THEN "unsupported"
              ELSE IF Move THEN "moveFile" ELSE "resolve"
AfterRename == IF setting.entryKind = "RegularFile" /\ makeWritableAuthorized = "unasked"
               THEN "preflight" ELSE "attempt"
AfterResolution == IF ~Owned THEN "attempt"
                   ELSE IF knownCrossDevice THEN AfterRename ELSE "renameResolved"

renameFails(error) ==
  /\ pc \in {"renameFirst", "renameResolved"}
  /\ error = "CrossDevice" => ~setting.sameDevice
  /\ BeginUnit
  /\ rechecked' = FALSE
  /\ knownCrossDevice' = (knownCrossDevice \/ error = "CrossDevice")
  /\ Goto(CASE error = "Other" -> IF pc = "renameFirst" THEN "renameFirstFailed"
                                                        ELSE "renameResolvedFailed"
            [] error = "CrossDevice" -> IF pc = "renameFirst" THEN AfterEntry ELSE AfterRename
            [] error = "AlreadyExists" -> AfterEntry)
  /\ UNCHANGED <<fileVars, stagingVars, proposed, replacement, makeWritableAuthorized,
                 accountVars, remembered, approved, overwritten, outerVars>>

askRenameFailed ==
  \/ pc = "renameFirstFailed" /\ AskActionFailed("renameFirst")
  \/ pc = "renameResolvedFailed" /\ AskActionFailed("renameResolved")

-----------------------------------------------------------------------------
(* Entry and destination resolution.                                       *)

enter ==
  /\ pc = "enter"
  /\ CheckpointThen(IF Owned /\ ~knownCrossDevice THEN "renameFirst" ELSE AfterEntry)
  /\ UNCHANGED <<fileVars, stagingVars, planVars, accountVars, remembered, ghostVars, outerVars>>

unsupported ==
  /\ pc = "unsupported"
  /\ \/ resolveDecision("UnsupportedEntry", TRUE, "Skip") /\ Return("Skipped") /\ accountSkippedSubtree
     \/ resolveDecision("UnsupportedEntry", TRUE, "Cancel") /\ Return("Cancelled") /\ UNCHANGED accountVars
  /\ UNCHANGED <<fileVars, stagingVars, planVars, ghostVars, outerVars>>

moveFile ==
  /\ pc = "moveFile"
  /\ CheckpointThen("resolve")
  /\ UNCHANGED <<fileVars, stagingVars, planVars, accountVars, remembered, ghostVars, outerVars>>

(* Mutant: an absent destination keeps the disposition of an earlier one.   *)
UseAbsentDestination_AsBefore == Goto(AfterResolution) /\ UNCHANGED replacement

UseAbsentDestination == Goto(AfterResolution) /\ replacement' = "RequireAbsent"

inspectDestination ==
  /\ pc = "resolve"
  /\ \/ /\ entries[proposed] = "absent"
        /\ UseAbsentDestination
        /\ UNCHANGED accountVars
     \/ /\ entries[proposed] = "sameFile" /\ source = "present"
        /\ tally' = Count("satisfied")
        /\ progress' = advanceWithoutTransfer(setting.size)
        /\ Return("AlreadySatisfied")
        /\ UNCHANGED replacement
     \/ /\ entries[proposed] # "absent"
        /\ entries[proposed] = "sameFile" => source # "present"
        /\ Goto(IF entries[proposed] = "directory" THEN "askTypeMismatch" ELSE "askReplacement")
        /\ UNCHANGED <<replacement, accountVars>>
  /\ UNCHANGED <<fileVars, stagingVars, proposed, knownCrossDevice, makeWritableAuthorized,
                 rechecked, remembered, ghostVars, outerVars>>

inspectionFails ==
  /\ pc = "resolve"
  /\ Goto("inspectionFailed")
  /\ UNCHANGED <<fileVars, stagingVars, planVars, accountVars, remembered, ghostVars, outerVars>>

askInspectionFailed == pc = "inspectionFailed" /\ AskActionFailed("resolve")

promptForCollision(kind) ==
  /\ pc = IF kind = "TypeMismatch" THEN "askTypeMismatch" ELSE "askReplacement"
  /\ \/ /\ resolveDecision(kind, TRUE, "Replace")
        /\ replacement' = "ReplaceExistingFile"
        /\ approved' = approved \cup {proposed}
        /\ Goto(AfterResolution)
        /\ UNCHANGED <<proposed, accountVars>>
     \/ /\ resolveDecision(kind, TRUE, "Rename")
        /\ proposed' \in Names
        /\ Goto("resolve")
        /\ UNCHANGED <<replacement, approved, accountVars>>
     \/ /\ resolveDecision(kind, TRUE, "Skip")
        /\ accountSkippedSubtree
        /\ Return("Skipped")
        /\ UNCHANGED <<proposed, replacement, approved>>
     \/ /\ resolveDecision(kind, TRUE, "Cancel")
        /\ Return("Cancelled")
        /\ UNCHANGED <<proposed, replacement, approved, accountVars>>
  /\ UNCHANGED <<fileVars, stagingVars, knownCrossDevice, makeWritableAuthorized, rechecked,
                 overwritten, lateUnits, outerVars>>

-----------------------------------------------------------------------------
(* The read-only question before a copy-based move; an inspection that      *)
(* fails counts as writable.                                                *)

preflight ==
  /\ pc = "preflight"
  /\ \/ makeWritableAuthorized' = "no" /\ Goto("attempt")
     \/ /\ readOnly /\ source = "present"
        /\ Goto("askReadOnlyFirst")
        /\ UNCHANGED makeWritableAuthorized
  /\ UNCHANGED <<fileVars, stagingVars, proposed, replacement, knownCrossDevice, rechecked,
                 accountVars, remembered, ghostVars, outerVars>>

askReadOnlyFirst ==
  /\ pc = "askReadOnlyFirst"
  /\ \/ /\ resolveDecision("ReadOnlySourceRemoval", TRUE, "MakeWritable")
        /\ makeWritableAuthorized' = "yes"
        /\ Goto("attempt")
        /\ UNCHANGED accountVars
     \/ /\ resolveDecision("ReadOnlySourceRemoval", TRUE, "Retry")
        /\ Goto("preflight")
        /\ UNCHANGED <<makeWritableAuthorized, accountVars>>
     \/ /\ resolveDecision("ReadOnlySourceRemoval", TRUE, "Skip")
        /\ accountSkippedSubtree
        /\ Return("Skipped")
        /\ UNCHANGED makeWritableAuthorized
     \/ /\ resolveDecision("ReadOnlySourceRemoval", TRUE, "Cancel")
        /\ Return("Cancelled")
        /\ UNCHANGED <<makeWritableAuthorized, accountVars>>
  /\ UNCHANGED <<fileVars, stagingVars, proposed, replacement, knownCrossDevice, rechecked,
                 ghostVars, outerVars>>

-----------------------------------------------------------------------------
(* The staged copy.                                                        *)

(* Mutant: the result of the cleanup is ignored.                            *)
DiscardStaging_InSilence ==
  /\ UNCHANGED tally
  /\ leftovers' \in {leftovers, leftovers + 1} /\ leftovers' <= MaxWarnings

(* Closing or removing the staging file may fail: a warning says so, and in  *)
(* the second case the file stays.                                          *)
DiscardStaging ==
  \/ UNCHANGED <<leftovers, tally>>
  \/ /\ tally.warnings < MaxWarnings
     /\ tally' = Count("warnings")
     /\ leftovers' \in {leftovers, leftovers + 1}

AbortSession ==
  /\ session' = [session EXCEPT !.state = "Aborted"]
  /\ DiscardStaging
  /\ progress' = currentEntryAbandoned

attempt ==
  /\ pc = "attempt"
  /\ CheckpointThen("begin")
  /\ progress' = IF cancelRequested THEN progress ELSE [progress EXCEPT !.entryBytes = 0]
  /\ UNCHANGED <<fileVars, stagingVars, planVars, tally, remembered, ghostVars, outerVars>>

begin ==
  /\ pc = "begin" /\ source = "present"
  /\ BeginUnit
  /\ session' = NewSession
  /\ Goto("checkChunk")
  /\ UNCHANGED <<fileVars, leftovers, planVars, accountVars, remembered, approved, overwritten,
                 outerVars>>

(* It fails before the staging file exists, or discards the file.           *)
beginFails ==
  /\ pc = "begin"
  /\ BeginUnit
  /\ DiscardStaging
  /\ progress' = currentEntryAbandoned
  /\ Goto("transferFailed")
  /\ UNCHANGED <<fileVars, session, planVars, remembered, approved, overwritten, outerVars>>

CheckpointOrAbort(label) ==
  IF cancelRequested
  THEN AbortSession /\ Return("Cancelled")
  ELSE Goto(label) /\ UNCHANGED <<stagingVars, accountVars>>

(* Mutant: only the whole file is checkpointed, not its chunks.             *)
checkChunk_WithoutCheckpoint ==
  /\ pc = "checkChunk"
  /\ Goto("writeNext")
  /\ UNCHANGED <<fileVars, stagingVars, planVars, accountVars, remembered, ghostVars, outerVars>>

checkChunk ==
  /\ pc = "checkChunk"
  /\ CheckpointOrAbort("writeNext")
  /\ UNCHANGED <<fileVars, planVars, remembered, ghostVars, outerVars>>

(* Mutant: the last chunk is not clipped to what remains.                   *)
ChunkLengths_Unclipped(remaining) == IF remaining = 0 THEN {0} ELSE 1 .. setting.size

(* A write may be short; an empty source is complete at once.               *)
ChunkLengths(remaining) == IF remaining = 0 THEN {0} ELSE 1 .. remaining

writeNext ==
  LET remaining == setting.size - session.written IN
  /\ pc = "writeNext"
  /\ BeginUnit
  /\ \E written \in ChunkLengths(remaining) :
       /\ session' = [session EXCEPT !.written = @ + written,
                        !.state = IF written = remaining THEN "ReadyToCommit" ELSE @]
       /\ progress' = [progress EXCEPT !.bytes = @ + written, !.entryBytes = @ + written]
       /\ Goto(IF written = remaining THEN "checkCommit" ELSE "checkChunk")
  /\ UNCHANGED <<fileVars, leftovers, planVars, tally, remembered, approved, overwritten,
                 outerVars>>

checkCommit ==
  /\ pc = "checkCommit"
  /\ CheckpointOrAbort("commit")
  /\ UNCHANGED <<fileVars, planVars, remembered, ghostVars, outerVars>>

(* Mutant: a move is not flushed.                                           *)
FlushBeforePublish_ForReplacementOnly == replacement = "ReplaceExistingFile"

FlushBeforePublish == PublishedSourceIsRemoved \/ replacement = "ReplaceExistingFile"

(* Flush if required, apply the metadata, close.                            *)
commit ==
  /\ pc = "commit"
  /\ BeginUnit
  /\ session' = [session EXCEPT !.flushed = FlushBeforePublish, !.stamped = TRUE]
  /\ Goto("publish")
  /\ UNCHANGED <<fileVars, leftovers, planVars, accountVars, remembered, approved, overwritten,
                 outerVars>>

(* Any step of the session up to its publication may fail.                  *)
transferFails ==
  /\ pc \in {"writeNext", "commit", "publish"}
  /\ IF pc = "publish" THEN UNCHANGED lateUnits ELSE BeginUnit
  /\ AbortSession
  /\ rechecked' = FALSE
  /\ Goto("transferFailed")
  /\ UNCHANGED <<fileVars, proposed, replacement, knownCrossDevice, makeWritableAuthorized,
                 remembered, approved, overwritten, outerVars>>

publish ==
  /\ pc = "publish" /\ ~NeedsRecheck
  /\ CanTake(proposed, FALSE)
  /\ session' = [session EXCEPT !.state = "Committed"]
  /\ entries' = [entries EXCEPT ![proposed] = "copy"]
  /\ overwritten' = IF entries[proposed] = "absent" THEN overwritten
                                                    ELSE overwritten \cup {proposed}
  /\ rechecked' = FALSE
  /\ IF PublishedSourceIsRemoved
     THEN /\ Goto(IF makeWritableAuthorized = "yes" THEN "makeWritable" ELSE "removeSource")
          /\ UNCHANGED accountVars
     ELSE /\ tally' = Count("completed")
          /\ progress' = itemCompleted
          /\ Return("Completed")
  /\ UNCHANGED <<source, readOnly, leftovers, proposed, replacement, knownCrossDevice,
                 makeWritableAuthorized, remembered, approved, lateUnits, outerVars>>

(* A collision at publication that a fresh look confirms is resolved anew.  *)
publishCollides ==
  /\ pc = "publish"
  /\ entries[proposed] # "absent"
  /\ AbortSession
  /\ rechecked' = FALSE
  /\ Goto(IF Move THEN "moveFile" ELSE "resolve")
  /\ UNCHANGED <<fileVars, proposed, replacement, knownCrossDevice, makeWritableAuthorized,
                 remembered, ghostVars, outerVars>>

askTransferFailed == pc = "transferFailed" /\ AskActionFailed("attempt")

-----------------------------------------------------------------------------
(* Removing the source of a published move.  Nothing here looks at the      *)
(* cancellation flag, except that a question is then answered by Cancel;    *)
(* and no answer is remembered.                                             *)

makeWritable ==
  /\ pc = "makeWritable"
  /\ \/ source = "present" /\ readOnly' = FALSE /\ Goto("removeSource")
     \/ UNCHANGED readOnly /\ Goto("makeWritableFailed")
  /\ UNCHANGED <<source, entries, stagingVars, planVars, accountVars, remembered, ghostVars,
                 outerVars>>

removeSource ==
  /\ pc = "removeSource"
  /\ source' = IF source = "present" THEN "removed" ELSE source
  /\ tally' = Count("completed")
  /\ progress' = itemCompleted
  /\ Return("Completed")
  /\ UNCHANGED <<readOnly, entries, stagingVars, planVars, remembered, ghostVars, outerVars>>

removalFails ==
  /\ pc = "removeSource" /\ source = "present"
  /\ \/ setting.entryKind = "RegularFile" /\ readOnly /\ Goto("askReadOnly")
     \/ Goto("removalFailed")
  /\ UNCHANGED <<fileVars, stagingVars, planVars, accountVars, remembered, ghostVars, outerVars>>

recordTerminalCleanupFailure ==
  /\ tally' = Count("failed")
  /\ progress' = advanceWithoutTransfer(0)

AskCleanup(kind, action, label) ==
  \/ /\ resolveDecision(kind, FALSE, action)
     /\ Goto(label)
     /\ UNCHANGED accountVars
  \/ /\ \/ resolveDecision(kind, FALSE, "Skip") /\ Return("Failed")
        \/ resolveDecision(kind, FALSE, "Cancel") /\ Return("Cancelled")
     /\ recordTerminalCleanupFailure

askCleanupFailed ==
  /\ \/ pc = "makeWritableFailed" /\ AskCleanup("ActionFailed", "Retry", "makeWritable")
     \/ pc = "removalFailed" /\ AskCleanup("ActionFailed", "Retry", "removeSource")
     \/ pc = "askReadOnly" /\ AskCleanup("ReadOnlySourceRemoval", "Retry", "removeSource")
     \/ pc = "askReadOnly" /\ AskCleanup("ReadOnlySourceRemoval", "MakeWritable", "makeWritable")
  /\ UNCHANGED <<fileVars, stagingVars, planVars, ghostVars, outerVars>>

-----------------------------------------------------------------------------
returnToCaller ==
  /\ pc = "returning"
  /\ pc' = "done"
  /\ UNCHANGED <<fileVars, stagingVars, planVars, accountVars, remembered, verdict, ghostVars,
                 outerVars>>

cancel ==
  /\ pc # "done" /\ ~cancelRequested
  /\ cancelRequested' = TRUE
  /\ UNCHANGED <<fileVars, stagingVars, planVars, accountVars, remembered, controlVars, ghostVars,
                 setting, meddling>>

(* Other programs: entries come and go, the source goes, its flag changes.  *)
MeddleWithDestination ==
  \E name \in Names, kind \in {"absent", "file", "directory"} :
    /\ entries[name] \notin {kind, "copy", "moved"}
    /\ entries' = [entries EXCEPT ![name] = kind]
    /\ UNCHANGED <<source, readOnly>>

MeddleWithSource ==
  /\ source = "present"
  /\ \/ source' = "gone" /\ UNCHANGED readOnly
     \/ readOnly' = ~readOnly /\ UNCHANGED source
  /\ UNCHANGED entries

meddle ==
  /\ pc # "done" /\ meddling < MaxMeddling
  /\ meddling' = meddling + 1
  /\ MeddleWithDestination \/ MeddleWithSource
  /\ UNCHANGED <<stagingVars, planVars, accountVars, remembered, controlVars, ghostVars, setting,
                 cancelRequested>>

Transfer ==
  \/ enter \/ unsupported \/ moveFile
  \/ recheckDestination \/ renameSource \/ askRenameFailed
  \/ \E error \in {"CrossDevice", "AlreadyExists", "Other"} : renameFails(error)
  \/ inspectDestination \/ inspectionFails \/ askInspectionFailed
  \/ \E kind \in {"FileReplacement", "TypeMismatch"} : promptForCollision(kind)
  \/ preflight \/ askReadOnlyFirst
  \/ attempt \/ begin \/ beginFails \/ checkChunk \/ writeNext \/ checkCommit \/ commit
  \/ transferFails \/ publish \/ publishCollides \/ askTransferFailed
  \/ makeWritable \/ removeSource \/ removalFails \/ askCleanupFailed
  \/ returnToCaller

Done == pc = "done" /\ UNCHANGED vars

Next == Transfer \/ cancel \/ meddle \/ Done

Spec == Init /\ [][Next]_vars

-----------------------------------------------------------------------------
(* Properties.                                                             *)

(* The type invariant.  Subtractions of abandoned bytes never go below zero. *)
TypeOK ==
  /\ setting \in Settings
  /\ source \in {"present", "removed", "gone"} /\ readOnly \in BOOLEAN
  /\ entries \in [Names -> {"absent", "file", "directory", "sameFile", "copy", "moved"}]
  /\ session \in [state: {"none", "Transferring", "ReadyToCommit", "Committed", "Aborted"},
                   written: 0 .. setting.size, flushed: BOOLEAN, stamped: BOOLEAN]
  /\ leftovers \in 0 .. MaxWarnings
  /\ proposed \in Names /\ replacement \in {"RequireAbsent", "ReplaceExistingFile"}
  /\ knownCrossDevice \in BOOLEAN /\ rechecked \in BOOLEAN
  /\ makeWritableAuthorized \in {"unasked", "no", "yes"}
  /\ tally \in [completed: Nat, skipped: Nat, satisfied: Nat, failed: Nat, warnings: Nat]
  /\ progress \in [bytes: Nat, entryBytes: Nat, items: Nat]
  /\ remembered \in Policy
  /\ cancelRequested \in BOOLEAN
  /\ verdict \in NodeOutcome \cup {"none"}
  /\ approved \subseteq Names /\ overwritten \subseteq Names
  /\ lateUnits \in 0 .. 2 /\ meddling \in 0 .. MaxMeddling

(* Where renames can be exclusive, an entry of others is replaced only at a  *)
(* name for which the user answered Replace; and a copy that replaced one    *)
(* was flushed first (ctransferexecutor.cpp:792).                            *)
OverwritingIsAuthorizedAndSafe ==
  setting.exclusiveRename =>
    /\ overwritten \subseteq approved
    /\ \A name \in overwritten : entries[name] = "copy" => session.flushed

(* No staging file is left behind in silence: a finished transfer has none   *)
(* under way, and every one that could not be removed has its warning.       *)
LeftoversAreReported ==
  /\ leftovers <= tally.warnings
  /\ pc \in {"transferFailed", "returning", "done"} =>
       session.state \in {"none", "Committed", "Aborted"}

(* The entry is accounted for once, under the outcome it had, however many   *)
(* attempts it took; and the bytes of abandoned attempts do not count.       *)
Items == tally.completed + tally.skipped + tally.satisfied + tally.failed
AccountedAs(result) ==
  CASE result = "Completed"        -> tally.completed = 1 /\ progress.bytes = setting.size
    [] result = "Skipped"          -> tally.skipped = 1 /\ progress.bytes = setting.size
    [] result = "AlreadySatisfied" -> tally.satisfied = 1 /\ progress.bytes = setting.size
    [] result = "Failed"           -> tally.failed = 1
    [] OTHER                       -> Items = tally.failed
AccountedExactlyOnce ==
  /\ progress.bytes <= setting.size
  /\ progress.items = Items /\ Items <= 1
  /\ pc = "done" => AccountedAs(verdict)

(* Cancellation stops the transfer: at most one more unit of work begins,    *)
(* the one whose checkpoint had already been passed.                         *)
CancellationStopsTransfer == lateUnits <= 1

(* Every transfer keeps the contract: content appears whole, the original    *)
(* goes only when a safe copy exists, and the outcome tells the truth.       *)
Holders == {name \in Names :
  \/ entries[name] = "moved"
  \/ entries[name] = "copy" /\ session.written = setting.size /\ session.stamped}
SafeHolders == {name \in Holders : entries[name] = "copy" => session.flushed}
Outcome == IF pc = "done" THEN verdict ELSE "none"

Contract == INSTANCE TransferContract WITH
  removesSource <- PublishedSourceIsRemoved, original <- source,
  holders <- Holders, safeHolders <- SafeHolders, outcome <- Outcome

KeepsTheContract == Contract!ContractSpec

(* How many steps a cancelled worker has left at most.                      *)
StepsLeft ==
  CASE pc = "done"                                 -> 0
    [] pc = "returning"                            -> 1
    [] pc \in {"renameFirst", "askReadOnlyFirst", "begin", "writeNext", "removeSource"} -> 3
    [] pc \in {"preflight", "makeWritable"}        -> 4
    [] pc = "renameResolved"                       -> 5
    [] pc \in {"askTypeMismatch", "askReplacement"} -> 7
    [] pc = "resolve"                              -> 8
    [] pc = "publish"                              -> 9
    [] pc = "commit"                               -> 11
    [] OTHER                                       -> 2
RecheckLeft == IF pc \in {"renameFirst", "renameResolved", "publish"} /\ ~rechecked THEN 1 ELSE 0

(* A cancelled transfer returns after at most eleven more steps, whatever it *)
(* was doing, fails or is told by remembered answers: each step brings it    *)
(* nearer to its end, and others do not take it back (ctransferexecutor.cpp). *)
CancelledTransferNearsItsEnd ==
  [][cancelRequested =>
       \/ StepsLeft' + RecheckLeft' < StepsLeft + RecheckLeft
       \/ meddle /\ UNCHANGED <<StepsLeft, RecheckLeft>>]_vars
-----------------------------------------------------------------------------
(* The inductive strengthenings the proofs use.                            *)

Renaming == {"renameFirst", "renameResolved", "renameFirstFailed", "renameResolvedFailed"}
Resolving == {"resolve", "inspectionFailed", "askTypeMismatch", "askReplacement"}
Arriving == {"enter", "unsupported", "moveFile"}
Preparing == {"preflight", "askReadOnlyFirst", "attempt", "begin", "transferFailed"}
UnderWay == {"checkChunk", "writeNext", "checkCommit", "commit", "publish"}
CleaningUp == {"makeWritable", "makeWritableFailed", "removeSource", "removalFailed", "askReadOnly"}
Ended == {"returning", "done"}
BeforePublication == Arriving \cup Renaming \cup Resolving \cup Preparing \cup UnderWay

(* What abandoning an attempt takes back had been counted before.           *)
Bookkeeping ==
  /\ pc \in BeforePublication \cup CleaningUp \cup Ended
  /\ progress.entryBytes <= progress.bytes
  /\ leftovers <= tally.warnings
  /\ pc \notin UnderWay => session.state \in {"none", "Committed", "Aborted"}

Whole == session.written = setting.size /\ session.stamped
Unclaimed(name) == entries[name] \notin {"copy", "moved"}
Unpublished == source # "removed" /\ \A name \in Names : Unclaimed(name)
PublishedCopyStands ==
  /\ Owned /\ source # "removed"
  /\ entries[proposed] = "copy" /\ Whole /\ session.flushed
  /\ \A other \in Names \ {proposed} : Unclaimed(other)

(* Nothing is published before the publication, what is about to be         *)
(* published is whole, and the published copy of an owned source is safe.   *)
Stages ==
  /\ pc \in BeforePublication => Unpublished
  /\ pc \in Renaming => Owned
  /\ pc \in {"checkCommit", "commit"} => session.written = setting.size
  /\ pc = "publish" => Whole /\ session.flushed = FlushBeforePublish
  /\ pc \in CleaningUp => PublishedCopyStands
  /\ pc \in Ended => verdict \in NodeOutcome /\ Contract!Truthful(verdict)

(* A disposition that replaces was approved for the name it is used on.     *)
FreshDisposition ==
  pc \in {"enter", "renameFirst", "renameFirstFailed"} => replacement = "RequireAbsent"
ApprovedDisposition ==
  pc \in Preparing \cup UnderWay \cup {"renameResolved", "renameResolvedFailed"}
  /\ replacement = "ReplaceExistingFile" => proposed \in approved
Dispositions ==
  /\ setting.exclusiveRename => ~rechecked
  /\ FreshDisposition /\ ApprovedDisposition
  /\ pc \in BeforePublication => overwritten = {}
  /\ OverwritingIsAuthorizedAndSafe

(* Before the end nothing is accounted for but the bytes of the attempt.    *)
Uncounted == tally.completed = 0 /\ tally.skipped = 0 /\ tally.satisfied = 0 /\ tally.failed = 0
             /\ progress.items = 0
BytesOfTheAttempt(bytes) == progress.bytes = bytes /\ progress.entryBytes = bytes
Accounts ==
  /\ pc \in BeforePublication \cup CleaningUp => Uncounted
  /\ pc \in BeforePublication \ UnderWay => BytesOfTheAttempt(0)
  /\ pc \in UnderWay => BytesOfTheAttempt(session.written)
  /\ pc \in CleaningUp => progress.bytes = setting.size
  /\ pc \in Ended => AccountedAs(verdict)
  /\ AccountedExactlyOnce

(* After a late unit the next checkpoint comes before the next unit; and an *)
(* answer that repeats a unit is never remembered.                          *)
BehindACheckpoint ==
  \/ pc \in {"renameFirstFailed", "renameResolvedFailed", "unsupported", "moveFile"}
  \/ pc \in (Preparing \ {"begin"}) \cup {"checkChunk", "checkCommit", "publish"}
  \/ pc \in CleaningUp \cup Ended
  \/ pc \in Resolving /\ ~Owned
OnlyRememberable ==
  \A kind \in IssueKind :
    remembered[kind] = NoAction \/ isActionRememberable(kind, remembered[kind])
LateOnce == lateUnits = 0 \/ (lateUnits = 1 /\ cancelRequested /\ BehindACheckpoint)
=============================================================================
