-------------------------- MODULE FileTransferProofs --------------------------
(***************************************************************************)
(* Theorems about FileTransfer, for any names, situations, remembered      *)
(* answers and bounds: types and leftovers, the refinement of the contract, *)
(* and the other safety properties.                                        *)
(***************************************************************************)
EXTENDS FileTransfer, TLAPS

-----------------------------------------------------------------------------
(* What the pieces of the actions return.                                  *)

Tally == [completed: Nat, skipped: Nat, satisfied: Nat, failed: Nat, warnings: Nat]
Progress == [bytes: Nat, entryBytes: Nat, items: Nat]

(* A setting's members.                                                     *)
LEMMA SettingMembers ==
  ASSUME setting \in Settings
  PROVE  /\ setting.size \in Nat
         /\ setting.sameDevice \in BOOLEAN /\ setting.exclusiveRename \in BOOLEAN
BY SettingsAssumption DEF Setting

(* Counting one item keeps the counters.                                    *)
LEMMA Counting ==
  ASSUME tally \in Tally,
         NEW counter \in {"completed", "skipped", "satisfied", "failed", "warnings"}
  PROVE  Count(counter) \in Tally
BY DEF Count, Tally

(* An answer leaves the table of remembered answers a table of answers.     *)
LEMMA AnswersKeepThePolicy ==
  ASSUME remembered \in Policy, NEW kind \in IssueKind, NEW scopeAllowed \in BOOLEAN,
         NEW action \in DecisionAction, resolveDecision(kind, scopeAllowed, action)
  PROVE  remembered' \in Policy
BY DEF Policy, resolveDecision

(* Progress stays in the naturals: what is taken back was counted before.   *)
LEMMA Progressing ==
  ASSUME progress \in Progress, progress.entryBytes <= progress.bytes, NEW bytes \in Nat
  PROVE  /\ advanceWithoutTransfer(bytes) \in Progress
         /\ advanceWithoutTransfer(bytes).entryBytes <= advanceWithoutTransfer(bytes).bytes
         /\ currentEntryAbandoned \in Progress
         /\ currentEntryAbandoned.entryBytes <= currentEntryAbandoned.bytes
         /\ itemCompleted \in Progress
         /\ itemCompleted.entryBytes <= itemCompleted.bytes
<1>1. /\ progress.bytes \in Nat /\ progress.entryBytes \in Nat /\ progress.items \in Nat
      /\ progress.bytes + bytes \in Nat /\ progress.items + 1 \in Nat
      /\ progress.bytes - progress.entryBytes \in Nat
  BY DEF Progress
<1>2. advanceWithoutTransfer(bytes) \in Progress
  BY <1>1 DEF Progress, advanceWithoutTransfer
<1>3. currentEntryAbandoned \in Progress
  BY <1>1 DEF Progress, currentEntryAbandoned
<1>4. itemCompleted \in Progress
  BY <1>1 DEF Progress, itemCompleted
<1>5. advanceWithoutTransfer(bytes).entryBytes = 0
  BY DEF Progress, advanceWithoutTransfer
<1>6. currentEntryAbandoned.entryBytes = 0
  BY DEF Progress, currentEntryAbandoned
<1>7. itemCompleted.entryBytes = 0
  BY DEF Progress, itemCompleted
<1> QED
  BY <1>2, <1>3, <1>4, <1>5, <1>6, <1>7 DEF Progress

(* Discarding a staging file reports what it leaves behind.                 *)
LEMMA Discarding ==
  ASSUME tally \in Tally, leftovers \in 0 .. MaxWarnings, leftovers <= tally.warnings,
         DiscardStaging
  PROVE  /\ tally' \in Tally /\ leftovers' \in 0 .. MaxWarnings
         /\ leftovers' <= tally'.warnings
<1>1. CASE UNCHANGED <<leftovers, tally>>
  BY <1>1
<1>2. CASE /\ tally.warnings < MaxWarnings
           /\ tally' = Count("warnings")
           /\ leftovers' \in {leftovers, leftovers + 1}
  <2>1. tally' \in Tally
    BY <1>2, Counting
  <2>2. tally'.warnings = tally.warnings + 1
    BY <1>2 DEF Count, Tally
  <2>3. tally.warnings \in Nat
    BY DEF Tally
  <2> QED
    BY <1>2, <2>1, <2>2, <2>3, BoundsAssumption
<1> QED
  BY <1>1, <1>2 DEF DiscardStaging

-----------------------------------------------------------------------------
(* The type invariant and the bookkeeping that makes it inductive, in the   *)
(* parts the actions disturb one by one.                                    *)

Session == [state: {"none", "Transferring", "ReadyToCommit", "Committed", "Aborted"},
            written: 0 .. setting.size, flushed: BOOLEAN, stamped: BOOLEAN]

FilesTyped ==
  /\ source \in {"present", "removed", "gone"} /\ readOnly \in BOOLEAN
  /\ entries \in [Names -> {"absent", "file", "directory", "sameFile", "copy", "moved"}]
SessionTyped == session \in Session
PlanTyped ==
  /\ proposed \in Names /\ replacement \in {"RequireAbsent", "ReplaceExistingFile"}
  /\ knownCrossDevice \in BOOLEAN /\ rechecked \in BOOLEAN
  /\ makeWritableAuthorized \in {"unasked", "no", "yes"}
AccountsTyped ==
  /\ tally \in Tally /\ leftovers \in 0 .. MaxWarnings /\ leftovers <= tally.warnings
  /\ progress \in Progress /\ progress.entryBytes <= progress.bytes
PolicyTyped == remembered \in Policy
GhostsTyped == approved \subseteq Names /\ overwritten \subseteq Names /\ lateUnits \in 0 .. 2
OuterTyped == setting \in Settings /\ cancelRequested \in BOOLEAN /\ meddling \in 0 .. MaxMeddling
ControlTyped ==
  /\ verdict \in NodeOutcome \cup {"none"}
  /\ pc \in BeforePublication \cup CleaningUp \cup Ended
SessionEnds == pc \notin UnderWay => session.state \in {"none", "Committed", "Aborted"}

Typed ==
  /\ FilesTyped /\ SessionTyped /\ PlanTyped /\ AccountsTyped /\ PolicyTyped
  /\ GhostsTyped /\ OuterTyped /\ ControlTyped /\ SessionEnds

(* The parts are the type invariant and the bookkeeping.                    *)
LEMMA TypedParts == Typed <=> TypeOK /\ Bookkeeping
BY DEF Typed, TypeOK, Bookkeeping, FilesTyped, SessionTyped, PlanTyped, AccountsTyped, PolicyTyped,
       GhostsTyped, OuterTyped, ControlTyped, SessionEnds, Session, Tally, Progress

(* A part whose variables do not change still holds.                        *)
LEMMA Untouched ==
  ASSUME Typed
  PROVE  /\ UNCHANGED fileVars => FilesTyped'
         /\ UNCHANGED <<setting, session>> => SessionTyped'
         /\ UNCHANGED planVars => PlanTyped'
         /\ UNCHANGED <<leftovers, accountVars>> => AccountsTyped'
         /\ UNCHANGED remembered => PolicyTyped'
         /\ UNCHANGED <<approved, overwritten, lateUnits>> => GhostsTyped'
         /\ UNCHANGED <<approved, overwritten>> /\ BeginUnit => GhostsTyped'
         /\ UNCHANGED outerVars => OuterTyped'
         /\ UNCHANGED controlVars => ControlTyped'
<1> USE DEF Typed, fileVars, planVars, accountVars, outerVars, controlVars
<1>1. UNCHANGED fileVars => FilesTyped'
  BY DEF FilesTyped
<1>2. UNCHANGED <<setting, session>> => SessionTyped'
  BY DEF SessionTyped, Session
<1>3. UNCHANGED planVars => PlanTyped'
  BY DEF PlanTyped
<1>4. UNCHANGED <<leftovers, accountVars>> => AccountsTyped'
  BY DEF AccountsTyped
<1>5. UNCHANGED remembered => PolicyTyped'
  BY DEF PolicyTyped
<1>6. UNCHANGED <<approved, overwritten>> /\ (UNCHANGED lateUnits \/ BeginUnit) => GhostsTyped'
  BY DEF GhostsTyped, BeginUnit
<1>7. UNCHANGED outerVars => OuterTyped'
  BY DEF OuterTyped
<1>8. UNCHANGED controlVars => ControlTyped'
  BY DEF ControlTyped
<1> QED
  BY <1>1, <1>2, <1>3, <1>4, <1>5, <1>6, <1>7, <1>8

(* What the accounting operators and the end of an attempt do to the types. *)
LEMMA AccountingKeepsTypes ==
  ASSUME Typed, UNCHANGED setting
  PROVE  /\ accountSkippedSubtree /\ UNCHANGED leftovers => AccountsTyped'
         /\ \A counter \in {"completed", "skipped", "satisfied", "failed"} :
              /\ tally' = Count(counter) /\ UNCHANGED leftovers
              /\ progress' = itemCompleted \/ \E bytes \in Nat : progress' = advanceWithoutTransfer(bytes)
              => AccountsTyped'
         /\ DiscardStaging /\ progress' = currentEntryAbandoned => AccountsTyped'
         /\ AbortSession => AccountsTyped' /\ SessionTyped' /\ session'.state = "Aborted"
<1> USE DEF Typed
<1>1. setting.size \in Nat
  BY SettingMembers DEF OuterTyped
<1>2. \A counter \in {"completed", "skipped", "satisfied", "failed"} :
        Count(counter) \in Tally /\ Count(counter).warnings = tally.warnings
  BY Counting DEF AccountsTyped, Count, Tally
<1>3. /\ \A bytes \in Nat : /\ advanceWithoutTransfer(bytes) \in Progress
                            /\ advanceWithoutTransfer(bytes).entryBytes <= advanceWithoutTransfer(bytes).bytes
      /\ itemCompleted \in Progress /\ itemCompleted.entryBytes <= itemCompleted.bytes
      /\ currentEntryAbandoned \in Progress
      /\ currentEntryAbandoned.entryBytes <= currentEntryAbandoned.bytes
  BY <1>1, Progressing DEF AccountsTyped
<1>4. ASSUME NEW counter \in {"completed", "skipped", "satisfied", "failed"},
             tally' = Count(counter), UNCHANGED leftovers,
             progress' = itemCompleted \/ \E bytes \in Nat : progress' = advanceWithoutTransfer(bytes)
      PROVE  AccountsTyped'
  BY <1>2, <1>3, <1>4 DEF AccountsTyped
<1>5. accountSkippedSubtree /\ UNCHANGED leftovers => AccountsTyped'
  BY <1>1, <1>4 DEF accountSkippedSubtree
<1>6. DiscardStaging /\ progress' = currentEntryAbandoned => AccountsTyped'
  BY <1>3, Discarding DEF AccountsTyped
<1>7. AbortSession => SessionTyped' /\ session'.state = "Aborted"
  BY DEF AbortSession, SessionTyped, Session
<1> QED
  BY <1>4, <1>5, <1>6, <1>7 DEF AbortSession

(* Every question about a failed action, whatever is tried again.           *)
LEMMA AskingKeepsTypes ==
  ASSUME Typed, NEW retry \in BeforePublication \ UnderWay,
         pc \notin UnderWay, AskActionFailed(retry)
  PROVE  Typed'
<1> USE DEF AskActionFailed, fileVars, stagingVars, planVars, ghostVars, outerVars, accountVars
<1>1. PolicyTyped'
  BY AnswersKeepThePolicy DEF PolicyTyped, Typed, IssueKind, DecisionAction
<1>2. AccountsTyped'
  BY AccountingKeepsTypes, Untouched
<1>3. ControlTyped' /\ SessionEnds'
  BY DEF Goto, Return, NodeOutcome, ControlTyped, SessionEnds, Typed, UnderWay, Ended,
     BeforePublication
<1> QED
  BY <1>1, <1>2, <1>3, Untouched DEF Typed

(* No action breaks the types.                                              *)
LEMMA TypesStep == Typed /\ [Next]_vars => Typed'
<1> SUFFICES ASSUME Typed, [Next]_vars PROVE Typed'
  OBVIOUS
<1> USE DEF fileVars, stagingVars, planVars, accountVars, ghostVars, outerVars, controlVars,
            Goto, Return, CheckpointThen
<1>s. setting.size \in Nat
  BY SettingMembers DEF OuterTyped, Typed
<1>t. UNCHANGED <<setting, session>> => SessionTyped'
  BY Untouched
<1>r. \A kind \in IssueKind, scopeAllowed \in BOOLEAN, action \in DecisionAction :
        resolveDecision(kind, scopeAllowed, action) => PolicyTyped'
  BY AnswersKeepThePolicy DEF PolicyTyped, Typed
<1>1. CASE enter
  <2>1. ControlTyped' /\ SessionEnds'
    BY <1>1 DEF enter, AfterEntry, Typed, ControlTyped, SessionEnds,
      NodeOutcome, Arriving, Renaming, Resolving, Preparing, UnderWay, CleaningUp, Ended,
      BeforePublication
  <2> QED
    BY <1>1, <2>1, <1>t, Untouched DEF enter, Typed
<1>2. CASE unsupported
  <2>1. PolicyTyped'
    BY <1>2, <1>r DEF unsupported, IssueKind, DecisionAction
  <2>2. AccountsTyped'
    BY <1>2, <1>s, AccountingKeepsTypes, Untouched DEF unsupported
  <2>3. ControlTyped' /\ SessionEnds'
    BY <1>2 DEF unsupported, Typed, ControlTyped, SessionEnds,
      NodeOutcome, Arriving, Renaming, Resolving, Preparing, UnderWay, CleaningUp, Ended,
      BeforePublication
  <2> QED
    BY <1>2, <2>1, <2>2, <2>3, <1>t, Untouched DEF unsupported, Typed
<1>3. CASE moveFile
  <2>1. ControlTyped' /\ SessionEnds'
    BY <1>3 DEF moveFile, Typed, ControlTyped, SessionEnds,
      NodeOutcome, Arriving, Renaming, Resolving, Preparing, UnderWay, CleaningUp, Ended,
      BeforePublication
  <2> QED
    BY <1>3, <2>1, <1>t, Untouched DEF moveFile, Typed
<1>4. CASE recheckDestination
  <2>1. PlanTyped'
    BY <1>4 DEF recheckDestination, Typed, PlanTyped
  <2>2. ControlTyped' /\ SessionEnds'
    BY <1>4 DEF recheckDestination, Typed, ControlTyped, SessionEnds,
      NodeOutcome, Arriving, Renaming, Resolving, Preparing, UnderWay, CleaningUp, Ended,
      BeforePublication
  <2> QED
    BY <1>4, <2>1, <2>2, <1>t, Untouched DEF recheckDestination, Typed
<1>5. CASE renameSource
  <2>1. FilesTyped'
    BY <1>5 DEF renameSource, Typed, FilesTyped
  <2>2. PlanTyped'
    BY <1>5 DEF renameSource, Typed, PlanTyped
  <2>3. AccountsTyped'
    BY <1>5, <1>s, AccountingKeepsTypes, Untouched DEF renameSource
  <2>4. GhostsTyped'
    BY <1>5 DEF renameSource, BeginUnit, Typed, GhostsTyped, PlanTyped
  <2>5. ControlTyped' /\ SessionEnds'
    BY <1>5 DEF renameSource, Typed, ControlTyped, SessionEnds,
      NodeOutcome, Arriving, Renaming, Resolving, Preparing, UnderWay, CleaningUp, Ended,
      BeforePublication
  <2> QED
    BY <1>5, <2>1, <2>2, <2>3, <2>4, <2>5, <1>t, Untouched DEF renameSource, Typed
<1>6. CASE askRenameFailed
  BY <1>6, AskingKeepsTypes DEF askRenameFailed, Renaming, Resolving, Preparing, UnderWay,
     BeforePublication
<1>7. ASSUME NEW error \in {"CrossDevice", "AlreadyExists", "Other"}, renameFails(error)
      PROVE  Typed'
  <2>1. PlanTyped'
    BY <1>7 DEF renameFails, Typed, PlanTyped
  <2>2. ControlTyped' /\ SessionEnds'
    BY <1>7 DEF renameFails, AfterEntry, AfterRename, Typed, ControlTyped, SessionEnds,
      NodeOutcome, Arriving, Renaming, Resolving, Preparing, UnderWay, CleaningUp, Ended,
      BeforePublication
  <2> QED
    BY <1>7, <2>1, <2>2, <1>t, Untouched DEF renameFails, Typed
<1>8. CASE inspectDestination
  <2>1. PlanTyped'
    BY <1>8 DEF inspectDestination, UseAbsentDestination, Typed, PlanTyped
  <2>2. AccountsTyped'
    BY <1>8, <1>s, AccountingKeepsTypes, Untouched DEF inspectDestination
  <2>3. ControlTyped' /\ SessionEnds'
    BY <1>8 DEF inspectDestination, AfterResolution, AfterRename, UseAbsentDestination, Typed,
       ControlTyped, SessionEnds,
      NodeOutcome, Arriving, Renaming, Resolving, Preparing, UnderWay, CleaningUp, Ended,
      BeforePublication
  <2> QED
    BY <1>8, <2>1, <2>2, <2>3, <1>t, Untouched DEF inspectDestination, Typed
<1>9. CASE inspectionFails
  <2>1. ControlTyped' /\ SessionEnds'
    BY <1>9 DEF inspectionFails, Typed, ControlTyped, SessionEnds,
      NodeOutcome, Arriving, Renaming, Resolving, Preparing, UnderWay, CleaningUp, Ended,
      BeforePublication
  <2> QED
    BY <1>9, <2>1, <1>t, Untouched DEF inspectionFails, Typed
<1>10. CASE askInspectionFailed
  BY <1>10, AskingKeepsTypes DEF askInspectionFailed, Renaming, Resolving, Preparing, UnderWay,
     BeforePublication
<1>11. ASSUME NEW kind \in {"FileReplacement", "TypeMismatch"}, promptForCollision(kind)
       PROVE  Typed'
  <2>1. PolicyTyped'
    BY <1>11, <1>r DEF promptForCollision, IssueKind, DecisionAction
  <2>2. PlanTyped'
    BY <1>11 DEF promptForCollision, Typed, PlanTyped
  <2>3. AccountsTyped'
    BY <1>11, <1>s, AccountingKeepsTypes, Untouched DEF promptForCollision
  <2>4. GhostsTyped'
    BY <1>11 DEF promptForCollision, Typed, GhostsTyped, PlanTyped
  <2>5. ControlTyped' /\ SessionEnds'
    BY <1>11 DEF promptForCollision, AfterResolution, AfterRename, Typed, ControlTyped, SessionEnds,
      NodeOutcome, Arriving, Renaming, Resolving, Preparing, UnderWay, CleaningUp, Ended,
      BeforePublication
  <2> QED
    BY <1>11, <2>1, <2>2, <2>3, <2>4, <2>5, <1>t, Untouched DEF promptForCollision, Typed
<1>12. CASE preflight
  <2>1. PlanTyped'
    BY <1>12 DEF preflight, Typed, PlanTyped
  <2>2. ControlTyped' /\ SessionEnds'
    BY <1>12 DEF preflight, Typed, ControlTyped, SessionEnds,
      NodeOutcome, Arriving, Renaming, Resolving, Preparing, UnderWay, CleaningUp, Ended,
      BeforePublication
  <2> QED
    BY <1>12, <2>1, <2>2, <1>t, Untouched DEF preflight, Typed
<1>13. CASE askReadOnlyFirst
  <2>1. PolicyTyped'
    BY <1>13, <1>r DEF askReadOnlyFirst, IssueKind, DecisionAction
  <2>2. PlanTyped'
    BY <1>13 DEF askReadOnlyFirst, Typed, PlanTyped
  <2>3. AccountsTyped'
    BY <1>13, <1>s, AccountingKeepsTypes, Untouched DEF askReadOnlyFirst
  <2>4. ControlTyped' /\ SessionEnds'
    BY <1>13 DEF askReadOnlyFirst, Typed, ControlTyped, SessionEnds,
      NodeOutcome, Arriving, Renaming, Resolving, Preparing, UnderWay, CleaningUp, Ended,
      BeforePublication
  <2> QED
    BY <1>13, <2>1, <2>2, <2>3, <2>4, <1>t, Untouched DEF askReadOnlyFirst, Typed
<1>14. CASE attempt
  <2>1. AccountsTyped'
    BY <1>14 DEF attempt, Typed, AccountsTyped, Progress
  <2>2. ControlTyped' /\ SessionEnds'
    BY <1>14 DEF attempt, Typed, ControlTyped, SessionEnds,
      NodeOutcome, Arriving, Renaming, Resolving, Preparing, UnderWay, CleaningUp, Ended,
      BeforePublication
  <2> QED
    BY <1>14, <2>1, <2>2, <1>t, Untouched DEF attempt, Typed
<1>15. CASE begin
  <2>1. NoSession \in Session
    BY <1>s DEF NoSession, Session
  <2>2. NewSession \in Session
    BY <2>1 DEF NewSession, Session
  <2>3. SessionTyped'
    BY <1>15, <2>2 DEF begin, outerVars, SessionTyped, Session
  <2>4. ControlTyped' /\ SessionEnds'
    BY <1>15 DEF begin, Typed, ControlTyped, SessionEnds,
      NodeOutcome, Arriving, Renaming, Resolving, Preparing, UnderWay, CleaningUp, Ended,
      BeforePublication
  <2> QED
    BY <1>15, <2>3, <2>4, Untouched DEF begin, Typed
<1>16. CASE beginFails
  <2>1. AccountsTyped'
    BY <1>16, <1>s, AccountingKeepsTypes, Untouched DEF beginFails
  <2>2. ControlTyped' /\ SessionEnds'
    BY <1>16 DEF beginFails, Typed, ControlTyped, SessionEnds,
      NodeOutcome, Arriving, Renaming, Resolving, Preparing, UnderWay, CleaningUp, Ended,
      BeforePublication
  <2> QED
    BY <1>16, <2>1, <2>2, <1>t, Untouched DEF beginFails, Typed
<1>17. CASE checkChunk
  <2>1. SessionTyped' /\ AccountsTyped'
    BY <1>17, AccountingKeepsTypes, Untouched DEF checkChunk, CheckpointOrAbort
  <2>2. SessionEnds'
    BY <1>17, AccountingKeepsTypes DEF checkChunk, CheckpointOrAbort, Typed, SessionEnds, UnderWay
  <2>3. ControlTyped'
    BY <1>17 DEF checkChunk, CheckpointOrAbort, Typed, ControlTyped,
      NodeOutcome, Arriving, Renaming, Resolving, Preparing, UnderWay, CleaningUp, Ended,
      BeforePublication
  <2> QED
    BY <1>17, <2>1, <2>2, <2>3, <1>t, Untouched DEF checkChunk, Typed
<1>18. CASE writeNext
  <2> DEFINE remaining == setting.size - session.written
  <2>1. PICK written \in ChunkLengths(remaining) :
          /\ session' = [session EXCEPT !.written = @ + written,
                           !.state = IF written = remaining THEN "ReadyToCommit" ELSE @]
          /\ progress' = [progress EXCEPT !.bytes = @ + written, !.entryBytes = @ + written]
          /\ Goto(IF written = remaining THEN "checkCommit" ELSE "checkChunk")
    BY <1>18 DEF writeNext
  <2>2. remaining \in Nat /\ written \in 0 .. remaining /\ session.written \in 0 .. setting.size
    BY <1>s DEF ChunkLengths, Typed, SessionTyped, Session
  <2>3. session.written + written \in 0 .. setting.size
    BY <1>s, <2>2
  <2>4. session' \in Session
    BY <2>1, <2>3 DEF Session, Typed, SessionTyped
  <2>5. SessionTyped'
    BY <1>18, <2>4 DEF writeNext, SessionTyped, Session
  <2>6. /\ progress.bytes + written \in Nat /\ progress.entryBytes + written \in Nat
        /\ progress.entryBytes + written <= progress.bytes + written
    BY <2>2 DEF Typed, AccountsTyped, Progress
  <2>7. progress' \in Progress
    BY <2>1, <2>6 DEF Typed, AccountsTyped, Progress
  <2>8. /\ progress'.bytes = progress.bytes + written
        /\ progress'.entryBytes = progress.entryBytes + written
    BY <2>1 DEF Typed, AccountsTyped, Progress
  <2>9. AccountsTyped'
    BY <1>18, <2>6, <2>7, <2>8 DEF writeNext, Typed, AccountsTyped
  <2>10. ControlTyped' /\ SessionEnds'
    BY <1>18, <2>1 DEF writeNext, Typed, ControlTyped, SessionEnds, UnderWay, BeforePublication
  <2> QED
    BY <1>18, <2>5, <2>9, <2>10, Untouched DEF writeNext, Typed
<1>19. CASE checkCommit
  <2>1. SessionTyped' /\ AccountsTyped'
    BY <1>19, AccountingKeepsTypes, Untouched DEF checkCommit, CheckpointOrAbort
  <2>2. SessionEnds'
    BY <1>19, AccountingKeepsTypes DEF checkCommit, CheckpointOrAbort, Typed, SessionEnds, UnderWay
  <2>3. ControlTyped'
    BY <1>19 DEF checkCommit, CheckpointOrAbort, Typed, ControlTyped,
      NodeOutcome, Arriving, Renaming, Resolving, Preparing, UnderWay, CleaningUp, Ended,
      BeforePublication
  <2> QED
    BY <1>19, <2>1, <2>2, <2>3, <1>t, Untouched DEF checkCommit, Typed
<1>20. CASE commit
  <2>1. SessionTyped'
    BY <1>20 DEF commit, FlushBeforePublish, PublishedSourceIsRemoved, Owned, Move, Typed,
       SessionTyped, Session
  <2>2. ControlTyped' /\ SessionEnds'
    BY <1>20 DEF commit, Typed, ControlTyped, SessionEnds,
      NodeOutcome, Arriving, Renaming, Resolving, Preparing, UnderWay, CleaningUp, Ended,
      BeforePublication
  <2> QED
    BY <1>20, <2>1, <2>2, <1>t, Untouched DEF commit, Typed
<1>21. CASE transferFails
  <2>1. PlanTyped'
    BY <1>21 DEF transferFails, Typed, PlanTyped
  <2>2. SessionTyped' /\ AccountsTyped' /\ SessionEnds'
    BY <1>21, AccountingKeepsTypes DEF transferFails, SessionEnds
  <2>3. GhostsTyped'
    BY <1>21, Untouched DEF transferFails
  <2>4. ControlTyped'
    BY <1>21 DEF transferFails, Typed, ControlTyped,
      NodeOutcome, Arriving, Renaming, Resolving, Preparing, UnderWay, CleaningUp, Ended,
      BeforePublication
  <2> QED
    BY <1>21, <2>1, <2>2, <2>3, <2>4, <1>t, Untouched DEF transferFails, Typed
<1>22. CASE publish
  <2>1. FilesTyped'
    BY <1>22 DEF publish, Typed, FilesTyped
  <2>2. PlanTyped'
    BY <1>22 DEF publish, Typed, PlanTyped
  <2>3. SessionTyped'
    BY <1>22 DEF publish, Typed, SessionTyped, Session
  <2>4. AccountsTyped'
    BY <1>22, AccountingKeepsTypes, Untouched DEF publish
  <2>5. GhostsTyped'
    BY <1>22 DEF publish, Typed, GhostsTyped, PlanTyped
  <2>6. SessionEnds'
    BY <1>22 DEF publish, Typed, SessionTyped, Session, SessionEnds
  <2>7. ControlTyped'
    BY <1>22 DEF publish, Typed, ControlTyped,
      NodeOutcome, Arriving, Renaming, Resolving, Preparing, UnderWay, CleaningUp, Ended,
      BeforePublication
  <2> QED
    BY <1>22, <2>1, <2>2, <2>3, <2>4, <2>5, <2>6, <2>7, <1>t, Untouched DEF publish, Typed
<1>23. CASE publishCollides
  <2>1. PlanTyped'
    BY <1>23 DEF publishCollides, Typed, PlanTyped
  <2>2. SessionTyped' /\ AccountsTyped' /\ SessionEnds'
    BY <1>23, AccountingKeepsTypes DEF publishCollides, SessionEnds
  <2>3. ControlTyped'
    BY <1>23 DEF publishCollides, Typed, ControlTyped,
      NodeOutcome, Arriving, Renaming, Resolving, Preparing, UnderWay, CleaningUp, Ended,
      BeforePublication
  <2> QED
    BY <1>23, <2>1, <2>2, <2>3, <1>t, Untouched DEF publishCollides, Typed
<1>24. CASE askTransferFailed
  BY <1>24, AskingKeepsTypes DEF askTransferFailed, Renaming, Resolving, Preparing, UnderWay,
     BeforePublication
<1>25. CASE makeWritable
  <2>1. FilesTyped'
    BY <1>25 DEF makeWritable, Typed, FilesTyped
  <2>2. ControlTyped' /\ SessionEnds'
    BY <1>25 DEF makeWritable, Typed, ControlTyped, SessionEnds,
      NodeOutcome, Arriving, Renaming, Resolving, Preparing, UnderWay, CleaningUp, Ended,
      BeforePublication
  <2> QED
    BY <1>25, <2>1, <2>2, <1>t, Untouched DEF makeWritable, Typed
<1>26. CASE removeSource
  <2>1. FilesTyped'
    BY <1>26 DEF removeSource, Typed, FilesTyped
  <2>2. AccountsTyped'
    BY <1>26, AccountingKeepsTypes DEF removeSource
  <2>3. ControlTyped' /\ SessionEnds'
    BY <1>26 DEF removeSource, Typed, ControlTyped, SessionEnds,
      NodeOutcome, Arriving, Renaming, Resolving, Preparing, UnderWay, CleaningUp, Ended,
      BeforePublication
  <2> QED
    BY <1>26, <2>1, <2>2, <2>3, <1>t, Untouched DEF removeSource, Typed
<1>27. CASE removalFails
  <2>1. ControlTyped' /\ SessionEnds'
    BY <1>27 DEF removalFails, Typed, ControlTyped, SessionEnds,
      NodeOutcome, Arriving, Renaming, Resolving, Preparing, UnderWay, CleaningUp, Ended,
      BeforePublication
  <2> QED
    BY <1>27, <2>1, <1>t, Untouched DEF removalFails, Typed
<1>28. CASE askCleanupFailed
  <2>1. PolicyTyped'
    BY <1>28, <1>r DEF askCleanupFailed, AskCleanup, IssueKind, DecisionAction
  <2>2. AccountsTyped'
    BY <1>28, AccountingKeepsTypes, Untouched DEF askCleanupFailed, AskCleanup,
       recordTerminalCleanupFailure
  <2>3. ControlTyped' /\ SessionEnds'
    BY <1>28 DEF askCleanupFailed, AskCleanup, Typed, ControlTyped, SessionEnds,
      NodeOutcome, Arriving, Renaming, Resolving, Preparing, UnderWay, CleaningUp, Ended,
      BeforePublication
  <2> QED
    BY <1>28, <2>1, <2>2, <2>3, <1>t, Untouched DEF askCleanupFailed, Typed
<1>29. CASE returnToCaller
  <2>1. ControlTyped' /\ SessionEnds'
    BY <1>29 DEF returnToCaller, Typed, ControlTyped, SessionEnds,
      NodeOutcome, Arriving, Renaming, Resolving, Preparing, UnderWay, CleaningUp, Ended,
      BeforePublication
  <2> QED
    BY <1>29, <2>1, <1>t, Untouched DEF returnToCaller, Typed
<1>30. CASE cancel
  <2>1. OuterTyped' /\ ControlTyped' /\ SessionEnds'
    BY <1>30 DEF cancel, Typed, OuterTyped, ControlTyped, SessionEnds
  <2> QED
    BY <1>30, <2>1, <1>t, Untouched DEF cancel, Typed
<1>31. CASE meddle
  <2>1. OuterTyped' /\ ControlTyped' /\ SessionEnds'
    BY <1>31, BoundsAssumption DEF meddle, Typed, OuterTyped, ControlTyped, SessionEnds
  <2>2. CASE MeddleWithDestination
    <3>1. FilesTyped'
      BY <2>2 DEF MeddleWithDestination, Typed, FilesTyped
    <3> QED
      BY <1>31, <2>1, <3>1, <1>t, Untouched DEF meddle, Typed
  <2>3. CASE MeddleWithSource
    <3>1. FilesTyped'
      BY <2>3 DEF MeddleWithSource, Typed, FilesTyped
    <3> QED
      BY <1>31, <2>1, <3>1, <1>t, Untouched DEF meddle, Typed
  <2> QED
    BY <1>31, <2>2, <2>3 DEF meddle
<1>32. CASE Done \/ UNCHANGED vars
  <2>1. ControlTyped' /\ SessionEnds'
    BY <1>32 DEF Done, vars, Typed, ControlTyped, SessionEnds
  <2> QED
    BY <1>32, <2>1, <1>t, Untouched DEF Done, vars, Typed
<1> QED
  BY <1>1, <1>2, <1>3, <1>4, <1>5, <1>6, <1>7, <1>8, <1>9, <1>10, <1>11, <1>12, <1>13, <1>14,
     <1>15, <1>16, <1>17, <1>18, <1>19, <1>20, <1>21, <1>22, <1>23, <1>24, <1>25, <1>26, <1>27,
     <1>28, <1>29, <1>30, <1>31, <1>32
  DEF Next, Transfer

(* The transfer starts with everything typed.                               *)
LEMMA TypesInit == Init => Typed
<1> SUFFICES ASSUME Init PROVE Typed
  OBVIOUS
<1> USE DEF Init
<1>1. setting \in Setting
  BY SettingsAssumption
<1>2. FilesTyped
  BY DEF FilesTyped
<1>3. knownCrossDevice \in BOOLEAN
  BY <1>1 DEF Setting
<1>4. PlanTyped
  BY <1>3 DEF PlanTyped
<1>5. PolicyTyped
  BY PoliciesAssumption DEF PolicyTyped
<1>6. GhostsTyped
  BY DEF GhostsTyped
<1>7. OuterTyped
  <2>1. meddling \in 0 .. MaxMeddling
    BY BoundsAssumption
  <2>2. cancelRequested \in BOOLEAN
    OBVIOUS
  <2> QED
    BY <2>1, <2>2 DEF OuterTyped
<1>8. SessionTyped /\ SessionEnds
  BY SettingMembers DEF SessionTyped, SessionEnds, Session, NoSession
<1>9. tally \in Tally /\ tally.warnings = 0
  BY DEF Tally
<1>10. progress \in Progress /\ progress.entryBytes = 0 /\ progress.bytes = 0
  BY DEF Progress
<1>11. AccountsTyped
  BY <1>9, <1>10, BoundsAssumption DEF AccountsTyped
<1>12. ControlTyped
  BY DEF ControlTyped, Arriving, BeforePublication
<1> QED
  BY <1>2, <1>4, <1>5, <1>6, <1>7, <1>8, <1>11, <1>12 DEF Typed

(* Everything has its type whatever the worker, the user and other programs *)
(* do; in particular abandoning an attempt never takes the progress below   *)
(* zero (coperationexecutioncontext.cpp:42).                               *)
THEOREM TransferTypeCorrectness == Spec => []TypeOK
<1>1. Typed => TypeOK
  BY TypedParts
<1> QED
  BY <1>1, TypesInit, TypesStep, PTL DEF Spec

(* No staging file is left behind in silence, however the attempts end      *)
(* (cstagedfilecopy.cpp, ctransferexecutor.cpp).                            *)
THEOREM NoLeftoverInSilence == Spec => []LeftoversAreReported
<1>1. Typed => LeftoversAreReported
  BY DEF Typed, AccountsTyped, SessionEnds, LeftoversAreReported, UnderWay
<1> QED
  BY <1>1, TypesInit, TypesStep, PTL DEF Spec

-----------------------------------------------------------------------------
(***************************************************************************)
(* FileTransfer implements TransferContract.                               *)
(***************************************************************************)

-----------------------------------------------------------------------------
(* The stages of a transfer.                                               *)

(* Verdicts that are the truth as long as nothing has been published.       *)
NothingDone == {"Skipped", "Cancelled", "AlreadySatisfied"}

(* Where a step before the publication may lead.                            *)
StaysUnpublished ==
  /\ pc' \in BeforePublication \ {"checkCommit", "commit", "publish"}
  /\ pc' \in Renaming => Owned
ReturnsWithNothing == pc' = "returning" /\ verdict' \in NothingDone

(* Without a publication no name holds the content.                         *)
LEMMA UnpublishedIsEmpty == Unpublished => Holders = {} /\ SafeHolders = {}
BY DEF Unpublished, Unclaimed, Holders, SafeHolders

(* The published copy is a safe one.                                        *)
LEMMA PublishedCopyIsSafe ==
  ASSUME Typed, PublishedCopyStands
  PROVE  Holders = {proposed} /\ SafeHolders = {proposed}
BY DEF PublishedCopyStands, Whole, Unclaimed, Holders, SafeHolders, Typed, PlanTyped

(* A step that stays before the publication, away from the commit.          *)
LEMMA StayingUnpublished ==
  ASSUME Stages, pc \in BeforePublication, UNCHANGED <<setting, source, entries>>,
         StaysUnpublished
  PROVE  Stages'
<1>1. Unpublished'
  BY DEF Stages, Unpublished, Unclaimed
<1>2. Owned' <=> Owned
  BY DEF Owned, Move
<1>3. pc' \notin CleaningUp \cup Ended
  BY DEF StaysUnpublished, CleaningUp, Ended, BeforePublication, Arriving, Renaming, Resolving,
     Preparing, UnderWay
<1> QED
  BY <1>1, <1>2, <1>3 DEF Stages, StaysUnpublished

(* A step that returns before the publication.                              *)
LEMMA ReturningUnpublished ==
  ASSUME Stages, pc \in BeforePublication, UNCHANGED <<setting, source, entries>>,
         ReturnsWithNothing
  PROVE  Stages'
<1>1. Unpublished /\ Unpublished'
  BY DEF Stages, Unpublished, Unclaimed
<1>2. Holders' = {}
  BY <1>1 DEF Unpublished, Unclaimed, Holders
<1>3. Contract!Truthful(verdict)'
  BY <1>1, <1>2 DEF ReturnsWithNothing, Contract!Truthful, NothingDone, Unpublished
<1>4. verdict' \in NodeOutcome
  BY DEF ReturnsWithNothing, NothingDone, NodeOutcome
<1>5. pc' \notin BeforePublication \cup CleaningUp
  BY DEF ReturnsWithNothing, CleaningUp, BeforePublication, Arriving, Renaming, Resolving,
     Preparing, UnderWay
<1> QED
  BY <1>3, <1>4, <1>5 DEF ReturnsWithNothing, Stages, BeforePublication, Renaming, UnderWay

(* A step that changes nothing the stages speak of.                         *)
LEMMA SameStage ==
  ASSUME Stages,
         UNCHANGED <<setting, source, entries, session, proposed, replacement, pc, verdict>>
  PROVE  Stages'
<1>1. Owned' = Owned /\ FlushBeforePublish' = FlushBeforePublish
  BY DEF Owned, Move, FlushBeforePublish, PublishedSourceIsRemoved
<1>2. (Unpublished <=> Unpublished') /\ (Whole <=> Whole')
  BY DEF Unpublished, Unclaimed, Whole
<1>3. PublishedCopyStands <=> PublishedCopyStands'
  BY <1>1, <1>2 DEF PublishedCopyStands, Unclaimed
<1>4. Holders = Holders'
  BY DEF Holders
<1>5. Contract!Truthful(verdict) <=> Contract!Truthful(verdict)'
  BY <1>1, <1>4 DEF Contract!Truthful, PublishedSourceIsRemoved
<1> QED
  BY <1>1, <1>2, <1>3, <1>5 DEF Stages

(* The questions about failed actions before the publication.               *)
LEMMA AskingKeepsStages ==
  ASSUME Stages, pc \in BeforePublication,
         NEW retry \in BeforePublication \ {"checkCommit", "commit", "publish"},
         retry \in Renaming => Owned, AskActionFailed(retry)
  PROVE  Stages'
<1> USE DEF AskActionFailed, fileVars, outerVars, Goto, Return
<1>1. CASE pc' = retry
  BY <1>1, StayingUnpublished DEF StaysUnpublished
<1>2. CASE pc' = "returning" /\ verdict' \in NothingDone
  BY <1>2, ReturningUnpublished DEF ReturnsWithNothing
<1> QED
  BY <1>1, <1>2 DEF NothingDone

(* A checkpoint under way: go on, or give the attempt up and return.        *)
LEMMA CheckpointKeepsFiles ==
  ASSUME NEW label, CheckpointOrAbort(label)
  PROVE  \/ pc' = label /\ UNCHANGED <<session, verdict>>
         \/ pc' = "returning" /\ verdict' = "Cancelled"
BY DEF CheckpointOrAbort, Goto, Return, stagingVars

(* The removal of the source goes on.                                       *)
LEMMA CleaningGoesOn ==
  ASSUME Stages, pc \in CleaningUp, pc' \in CleaningUp,
         UNCHANGED <<setting, source, entries, session, proposed>>
  PROVE  Stages'
<1>1. PublishedCopyStands'
  BY DEF Stages, PublishedCopyStands, Owned, Move, Whole, Unclaimed
<1> QED
  BY <1>1 DEF Stages, CleaningUp, Ended, Arriving, Renaming, Resolving, Preparing, UnderWay,
              BeforePublication

(* Other programs leave alone what was published, and never publish.        *)
LEMMA MeddlingKeepsHolders ==
  ASSUME Typed, meddle
  PROVE  /\ \A name \in Names : /\ entries'[name] \in {"copy", "moved"} <=> entries[name] \in {"copy", "moved"}
                                /\ entries[name] \in {"copy", "moved"} => entries'[name] = entries[name]
         /\ Holders' = Holders /\ SafeHolders' = SafeHolders
         /\ source' = source \/ (source = "present" /\ source' = "gone")
<1> USE DEF meddle, stagingVars, outerVars
<1>1. /\ \A name \in Names : /\ entries'[name] \in {"copy", "moved"} <=> entries[name] \in {"copy", "moved"}
                             /\ entries[name] \in {"copy", "moved"} => entries'[name] = entries[name]
      /\ source' = source \/ (source = "present" /\ source' = "gone")
  <2>1. CASE MeddleWithSource
    BY <2>1 DEF MeddleWithSource
  <2>2. CASE MeddleWithDestination
    <3>1. PICK name \in Names, kind \in {"absent", "file", "directory"} :
            /\ entries[name] \notin {kind, "copy", "moved"}
            /\ entries' = [entries EXCEPT ![name] = kind] /\ source' = source
      BY <2>2 DEF MeddleWithDestination
    <3> QED
      BY <3>1 DEF Typed, FilesTyped
  <2> QED
    BY <2>1, <2>2
<1>2. Holders' = Holders
  BY <1>1 DEF Holders
<1>3. SafeHolders' = SafeHolders
  BY <1>1, <1>2 DEF SafeHolders, Holders
<1> QED
  BY <1>1, <1>2, <1>3

(* So what others do breaks no stage.                                       *)
LEMMA MeddlingKeepsStages ==
  ASSUME Typed, Stages, meddle
  PROVE  Stages'
<1> USE DEF meddle, stagingVars, planVars, outerVars, controlVars
<1>1. Owned' = Owned /\ FlushBeforePublish' = FlushBeforePublish /\ (Whole' <=> Whole)
  BY DEF Owned, Move, FlushBeforePublish, PublishedSourceIsRemoved, Whole
<1>2. Unpublished => Unpublished'
  BY MeddlingKeepsHolders DEF Unpublished, Unclaimed
<1>3. PublishedCopyStands => PublishedCopyStands'
  BY <1>1, MeddlingKeepsHolders DEF PublishedCopyStands, Unclaimed, Typed, PlanTyped
<1>4. Contract!Truthful(verdict) => Contract!Truthful(verdict)'
  BY <1>1, MeddlingKeepsHolders DEF Contract!Truthful, PublishedSourceIsRemoved
<1> QED
  BY <1>1, <1>2, <1>3, <1>4 DEF Stages

(* Every step keeps to the stages.                                          *)
LEMMA StagesStep == Typed /\ Stages /\ [Next]_vars => Stages'
<1> SUFFICES ASSUME Typed, Stages, [Next]_vars PROVE Stages'
  OBVIOUS
<1> USE DEF fileVars, stagingVars, planVars, accountVars, ghostVars, outerVars, controlVars,
            Goto, Return, CheckpointThen
<1>1. CASE enter
  <2>1. StaysUnpublished \/ ReturnsWithNothing
    BY <1>1 DEF StaysUnpublished, ReturnsWithNothing, enter, AfterEntry, Stages, NothingDone,
       Arriving, Renaming, Resolving, Preparing, UnderWay, BeforePublication
  <2>2. pc \in BeforePublication
    BY <1>1 DEF enter, Arriving, Renaming, Resolving, Preparing, UnderWay, BeforePublication
  <2> QED
    BY <1>1, <2>1, <2>2, StayingUnpublished, ReturningUnpublished DEF enter
<1>2. CASE unsupported
  <2>1. StaysUnpublished \/ ReturnsWithNothing
    BY <1>2 DEF StaysUnpublished, ReturnsWithNothing, unsupported, Stages, NothingDone,
       Arriving, Renaming, Resolving, Preparing, UnderWay, BeforePublication
  <2>2. pc \in BeforePublication
    BY <1>2 DEF unsupported, Arriving, Renaming, Resolving, Preparing, UnderWay, BeforePublication
  <2> QED
    BY <1>2, <2>1, <2>2, StayingUnpublished, ReturningUnpublished DEF unsupported
<1>3. CASE moveFile
  <2>1. StaysUnpublished \/ ReturnsWithNothing
    BY <1>3 DEF StaysUnpublished, ReturnsWithNothing, moveFile, Stages, NothingDone,
       Arriving, Renaming, Resolving, Preparing, UnderWay, BeforePublication
  <2>2. pc \in BeforePublication
    BY <1>3 DEF moveFile, Arriving, Renaming, Resolving, Preparing, UnderWay, BeforePublication
  <2> QED
    BY <1>3, <2>1, <2>2, StayingUnpublished, ReturningUnpublished DEF moveFile
<1>4. CASE recheckDestination
  BY <1>4, SameStage DEF recheckDestination
<1>5. CASE renameSource
  <2>1. Owned /\ proposed \in Names
    BY <1>5 DEF renameSource, Stages, Renaming, Typed, PlanTyped
  <2>2. entries'[proposed] = "moved"
    BY <1>5, <2>1 DEF renameSource, Typed, FilesTyped
  <2>3. Holders' # {}
    BY <2>1, <2>2 DEF Holders
  <2>4. pc' = "returning" /\ verdict' = "Completed" /\ source' = "removed"
    BY <1>5 DEF renameSource
  <2>5. Contract!Truthful(verdict)'
    BY <2>3, <2>4 DEF Contract!Truthful
  <2> QED
    BY <2>4, <2>5 DEF Stages, NodeOutcome, CleaningUp, Arriving, Renaming, Resolving, Preparing,
       UnderWay,
                      BeforePublication
<1>6. CASE askRenameFailed
  BY <1>6, AskingKeepsStages DEF askRenameFailed, Stages, Arriving, Renaming, Resolving,
     Preparing, UnderWay, BeforePublication
<1>7. ASSUME NEW error \in {"CrossDevice", "AlreadyExists", "Other"}, renameFails(error)
      PROVE  Stages'
  <2>1. StaysUnpublished
    BY <1>7 DEF StaysUnpublished, renameFails, AfterEntry, AfterRename, Stages,
       Arriving, Renaming, Resolving, Preparing, UnderWay, BeforePublication
  <2>2. pc \in BeforePublication
    BY <1>7 DEF renameFails, Arriving, Renaming, Resolving, Preparing, UnderWay, BeforePublication
  <2> QED
    BY <1>7, <2>1, <2>2, StayingUnpublished DEF renameFails
<1>8. CASE inspectDestination
  <2>1. StaysUnpublished \/ ReturnsWithNothing
    BY <1>8 DEF StaysUnpublished, ReturnsWithNothing, inspectDestination, UseAbsentDestination,
       AfterResolution, AfterRename, Stages,
       NothingDone,
       Arriving, Renaming, Resolving, Preparing, UnderWay, BeforePublication
  <2>2. pc \in BeforePublication
    BY <1>8 DEF inspectDestination, Arriving, Renaming, Resolving, Preparing, UnderWay,
       BeforePublication
  <2> QED
    BY <1>8, <2>1, <2>2, StayingUnpublished, ReturningUnpublished DEF inspectDestination
<1>9. CASE inspectionFails
  <2>1. StaysUnpublished
    BY <1>9 DEF StaysUnpublished, inspectionFails, Stages,
       Arriving, Renaming, Resolving, Preparing, UnderWay, BeforePublication
  <2>2. pc \in BeforePublication
    BY <1>9 DEF inspectionFails, Arriving, Renaming, Resolving, Preparing, UnderWay,
       BeforePublication
  <2> QED
    BY <1>9, <2>1, <2>2, StayingUnpublished DEF inspectionFails
<1>10. CASE askInspectionFailed
  BY <1>10, AskingKeepsStages DEF askInspectionFailed, Arriving, Renaming, Resolving, Preparing,
     UnderWay, BeforePublication
<1>11. ASSUME NEW kind \in {"FileReplacement", "TypeMismatch"}, promptForCollision(kind)
       PROVE  Stages'
  <2>1. StaysUnpublished \/ ReturnsWithNothing
    BY <1>11 DEF StaysUnpublished, ReturnsWithNothing, promptForCollision, AfterResolution,
       AfterRename, Stages, NothingDone,
       Arriving, Renaming, Resolving, Preparing, UnderWay, BeforePublication
  <2>2. pc \in BeforePublication
    BY <1>11 DEF promptForCollision, Arriving, Renaming, Resolving, Preparing, UnderWay,
       BeforePublication
  <2> QED
    BY <1>11, <2>1, <2>2, StayingUnpublished, ReturningUnpublished DEF promptForCollision
<1>12. CASE preflight
  <2>1. StaysUnpublished
    BY <1>12 DEF StaysUnpublished, preflight, Stages,
       Arriving, Renaming, Resolving, Preparing, UnderWay, BeforePublication
  <2>2. pc \in BeforePublication
    BY <1>12 DEF preflight, Arriving, Renaming, Resolving, Preparing, UnderWay, BeforePublication
  <2> QED
    BY <1>12, <2>1, <2>2, StayingUnpublished DEF preflight
<1>13. CASE askReadOnlyFirst
  <2>1. StaysUnpublished \/ ReturnsWithNothing
    BY <1>13 DEF StaysUnpublished, ReturnsWithNothing, askReadOnlyFirst, Stages, NothingDone,
       Arriving, Renaming, Resolving, Preparing, UnderWay, BeforePublication
  <2>2. pc \in BeforePublication
    BY <1>13 DEF askReadOnlyFirst, Arriving, Renaming, Resolving, Preparing, UnderWay,
       BeforePublication
  <2> QED
    BY <1>13, <2>1, <2>2, StayingUnpublished, ReturningUnpublished DEF askReadOnlyFirst
<1>14. CASE attempt
  <2>1. StaysUnpublished \/ ReturnsWithNothing
    BY <1>14 DEF StaysUnpublished, ReturnsWithNothing, attempt, Stages, NothingDone,
       Arriving, Renaming, Resolving, Preparing, UnderWay, BeforePublication
  <2>2. pc \in BeforePublication
    BY <1>14 DEF attempt, Arriving, Renaming, Resolving, Preparing, UnderWay, BeforePublication
  <2> QED
    BY <1>14, <2>1, <2>2, StayingUnpublished, ReturningUnpublished DEF attempt
<1>15. CASE begin
  <2>1. StaysUnpublished
    BY <1>15 DEF StaysUnpublished, begin, Stages,
       Arriving, Renaming, Resolving, Preparing, UnderWay, BeforePublication
  <2>2. pc \in BeforePublication
    BY <1>15 DEF begin, Arriving, Renaming, Resolving, Preparing, UnderWay, BeforePublication
  <2> QED
    BY <1>15, <2>1, <2>2, StayingUnpublished DEF begin
<1>16. CASE beginFails
  <2>1. StaysUnpublished
    BY <1>16 DEF StaysUnpublished, beginFails, Stages,
       Arriving, Renaming, Resolving, Preparing, UnderWay, BeforePublication
  <2>2. pc \in BeforePublication
    BY <1>16 DEF beginFails, Arriving, Renaming, Resolving, Preparing, UnderWay, BeforePublication
  <2> QED
    BY <1>16, <2>1, <2>2, StayingUnpublished DEF beginFails
<1>17. CASE checkChunk
  <2>1. StaysUnpublished \/ ReturnsWithNothing
    BY <1>17 DEF StaysUnpublished, ReturnsWithNothing, checkChunk, CheckpointOrAbort, Stages,
       NothingDone,
       Arriving, Renaming, Resolving, Preparing, UnderWay, BeforePublication
  <2>2. pc \in BeforePublication
    BY <1>17 DEF checkChunk, Arriving, Renaming, Resolving, Preparing, UnderWay, BeforePublication
  <2> QED
    BY <1>17, <2>1, <2>2, StayingUnpublished, ReturningUnpublished DEF checkChunk
<1>18. CASE writeNext
  <2>1. PICK written \in ChunkLengths(setting.size - session.written) :
          /\ session' = [session EXCEPT !.written = @ + written,
               !.state = IF written = setting.size - session.written THEN "ReadyToCommit" ELSE @]
          /\ pc' = IF written = setting.size - session.written THEN "checkCommit" ELSE "checkChunk"
    BY <1>18 DEF writeNext
  <2>2. CASE pc' = "checkChunk"
    BY <1>18, <2>2, StayingUnpublished DEF StaysUnpublished, writeNext, Arriving, Renaming,
       Resolving, Preparing,
       UnderWay, BeforePublication
  <2>3. CASE pc' = "checkCommit"
    <3>1. written = setting.size - session.written
      BY <2>1, <2>3
    <3>2. session'.written = session.written + written
      BY <2>1 DEF Typed, SessionTyped, Session
    <3>3. session.written + written = setting.size
      BY <3>1, SettingMembers DEF Typed, OuterTyped, SessionTyped, Session
    <3>4. Unpublished'
      BY <1>18 DEF writeNext, Stages, Unpublished, Unclaimed, UnderWay, BeforePublication
    <3> QED
      BY <1>18, <2>3, <3>2, <3>3, <3>4 DEF writeNext, Stages, Renaming, CleaningUp, Ended
  <2> QED
    BY <2>1, <2>2, <2>3
<1>19. CASE checkCommit
  <2>1. pc \in BeforePublication
    BY <1>19 DEF checkCommit, UnderWay, BeforePublication
  <2>2. CASE pc' = "returning" /\ verdict' = "Cancelled"
    BY <1>19, <2>1, <2>2, ReturningUnpublished DEF ReturnsWithNothing, checkCommit, NothingDone
  <2>3. CASE pc' = "commit" /\ UNCHANGED <<session, verdict>>
    <3>1. Unpublished'
      BY <1>19, <2>1 DEF checkCommit, Stages, Unpublished, Unclaimed
    <3> QED
      BY <1>19, <2>3, <3>1 DEF checkCommit, Stages, Renaming, CleaningUp, Ended
  <2> QED
    BY <1>19, <2>2, <2>3, CheckpointKeepsFiles DEF checkCommit
<1>20. CASE commit
  <2>1. /\ session'.written = setting.size /\ session'.stamped
        /\ session'.flushed = FlushBeforePublish
    BY <1>20 DEF commit, Stages, Typed, SessionTyped, Session
  <2>2. FlushBeforePublish' = FlushBeforePublish
    BY <1>20 DEF commit, FlushBeforePublish, PublishedSourceIsRemoved, Owned, Move
  <2>3. Unpublished'
    BY <1>20 DEF commit, Stages, Unpublished, Unclaimed, UnderWay, BeforePublication
  <2>4. Whole'
    BY <1>20, <2>1 DEF commit, Whole
  <2>5. pc' = "publish" /\ session'.flushed = FlushBeforePublish'
    BY <1>20, <2>1, <2>2 DEF commit
  <2> QED
    BY <2>3, <2>4, <2>5 DEF Stages, Renaming, CleaningUp, Ended
<1>21. CASE transferFails
  <2>1. StaysUnpublished
    BY <1>21 DEF StaysUnpublished, transferFails, Stages,
       Arriving, Renaming, Resolving, Preparing, UnderWay, BeforePublication
  <2>2. pc \in BeforePublication
    BY <1>21 DEF transferFails, Arriving, Renaming, Resolving, Preparing, UnderWay,
       BeforePublication
  <2> QED
    BY <1>21, <2>1, <2>2, StayingUnpublished DEF transferFails
<1>22. CASE publish
  <2>1. /\ source # "removed" /\ proposed \in Names
        /\ session.written = setting.size /\ session.stamped /\ session.flushed = FlushBeforePublish
    BY <1>22 DEF publish, Stages, Whole, Unpublished, UnderWay, BeforePublication, Typed, PlanTyped
  <2>2. /\ session'.written = setting'.size /\ session'.stamped
        /\ session'.flushed = FlushBeforePublish
    BY <1>22, <2>1 DEF publish, Typed, SessionTyped, Session
  <2>3. /\ entries'[proposed] = "copy"
        /\ \A other \in Names \ {proposed} : entries'[other] = entries[other]
    BY <1>22, <2>1 DEF publish, Typed, FilesTyped
  <2>4. CASE ~Owned
    <3>1. Holders' # {}
      BY <1>22, <2>1, <2>2, <2>3 DEF publish, Holders
    <3>2. pc' = "returning" /\ verdict' = "Completed" /\ ~Owned'
      BY <1>22, <2>4 DEF publish, PublishedSourceIsRemoved, Owned, Move
    <3>3. Contract!Truthful(verdict)'
      BY <3>1, <3>2 DEF Contract!Truthful, PublishedSourceIsRemoved
    <3> QED
      BY <3>2, <3>3 DEF Stages, NodeOutcome, CleaningUp, Arriving, Renaming, Resolving, Preparing,
                        UnderWay, BeforePublication
  <2>5. CASE Owned
    <3>1. pc' \in CleaningUp /\ Owned' /\ source' # "removed" /\ proposed' = proposed
      BY <1>22, <2>1, <2>5 DEF publish, PublishedSourceIsRemoved, Owned, Move, CleaningUp
    <3>2. Whole' /\ session'.flushed
      BY <1>22, <2>2, <2>5 DEF publish, Whole, FlushBeforePublish, PublishedSourceIsRemoved
    <3>3. \A other \in Names \ {proposed} : Unclaimed(other)'
      BY <1>22, <2>3 DEF publish, Stages, Unpublished, Unclaimed, UnderWay, BeforePublication
    <3>4. PublishedCopyStands'
      BY <2>3, <3>1, <3>2, <3>3 DEF PublishedCopyStands
    <3> QED
      BY <3>1, <3>4 DEF Stages, CleaningUp, Ended, Arriving, Renaming, Resolving, Preparing,
         UnderWay,
                        BeforePublication
  <2> QED
    BY <2>4, <2>5
<1>23. CASE publishCollides
  <2>1. StaysUnpublished
    BY <1>23 DEF StaysUnpublished, publishCollides, Stages,
       Arriving, Renaming, Resolving, Preparing, UnderWay, BeforePublication
  <2>2. pc \in BeforePublication
    BY <1>23 DEF publishCollides, Arriving, Renaming, Resolving, Preparing, UnderWay,
       BeforePublication
  <2> QED
    BY <1>23, <2>1, <2>2, StayingUnpublished DEF publishCollides
<1>24. CASE askTransferFailed
  BY <1>24, AskingKeepsStages DEF askTransferFailed, Arriving, Renaming, Resolving, Preparing,
     UnderWay, BeforePublication
<1>25. CASE makeWritable
  BY <1>25, CleaningGoesOn DEF makeWritable, CleaningUp
<1>26. CASE removeSource
  <2>1. PublishedCopyStands
    BY <1>26 DEF removeSource, Stages, CleaningUp
  <2>2. Holders # {} /\ Holders' = Holders
    BY <1>26, <2>1, PublishedCopyIsSafe DEF removeSource, Holders
  <2>3. source' # "present" /\ pc' = "returning" /\ verdict' = "Completed"
    BY <1>26 DEF removeSource
  <2>4. Contract!Truthful(verdict)'
    BY <2>2, <2>3 DEF Contract!Truthful
  <2> QED
    BY <2>3, <2>4 DEF Stages, NodeOutcome, CleaningUp, Arriving, Renaming, Resolving, Preparing,
                      UnderWay, BeforePublication
<1>27. CASE removalFails
  BY <1>27, CleaningGoesOn DEF removalFails, CleaningUp
<1>28. CASE askCleanupFailed
  <2>1. CASE pc' \in CleaningUp
    BY <1>28, <2>1, CleaningGoesOn DEF askCleanupFailed, CleaningUp
  <2>2. CASE pc' = "returning" /\ verdict' \in {"Failed", "Cancelled"}
    <3>1. PublishedCopyStands
      BY <1>28 DEF askCleanupFailed, Stages, CleaningUp
    <3>2. Holders # {} /\ Holders' = Holders /\ Owned /\ Owned' = Owned /\ source' # "removed"
      BY <1>28, <3>1, PublishedCopyIsSafe
      DEF askCleanupFailed, Holders, PublishedCopyStands, Owned, Move
    <3>3. Contract!Truthful(verdict)'
      BY <2>2, <3>2 DEF Contract!Truthful, PublishedSourceIsRemoved
    <3> QED
      BY <2>2, <3>3 DEF Stages, NodeOutcome, CleaningUp, Arriving, Renaming, Resolving, Preparing,
                        UnderWay, BeforePublication
  <2> QED
    BY <1>28, <2>1, <2>2 DEF askCleanupFailed, AskCleanup, CleaningUp
<1>29. CASE returnToCaller
  <2>1. verdict \in NodeOutcome /\ Contract!Truthful(verdict)
    BY <1>29 DEF returnToCaller, Stages, Ended
  <2>2. Holders' = Holders /\ Owned' = Owned
    BY <1>29 DEF returnToCaller, Holders, Owned, Move
  <2>3. Contract!Truthful(verdict)'
    BY <1>29, <2>1, <2>2 DEF returnToCaller, Contract!Truthful, PublishedSourceIsRemoved
  <2> QED
    BY <1>29, <2>1, <2>3 DEF returnToCaller, Stages, CleaningUp, Arriving, Renaming, Resolving,
       Preparing,
                         UnderWay, BeforePublication
<1>30. CASE cancel
  BY <1>30, SameStage DEF cancel
<1>31. CASE meddle
  BY <1>31, MeddlingKeepsStages DEF meddle
<1>32. CASE Done \/ UNCHANGED vars
  BY <1>32, SameStage DEF Done, vars
<1> QED
  BY <1>1, <1>2, <1>3, <1>4, <1>5, <1>6, <1>7, <1>8, <1>9, <1>10, <1>11, <1>12, <1>13, <1>14,
     <1>15, <1>16, <1>17, <1>18, <1>19, <1>20, <1>21, <1>22, <1>23, <1>24, <1>25, <1>26, <1>27,
     <1>28, <1>29, <1>30, <1>31, <1>32
  DEF Next, Transfer

(* The stages hold from the start, and so does the contract.                *)
LEMMA ContractStarts == Init => Stages /\ Contract!ContractInit
<1> SUFFICES ASSUME Init PROVE Stages /\ Contract!ContractInit
  OBVIOUS
<1>1. Unpublished
  BY DEF Init, Unpublished, Unclaimed
<1>2. Stages
  BY <1>1 DEF Init, Stages, Renaming, CleaningUp, Ended
<1>3. PublishedSourceIsRemoved \in BOOLEAN
  BY DEF PublishedSourceIsRemoved, Owned, Move
<1> QED
  BY <1>1, <1>2, <1>3, UnpublishedIsEmpty DEF Init, Contract!ContractInit, Outcome

(* Before the publication, and whenever the content stays where it is, the  *)
(* contract sees nothing.                                                   *)
LEMMA QuietStep ==
  ASSUME Typed, Stages, UNCHANGED <<setting, source, entries>>, Outcome' = Outcome,
         pc \in BeforePublication \/ UNCHANGED session
  PROVE  UNCHANGED Contract!contractVars
<1>1. PublishedSourceIsRemoved' = PublishedSourceIsRemoved
  BY DEF PublishedSourceIsRemoved, Owned, Move
<1>2. Holders' = Holders /\ SafeHolders' = SafeHolders
  <2>1. CASE UNCHANGED session
    BY <2>1 DEF Holders, SafeHolders
  <2>2. CASE pc \in BeforePublication
    BY <2>2 DEF Stages, Unpublished, Unclaimed, Holders, SafeHolders
  <2> QED
    BY <2>1, <2>2
<1> QED
  BY <1>1, <1>2 DEF Contract!contractVars

(* Every step is a step of the contract or nothing to it.                   *)
LEMMA ContractStep ==
  Typed /\ Stages /\ [Next]_vars => [Contract!ContractNext]_Contract!contractVars
<1> SUFFICES ASSUME Typed, Stages, [Next]_vars
             PROVE  [Contract!ContractNext]_Contract!contractVars
  OBVIOUS
<1> USE DEF fileVars, stagingVars, planVars, accountVars, ghostVars, outerVars, controlVars,
            Goto, Return, CheckpointThen
<1>1. CASE enter
  BY <1>1, QuietStep DEF enter, AfterEntry, Outcome, Arriving, Renaming, Resolving, Preparing,
     UnderWay, BeforePublication
<1>2. CASE unsupported
  BY <1>2, QuietStep DEF unsupported, Outcome, Arriving, Renaming, Resolving, Preparing, UnderWay,
     BeforePublication
<1>3. CASE moveFile
  BY <1>3, QuietStep DEF moveFile, Outcome, Arriving, Renaming, Resolving, Preparing, UnderWay,
     BeforePublication
<1>4. CASE recheckDestination
  BY <1>4, QuietStep DEF recheckDestination, Outcome, Arriving, Renaming, Resolving, Preparing,
     UnderWay, BeforePublication
<1>5. CASE renameSource
  <2>1. Owned /\ Owned' /\ Unpublished /\ proposed \in Names
    BY <1>5 DEF renameSource, Stages, Owned, Move, Renaming, BeforePublication, Typed, PlanTyped
  <2>2. /\ entries'[proposed] = "moved"
        /\ \A other \in Names \ {proposed} : entries'[other] = entries[other]
    BY <1>5, <2>1 DEF renameSource, Typed, FilesTyped
  <2>3. Holders' = {proposed} /\ SafeHolders' = {proposed}
    BY <2>1, <2>2 DEF Unpublished, Unclaimed, Holders, SafeHolders
  <2>4. Contract!Rename(proposed)
    BY <1>5, <2>1, <2>3, UnpublishedIsEmpty
    DEF renameSource, Contract!Rename, PublishedSourceIsRemoved, Outcome
  <2> QED
    BY <2>1, <2>4 DEF Contract!ContractNext
<1>6. CASE askRenameFailed
  BY <1>6, QuietStep DEF askRenameFailed, AskActionFailed, Outcome, Arriving, Renaming, Resolving,
     Preparing, UnderWay, BeforePublication
<1>7. ASSUME NEW error \in {"CrossDevice", "AlreadyExists", "Other"}, renameFails(error)
      PROVE  UNCHANGED Contract!contractVars
  BY <1>7, QuietStep DEF renameFails, AfterEntry, AfterRename, Outcome, Arriving, Renaming,
     Resolving, Preparing, UnderWay, BeforePublication
<1>8. CASE inspectDestination
  BY <1>8, QuietStep DEF inspectDestination, UseAbsentDestination, AfterResolution, AfterRename,
     Outcome, Arriving, Renaming, Resolving, Preparing, UnderWay, BeforePublication
<1>9. CASE inspectionFails
  BY <1>9, QuietStep DEF inspectionFails, Outcome, Arriving, Renaming, Resolving, Preparing,
     UnderWay, BeforePublication
<1>10. CASE askInspectionFailed
  BY <1>10, QuietStep DEF askInspectionFailed, AskActionFailed, Outcome, Arriving, Renaming,
     Resolving, Preparing, UnderWay, BeforePublication
<1>11. ASSUME NEW kind \in {"FileReplacement", "TypeMismatch"}, promptForCollision(kind)
       PROVE  UNCHANGED Contract!contractVars
  BY <1>11, QuietStep DEF promptForCollision, AfterResolution, AfterRename, Outcome, Arriving,
     Renaming, Resolving, Preparing, UnderWay, BeforePublication
<1>12. CASE preflight
  BY <1>12, QuietStep DEF preflight, Outcome, Arriving, Renaming, Resolving, Preparing, UnderWay,
     BeforePublication
<1>13. CASE askReadOnlyFirst
  BY <1>13, QuietStep DEF askReadOnlyFirst, Outcome, Arriving, Renaming, Resolving, Preparing,
     UnderWay, BeforePublication
<1>14. CASE attempt
  BY <1>14, QuietStep DEF attempt, Outcome, Arriving, Renaming, Resolving, Preparing, UnderWay,
     BeforePublication
<1>15. CASE begin
  BY <1>15, QuietStep DEF begin, Outcome, Arriving, Renaming, Resolving, Preparing, UnderWay,
     BeforePublication
<1>16. CASE beginFails
  BY <1>16, QuietStep DEF beginFails, Outcome, Arriving, Renaming, Resolving, Preparing, UnderWay,
     BeforePublication
<1>17. CASE checkChunk
  BY <1>17, QuietStep DEF checkChunk, CheckpointOrAbort, Outcome, Arriving, Renaming, Resolving,
     Preparing, UnderWay, BeforePublication
<1>18. CASE writeNext
  BY <1>18, QuietStep DEF writeNext, Outcome, Arriving, Renaming, Resolving, Preparing, UnderWay,
     BeforePublication
<1>19. CASE checkCommit
  BY <1>19, QuietStep DEF checkCommit, CheckpointOrAbort, Outcome, Arriving, Renaming, Resolving,
     Preparing, UnderWay, BeforePublication
<1>20. CASE commit
  BY <1>20, QuietStep DEF commit, Outcome, Arriving, Renaming, Resolving, Preparing, UnderWay,
     BeforePublication
<1>21. CASE transferFails
  BY <1>21, QuietStep DEF transferFails, Outcome, Arriving, Renaming, Resolving, Preparing,
     UnderWay, BeforePublication
<1>22. CASE publish
  <2>1. /\ Unpublished /\ Owned' = Owned /\ proposed \in Names
        /\ session.written = setting.size /\ session.stamped
    BY <1>22 DEF publish, Stages, Whole, Owned, Move, UnderWay, BeforePublication, Typed, PlanTyped
  <2>2. /\ session'.written = setting'.size /\ session'.stamped /\ session'.flushed \in BOOLEAN
    BY <1>22, <2>1 DEF publish, Typed, SessionTyped, Session
  <2>3. /\ entries'[proposed] = "copy"
        /\ \A other \in Names \ {proposed} : entries'[other] = entries[other]
    BY <1>22, <2>1 DEF publish, Typed, FilesTyped
  <2>4. Holders' = {proposed}
    BY <2>1, <2>2, <2>3 DEF Unpublished, Unclaimed, Holders
  <2>5. SafeHolders' = IF session'.flushed THEN {proposed} ELSE {}
    BY <2>3, <2>4 DEF SafeHolders
  <2>6. Contract!Publish(proposed, session'.flushed)
    BY <1>22, <2>1, <2>4, <2>5, UnpublishedIsEmpty
    DEF publish, Contract!Publish, PublishedSourceIsRemoved, Outcome
  <2> QED
    BY <2>1, <2>2, <2>6 DEF Contract!ContractNext
<1>23. CASE publishCollides
  BY <1>23, QuietStep DEF publishCollides, Outcome, Arriving, Renaming, Resolving, Preparing,
     UnderWay, BeforePublication
<1>24. CASE askTransferFailed
  BY <1>24, QuietStep DEF askTransferFailed, AskActionFailed, Outcome, Arriving, Renaming,
     Resolving, Preparing, UnderWay, BeforePublication
<1>25. CASE makeWritable
  BY <1>25, QuietStep DEF makeWritable, Outcome, Arriving, Renaming, Resolving, Preparing,
     UnderWay, BeforePublication
<1>26. CASE removeSource
  <2>1. PublishedCopyStands /\ Owned' = Owned
    BY <1>26 DEF removeSource, Stages, CleaningUp, Owned, Move
  <2>2. SafeHolders # {} /\ Holders' = Holders /\ SafeHolders' = SafeHolders
    BY <1>26, <2>1, PublishedCopyIsSafe DEF removeSource, Holders, SafeHolders
  <2>3. CASE source = "present"
    <3>1. Contract!RemoveSource
      BY <1>26, <2>1, <2>2, <2>3
      DEF removeSource, Contract!RemoveSource, PublishedCopyStands, PublishedSourceIsRemoved, Outcome
    <3> QED
      BY <3>1 DEF Contract!ContractNext
  <2>4. CASE source # "present"
    BY <1>26, <2>4, QuietStep DEF removeSource, Outcome
  <2> QED
    BY <2>3, <2>4
<1>27. CASE removalFails
  BY <1>27, QuietStep DEF removalFails, Outcome, Arriving, Renaming, Resolving, Preparing,
     UnderWay, BeforePublication
<1>28. CASE askCleanupFailed
  BY <1>28, QuietStep DEF askCleanupFailed, AskCleanup, Outcome, Arriving, Renaming, Resolving,
     Preparing, UnderWay, BeforePublication
<1>29. CASE returnToCaller
  <2>1. verdict \in NodeOutcome /\ Contract!Truthful(verdict)
    BY <1>29 DEF returnToCaller, Stages, Ended
  <2>2. /\ Holders' = Holders /\ SafeHolders' = SafeHolders
        /\ PublishedSourceIsRemoved' = PublishedSourceIsRemoved
    BY <1>29 DEF returnToCaller, Holders, SafeHolders, PublishedSourceIsRemoved, Owned, Move
  <2>3. Contract!Conclude(verdict)
    BY <1>29, <2>1, <2>2 DEF returnToCaller, Contract!Conclude, Outcome
  <2> QED
    BY <2>1, <2>3 DEF Contract!ContractNext, NodeOutcome, Contract!NodeOutcome
<1>30. CASE cancel
  BY <1>30, QuietStep DEF cancel, Outcome, Arriving, Renaming, Resolving, Preparing, UnderWay,
     BeforePublication
<1>31. CASE meddle
  <2>1. PublishedSourceIsRemoved' = PublishedSourceIsRemoved /\ Outcome' = Outcome
    BY <1>31 DEF meddle, PublishedSourceIsRemoved, Owned, Move, Outcome
  <2>2. CASE source' = source
    BY <1>31, <2>1, <2>2, MeddlingKeepsHolders DEF Contract!contractVars
  <2>3. CASE source = "present" /\ source' = "gone"
    <3>1. Contract!SourceVanishes
      BY <1>31, <2>1, <2>3, MeddlingKeepsHolders DEF Contract!SourceVanishes
    <3> QED
      BY <3>1 DEF Contract!ContractNext
  <2> QED
    BY <1>31, <2>2, <2>3, MeddlingKeepsHolders
<1>32. CASE Done \/ UNCHANGED vars
  BY <1>32, QuietStep DEF Done, vars, Outcome, Arriving, Renaming, Resolving, Preparing, UnderWay,
     BeforePublication
<1> QED
  BY <1>1, <1>2, <1>3, <1>4, <1>5, <1>6, <1>7, <1>8, <1>9, <1>10, <1>11, <1>12, <1>13, <1>14,
     <1>15, <1>16, <1>17, <1>18, <1>19, <1>20, <1>21, <1>22, <1>23, <1>24, <1>25, <1>26, <1>27,
     <1>28, <1>29, <1>30, <1>31, <1>32
  DEF Next, Transfer

(* Every transfer keeps the contract: content appears whole and once, its   *)
(* original is removed only by a move and only while a flushed copy exists, *)
(* and the outcome reported to the caller says which of this happened       *)
(* (ctransferexecutor.cpp, copyNode and moveNode).                          *)
THEOREM ContractIsKept == Spec => KeepsTheContract
<1>1. Init => Typed /\ Stages
  BY TypesInit, ContractStarts
<1>2. Typed /\ Stages /\ [Next]_vars => Typed' /\ Stages'
  BY TypesStep, StagesStep
<1>3. Init => Contract!ContractInit
  BY ContractStarts
<1>4. Typed /\ Stages /\ [Next]_vars => [Contract!ContractNext]_Contract!contractVars
  BY ContractStep
<1> QED
  BY <1>1, <1>2, <1>3, <1>4, PTL DEF Spec, KeepsTheContract, Contract!ContractSpec

-----------------------------------------------------------------------------
(***************************************************************************)
(* What FileTransfer overwrites, how it accounts for its entry and what it *)
(* still does after a cancellation.                                        *)
(***************************************************************************)

-----------------------------------------------------------------------------
(* Overwriting.                                                            *)

(* Before the publication only the two dispositions can be disturbed.       *)
LEMMA DispositionsBefore ==
  ASSUME Dispositions, pc \in BeforePublication, UNCHANGED <<setting, overwritten>>,
         setting.exclusiveRename => (rechecked' => rechecked),
         FreshDisposition', ApprovedDisposition'
  PROVE  Dispositions'
BY DEF Dispositions, OverwritingIsAuthorizedAndSafe

(* After it, nothing they speak of changes any more.                        *)
LEMMA DispositionsAfter ==
  ASSUME Dispositions, pc' \in CleaningUp \cup Ended,
         UNCHANGED <<setting, entries, session, overwritten, approved, rechecked>>
  PROVE  Dispositions'
BY DEF Dispositions, FreshDisposition, ApprovedDisposition, OverwritingIsAuthorizedAndSafe, CleaningUp,
       Ended, BeforePublication, Arriving, Renaming, Resolving, Preparing, UnderWay

(* What is overwritten was found there, and replacing it was approved.      *)
LEMMA OverwritingWasApproved ==
  ASSUME Typed, Dispositions, setting.exclusiveRename,
         pc \in Preparing \cup UnderWay \cup {"renameFirst", "renameResolved"}
  PROVE  /\ CanTake(proposed, TRUE) /\ Overwrites(proposed)
            => proposed \in approved /\ replacement = "ReplaceExistingFile"
         /\ CanTake(proposed, FALSE) /\ entries[proposed] # "absent"
            => proposed \in approved /\ replacement = "ReplaceExistingFile"
BY DEF CanTake, Overwrites, Dispositions, FreshDisposition, ApprovedDisposition, Typed, PlanTyped

(* Every step keeps to the dispositions.                                    *)
LEMMA DispositionsStep == Typed /\ Stages /\ Dispositions /\ [Next]_vars => Dispositions'
<1> SUFFICES ASSUME Typed, Stages, Dispositions, [Next]_vars PROVE Dispositions'
  OBVIOUS
<1> USE DEF fileVars, stagingVars, planVars, accountVars, ghostVars, outerVars, controlVars,
            Goto, Return, CheckpointThen
<1>1. CASE enter
  <2>1. FreshDisposition' /\ ApprovedDisposition'
    BY <1>1 DEF enter, AfterEntry, Dispositions, FreshDisposition, ApprovedDisposition,
       Arriving, Renaming, Resolving, Preparing, UnderWay, BeforePublication
  <2> QED
    BY <1>1, <2>1, DispositionsBefore DEF enter, AfterEntry,
       Arriving, Renaming, Resolving, Preparing, UnderWay, BeforePublication
<1>2. CASE unsupported
  <2>1. FreshDisposition' /\ ApprovedDisposition'
    BY <1>2 DEF unsupported, Dispositions, FreshDisposition, ApprovedDisposition,
       Arriving, Renaming, Resolving, Preparing, UnderWay, BeforePublication
  <2> QED
    BY <1>2, <2>1, DispositionsBefore DEF unsupported,
       Arriving, Renaming, Resolving, Preparing, UnderWay, BeforePublication
<1>3. CASE moveFile
  <2>1. FreshDisposition' /\ ApprovedDisposition'
    BY <1>3 DEF moveFile, Dispositions, FreshDisposition, ApprovedDisposition,
       Arriving, Renaming, Resolving, Preparing, UnderWay, BeforePublication
  <2> QED
    BY <1>3, <2>1, DispositionsBefore DEF moveFile,
       Arriving, Renaming, Resolving, Preparing, UnderWay, BeforePublication
<1>4. CASE recheckDestination
  <2>1. FreshDisposition' /\ ApprovedDisposition'
    BY <1>4 DEF recheckDestination, Dispositions, FreshDisposition, ApprovedDisposition
  <2> QED
    BY <1>4, <2>1, DispositionsBefore DEF recheckDestination, NeedsRecheck, Renaming, UnderWay,
       BeforePublication
<1>5. CASE renameSource
  <2>1. pc' = "returning" /\ rechecked' = FALSE /\ overwritten = {}
    BY <1>5 DEF renameSource, Dispositions, Renaming, BeforePublication
  <2>2. setting.exclusiveRename => overwritten' \subseteq approved'
    BY <1>5, <2>1, OverwritingWasApproved DEF renameSource
  <2>3. overwritten' \subseteq {proposed} /\ entries'[proposed] # "copy"
    BY <1>5, <2>1 DEF renameSource, Typed, FilesTyped, PlanTyped
  <2>4. OverwritingIsAuthorizedAndSafe'
    BY <1>5, <2>2, <2>3 DEF renameSource, OverwritingIsAuthorizedAndSafe
  <2> QED
    BY <2>1, <2>4 DEF Dispositions, FreshDisposition, ApprovedDisposition, Arriving, Renaming,
       Resolving,
                      Preparing, UnderWay, BeforePublication
<1>6. CASE askRenameFailed
  <2>1. FreshDisposition' /\ ApprovedDisposition'
    BY <1>6 DEF askRenameFailed, AskActionFailed, Dispositions, FreshDisposition,
       ApprovedDisposition,
       Arriving, Renaming, Resolving, Preparing, UnderWay, BeforePublication
  <2>2. UNCHANGED <<setting, overwritten, rechecked>>
    BY <1>6 DEF askRenameFailed, AskActionFailed
  <2>3. pc \in BeforePublication
    BY <1>6 DEF askRenameFailed, Renaming, BeforePublication
  <2> QED
    BY <2>1, <2>2, <2>3, DispositionsBefore
<1>7. ASSUME NEW error \in {"CrossDevice", "AlreadyExists", "Other"}, renameFails(error)
      PROVE  Dispositions'
  <2>1. FreshDisposition' /\ ApprovedDisposition'
    BY <1>7 DEF renameFails, AfterEntry, AfterRename, Dispositions, FreshDisposition,
       ApprovedDisposition,
       Arriving, Renaming, Resolving, Preparing, UnderWay, BeforePublication
  <2> QED
    BY <1>7, <2>1, DispositionsBefore DEF renameFails, AfterEntry, AfterRename,
       Arriving, Renaming, Resolving, Preparing, UnderWay, BeforePublication
<1>8. CASE inspectDestination
  <2>1. FreshDisposition' /\ ApprovedDisposition'
    BY <1>8 DEF inspectDestination, UseAbsentDestination, AfterResolution, AfterRename,
       Dispositions, FreshDisposition, ApprovedDisposition,
       Arriving, Renaming, Resolving, Preparing, UnderWay, BeforePublication
  <2> QED
    BY <1>8, <2>1, DispositionsBefore DEF inspectDestination, UseAbsentDestination,
       AfterResolution, AfterRename,
       Arriving, Renaming, Resolving, Preparing, UnderWay, BeforePublication
<1>9. CASE inspectionFails
  <2>1. FreshDisposition' /\ ApprovedDisposition'
    BY <1>9 DEF inspectionFails, Dispositions, FreshDisposition, ApprovedDisposition,
       Arriving, Renaming, Resolving, Preparing, UnderWay, BeforePublication
  <2> QED
    BY <1>9, <2>1, DispositionsBefore DEF inspectionFails,
       Arriving, Renaming, Resolving, Preparing, UnderWay, BeforePublication
<1>10. CASE askInspectionFailed
  <2>1. FreshDisposition' /\ ApprovedDisposition'
    BY <1>10 DEF askInspectionFailed, AskActionFailed, Dispositions, FreshDisposition,
       ApprovedDisposition,
       Arriving, Renaming, Resolving, Preparing, UnderWay, BeforePublication
  <2> QED
    BY <1>10, <2>1, DispositionsBefore DEF askInspectionFailed, AskActionFailed,
       Arriving, Renaming, Resolving, Preparing, UnderWay, BeforePublication
<1>11. ASSUME NEW kind \in {"FileReplacement", "TypeMismatch"}, promptForCollision(kind)
       PROVE  Dispositions'
  <2>1. FreshDisposition' /\ ApprovedDisposition'
    BY <1>11 DEF promptForCollision, AfterResolution, AfterRename, Dispositions, FreshDisposition,
       ApprovedDisposition,
       Arriving, Renaming, Resolving, Preparing, UnderWay, BeforePublication
  <2> QED
    BY <1>11, <2>1, DispositionsBefore DEF promptForCollision, AfterResolution, AfterRename,
       Arriving, Renaming, Resolving, Preparing, UnderWay, BeforePublication
<1>12. CASE preflight
  <2>1. FreshDisposition' /\ ApprovedDisposition'
    BY <1>12 DEF preflight, Dispositions, FreshDisposition, ApprovedDisposition,
       Arriving, Renaming, Resolving, Preparing, UnderWay, BeforePublication
  <2> QED
    BY <1>12, <2>1, DispositionsBefore DEF preflight,
       Arriving, Renaming, Resolving, Preparing, UnderWay, BeforePublication
<1>13. CASE askReadOnlyFirst
  <2>1. FreshDisposition' /\ ApprovedDisposition'
    BY <1>13 DEF askReadOnlyFirst, Dispositions, FreshDisposition, ApprovedDisposition,
       Arriving, Renaming, Resolving, Preparing, UnderWay, BeforePublication
  <2> QED
    BY <1>13, <2>1, DispositionsBefore DEF askReadOnlyFirst,
       Arriving, Renaming, Resolving, Preparing, UnderWay, BeforePublication
<1>14. CASE attempt
  <2>1. FreshDisposition' /\ ApprovedDisposition'
    BY <1>14 DEF attempt, Dispositions, FreshDisposition, ApprovedDisposition,
       Arriving, Renaming, Resolving, Preparing, UnderWay, BeforePublication
  <2> QED
    BY <1>14, <2>1, DispositionsBefore DEF attempt,
       Arriving, Renaming, Resolving, Preparing, UnderWay, BeforePublication
<1>15. CASE begin
  <2>1. FreshDisposition' /\ ApprovedDisposition'
    BY <1>15 DEF begin, Dispositions, FreshDisposition, ApprovedDisposition,
       Arriving, Renaming, Resolving, Preparing, UnderWay, BeforePublication
  <2> QED
    BY <1>15, <2>1, DispositionsBefore DEF begin,
       Arriving, Renaming, Resolving, Preparing, UnderWay, BeforePublication
<1>16. CASE beginFails
  <2>1. FreshDisposition' /\ ApprovedDisposition'
    BY <1>16 DEF beginFails, Dispositions, FreshDisposition, ApprovedDisposition,
       Arriving, Renaming, Resolving, Preparing, UnderWay, BeforePublication
  <2> QED
    BY <1>16, <2>1, DispositionsBefore DEF beginFails,
       Arriving, Renaming, Resolving, Preparing, UnderWay, BeforePublication
<1>17. CASE checkChunk
  <2>1. FreshDisposition' /\ ApprovedDisposition'
    BY <1>17 DEF checkChunk, CheckpointOrAbort, Dispositions, FreshDisposition, ApprovedDisposition,
       Arriving, Renaming, Resolving, Preparing, UnderWay, BeforePublication
  <2> QED
    BY <1>17, <2>1, DispositionsBefore DEF checkChunk, CheckpointOrAbort,
       Arriving, Renaming, Resolving, Preparing, UnderWay, BeforePublication
<1>18. CASE writeNext
  <2>1. FreshDisposition' /\ ApprovedDisposition'
    BY <1>18 DEF writeNext, Dispositions, FreshDisposition, ApprovedDisposition,
       Arriving, Renaming, Resolving, Preparing, UnderWay, BeforePublication
  <2> QED
    BY <1>18, <2>1, DispositionsBefore DEF writeNext,
       Arriving, Renaming, Resolving, Preparing, UnderWay, BeforePublication
<1>19. CASE checkCommit
  <2>1. FreshDisposition' /\ ApprovedDisposition'
    BY <1>19 DEF checkCommit, CheckpointOrAbort, Dispositions, FreshDisposition,
       ApprovedDisposition,
       Arriving, Renaming, Resolving, Preparing, UnderWay, BeforePublication
  <2> QED
    BY <1>19, <2>1, DispositionsBefore DEF checkCommit, CheckpointOrAbort,
       Arriving, Renaming, Resolving, Preparing, UnderWay, BeforePublication
<1>20. CASE commit
  <2>1. FreshDisposition' /\ ApprovedDisposition'
    BY <1>20 DEF commit, Dispositions, FreshDisposition, ApprovedDisposition,
       Arriving, Renaming, Resolving, Preparing, UnderWay, BeforePublication
  <2> QED
    BY <1>20, <2>1, DispositionsBefore DEF commit,
       Arriving, Renaming, Resolving, Preparing, UnderWay, BeforePublication
<1>21. CASE transferFails
  <2>1. FreshDisposition' /\ ApprovedDisposition'
    BY <1>21 DEF transferFails, Dispositions, FreshDisposition, ApprovedDisposition,
       Arriving, Renaming, Resolving, Preparing, UnderWay, BeforePublication
  <2> QED
    BY <1>21, <2>1, DispositionsBefore DEF transferFails,
       Arriving, Renaming, Resolving, Preparing, UnderWay, BeforePublication
<1>22. CASE publish
  <2>1. /\ pc' \in CleaningUp \cup Ended /\ rechecked' = FALSE /\ overwritten = {}
        /\ setting' = setting /\ approved' = approved /\ overwritten' \subseteq {proposed}
        /\ session.flushed = FlushBeforePublish
    BY <1>22 DEF publish, Stages, Dispositions, CleaningUp, Ended, UnderWay, BeforePublication
  <2>2. CASE setting.exclusiveRename /\ overwritten' # {}
    <3>1. proposed \in approved /\ replacement = "ReplaceExistingFile"
      BY <1>22, <2>1, <2>2, OverwritingWasApproved DEF publish, UnderWay
    <3>2. session'.flushed
      BY <1>22, <2>1, <3>1 DEF publish, FlushBeforePublish, Typed, SessionTyped, Session
    <3> QED
      BY <2>1, <3>1, <3>2 DEF Dispositions, OverwritingIsAuthorizedAndSafe, FreshDisposition,
        ApprovedDisposition, CleaningUp, Ended, Arriving, Renaming, Resolving, Preparing, UnderWay,
        BeforePublication
  <2> QED
    BY <2>1, <2>2 DEF Dispositions, OverwritingIsAuthorizedAndSafe, FreshDisposition,
      ApprovedDisposition, CleaningUp, Ended, Arriving, Renaming, Resolving, Preparing, UnderWay,
      BeforePublication
<1>23. CASE publishCollides
  <2>1. FreshDisposition' /\ ApprovedDisposition'
    BY <1>23 DEF publishCollides, Dispositions, FreshDisposition, ApprovedDisposition,
       Arriving, Renaming, Resolving, Preparing, UnderWay, BeforePublication
  <2> QED
    BY <1>23, <2>1, DispositionsBefore DEF publishCollides,
       Arriving, Renaming, Resolving, Preparing, UnderWay, BeforePublication
<1>24. CASE askTransferFailed
  <2>1. FreshDisposition' /\ ApprovedDisposition'
    BY <1>24 DEF askTransferFailed, AskActionFailed, Dispositions, FreshDisposition,
       ApprovedDisposition,
       Arriving, Renaming, Resolving, Preparing, UnderWay, BeforePublication
  <2> QED
    BY <1>24, <2>1, DispositionsBefore DEF askTransferFailed, AskActionFailed,
       Arriving, Renaming, Resolving, Preparing, UnderWay, BeforePublication
<1>25. CASE makeWritable
  BY <1>25, DispositionsAfter DEF makeWritable, CleaningUp, Ended
<1>26. CASE removeSource
  BY <1>26, DispositionsAfter DEF removeSource, CleaningUp, Ended
<1>27. CASE removalFails
  BY <1>27, DispositionsAfter DEF removalFails, CleaningUp, Ended
<1>28. CASE askCleanupFailed
  BY <1>28, DispositionsAfter DEF askCleanupFailed, AskCleanup, CleaningUp, Ended
<1>29. CASE returnToCaller
  BY <1>29, DispositionsAfter DEF returnToCaller, CleaningUp, Ended
<1>30. CASE cancel
  BY <1>30 DEF cancel, Dispositions, OverwritingIsAuthorizedAndSafe, FreshDisposition,
     ApprovedDisposition
<1>31. CASE meddle
  <2>1. \A name \in Names : entries'[name] = "copy" => entries[name] = "copy"
    BY <1>31, MeddlingKeepsHolders DEF Typed, FilesTyped
  <2>2. overwritten \subseteq Names
    BY DEF Typed, GhostsTyped
  <2>3. OverwritingIsAuthorizedAndSafe'
    BY <1>31, <2>1, <2>2 DEF meddle, Dispositions, OverwritingIsAuthorizedAndSafe
  <2> QED
    BY <1>31, <2>3 DEF meddle, Dispositions, FreshDisposition, ApprovedDisposition
<1>32. CASE Done \/ UNCHANGED vars
  BY <1>32 DEF Done, vars, Dispositions, OverwritingIsAuthorizedAndSafe, FreshDisposition,
     ApprovedDisposition
<1> QED
  BY <1>1, <1>2, <1>3, <1>4, <1>5, <1>6, <1>7, <1>8, <1>9, <1>10, <1>11, <1>12, <1>13, <1>14,
     <1>15, <1>16, <1>17, <1>18, <1>19, <1>20, <1>21, <1>22, <1>23, <1>24, <1>25, <1>26, <1>27,
     <1>28, <1>29, <1>30, <1>31, <1>32
  DEF Next, Transfer

(* Where renames can be exclusive, nothing is overwritten without the       *)
(* user's answer for that very name, whatever is raced, retried or renamed; *)
(* and what replaced something was flushed (ctransferexecutor.cpp:792).     *)
THEOREM OverwritingWasAuthorized == Spec => []OverwritingIsAuthorizedAndSafe
<1>1. Init => Typed /\ Stages /\ Dispositions
  <2>1. Init => Dispositions
    BY DEF Init, Dispositions, OverwritingIsAuthorizedAndSafe, FreshDisposition,
       ApprovedDisposition,
           Preparing, UnderWay
  <2> QED
    BY <2>1, TypesInit, ContractStarts
<1>2. Typed /\ Stages /\ Dispositions /\ [Next]_vars => Typed' /\ Stages' /\ Dispositions'
  BY TypesStep, StagesStep, DispositionsStep
<1>3. Dispositions => OverwritingIsAuthorizedAndSafe
  BY DEF Dispositions
<1> QED
  BY <1>1, <1>2, <1>3, PTL DEF Spec

-----------------------------------------------------------------------------
(* Accounting.                                                             *)

SameCounts ==
  /\ tally'.completed = tally.completed /\ tally'.skipped = tally.skipped
  /\ tally'.satisfied = tally.satisfied /\ tally'.failed = tally.failed
ReturnsAs(result) == pc' = "returning" /\ verdict' = result

(* Field by field, what the progress operators return.                      *)
LEMMA ProgressFields ==
  ASSUME Typed, NEW bytes \in Nat
  PROVE  /\ progress.bytes \in Nat /\ progress.entryBytes \in Nat /\ progress.items \in Nat
         /\ advanceWithoutTransfer(bytes).bytes = progress.bytes + bytes
         /\ advanceWithoutTransfer(bytes).items = progress.items + 1
         /\ itemCompleted.bytes = progress.bytes
         /\ itemCompleted.items = progress.items + 1
         /\ currentEntryAbandoned.bytes = progress.bytes - progress.entryBytes
         /\ currentEntryAbandoned.entryBytes = 0
         /\ currentEntryAbandoned.items = progress.items
<1> USE DEF Typed, AccountsTyped, Progress
<1>1. /\ advanceWithoutTransfer(bytes).bytes = progress.bytes + bytes
      /\ advanceWithoutTransfer(bytes).items = progress.items + 1
  BY DEF advanceWithoutTransfer
<1>2. itemCompleted.bytes = progress.bytes /\ itemCompleted.items = progress.items + 1
  BY DEF itemCompleted
<1>3. /\ currentEntryAbandoned.bytes = progress.bytes - progress.entryBytes
      /\ currentEntryAbandoned.entryBytes = 0
      /\ currentEntryAbandoned.items = progress.items
  BY DEF currentEntryAbandoned
<1> QED
  BY <1>1, <1>2, <1>3

(* The first item counted is the only one.                                  *)
LEMMA FirstCount ==
  ASSUME Typed, Uncounted, NEW counter \in {"completed", "skipped", "satisfied", "failed"},
         tally' = Count(counter), progress'.items = progress.items + 1
  PROVE  /\ progress'.items = Items' /\ Items' = 1
         /\ counter = "completed" => tally'.completed = 1
         /\ counter = "skipped" => tally'.skipped = 1
         /\ counter = "satisfied" => tally'.satisfied = 1
         /\ counter = "failed" => tally'.failed = 1
<1> USE DEF Typed, AccountsTyped, Tally, Uncounted
<1>1. CASE counter = "completed"
  <2>1. tally'.completed = 1 /\ tally'.skipped = 0 /\ tally'.satisfied = 0 /\ tally'.failed = 0
    BY <1>1 DEF Count
  <2> QED
    BY <1>1, <2>1 DEF Items
<1>2. CASE counter = "skipped"
  <2>1. tally'.completed = 0 /\ tally'.skipped = 1 /\ tally'.satisfied = 0 /\ tally'.failed = 0
    BY <1>2 DEF Count
  <2> QED
    BY <1>2, <2>1 DEF Items
<1>3. CASE counter = "satisfied"
  <2>1. tally'.completed = 0 /\ tally'.skipped = 0 /\ tally'.satisfied = 1 /\ tally'.failed = 0
    BY <1>3 DEF Count
  <2> QED
    BY <1>3, <2>1 DEF Items
<1>4. CASE counter = "failed"
  <2>1. tally'.completed = 0 /\ tally'.skipped = 0 /\ tally'.satisfied = 0 /\ tally'.failed = 1
    BY <1>4 DEF Count
  <2> QED
    BY <1>4, <2>1 DEF Items
<1> QED
  BY <1>1, <1>2, <1>3, <1>4

(* Warnings are no items; an abandoned attempt takes its bytes back.        *)
LEMMA AbandoningCountsNothing ==
  ASSUME Typed, DiscardStaging, progress' = currentEntryAbandoned,
         BytesOfTheAttempt(progress.bytes)
  PROVE  SameCounts /\ progress'.items = progress.items /\ BytesOfTheAttempt(0)'
<1>1. SameCounts
  BY DEF DiscardStaging, SameCounts, Count, Typed, AccountsTyped, Tally
<1> QED
  BY <1>1, ProgressFields DEF BytesOfTheAttempt

(* Before the publication nothing is counted.                               *)
LEMMA AccountsBefore ==
  ASSUME Typed, Typed', Accounts, pc \in BeforePublication, pc' \in BeforePublication,
         UNCHANGED setting, SameCounts, progress'.items = progress.items,
         IF pc' \in UnderWay THEN BytesOfTheAttempt(session.written)' ELSE BytesOfTheAttempt(0)'
  PROVE  Accounts'
<1>1. Uncounted' /\ Items' = 0
  BY DEF Accounts, Uncounted, SameCounts, Items
<1>2. progress'.bytes <= setting'.size
  <2>1. setting'.size \in Nat
    BY SettingMembers DEF Typed, OuterTyped
  <2>2. session'.written <= setting'.size
    BY <2>1 DEF Typed, SessionTyped, Session
  <2> QED
    BY <2>1, <2>2 DEF BytesOfTheAttempt
<1>3. pc' \notin CleaningUp \cup Ended
  BY DEF CleaningUp, Ended, Arriving, Renaming, Resolving, Preparing, UnderWay, BeforePublication
<1>4. AccountedExactlyOnce'
  BY <1>1, <1>2, <1>3 DEF AccountedExactlyOnce, Uncounted, Ended
<1> QED
  BY <1>1, <1>3, <1>4 DEF Accounts

(* Nor is anything when the transfer is cancelled there.                    *)
LEMMA AccountsCancelled ==
  ASSUME Accounts, pc \in BeforePublication, ReturnsAs("Cancelled"), SameCounts,
         progress'.items = progress.items, progress'.bytes <= setting'.size
  PROVE  Accounts'
<1>1. Uncounted' /\ Items' = 0 /\ tally'.failed = 0
  BY DEF Accounts, Uncounted, SameCounts, Items
<1>2. AccountedAs(verdict)'
  BY <1>1 DEF ReturnsAs, AccountedAs
<1>3. AccountedExactlyOnce'
  BY <1>1, <1>2 DEF AccountedExactlyOnce, Uncounted, ReturnsAs
<1> QED
  BY <1>1, <1>2, <1>3 DEF Accounts, ReturnsAs, CleaningUp, Arriving, Renaming, Resolving, Preparing,
                          UnderWay, BeforePublication

(* A result that is counted as it is reported.                              *)
LEMMA AccountsReported ==
  ASSUME Typed, Typed', Uncounted, UNCHANGED setting,
         NEW counter \in {"completed", "skipped", "satisfied", "failed"},
         NEW result \in NodeOutcome, ReturnsAs(result),
         tally' = Count(counter), progress'.items = progress.items + 1,
         \/ <<result, counter>> \in {<<"Completed", "completed">>, <<"Skipped", "skipped">>,
                                     <<"AlreadySatisfied", "satisfied">>}
            /\ progress'.bytes = setting.size
         \/ result \in {"Failed", "Cancelled"} /\ counter = "failed" /\ progress'.bytes <= setting.size
  PROVE  Accounts'
<1>1. Items' = 1 /\ progress'.items = Items' /\ setting.size \in Nat
  BY FirstCount, SettingMembers DEF Typed, OuterTyped
<1>2. AccountedAs(verdict)'
  BY <1>1, FirstCount DEF AccountedAs, ReturnsAs
<1>3. AccountedExactlyOnce'
  BY <1>1, <1>2 DEF AccountedExactlyOnce
<1> QED
  BY <1>2, <1>3 DEF Accounts, ReturnsAs, CleaningUp, Arriving, Renaming, Resolving, Preparing,
                    UnderWay, BeforePublication

(* A step that touches neither the accounts nor what they are compared to.  *)
LEMMA SameAccounts ==
  ASSUME Accounts, UNCHANGED <<setting, accountVars, session, pc, verdict>>
  PROVE  Accounts'
BY DEF Accounts, AccountedExactlyOnce, AccountedAs, Items, Uncounted, BytesOfTheAttempt, accountVars

(* The quiet steps before the attempt, and those that skip the entry.       *)
LEMMA AccountsResolving ==
  ASSUME Typed, Typed', Accounts, pc \in BeforePublication \ UnderWay, UNCHANGED setting,
         \/ /\ UNCHANGED accountVars
            /\ pc' \in BeforePublication \ UnderWay \/ ReturnsAs("Cancelled")
         \/ accountSkippedSubtree /\ ReturnsAs("Skipped")
  PROVE  Accounts'
<1>1. Uncounted /\ BytesOfTheAttempt(0) /\ setting.size \in Nat
  BY SettingMembers DEF Accounts, Typed, OuterTyped
<1>2. CASE UNCHANGED accountVars
  <2>1. SameCounts /\ progress' = progress
    BY <1>2 DEF SameCounts, accountVars
  <2>2. CASE pc' \in BeforePublication \ UnderWay
    BY <1>1, <2>1, <2>2, AccountsBefore DEF BytesOfTheAttempt
  <2>3. CASE ReturnsAs("Cancelled")
    BY <1>1, <2>1, <2>3, AccountsCancelled DEF BytesOfTheAttempt
  <2>4. CASE accountSkippedSubtree /\ ReturnsAs("Skipped")
    BY <1>1, <2>1, <2>4, ProgressFields DEF accountSkippedSubtree, Uncounted
  <2> QED
    BY <2>2, <2>3, <2>4
<1>3. CASE accountSkippedSubtree /\ ReturnsAs("Skipped")
  <2>1. progress'.items = progress.items + 1 /\ progress'.bytes = setting.size
    BY <1>1, <1>3, ProgressFields DEF accountSkippedSubtree, BytesOfTheAttempt
  <2> QED
    BY <1>1, <1>3, <2>1, AccountsReported DEF accountSkippedSubtree, NodeOutcome
<1> QED
  BY <1>2, <1>3

(* An attempt that is abandoned, for good or to be made again.              *)
LEMMA AccountsAbandoned ==
  ASSUME Typed, Typed', Accounts, pc \in UnderWay, UNCHANGED setting, AbortSession,
         pc' \in BeforePublication \ UnderWay \/ ReturnsAs("Cancelled")
  PROVE  Accounts'
<1>1. BytesOfTheAttempt(progress.bytes) /\ setting.size \in Nat /\ pc \in BeforePublication
  BY SettingMembers DEF Accounts, BytesOfTheAttempt, Typed, OuterTyped, BeforePublication
<1>2. SameCounts /\ progress'.items = progress.items /\ BytesOfTheAttempt(0)'
  BY <1>1, AbandoningCountsNothing DEF AbortSession
<1>3. CASE pc' \in BeforePublication \ UnderWay
  BY <1>1, <1>2, <1>3, AccountsBefore
<1>4. CASE ReturnsAs("Cancelled")
  BY <1>1, <1>2, <1>4, AccountsCancelled DEF BytesOfTheAttempt
<1> QED
  BY <1>3, <1>4

(* The removal of the source counts nothing until it ends.                  *)
LEMMA AccountsCleaning ==
  ASSUME Accounts, pc \in CleaningUp, pc' \in CleaningUp, UNCHANGED <<setting, accountVars>>
  PROVE  Accounts'
<1>1. Uncounted' /\ progress'.bytes = setting'.size
  BY DEF Accounts, Uncounted, accountVars
<1>2. AccountedExactlyOnce'
  BY DEF Accounts, AccountedExactlyOnce, Items, accountVars, CleaningUp
<1> QED
  BY <1>1, <1>2 DEF Accounts, CleaningUp, Ended, Arriving, Renaming, Resolving, Preparing, UnderWay,
                    BeforePublication

(* Every step keeps the accounts.                                           *)
LEMMA AccountsStep == Typed /\ Stages /\ Accounts /\ [Next]_vars => Accounts'
<1> SUFFICES ASSUME Typed, Typed', Stages, Accounts, [Next]_vars PROVE Accounts'
  BY TypesStep
<1> USE DEF fileVars, stagingVars, planVars, ghostVars, outerVars, controlVars,
            Goto, Return, CheckpointThen
<1>s. setting.size \in Nat
  BY SettingMembers DEF Typed, OuterTyped
<1>1. CASE enter
  <2>1. UNCHANGED setting /\ pc \in BeforePublication \ UnderWay
    BY <1>1 DEF enter, Arriving, Renaming, Resolving, Preparing, UnderWay, BeforePublication
  <2>2. \/ /\ UNCHANGED accountVars
           /\ pc' \in BeforePublication \ UnderWay \/ ReturnsAs("Cancelled")
        \/ accountSkippedSubtree /\ ReturnsAs("Skipped")
    BY <1>1 DEF enter, AfterEntry, ReturnsAs, accountVars,
       Arriving, Renaming, Resolving, Preparing, UnderWay, BeforePublication
  <2> QED
    BY <2>1, <2>2, AccountsResolving
<1>2. CASE unsupported
  <2>1. UNCHANGED setting /\ pc \in BeforePublication \ UnderWay
    BY <1>2 DEF unsupported, Arriving, Renaming, Resolving, Preparing, UnderWay, BeforePublication
  <2>2. \/ /\ UNCHANGED accountVars
           /\ pc' \in BeforePublication \ UnderWay \/ ReturnsAs("Cancelled")
        \/ accountSkippedSubtree /\ ReturnsAs("Skipped")
    BY <1>2 DEF unsupported, ReturnsAs, accountVars,
       Arriving, Renaming, Resolving, Preparing, UnderWay, BeforePublication
  <2> QED
    BY <2>1, <2>2, AccountsResolving
<1>3. CASE moveFile
  <2>1. UNCHANGED setting /\ pc \in BeforePublication \ UnderWay
    BY <1>3 DEF moveFile, Arriving, Renaming, Resolving, Preparing, UnderWay, BeforePublication
  <2>2. \/ /\ UNCHANGED accountVars
           /\ pc' \in BeforePublication \ UnderWay \/ ReturnsAs("Cancelled")
        \/ accountSkippedSubtree /\ ReturnsAs("Skipped")
    BY <1>3 DEF moveFile, ReturnsAs, accountVars,
       Arriving, Renaming, Resolving, Preparing, UnderWay, BeforePublication
  <2> QED
    BY <2>1, <2>2, AccountsResolving
<1>4. CASE recheckDestination
  BY <1>4, SameAccounts DEF recheckDestination
<1>5. CASE renameSource
  <2>1. Uncounted /\ BytesOfTheAttempt(0)
    BY <1>5 DEF renameSource, Accounts, Renaming, UnderWay, BeforePublication
  <2>2. progress'.items = progress.items + 1 /\ progress'.bytes = setting.size
    BY <1>5, <1>s, <2>1, ProgressFields DEF renameSource, BytesOfTheAttempt
  <2> QED
    BY <1>5, <2>1, <2>2, AccountsReported DEF renameSource, ReturnsAs, NodeOutcome
<1>6. CASE askRenameFailed
  <2>1. UNCHANGED setting /\ pc \in BeforePublication \ UnderWay
    BY <1>6 DEF askRenameFailed, AskActionFailed, Arriving, Renaming, Resolving, Preparing,
       UnderWay, BeforePublication
  <2>2. \/ /\ UNCHANGED accountVars
           /\ pc' \in BeforePublication \ UnderWay \/ ReturnsAs("Cancelled")
        \/ accountSkippedSubtree /\ ReturnsAs("Skipped")
    BY <1>6 DEF askRenameFailed, AskActionFailed, ReturnsAs, accountVars,
       Arriving, Renaming, Resolving, Preparing, UnderWay, BeforePublication
  <2> QED
    BY <2>1, <2>2, AccountsResolving
<1>7. ASSUME NEW error \in {"CrossDevice", "AlreadyExists", "Other"}, renameFails(error)
      PROVE  Accounts'
  <2>1. UNCHANGED setting /\ pc \in BeforePublication \ UnderWay
    BY <1>7 DEF renameFails, Arriving, Renaming, Resolving, Preparing, UnderWay, BeforePublication
  <2>2. \/ /\ UNCHANGED accountVars
           /\ pc' \in BeforePublication \ UnderWay \/ ReturnsAs("Cancelled")
        \/ accountSkippedSubtree /\ ReturnsAs("Skipped")
    BY <1>7 DEF renameFails, AfterEntry, AfterRename, ReturnsAs, accountVars,
       Arriving, Renaming, Resolving, Preparing, UnderWay, BeforePublication
  <2> QED
    BY <2>1, <2>2, AccountsResolving
<1>8. CASE inspectDestination
  <2>1. UNCHANGED setting /\ pc \in BeforePublication \ UnderWay
    BY <1>8 DEF inspectDestination, Arriving, Renaming, Resolving, Preparing, UnderWay,
       BeforePublication
  <2>2. CASE UNCHANGED accountVars /\ pc' \in BeforePublication \ UnderWay
    BY <2>1, <2>2, AccountsResolving
  <2>3. CASE /\ tally' = Count("satisfied") /\ ReturnsAs("AlreadySatisfied")
             /\ progress' = advanceWithoutTransfer(setting.size)
    <3>1. Uncounted /\ BytesOfTheAttempt(0)
      BY <2>1 DEF Accounts
    <3>2. progress'.items = progress.items + 1 /\ progress'.bytes = setting.size
      BY <1>s, <2>3, <3>1, ProgressFields DEF BytesOfTheAttempt
    <3> QED
      BY <2>1, <2>3, <3>1, <3>2, AccountsReported DEF NodeOutcome
  <2> QED
    BY <1>8, <2>2, <2>3 DEF inspectDestination, UseAbsentDestination, AfterResolution,
       AfterRename, ReturnsAs,
      accountVars, Arriving, Renaming, Resolving, Preparing, UnderWay, BeforePublication
<1>9. CASE inspectionFails
  <2>1. UNCHANGED setting /\ pc \in BeforePublication \ UnderWay
    BY <1>9 DEF inspectionFails, Arriving, Renaming, Resolving, Preparing, UnderWay,
       BeforePublication
  <2>2. \/ /\ UNCHANGED accountVars
           /\ pc' \in BeforePublication \ UnderWay \/ ReturnsAs("Cancelled")
        \/ accountSkippedSubtree /\ ReturnsAs("Skipped")
    BY <1>9 DEF inspectionFails, ReturnsAs, accountVars,
       Arriving, Renaming, Resolving, Preparing, UnderWay, BeforePublication
  <2> QED
    BY <2>1, <2>2, AccountsResolving
<1>10. CASE askInspectionFailed
  <2>1. UNCHANGED setting /\ pc \in BeforePublication \ UnderWay
    BY <1>10 DEF askInspectionFailed, AskActionFailed, Arriving, Renaming, Resolving, Preparing,
       UnderWay, BeforePublication
  <2>2. \/ /\ UNCHANGED accountVars
           /\ pc' \in BeforePublication \ UnderWay \/ ReturnsAs("Cancelled")
        \/ accountSkippedSubtree /\ ReturnsAs("Skipped")
    BY <1>10 DEF askInspectionFailed, AskActionFailed, ReturnsAs, accountVars,
       Arriving, Renaming, Resolving, Preparing, UnderWay, BeforePublication
  <2> QED
    BY <2>1, <2>2, AccountsResolving
<1>11. ASSUME NEW kind \in {"FileReplacement", "TypeMismatch"}, promptForCollision(kind)
       PROVE  Accounts'
  <2>1. UNCHANGED setting /\ pc \in BeforePublication \ UnderWay
    BY <1>11 DEF promptForCollision, Arriving, Renaming, Resolving, Preparing, UnderWay,
       BeforePublication
  <2>2. \/ /\ UNCHANGED accountVars
           /\ pc' \in BeforePublication \ UnderWay \/ ReturnsAs("Cancelled")
        \/ accountSkippedSubtree /\ ReturnsAs("Skipped")
    BY <1>11 DEF promptForCollision, AfterResolution, AfterRename, ReturnsAs, accountVars,
       Arriving, Renaming, Resolving, Preparing, UnderWay, BeforePublication
  <2> QED
    BY <2>1, <2>2, AccountsResolving
<1>12. CASE preflight
  <2>1. UNCHANGED setting /\ pc \in BeforePublication \ UnderWay
    BY <1>12 DEF preflight, Arriving, Renaming, Resolving, Preparing, UnderWay, BeforePublication
  <2>2. \/ /\ UNCHANGED accountVars
           /\ pc' \in BeforePublication \ UnderWay \/ ReturnsAs("Cancelled")
        \/ accountSkippedSubtree /\ ReturnsAs("Skipped")
    BY <1>12 DEF preflight, ReturnsAs, accountVars,
       Arriving, Renaming, Resolving, Preparing, UnderWay, BeforePublication
  <2> QED
    BY <2>1, <2>2, AccountsResolving
<1>13. CASE askReadOnlyFirst
  <2>1. UNCHANGED setting /\ pc \in BeforePublication \ UnderWay
    BY <1>13 DEF askReadOnlyFirst, Arriving, Renaming, Resolving, Preparing, UnderWay,
       BeforePublication
  <2>2. \/ /\ UNCHANGED accountVars
           /\ pc' \in BeforePublication \ UnderWay \/ ReturnsAs("Cancelled")
        \/ accountSkippedSubtree /\ ReturnsAs("Skipped")
    BY <1>13 DEF askReadOnlyFirst, ReturnsAs, accountVars,
       Arriving, Renaming, Resolving, Preparing, UnderWay, BeforePublication
  <2> QED
    BY <2>1, <2>2, AccountsResolving
<1>14. CASE attempt
  <2>1. BytesOfTheAttempt(0) /\ UNCHANGED setting /\ pc \in BeforePublication
    BY <1>14 DEF attempt, Accounts, Preparing, UnderWay, BeforePublication
  <2>2. SameCounts /\ progress'.items = progress.items /\ BytesOfTheAttempt(0)'
    BY <1>14, <2>1 DEF attempt, SameCounts, BytesOfTheAttempt, Typed, AccountsTyped, Progress
  <2>3. CASE pc' = "begin"
    BY <2>1, <2>2, <2>3, AccountsBefore DEF Preparing, UnderWay, BeforePublication
  <2>4. CASE ReturnsAs("Cancelled")
    BY <1>14, <1>s, <2>1, <2>2, <2>4, AccountsCancelled DEF attempt, BytesOfTheAttempt
  <2> QED
    BY <1>14, <2>3, <2>4 DEF attempt, ReturnsAs
<1>15. CASE begin
  <2>1. BytesOfTheAttempt(0) /\ pc \in BeforePublication /\ pc' = "checkChunk"
    BY <1>15 DEF begin, Accounts, Preparing, UnderWay, BeforePublication
  <2>2. session'.written = 0 /\ SameCounts /\ progress' = progress
    BY <1>15 DEF begin, NewSession, NoSession, SameCounts, accountVars
  <2> QED
    BY <1>15, <2>1, <2>2, AccountsBefore DEF begin, BytesOfTheAttempt, UnderWay, BeforePublication
<1>16. CASE beginFails
  <2>1. BytesOfTheAttempt(progress.bytes) /\ pc \in BeforePublication /\ pc' = "transferFailed"
    BY <1>16 DEF beginFails, Accounts, BytesOfTheAttempt, Preparing, UnderWay, BeforePublication
  <2>2. SameCounts /\ progress'.items = progress.items /\ BytesOfTheAttempt(0)'
    BY <1>16, <2>1, AbandoningCountsNothing DEF beginFails
  <2> QED
    BY <1>16, <2>1, <2>2, AccountsBefore DEF beginFails, Preparing, UnderWay, BeforePublication
<1>17. CASE checkChunk
  <2>1. UNCHANGED setting /\ pc \in UnderWay /\ pc \in BeforePublication
    BY <1>17 DEF checkChunk, UnderWay, BeforePublication
  <2>2. CASE AbortSession /\ ReturnsAs("Cancelled")
    BY <2>1, <2>2, AccountsAbandoned
  <2>3. CASE pc' = "writeNext" /\ UNCHANGED <<stagingVars, accountVars>>
    <3>1. SameCounts /\ progress' = progress /\ BytesOfTheAttempt(session.written)'
      BY <2>1, <2>3 DEF SameCounts, accountVars, Accounts, BytesOfTheAttempt
    <3> QED
      BY <2>1, <2>3, <3>1, AccountsBefore DEF UnderWay, BeforePublication
  <2> QED
    BY <1>17, <2>2, <2>3 DEF checkChunk, CheckpointOrAbort, ReturnsAs
<1>18. CASE writeNext
  <2>1. PICK written \in ChunkLengths(setting.size - session.written) :
          /\ session' = [session EXCEPT !.written = @ + written,
               !.state = IF written = setting.size - session.written THEN "ReadyToCommit" ELSE @]
          /\ progress' = [progress EXCEPT !.bytes = @ + written, !.entryBytes = @ + written]
    BY <1>18 DEF writeNext
  <2>2. BytesOfTheAttempt(session.written) /\ pc \in BeforePublication
    BY <1>18 DEF writeNext, Accounts, UnderWay, BeforePublication
  <2>3. session'.written = session.written + written
    BY <2>1 DEF Typed, SessionTyped, Session
  <2>4. /\ progress'.bytes = progress.bytes + written
        /\ progress'.entryBytes = progress.entryBytes + written
        /\ progress'.items = progress.items
    BY <2>1 DEF Typed, AccountsTyped, Progress
  <2>5. BytesOfTheAttempt(session.written)'
    BY <2>2, <2>3, <2>4 DEF BytesOfTheAttempt
  <2>6. SameCounts /\ UNCHANGED setting /\ pc' \in UnderWay
    BY <1>18 DEF writeNext, SameCounts, UnderWay
  <2> QED
    BY <2>2, <2>4, <2>5, <2>6, AccountsBefore DEF BeforePublication
<1>19. CASE checkCommit
  <2>1. UNCHANGED setting /\ pc \in UnderWay /\ pc \in BeforePublication
    BY <1>19 DEF checkCommit, UnderWay, BeforePublication
  <2>2. CASE AbortSession /\ ReturnsAs("Cancelled")
    BY <2>1, <2>2, AccountsAbandoned
  <2>3. CASE pc' = "commit" /\ UNCHANGED <<stagingVars, accountVars>>
    <3>1. SameCounts /\ progress' = progress /\ BytesOfTheAttempt(session.written)'
      BY <2>1, <2>3 DEF SameCounts, accountVars, Accounts, BytesOfTheAttempt
    <3> QED
      BY <2>1, <2>3, <3>1, AccountsBefore DEF UnderWay, BeforePublication
  <2> QED
    BY <1>19, <2>2, <2>3 DEF checkCommit, CheckpointOrAbort, ReturnsAs
<1>20. CASE commit
  <2>1. BytesOfTheAttempt(session.written) /\ pc \in BeforePublication
    BY <1>20 DEF commit, Accounts, UnderWay, BeforePublication
  <2>2. session'.written = session.written /\ SameCounts /\ progress' = progress
    BY <1>20 DEF commit, SameCounts, accountVars, Typed, SessionTyped, Session
  <2> QED
    BY <1>20, <2>1, <2>2, AccountsBefore DEF commit, BytesOfTheAttempt, UnderWay, BeforePublication
<1>21. CASE transferFails
  BY <1>21, AccountsAbandoned DEF transferFails, Preparing, UnderWay, BeforePublication
<1>22. CASE publish
  <2>1. /\ Uncounted /\ BytesOfTheAttempt(setting.size) /\ session.written = setting.size
        /\ pc \in BeforePublication /\ setting' = setting
    BY <1>22 DEF publish, Accounts, Stages, Whole, UnderWay, BeforePublication
  <2>2. CASE PublishedSourceIsRemoved
    <3>1. pc' \in CleaningUp /\ UNCHANGED accountVars
      BY <1>22, <2>2 DEF publish, CleaningUp
    <3>2. Uncounted' /\ progress' = progress /\ AccountedExactlyOnce'
      BY <2>1, <3>1 DEF accountVars, Uncounted, Accounts, AccountedExactlyOnce, Items, CleaningUp
    <3> QED
      BY <2>1, <3>1, <3>2 DEF Accounts, BytesOfTheAttempt, CleaningUp, Ended, Arriving, Renaming,
                              Resolving, Preparing, UnderWay, BeforePublication
  <2>3. CASE ~PublishedSourceIsRemoved
    <3>1. tally' = Count("completed") /\ progress' = itemCompleted /\ ReturnsAs("Completed")
      BY <1>22, <2>3 DEF publish, ReturnsAs
    <3>2. progress'.items = progress.items + 1 /\ progress'.bytes = setting.size
      BY <1>s, <2>1, <3>1, ProgressFields DEF BytesOfTheAttempt
    <3> QED
      BY <2>1, <3>1, <3>2, AccountsReported DEF NodeOutcome
  <2> QED
    BY <2>2, <2>3
<1>23. CASE publishCollides
  BY <1>23, AccountsAbandoned DEF publishCollides, Arriving, Resolving, UnderWay, BeforePublication
<1>24. CASE askTransferFailed
  <2>1. UNCHANGED setting /\ pc \in BeforePublication \ UnderWay
    BY <1>24 DEF askTransferFailed, AskActionFailed, Arriving, Renaming, Resolving, Preparing,
       UnderWay, BeforePublication
  <2>2. \/ /\ UNCHANGED accountVars
           /\ pc' \in BeforePublication \ UnderWay \/ ReturnsAs("Cancelled")
        \/ accountSkippedSubtree /\ ReturnsAs("Skipped")
    BY <1>24 DEF askTransferFailed, AskActionFailed, ReturnsAs, accountVars,
       Arriving, Renaming, Resolving, Preparing, UnderWay, BeforePublication
  <2> QED
    BY <2>1, <2>2, AccountsResolving
<1>25. CASE makeWritable
  <2>1. pc \in CleaningUp /\ pc' \in CleaningUp /\ UNCHANGED <<setting, accountVars>>
    BY <1>25 DEF makeWritable, CleaningUp
  <2> QED
    BY <2>1, AccountsCleaning
<1>26. CASE removeSource
  <2>1. Uncounted /\ progress.bytes = setting.size
    BY <1>26 DEF removeSource, Accounts, CleaningUp
  <2>2. progress'.items = progress.items + 1 /\ progress'.bytes = setting.size
    BY <1>26, <1>s, <2>1, ProgressFields DEF removeSource
  <2> QED
    BY <1>26, <2>1, <2>2, AccountsReported DEF removeSource, ReturnsAs, NodeOutcome
<1>27. CASE removalFails
  <2>1. pc \in CleaningUp /\ pc' \in CleaningUp /\ UNCHANGED <<setting, accountVars>>
    BY <1>27 DEF removalFails, CleaningUp
  <2> QED
    BY <2>1, AccountsCleaning
<1>28. CASE askCleanupFailed
  <2>1. pc \in CleaningUp /\ UNCHANGED setting
    BY <1>28 DEF askCleanupFailed, CleaningUp
  <2>2. CASE pc' \in CleaningUp /\ UNCHANGED accountVars
    BY <2>1, <2>2, AccountsCleaning
  <2>3. CASE recordTerminalCleanupFailure /\ (ReturnsAs("Failed") \/ ReturnsAs("Cancelled"))
    <3>1. Uncounted /\ progress.bytes = setting.size
      BY <2>1 DEF Accounts
    <3>2. progress'.items = progress.items + 1 /\ progress'.bytes = setting.size
      BY <1>s, <2>3, <3>1, ProgressFields DEF recordTerminalCleanupFailure
    <3>3. progress'.bytes <= setting.size
      BY <1>s, <3>2
    <3> QED
      BY <2>1, <2>3, <3>1, <3>2, <3>3, AccountsReported DEF recordTerminalCleanupFailure,
         NodeOutcome
  <2> QED
    BY <1>28, <2>2, <2>3 DEF askCleanupFailed, AskCleanup, CleaningUp, ReturnsAs
<1>29. CASE returnToCaller
  <2>1. /\ AccountedAs(verdict) /\ AccountedAs(verdict)' /\ pc' = "done"
        /\ AccountedExactlyOnce
    BY <1>29 DEF returnToCaller, Accounts, Ended, AccountedAs, Items, accountVars
  <2>2. AccountedExactlyOnce'
    BY <1>29, <2>1 DEF returnToCaller, AccountedExactlyOnce, Items, accountVars
  <2> QED
    BY <2>1, <2>2 DEF Accounts, CleaningUp, Arriving, Renaming, Resolving, Preparing, UnderWay,
                      BeforePublication
<1>30. CASE cancel
  BY <1>30, SameAccounts DEF cancel
<1>31. CASE meddle
  BY <1>31, SameAccounts DEF meddle
<1>32. CASE Done \/ UNCHANGED vars
  BY <1>32, SameAccounts DEF Done, vars
<1> QED
  BY <1>1, <1>2, <1>3, <1>4, <1>5, <1>6, <1>7, <1>8, <1>9, <1>10, <1>11, <1>12, <1>13, <1>14,
     <1>15, <1>16, <1>17, <1>18, <1>19, <1>20, <1>21, <1>22, <1>23, <1>24, <1>25, <1>26, <1>27,
     <1>28, <1>29, <1>30, <1>31, <1>32
  DEF Next, Transfer

(* However many attempts it takes and whatever is asked, skipped, cancelled *)
(* or fails, the entry is counted once, as it is reported, and the bytes of *)
(* abandoned attempts are not (ctransferexecutor.cpp,                       *)
(* coperationexecutioncontext.cpp).                                         *)
THEOREM EntryIsAccountedOnce == Spec => []AccountedExactlyOnce
<1>1. Init => Typed /\ Stages /\ Accounts
  <2>1. ASSUME Init PROVE Accounts
    <3>1. setting.size \in Nat
      BY <2>1, SettingMembers DEF Init
    <3>2. Uncounted /\ BytesOfTheAttempt(0) /\ pc = "enter"
      BY <2>1 DEF Init, Uncounted, BytesOfTheAttempt
    <3>3. Items = 0
      BY <3>2 DEF Uncounted, Items
    <3>4. AccountedExactlyOnce
      BY <3>1, <3>2, <3>3 DEF AccountedExactlyOnce, Uncounted, BytesOfTheAttempt
    <3> QED
      BY <3>2, <3>4 DEF Accounts, UnderWay, CleaningUp, Ended
  <2> QED
    BY <2>1, TypesInit, ContractStarts
<1>2. Typed /\ Stages /\ Accounts /\ [Next]_vars => Typed' /\ Stages' /\ Accounts'
  BY TypesStep, StagesStep, AccountsStep
<1>3. Accounts => AccountedExactlyOnce
  BY DEF Accounts
<1> QED
  BY <1>1, <1>2, <1>3, PTL DEF Spec

-----------------------------------------------------------------------------
(* Cancellation.                                                           *)

(* An answer is remembered only if it may be repeated unattended.           *)
LEMMA RememberingStep ==
  ASSUME Typed, OnlyRememberable,
         \/ UNCHANGED remembered
         \/ \E kind \in IssueKind, scopeAllowed \in BOOLEAN, action \in DecisionAction :
              resolveDecision(kind, scopeAllowed, action)
  PROVE  OnlyRememberable'
<1>1. CASE UNCHANGED remembered
  BY <1>1 DEF OnlyRememberable
<1>2. ASSUME NEW kind \in IssueKind, NEW action \in DecisionAction,
             isActionRememberable(kind, action), remembered' = [remembered EXCEPT ![kind] = action]
      PROVE  OnlyRememberable'
  BY <1>2 DEF OnlyRememberable, Typed, PolicyTyped, Policy
<1> QED
  BY <1>1, <1>2 DEF resolveDecision

(* A cancelled worker's questions are answered by Cancel or by a remembered *)
(* answer: by no Retry and no Rename, and by no Replace but of a file.      *)
LEMMA AnswersAfterCancel ==
  ASSUME OnlyRememberable, cancelRequested, NEW kind \in IssueKind, NEW scopeAllowed \in BOOLEAN,
         NEW action \in DecisionAction, resolveDecision(kind, scopeAllowed, action)
  PROVE  action \notin {"Retry", "Rename"}
BY DEF OnlyRememberable, resolveDecision, AnswersTo, isActionRememberable, NoAction, DecisionAction

(* A step that begins no unit leaves a late one behind a checkpoint.        *)
LEMMA NoUnitBegins ==
  ASSUME LateOnce, UNCHANGED <<lateUnits, cancelRequested>>,
         cancelRequested /\ BehindACheckpoint => BehindACheckpoint'
  PROVE  LateOnce'
BY DEF LateOnce

(* A unit that begins late is the first one, and ends at a checkpoint.      *)
LEMMA AUnitBegins ==
  ASSUME LateOnce, BeginUnit, UNCHANGED cancelRequested, cancelRequested \in BOOLEAN,
         ~BehindACheckpoint, BehindACheckpoint'
  PROVE  LateOnce'
BY DEF LateOnce, BeginUnit

(* Every step keeps late units to one.                                      *)
LEMMA LatenessStep ==
  Typed /\ Stages /\ OnlyRememberable /\ LateOnce /\ [Next]_vars => OnlyRememberable' /\ LateOnce'
<1> SUFFICES ASSUME Typed, Stages, OnlyRememberable, LateOnce, [Next]_vars
             PROVE  OnlyRememberable' /\ LateOnce'
  OBVIOUS
<1> USE DEF fileVars, stagingVars, planVars, accountVars, ghostVars, outerVars, controlVars,
            Goto, Return, CheckpointThen
<1>b. cancelRequested \in BOOLEAN
  BY DEF Typed, OuterTyped
<1>k. {"ActionFailed", "UnsupportedEntry", "ReadOnlySourceRemoval", "FileReplacement", "TypeMismatch"}
        \subseteq IssueKind
  BY DEF IssueKind
<1>a. {"Skip", "Replace", "MakeWritable", "Rename", "Retry", "Cancel"} \subseteq DecisionAction
  BY DEF DecisionAction
<1>1. CASE enter
  <2>1. UNCHANGED <<lateUnits, cancelRequested, setting>>
    BY <1>1 DEF enter
  <2>2. OnlyRememberable'
    BY <1>1, RememberingStep DEF enter
  <2>3. cancelRequested /\ BehindACheckpoint => BehindACheckpoint'
    BY <1>1 DEF enter, AfterEntry, BehindACheckpoint, Owned, Move,
       Arriving, Renaming, Resolving, Preparing, UnderWay, CleaningUp, Ended
  <2> QED
    BY <2>1, <2>2, <2>3, NoUnitBegins
<1>2. CASE unsupported
  <2>1. UNCHANGED <<lateUnits, cancelRequested, setting>>
    BY <1>2 DEF unsupported
  <2>2. OnlyRememberable'
    BY <1>2, <1>k, <1>a, RememberingStep DEF unsupported
  <2>3. cancelRequested /\ BehindACheckpoint => BehindACheckpoint'
    BY <1>2 DEF unsupported, BehindACheckpoint, Owned, Move,
       Arriving, Renaming, Resolving, Preparing, UnderWay, CleaningUp, Ended
  <2> QED
    BY <2>1, <2>2, <2>3, NoUnitBegins
<1>3. CASE moveFile
  <2>1. UNCHANGED <<lateUnits, cancelRequested, setting>>
    BY <1>3 DEF moveFile
  <2>2. OnlyRememberable'
    BY <1>3, RememberingStep DEF moveFile
  <2>3. cancelRequested /\ BehindACheckpoint => BehindACheckpoint'
    BY <1>3 DEF moveFile, BehindACheckpoint, Owned, Move,
       Arriving, Renaming, Resolving, Preparing, UnderWay, CleaningUp, Ended
  <2> QED
    BY <2>1, <2>2, <2>3, NoUnitBegins
<1>4. CASE recheckDestination
  <2>1. UNCHANGED <<lateUnits, cancelRequested, setting>>
    BY <1>4 DEF recheckDestination
  <2>2. OnlyRememberable'
    BY <1>4, RememberingStep DEF recheckDestination
  <2>3. cancelRequested /\ BehindACheckpoint => BehindACheckpoint'
    BY <1>4 DEF recheckDestination, BehindACheckpoint, Owned, Move,
       Arriving, Renaming, Resolving, Preparing, UnderWay, CleaningUp, Ended
  <2> QED
    BY <2>1, <2>2, <2>3, NoUnitBegins
<1>5. CASE renameSource
  <2>1. ~BehindACheckpoint /\ BehindACheckpoint'
    BY <1>5 DEF renameSource, BehindACheckpoint, Owned, Move,
       Arriving, Renaming, Resolving, Preparing, UnderWay, CleaningUp, Ended
  <2> QED
    BY <1>5, <1>b, <2>1, AUnitBegins, RememberingStep DEF renameSource
<1>6. CASE askRenameFailed
  <2>1. UNCHANGED <<lateUnits, cancelRequested, setting>>
    BY <1>6 DEF askRenameFailed, AskActionFailed
  <2>2. OnlyRememberable'
    BY <1>6, <1>k, <1>a, RememberingStep DEF askRenameFailed, AskActionFailed
  <2>3. cancelRequested /\ BehindACheckpoint => BehindACheckpoint'
    BY <1>6, <1>k, <1>a, AnswersAfterCancel DEF askRenameFailed, AskActionFailed,
       BehindACheckpoint, Owned, Move,
       Arriving, Renaming, Resolving, Preparing, UnderWay, CleaningUp, Ended
  <2> QED
    BY <2>1, <2>2, <2>3, NoUnitBegins
<1>7. ASSUME NEW error \in {"CrossDevice", "AlreadyExists", "Other"}, renameFails(error)
      PROVE  OnlyRememberable' /\ LateOnce'
  <2>1. ~BehindACheckpoint /\ BehindACheckpoint'
    BY <1>7 DEF renameFails, AfterEntry, AfterRename, Stages, BehindACheckpoint, Owned, Move,
       Arriving, Renaming, Resolving, Preparing, UnderWay, CleaningUp, Ended
  <2> QED
    BY <1>7, <1>b, <2>1, AUnitBegins, RememberingStep DEF renameFails
<1>8. CASE inspectDestination
  <2>1. UNCHANGED <<lateUnits, cancelRequested, setting>>
    BY <1>8 DEF inspectDestination
  <2>2. OnlyRememberable'
    BY <1>8, RememberingStep DEF inspectDestination
  <2>3. cancelRequested /\ BehindACheckpoint => BehindACheckpoint'
    BY <1>8 DEF inspectDestination, UseAbsentDestination, AfterResolution, AfterRename,
       BehindACheckpoint, Owned, Move,
       Arriving, Renaming, Resolving, Preparing, UnderWay, CleaningUp, Ended
  <2> QED
    BY <2>1, <2>2, <2>3, NoUnitBegins
<1>9. CASE inspectionFails
  <2>1. UNCHANGED <<lateUnits, cancelRequested, setting>>
    BY <1>9 DEF inspectionFails
  <2>2. OnlyRememberable'
    BY <1>9, RememberingStep DEF inspectionFails
  <2>3. cancelRequested /\ BehindACheckpoint => BehindACheckpoint'
    BY <1>9 DEF inspectionFails, BehindACheckpoint, Owned, Move,
       Arriving, Renaming, Resolving, Preparing, UnderWay, CleaningUp, Ended
  <2> QED
    BY <2>1, <2>2, <2>3, NoUnitBegins
<1>10. CASE askInspectionFailed
  <2>1. UNCHANGED <<lateUnits, cancelRequested, setting>>
    BY <1>10 DEF askInspectionFailed, AskActionFailed
  <2>2. OnlyRememberable'
    BY <1>10, <1>k, <1>a, RememberingStep DEF askInspectionFailed, AskActionFailed
  <2>3. cancelRequested /\ BehindACheckpoint => BehindACheckpoint'
    BY <1>10, <1>k, <1>a, AnswersAfterCancel DEF askInspectionFailed, AskActionFailed,
       BehindACheckpoint, Owned, Move,
       Arriving, Renaming, Resolving, Preparing, UnderWay, CleaningUp, Ended
  <2> QED
    BY <2>1, <2>2, <2>3, NoUnitBegins
<1>11. ASSUME NEW kind \in {"FileReplacement", "TypeMismatch"}, promptForCollision(kind)
       PROVE  OnlyRememberable' /\ LateOnce'
  <2>1. UNCHANGED <<lateUnits, cancelRequested, setting>>
    BY <1>11 DEF promptForCollision
  <2>2. OnlyRememberable'
    BY <1>11, <1>k, <1>a, RememberingStep DEF promptForCollision
  <2>3. cancelRequested /\ BehindACheckpoint => BehindACheckpoint'
    BY <1>11, <1>k, <1>a, AnswersAfterCancel DEF promptForCollision, AfterResolution, AfterRename,
       BehindACheckpoint, Owned, Move,
       Arriving, Renaming, Resolving, Preparing, UnderWay, CleaningUp, Ended
  <2> QED
    BY <2>1, <2>2, <2>3, NoUnitBegins
<1>12. CASE preflight
  <2>1. UNCHANGED <<lateUnits, cancelRequested, setting>>
    BY <1>12 DEF preflight
  <2>2. OnlyRememberable'
    BY <1>12, RememberingStep DEF preflight
  <2>3. cancelRequested /\ BehindACheckpoint => BehindACheckpoint'
    BY <1>12 DEF preflight, BehindACheckpoint, Owned, Move,
       Arriving, Renaming, Resolving, Preparing, UnderWay, CleaningUp, Ended
  <2> QED
    BY <2>1, <2>2, <2>3, NoUnitBegins
<1>13. CASE askReadOnlyFirst
  <2>1. UNCHANGED <<lateUnits, cancelRequested, setting>>
    BY <1>13 DEF askReadOnlyFirst
  <2>2. OnlyRememberable'
    BY <1>13, <1>k, <1>a, RememberingStep DEF askReadOnlyFirst
  <2>3. cancelRequested /\ BehindACheckpoint => BehindACheckpoint'
    BY <1>13 DEF askReadOnlyFirst, BehindACheckpoint, Owned, Move,
       Arriving, Renaming, Resolving, Preparing, UnderWay, CleaningUp, Ended
  <2> QED
    BY <2>1, <2>2, <2>3, NoUnitBegins
<1>14. CASE attempt
  <2>1. UNCHANGED <<lateUnits, cancelRequested, setting>>
    BY <1>14 DEF attempt
  <2>2. OnlyRememberable'
    BY <1>14, RememberingStep DEF attempt
  <2>3. cancelRequested /\ BehindACheckpoint => BehindACheckpoint'
    BY <1>14 DEF attempt, BehindACheckpoint, Owned, Move,
       Arriving, Renaming, Resolving, Preparing, UnderWay, CleaningUp, Ended
  <2> QED
    BY <2>1, <2>2, <2>3, NoUnitBegins
<1>15. CASE begin
  <2>1. ~BehindACheckpoint /\ BehindACheckpoint'
    BY <1>15 DEF begin, BehindACheckpoint, Owned, Move,
       Arriving, Renaming, Resolving, Preparing, UnderWay, CleaningUp, Ended
  <2> QED
    BY <1>15, <1>b, <2>1, AUnitBegins, RememberingStep DEF begin
<1>16. CASE beginFails
  <2>1. ~BehindACheckpoint /\ BehindACheckpoint'
    BY <1>16 DEF beginFails, BehindACheckpoint, Owned, Move,
       Arriving, Renaming, Resolving, Preparing, UnderWay, CleaningUp, Ended
  <2> QED
    BY <1>16, <1>b, <2>1, AUnitBegins, RememberingStep DEF beginFails
<1>17. CASE checkChunk
  <2>1. UNCHANGED <<lateUnits, cancelRequested, setting>>
    BY <1>17 DEF checkChunk
  <2>2. OnlyRememberable'
    BY <1>17, RememberingStep DEF checkChunk
  <2>3. cancelRequested /\ BehindACheckpoint => BehindACheckpoint'
    BY <1>17 DEF checkChunk, CheckpointOrAbort, BehindACheckpoint, Owned, Move,
       Arriving, Renaming, Resolving, Preparing, UnderWay, CleaningUp, Ended
  <2> QED
    BY <2>1, <2>2, <2>3, NoUnitBegins
<1>18. CASE writeNext
  <2>1. ~BehindACheckpoint /\ BehindACheckpoint'
    BY <1>18 DEF writeNext, BehindACheckpoint, Owned, Move,
       Arriving, Renaming, Resolving, Preparing, UnderWay, CleaningUp, Ended
  <2> QED
    BY <1>18, <1>b, <2>1, AUnitBegins, RememberingStep DEF writeNext
<1>19. CASE checkCommit
  <2>1. UNCHANGED <<lateUnits, cancelRequested, setting>>
    BY <1>19 DEF checkCommit
  <2>2. OnlyRememberable'
    BY <1>19, RememberingStep DEF checkCommit
  <2>3. cancelRequested /\ BehindACheckpoint => BehindACheckpoint'
    BY <1>19 DEF checkCommit, CheckpointOrAbort, BehindACheckpoint, Owned, Move,
       Arriving, Renaming, Resolving, Preparing, UnderWay, CleaningUp, Ended
  <2> QED
    BY <2>1, <2>2, <2>3, NoUnitBegins
<1>20. CASE commit
  <2>1. ~BehindACheckpoint /\ BehindACheckpoint'
    BY <1>20 DEF commit, BehindACheckpoint, Owned, Move,
       Arriving, Renaming, Resolving, Preparing, UnderWay, CleaningUp, Ended
  <2> QED
    BY <1>20, <1>b, <2>1, AUnitBegins, RememberingStep DEF commit
<1>21. CASE transferFails
  <2>1. BehindACheckpoint' /\ UNCHANGED cancelRequested
    BY <1>21 DEF transferFails, BehindACheckpoint, Preparing
  <2>2. CASE pc = "publish"
    BY <1>21, <2>1, <2>2, NoUnitBegins, RememberingStep DEF transferFails
  <2>3. CASE pc # "publish"
    <3>1. ~BehindACheckpoint
      BY <1>21, <2>3 DEF transferFails, BehindACheckpoint, Preparing, Resolving, CleaningUp, Ended
    <3> QED
      BY <1>21, <1>b, <2>1, <2>3, <3>1, AUnitBegins, RememberingStep DEF transferFails
  <2> QED
    BY <2>2, <2>3
<1>22. CASE publish
  <2>1. UNCHANGED <<lateUnits, cancelRequested, setting>>
    BY <1>22 DEF publish
  <2>2. OnlyRememberable'
    BY <1>22, RememberingStep DEF publish
  <2>3. cancelRequested /\ BehindACheckpoint => BehindACheckpoint'
    BY <1>22 DEF publish, BehindACheckpoint, Owned, Move,
       Arriving, Renaming, Resolving, Preparing, UnderWay, CleaningUp, Ended
  <2> QED
    BY <2>1, <2>2, <2>3, NoUnitBegins
<1>23. CASE publishCollides
  <2>1. UNCHANGED <<lateUnits, cancelRequested, setting>>
    BY <1>23 DEF publishCollides
  <2>2. OnlyRememberable'
    BY <1>23, RememberingStep DEF publishCollides
  <2>3. cancelRequested /\ BehindACheckpoint => BehindACheckpoint'
    BY <1>23 DEF publishCollides, BehindACheckpoint, Owned, Move,
       Arriving, Renaming, Resolving, Preparing, UnderWay, CleaningUp, Ended
  <2> QED
    BY <2>1, <2>2, <2>3, NoUnitBegins
<1>24. CASE askTransferFailed
  <2>1. UNCHANGED <<lateUnits, cancelRequested, setting>>
    BY <1>24 DEF askTransferFailed, AskActionFailed
  <2>2. OnlyRememberable'
    BY <1>24, <1>k, <1>a, RememberingStep DEF askTransferFailed, AskActionFailed
  <2>3. cancelRequested /\ BehindACheckpoint => BehindACheckpoint'
    BY <1>24, <1>k, <1>a, AnswersAfterCancel DEF askTransferFailed, AskActionFailed,
       BehindACheckpoint, Owned, Move,
       Arriving, Renaming, Resolving, Preparing, UnderWay, CleaningUp, Ended
  <2> QED
    BY <2>1, <2>2, <2>3, NoUnitBegins
<1>25. CASE makeWritable
  <2>1. UNCHANGED <<lateUnits, cancelRequested, setting>>
    BY <1>25 DEF makeWritable
  <2>2. OnlyRememberable'
    BY <1>25, RememberingStep DEF makeWritable
  <2>3. cancelRequested /\ BehindACheckpoint => BehindACheckpoint'
    BY <1>25 DEF makeWritable, BehindACheckpoint, Owned, Move,
       Arriving, Renaming, Resolving, Preparing, UnderWay, CleaningUp, Ended
  <2> QED
    BY <2>1, <2>2, <2>3, NoUnitBegins
<1>26. CASE removeSource
  <2>1. UNCHANGED <<lateUnits, cancelRequested, setting>>
    BY <1>26 DEF removeSource
  <2>2. OnlyRememberable'
    BY <1>26, RememberingStep DEF removeSource
  <2>3. cancelRequested /\ BehindACheckpoint => BehindACheckpoint'
    BY <1>26 DEF removeSource, BehindACheckpoint, Owned, Move,
       Arriving, Renaming, Resolving, Preparing, UnderWay, CleaningUp, Ended
  <2> QED
    BY <2>1, <2>2, <2>3, NoUnitBegins
<1>27. CASE removalFails
  <2>1. UNCHANGED <<lateUnits, cancelRequested, setting>>
    BY <1>27 DEF removalFails
  <2>2. OnlyRememberable'
    BY <1>27, RememberingStep DEF removalFails
  <2>3. cancelRequested /\ BehindACheckpoint => BehindACheckpoint'
    BY <1>27 DEF removalFails, BehindACheckpoint, Owned, Move,
       Arriving, Renaming, Resolving, Preparing, UnderWay, CleaningUp, Ended
  <2> QED
    BY <2>1, <2>2, <2>3, NoUnitBegins
<1>28. CASE askCleanupFailed
  <2>1. UNCHANGED <<lateUnits, cancelRequested, setting>>
    BY <1>28 DEF askCleanupFailed, AskCleanup
  <2>2. OnlyRememberable'
    BY <1>28, <1>k, <1>a, RememberingStep DEF askCleanupFailed, AskCleanup
  <2>3. cancelRequested /\ BehindACheckpoint => BehindACheckpoint'
    BY <1>28 DEF askCleanupFailed, AskCleanup, BehindACheckpoint, Owned, Move,
       Arriving, Renaming, Resolving, Preparing, UnderWay, CleaningUp, Ended
  <2> QED
    BY <2>1, <2>2, <2>3, NoUnitBegins
<1>29. CASE returnToCaller
  <2>1. UNCHANGED <<lateUnits, cancelRequested, setting>>
    BY <1>29 DEF returnToCaller
  <2>2. OnlyRememberable'
    BY <1>29, RememberingStep DEF returnToCaller
  <2>3. cancelRequested /\ BehindACheckpoint => BehindACheckpoint'
    BY <1>29 DEF returnToCaller, BehindACheckpoint, Owned, Move,
       Arriving, Renaming, Resolving, Preparing, UnderWay, CleaningUp, Ended
  <2> QED
    BY <2>1, <2>2, <2>3, NoUnitBegins
<1>30. CASE cancel
  <2>1. LateOnce'
    BY <1>30 DEF cancel, LateOnce
  <2> QED
    BY <1>30, <2>1, RememberingStep DEF cancel
<1>31. CASE meddle
  <2>1. UNCHANGED <<lateUnits, cancelRequested, setting>>
    BY <1>31 DEF meddle
  <2>2. OnlyRememberable'
    BY <1>31, RememberingStep DEF meddle
  <2>3. cancelRequested /\ BehindACheckpoint => BehindACheckpoint'
    BY <1>31 DEF meddle, BehindACheckpoint, Owned, Move,
       Arriving, Renaming, Resolving, Preparing, UnderWay, CleaningUp, Ended
  <2> QED
    BY <2>1, <2>2, <2>3, NoUnitBegins
<1>32. CASE Done \/ UNCHANGED vars
  BY <1>32, RememberingStep DEF Done, vars, LateOnce, BehindACheckpoint, Owned, Move
<1> QED
  BY <1>1, <1>2, <1>3, <1>4, <1>5, <1>6, <1>7, <1>8, <1>9, <1>10, <1>11, <1>12, <1>13, <1>14,
     <1>15, <1>16, <1>17, <1>18, <1>19, <1>20, <1>21, <1>22, <1>23, <1>24, <1>25, <1>26, <1>27,
     <1>28, <1>29, <1>30, <1>31, <1>32
  DEF Next, Transfer

(* After a cancellation at most one more unit of work begins, the one whose *)
(* checkpoint had been passed: no remembered answer keeps the worker going. *)
THEOREM CancellationStops == Spec => []CancellationStopsTransfer
<1>1. Init => Typed /\ Stages /\ OnlyRememberable /\ LateOnce
  <2>1. Init => OnlyRememberable /\ LateOnce
    BY PoliciesAssumption DEF Init, OnlyRememberable, LateOnce
  <2> QED
    BY <2>1, TypesInit, ContractStarts
<1>2. Typed /\ Stages /\ OnlyRememberable /\ LateOnce /\ [Next]_vars
        => Typed' /\ Stages' /\ OnlyRememberable' /\ LateOnce'
  BY TypesStep, StagesStep, LatenessStep
<1>3. LateOnce => CancellationStopsTransfer
  BY DEF LateOnce, CancellationStopsTransfer
<1> QED
  BY <1>1, <1>2, <1>3, PTL DEF Spec

(* A step of a cancelled worker brings it nearer to its end.                *)
Nearer == StepsLeft' + RecheckLeft' < StepsLeft + RecheckLeft

LEMMA CancelledStep ==
  ASSUME Typed, Stages, OnlyRememberable, cancelRequested, [Next]_vars
  PROVE  \/ Nearer
         \/ meddle /\ UNCHANGED <<StepsLeft, RecheckLeft>>
         \/ UNCHANGED vars
<1> USE DEF fileVars, stagingVars, planVars, accountVars, ghostVars, outerVars, controlVars,
            Goto, Return, CheckpointThen, Nearer
<1>k. {"ActionFailed", "UnsupportedEntry", "ReadOnlySourceRemoval", "FileReplacement", "TypeMismatch"}
        \subseteq IssueKind
  BY DEF IssueKind
<1>a. {"Skip", "Replace", "MakeWritable", "Rename", "Retry", "Cancel"} \subseteq DecisionAction
  BY DEF DecisionAction
<1>1. CASE enter
  BY <1>1 DEF enter, AfterEntry, StepsLeft, RecheckLeft
<1>2. CASE unsupported
  <2>1. pc = "unsupported" /\ pc' = "returning"
    BY <1>2, <1>k, <1>a, AnswersAfterCancel DEF unsupported
  <2> QED
    BY <2>1 DEF StepsLeft, RecheckLeft
<1>3. CASE moveFile
  BY <1>3 DEF moveFile, StepsLeft, RecheckLeft
<1>4. CASE recheckDestination
  BY <1>4 DEF recheckDestination, NeedsRecheck, StepsLeft, RecheckLeft
<1>5. CASE renameSource
  BY <1>5 DEF renameSource, StepsLeft, RecheckLeft
<1>6. CASE askRenameFailed
  <2>1. pc \in {"renameFirstFailed", "renameResolvedFailed"} /\ pc' = "returning"
    BY <1>6, <1>k, <1>a, AnswersAfterCancel DEF askRenameFailed, AskActionFailed
  <2> QED
    BY <2>1 DEF StepsLeft, RecheckLeft
<1>7. ASSUME NEW error \in {"CrossDevice", "AlreadyExists", "Other"}, renameFails(error)
      PROVE  Nearer
  BY <1>7 DEF renameFails, AfterEntry, AfterRename, Stages, Renaming, Owned, Move,
     StepsLeft, RecheckLeft
<1>8. CASE inspectDestination
  BY <1>8 DEF inspectDestination, UseAbsentDestination, AfterResolution, AfterRename, StepsLeft,
     RecheckLeft
<1>9. CASE inspectionFails
  BY <1>9 DEF inspectionFails, StepsLeft, RecheckLeft
<1>10. CASE askInspectionFailed
  <2>1. pc = "inspectionFailed" /\ pc' = "returning"
    BY <1>10, <1>k, <1>a, AnswersAfterCancel DEF askInspectionFailed, AskActionFailed
  <2> QED
    BY <2>1 DEF StepsLeft, RecheckLeft
<1>11. ASSUME NEW kind \in {"FileReplacement", "TypeMismatch"}, promptForCollision(kind)
       PROVE  Nearer
  <2>1. pc \in {"askTypeMismatch", "askReplacement"} /\ pc' \in {"attempt", "preflight", "renameResolved", "returning"}
    BY <1>11, <1>k, <1>a, AnswersAfterCancel DEF promptForCollision, AfterResolution, AfterRename
  <2> QED
    BY <2>1 DEF StepsLeft, RecheckLeft
<1>12. CASE preflight
  BY <1>12 DEF preflight, StepsLeft, RecheckLeft
<1>13. CASE askReadOnlyFirst
  <2>1. pc = "askReadOnlyFirst" /\ pc' \in {"attempt", "returning"}
    BY <1>13, <1>k, <1>a, AnswersAfterCancel DEF askReadOnlyFirst
  <2> QED
    BY <2>1 DEF StepsLeft, RecheckLeft
<1>14. CASE attempt
  BY <1>14 DEF attempt, StepsLeft, RecheckLeft
<1>15. CASE begin
  BY <1>15 DEF begin, StepsLeft, RecheckLeft
<1>16. CASE beginFails
  BY <1>16 DEF beginFails, StepsLeft, RecheckLeft
<1>17. CASE checkChunk
  BY <1>17 DEF checkChunk, CheckpointOrAbort, StepsLeft, RecheckLeft
<1>18. CASE writeNext
  BY <1>18 DEF writeNext, StepsLeft, RecheckLeft
<1>19. CASE checkCommit
  BY <1>19 DEF checkCommit, CheckpointOrAbort, StepsLeft, RecheckLeft
<1>20. CASE commit
  BY <1>20 DEF commit, StepsLeft, RecheckLeft
<1>21. CASE transferFails
  BY <1>21 DEF transferFails, StepsLeft, RecheckLeft
<1>22. CASE publish
  BY <1>22 DEF publish, StepsLeft, RecheckLeft
<1>23. CASE publishCollides
  BY <1>23 DEF publishCollides, StepsLeft, RecheckLeft
<1>24. CASE askTransferFailed
  <2>1. pc = "transferFailed" /\ pc' = "returning"
    BY <1>24, <1>k, <1>a, AnswersAfterCancel DEF askTransferFailed, AskActionFailed
  <2> QED
    BY <2>1 DEF StepsLeft, RecheckLeft
<1>25. CASE makeWritable
  BY <1>25 DEF makeWritable, StepsLeft, RecheckLeft
<1>26. CASE removeSource
  BY <1>26 DEF removeSource, StepsLeft, RecheckLeft
<1>27. CASE removalFails
  BY <1>27 DEF removalFails, StepsLeft, RecheckLeft
<1>28. CASE askCleanupFailed
  <2>1. pc \in {"askReadOnly", "makeWritableFailed", "removalFailed"} /\ pc' = "returning"
    BY <1>28 DEF askCleanupFailed, AskCleanup, resolveDecision, AnswersTo
  <2> QED
    BY <2>1 DEF StepsLeft, RecheckLeft
<1>29. CASE returnToCaller
  BY <1>29 DEF returnToCaller, StepsLeft, RecheckLeft
<1>30. ~cancel
  BY DEF cancel
<1>31. ASSUME meddle PROVE UNCHANGED <<StepsLeft, RecheckLeft>>
  BY <1>31 DEF meddle, StepsLeft, RecheckLeft
<1>32. Done => UNCHANGED vars
  BY DEF Done
<1> QED
  BY <1>1, <1>2, <1>3, <1>4, <1>5, <1>6, <1>7, <1>8, <1>9, <1>10, <1>11, <1>12, <1>13, <1>14,
     <1>15, <1>16, <1>17, <1>18, <1>19, <1>20, <1>21, <1>22, <1>23, <1>24, <1>25, <1>26, <1>27, <1>28, <1>29, <1>30, <1>31, <1>32
  DEF Next, Transfer

(* After a cancellation every step of the transfer leads towards its return, *)
(* eleven steps away at most; no retry, no failure and no remembered answer  *)
(* takes it back.                                                            *)
THEOREM CancelledTransferEnds == Spec => CancelledTransferNearsItsEnd
<1>1. Init => Typed /\ Stages /\ OnlyRememberable /\ LateOnce
  <2>1. Init => OnlyRememberable /\ LateOnce
    BY PoliciesAssumption DEF Init, OnlyRememberable, LateOnce
  <2> QED
    BY <2>1, TypesInit, ContractStarts
<1>2. Typed /\ Stages /\ OnlyRememberable /\ LateOnce /\ [Next]_vars
        => Typed' /\ Stages' /\ OnlyRememberable' /\ LateOnce'
  BY TypesStep, StagesStep, LatenessStep
<1>3. Typed /\ Stages /\ OnlyRememberable /\ [Next]_vars
        => [cancelRequested =>
              \/ StepsLeft' + RecheckLeft' < StepsLeft + RecheckLeft
              \/ meddle /\ UNCHANGED <<StepsLeft, RecheckLeft>>]_vars
  BY CancelledStep DEF Nearer, vars, StepsLeft, RecheckLeft
<1> QED
  BY <1>1, <1>2, <1>3, PTL DEF Spec, CancelledTransferNearsItsEnd
=============================================================================
