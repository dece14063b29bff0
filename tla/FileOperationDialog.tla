------------------------- MODULE FileOperationDialog -------------------------
(***************************************************************************)
(* The one real client of a file operation: CFileOperationDialog, which    *)
(* owns the job, drains its events on a 100 ms timer and answers its       *)
(* decision requests with modal prompts.                                   *)
(*                                                                         *)
(* Everything here runs on the UI thread, yet not one call at a time: a    *)
(* modal prompt or confirmation spins a nested event loop, in which timers *)
(* fire and windows are closed while outer calls have not returned.  The   *)
(* call stack is therefore part of the state, and the event loop runs when *)
(* it is empty or topped by a modal.                                       *)
(*                                                                         *)
(* The dialog disposes of itself (production; the caller-owned mode of the *)
(* tests is left out).  Widgets matter only as far as they decide what the *)
(* user can do.                                                            *)
(***************************************************************************)
EXTENDS FileOperationJob, Sequences

CONSTANT MaxDepth   (* bound: frames on the UI thread's call stack, a drain  *)
                    (* and its prompt at least                               *)

ASSUME MaxDepthAssumption == MaxDepth \in Nat /\ MaxDepth >= 2

VARIABLES
  stack,           (* drainEvents, prompt and confirmation calls under way   *)
  _draining, _paused, _isInBackgroundMode, _dismissedWhileRunning, _result,
  visible,         (* the window is on screen                                *)
  firstShowDue,    (* the single-shot timer of start() has not fired         *)
  recycleDue,      (* the call queued by switchToBackground has not run      *)
  disposed,        (* deleteLater was called                                 *)
  userPaused,      (* what the user last chose with the Pause button         *)
  acknowledged     (* the user closed the window that showed the outcome     *)

flagVars == <<_paused, userPaused>>
windowVars == <<visible, firstShowDue, recycleDue, _isInBackgroundMode>>
endVars == <<_dismissedWhileRunning, _result, disposed, acknowledged>>
dialogVars == <<stack, _draining, flagVars, windowVars, endVars>>
allVars == <<vars, dialogVars>>

NoResult == [status |-> "none"]
Result == [status: CompletionStatus, diagnostics: BOOLEAN]

outcomeNeedsAttention(summary) == summary.status = "Failed" \/ summary.diagnostics

DrainFrame == [call |-> "drainEvents"]
PromptFrame(request) == [call |-> "presentDecision", request |-> request]
ConfirmFrame(closing) == [call |-> "confirmCancellation", closing |-> closing,
                          wasPaused |-> _paused, wasDraining |-> _draining]

Top == stack[Len(stack)]
Running(call) == stack # <<>> /\ Top.call = call
Push(frame) == stack' = Append(stack, frame)
Pop == stack' = SubSeq(stack, 1, Len(stack) - 1)

(* Timers fire in any event loop, nested or not.  A queued call runs before  *)
(* the next user input, in no set order with the timers.                    *)
EventLoop == UiReady /\ ~Running("drainEvents")
UserInput == EventLoop /\ ~recycleDue
Controls == UserInput /\ stack = <<>> /\ visible

DialogInit ==
  /\ Init
  /\ stack = <<>> /\ _draining = FALSE
  /\ _paused = FALSE /\ userPaused = FALSE
  /\ visible = FALSE /\ firstShowDue = FALSE /\ recycleDue = FALSE
  /\ _isInBackgroundMode = FALSE /\ _dismissedWhileRunning = FALSE
  /\ _result = NoResult /\ disposed = FALSE /\ acknowledged = FALSE

-----------------------------------------------------------------------------
(* Start and the delayed first show.                                       *)

startDialog ==
  /\ start
  /\ firstShowDue' = TRUE
  /\ UNCHANGED <<stack, _draining, flagVars, visible, recycleDue, _isInBackgroundMode, endVars>>

firstShow ==
  /\ EventLoop /\ firstShowDue
  /\ firstShowDue' = FALSE
  /\ visible' = (visible \/ _result = NoResult)
  /\ UNCHANGED <<vars, stack, _draining, flagVars, recycleDue, _isInBackgroundMode, endVars>>

-----------------------------------------------------------------------------
(* Mutant: a tick in a nested loop drains again.                            *)
drainEvents_Reentered ==
  /\ EventLoop /\ started /\ _result = NoResult
  /\ drain
  /\ Push(DrainFrame)
  /\ _draining' = TRUE
  /\ UNCHANGED <<flagVars, windowVars, endVars>>

(* The event timer, which runs from start() to the completion.  A tick that *)
(* finds nothing, or a drain under way, changes nothing.                    *)

drainEvents ==
  /\ EventLoop /\ started /\ _result = NoResult
  /\ ~_draining
  /\ drain
  /\ Push(DrainFrame)
  /\ _draining' = TRUE
  /\ UNCHANGED <<flagVars, windowVars, endVars>>

drainReturns ==
  /\ Running("drainEvents") /\ batch = {} /\ ~notifyDue
  /\ Pop
  /\ _draining' = FALSE
  /\ UNCHANGED <<vars, flagVars, windowVars, endVars>>

renderProgress(event) ==
  /\ Running("drainEvents") /\ event.type = "progress"
  /\ dispatch(event)
  /\ UNCHANGED dialogVars

Present(request) ==
  /\ visible' = TRUE
  /\ Push(PromptFrame(request))

handleDecisionRequest(event) ==
  /\ Running("drainEvents") /\ event.type = "decision" /\ MutexFree
  /\ dispatch(event)
  /\ \/ /\ ~hasPendingDecision
        /\ UNCHANGED <<stack, visible>>
     \/ /\ hasPendingDecision
        /\ Present(event)
  /\ UNCHANGED <<_draining, flagVars, firstShowDue, recycleDue, _isInBackgroundMode, endVars>>

(* Mutant: the outcome comes back to a user who left.                       *)
LeavesNoWindow_IgnoringTheDismissal(summary) == ~outcomeNeedsAttention(summary)

(* Mutant: only a failed operation is reported, not one with diagnostics.   *)
LeavesNoWindow_UnlessFailed(summary) == _dismissedWhileRunning \/ summary.status # "Failed"

LeavesNoWindow(summary) == _dismissedWhileRunning \/ ~outcomeNeedsAttention(summary)

handleCompletion(event, diagnostics) ==
  LET summary == [status |-> event.status, diagnostics |-> diagnostics]
      leaveNoWindow == LeavesNoWindow(summary)
  IN
  /\ Running("drainEvents") /\ event.type = "summary"
  /\ dispatch(event)
  /\ _result' = summary
  /\ disposed' = (disposed \/ leaveNoWindow)
  /\ _isInBackgroundMode' = (_isInBackgroundMode /\ leaveNoWindow)
  /\ visible' = (visible \/ ~leaveNoWindow)
  /\ UNCHANGED <<stack, _draining, flagVars, firstShowDue, recycleDue,
                 _dismissedWhileRunning, acknowledged>>

-----------------------------------------------------------------------------
(* The prompt.  It offers what the request allows; closing it by any other  *)
(* path is one of those actions.  The answer of a request that was closed   *)
(* meanwhile is rejected.                                                   *)

answerPrompt(action, scope) ==
  /\ UserInput /\ Running("presentDecision")
  /\ IsAnswerTo(action, scope, Top.request)
  /\ Pop
  /\ IF hasPendingDecision THEN submitDecision(Top.request, action, scope) ELSE UNCHANGED vars
  /\ UNCHANGED <<_draining, flagVars, windowVars, endVars>>

-----------------------------------------------------------------------------
(* Pause, and cancellation with its confirmation.  The operation is paused  *)
(* while the user is asked, and the drain is suppressed.                    *)

DialogSetPaused(paused) ==
  /\ _paused' = paused
  /\ IF paused = _paused THEN UNCHANGED vars ELSE setPaused(paused)

togglePause ==
  /\ Controls /\ started /\ _result = NoResult /\ ~cancelRequested
  /\ DialogSetPaused(~_paused)
  /\ userPaused' = ~_paused
  /\ UNCHANGED <<stack, _draining, windowVars, endVars>>

(* Mutant: the drain goes on under the confirmation.                        *)
askForConfirmation_WithoutGuard(closing) ==
  /\ Push(ConfirmFrame(closing))
  /\ DialogSetPaused(TRUE)
  /\ UNCHANGED <<_draining, userPaused, windowVars, endVars>>

askForConfirmation(closing) ==
  /\ Push(ConfirmFrame(closing))
  /\ _draining' = TRUE
  /\ DialogSetPaused(TRUE)
  /\ UNCHANGED <<userPaused, windowVars, endVars>>

pressCancel ==
  /\ Controls /\ started /\ _result = NoResult /\ ~cancelRequested
  /\ askForConfirmation(FALSE)

(* A close request also arrives in a nested loop, when the main window or   *)
(* the application closes all windows.                                      *)
closeRunning ==
  /\ UserInput /\ started /\ visible /\ _result = NoResult
  /\ Len(stack) < MaxDepth
  /\ askForConfirmation(TRUE)

(* Mutant: the guard is set and never restored.                             *)
ConfirmationReturns_KeepingTheGuard ==
  /\ UserInput /\ Running("confirmCancellation")
  /\ Pop
  /\ _draining' = TRUE

ConfirmationReturns ==
  /\ UserInput /\ Running("confirmCancellation")
  /\ Pop
  /\ _draining' = Top.wasDraining

confirmYes ==
  /\ ConfirmationReturns
  /\ cancel
  /\ _dismissedWhileRunning' = (_dismissedWhileRunning \/ Top.closing)
  /\ visible' = (visible /\ ~Top.closing)
  /\ UNCHANGED <<flagVars, firstShowDue, recycleDue, _isInBackgroundMode,
                 _result, disposed, acknowledged>>

(* Mutant: the pause of the question is not undone.                         *)
confirmNo_StayingPaused ==
  /\ ConfirmationReturns
  /\ UNCHANGED <<vars, flagVars, windowVars, endVars>>

confirmNo ==
  /\ ConfirmationReturns
  /\ DialogSetPaused(_paused /\ (Top.wasPaused \/ _result # NoResult))
  /\ UNCHANGED <<userPaused, windowVars, endVars>>

-----------------------------------------------------------------------------
(* Background mode: a queued call recycles the window as a non-modal one.   *)

switchToBackground ==
  /\ Controls /\ started /\ _result = NoResult /\ ~_isInBackgroundMode
  /\ recycleDue' = TRUE
  /\ UNCHANGED <<vars, stack, _draining, flagVars, visible, firstShowDue,
                 _isInBackgroundMode, endVars>>

recycleWindow ==
  /\ EventLoop /\ recycleDue
  /\ recycleDue' = FALSE
  /\ visible' = TRUE
  /\ _isInBackgroundMode' = TRUE
  /\ UNCHANGED <<vars, stack, _draining, flagVars, firstShowDue, endVars>>

-----------------------------------------------------------------------------
(* The end: the user closes the outcome; the deferred deletion, or the      *)
(* owner's, destroys the dialog and with it the job.                        *)

closeFinished ==
  /\ Controls /\ _result # NoResult
  /\ visible' = FALSE
  /\ disposed' = TRUE
  /\ acknowledged' = TRUE
  /\ UNCHANGED <<vars, stack, _draining, flagVars, firstShowDue, recycleDue,
                 _isInBackgroundMode, _dismissedWhileRunning, _result>>

destroyDialog ==
  /\ EventLoop /\ stack = <<>>
  /\ destroy
  /\ visible' = FALSE
  /\ UNCHANGED <<stack, _draining, flagVars, firstShowDue, recycleDue,
                 _isInBackgroundMode, endVars>>

deferredDelete == disposed /\ destroyDialog

-----------------------------------------------------------------------------
Dispatch ==
  \E event \in First(batch) :
    \/ renderProgress(event)
    \/ handleDecisionRequest(event)
    \/ \E diagnostics \in BOOLEAN : handleCompletion(event, diagnostics)

UserAnswers ==
  \/ \E action \in DecisionAction, scope \in Scope : answerPrompt(action, scope)
  \/ confirmYes \/ confirmNo

Worker == WorkerNext /\ UNCHANGED dialogVars
Notify == notify /\ UNCHANGED dialogVars
Join == join /\ UNCHANGED dialogVars

DialogNext ==
  \/ startDialog \/ firstShow \/ drainEvents \/ drainReturns \/ Dispatch
  \/ UserAnswers \/ togglePause \/ pressCancel \/ closeRunning
  \/ switchToBackground \/ recycleWindow
  \/ closeFinished \/ destroyDialog
  \/ Worker \/ Notify \/ Join
  \/ spuriousWakeup /\ UNCHANGED dialogVars
  \/ Terminated /\ UNCHANGED dialogVars

(***************************************************************************)
(* Fairness: the worker runs; the UI thread finishes what it is doing; the *)
(* event loop delivers the timer that is due, however often confirmations  *)
(* suppress a tick (strong fairness), and every queued call; the user      *)
(* answers each modal in the end, even one that is covered by others again *)
(* and again.  Nothing obliges the user to resume or to close.             *)
(***************************************************************************)
DialogFairness ==
  /\ WF_allVars(Worker) /\ WF_allVars(Notify) /\ WF_allVars(Join)
  /\ WF_allVars(Dispatch) /\ WF_allVars(drainReturns)
  /\ SF_allVars(drainEvents)
  /\ WF_allVars(recycleWindow) /\ WF_allVars(deferredDelete)
  /\ \A depth \in 1 .. MaxDepth : SF_allVars(UserAnswers /\ Len(stack) = depth)

DialogSpec == DialogInit /\ [][DialogNext]_allVars
FairDialogSpec == DialogSpec /\ DialogFairness

-----------------------------------------------------------------------------
(* Properties.                                                             *)

(* The type invariant of the dialog's state.                               *)
DialogTypeOK ==
  /\ Len(stack) <= MaxDepth
  /\ \A i \in DOMAIN stack :
       stack[i] \in {DrainFrame} \cup {PromptFrame(r) : r \in presented}
                    \cup [call: {"confirmCancellation"}, closing: BOOLEAN,
                          wasPaused: BOOLEAN, wasDraining: BOOLEAN]
  /\ _result \in Result \cup {NoResult}
  /\ {_draining, _paused, userPaused, visible, firstShowDue, recycleDue, disposed,
      acknowledged, _isInBackgroundMode, _dismissedWhileRunning} \subseteq BOOLEAN

(* A decision prompt stands on the dialog of a live operation and on nothing *)
(* else: not on the cancellation confirmation, not on another prompt, not on *)
(* a hidden dialog; and one drain is under way at most                       *)
(* (cfileoperationdialog.cpp:217, :377).                                     *)
Calls(call) == {i \in DOMAIN stack : stack[i].call = call}
PromptsStandOnTheDialog ==
  /\ \A i \in Calls("presentDecision") : i = 2 /\ stack[1] = DrainFrame
  /\ \A i \in Calls("drainEvents") : i = 1
  /\ Calls("presentDecision") # {} /\ ~cancelRequested => visible

(* A prompt on screen is about the request the worker waits on, and its      *)
(* answer is still awaited - unless the operation was cancelled under it.    *)
PromptsAreLive ==
  \A i \in Calls("presentDecision") :
    \/ cancelRequested
    \/ /\ pendingRequest = stack[i].request
       /\ submittedDecision = NoDecision

(* Asking for confirmation leaves no trace: with no confirmation open, the   *)
(* operation is paused if and only if the user paused it.                    *)
PauseFollowsTheUser ==
  /\ _paused = pauseRequested
  /\ Calls("confirmCancellation") = {} /\ ~cancelRequested => _paused = userPaused

(* An outcome that needs the user's attention stays on screen until they     *)
(* close it - unless they dismissed the dialog while the operation ran.      *)
OutcomeIsShown ==
  /\ _result # NoResult /\ outcomeNeedsAttention(_result)
  /\ ~_dismissedWhileRunning /\ ~acknowledged /\ ui = "using"
  => visible /\ ~disposed

(* A dialog the user closed while the operation ran stays hidden until the   *)
(* operation ends (cfileoperationdialog.cpp:405).                            *)
DismissedStaysHidden == _dismissedWhileRunning /\ _result = NoResult => ~visible

(* A dialog that was dismissed ends its operation and disappears.            *)
DismissedDialogGoes == _dismissedWhileRunning ~> ui = "gone"

(* A cancelled operation comes to an end, and to one the user notices: the   *)
(* dialog is gone, or it shows the outcome.                                  *)
CancelledOperationEnds ==
  /\ CancellationEndsTheOperation
  /\ started /\ cancelRequested ~> ui = "gone" \/ (_result # NoResult /\ visible)
=============================================================================
