-------------------------- MODULE FileOperationJob --------------------------
(***************************************************************************)
(* One file operation: the object CFileOperationJob, shared by the UI      *)
(* thread (start, cancel, setPaused, submitDecision, processEvents, the    *)
(* destructor) and one worker thread (checkpoints, decision requests,      *)
(* progress, the final summary), together with the policy table and the    *)
(* remembered decisions of COperationExecutionContext that the worker      *)
(* consults before it asks.                                                *)
(*                                                                         *)
(* Every member is guarded by the job's mutex, so a critical section is    *)
(* one step - with two exceptions that are modelled step by step because   *)
(* the hazards live there: condition_variable::wait, which evaluates its   *)
(* predicate, then blocks (the mutex is held in between), and the UI's     *)
(* notify_all, which runs after the mutex was released.                    *)
(*                                                                         *)
(* The executors (CTransferExecutor, CDeleteExecutor) appear as the        *)
(* worker's calls into the job, in any order their contract allows.        *)
(***************************************************************************)
EXTENDS Naturals, OperationPolicy

CONSTANTS
  Kinds,        (* the issue kinds the executor may run into                *)
  MaxEvents     (* bound: events (hence requests) one operation produces    *)

ASSUME KindsAssumption == Kinds \subseteq IssueKind
ASSUME MaxEventsAssumption == MaxEvents \in Nat

VARIABLES
  started, finished, cancelledBeforeStart, pauseRequested,
  cancelRequested,    (* the wrapper thread's flag                          *)
  pendingRequest,     (* the request the worker waits on, or NoRequest      *)
  submittedDecision,  (* the UI's answer to it, or NoDecision               *)
  events,             (* the queue; a set ordered by the events' stamps     *)
  clock,              (* the next stamp                                     *)
  worker,             (* where the worker thread is                         *)
  permission,         (* what its last cancellation check told the executor *)
  remembered,         (* the context's answers for all matching issues      *)
  verdict,            (* the summary's status, while the worker unwinds     *)
  ui,                 (* the owner: using the job, joining in ~, gone       *)
  notifyDue,          (* the UI left a critical section, notify_all is next *)
  batch,              (* events swapped out and not dispatched yet          *)
  presented,          (* decision requests the listener has received        *)
  mutations,          (* units of work done: none, before, after cancel     *)
  summaries           (* summaries the listener has received                *)

statusVars == <<started, finished, cancelledBeforeStart>>
slotVars == <<pendingRequest, submittedDecision>>
queueVars == <<events, clock>>
jobVars == <<statusVars, pauseRequested, cancelRequested, slotVars, queueVars>>
workerVars == <<worker, permission, remembered, verdict, mutations>>
deliveryVars == <<batch, presented, summaries>>
uiVars == <<ui, notifyDue, deliveryVars>>
vars == <<jobVars, workerVars, uiVars>>

-----------------------------------------------------------------------------
(* Events carry the moment they were produced; the queue's order is theirs. *)

Stamp == 0 .. MaxEvents
CompletionStatus == {"Completed", "Cancelled", "Failed"}
ProgressSnapshot == [type: {"progress"}, stamp: Stamp]
DecisionRequest == [type: {"decision"}, stamp: Stamp, kind: IssueKind,
                    remainingMatchingScopeAllowed: BOOLEAN]
OperationSummary == [type: {"summary"}, stamp: Stamp, status: CompletionStatus]
OperationEvent == ProgressSnapshot \cup DecisionRequest \cup OperationSummary

NoRequest == [type |-> "none"]
NoDecision == [action |-> "none", scope |-> "none"]
Decision == [action: DecisionAction, scope: Scope, to: DecisionRequest]

DecisionsIn(queue) == {e \in queue : e.type = "decision"}
SummariesIn(queue) == {e \in queue : e.type = "summary"}
Last(queue) == {e \in queue : \A f \in queue : f.stamp <= e.stamp}

-----------------------------------------------------------------------------
Init ==
  /\ started = FALSE /\ finished = FALSE
  /\ cancelledBeforeStart = FALSE /\ cancelRequested = FALSE
  /\ pauseRequested = FALSE
  /\ pendingRequest = NoRequest /\ submittedDecision = NoDecision
  /\ events = {} /\ clock = 0
  /\ worker = "absent" /\ permission = "none" /\ verdict = "Failed"
  /\ remembered = [k \in IssueKind |-> NoAction]
  /\ ui = "using" /\ notifyDue = FALSE
  /\ batch = {} /\ presented = {} /\ summaries = 0
  /\ mutations = "none"

(***************************************************************************)
(* The mutex is free except while the worker, having found its predicate   *)
(* false, is about to block.  The UI thread does one thing at a time: no   *)
(* new call before the notification of the previous one went out.          *)
(***************************************************************************)
MutexFree == worker \notin {"pauseBlocking", "askBlocking"}
UiReady == ui = "using" /\ ~notifyDue /\ MutexFree

-----------------------------------------------------------------------------
(* The UI thread.                                                          *)

(* Mutant: the reset wipes a cancel() from before start().                  *)
start_ForgettingTheCancel ==
  /\ UiReady /\ ~started
  /\ started' = TRUE
  /\ worker' = "running"
  /\ cancelRequested' = FALSE
  /\ UNCHANGED <<finished, cancelledBeforeStart, pauseRequested, slotVars, queueVars,
                 permission, remembered, verdict, mutations, uiVars>>

(* The wrapper's start() resets the flag; a cancel() from before takes      *)
(* effect past that reset.                                                  *)
start ==
  /\ UiReady /\ ~started
  /\ started' = TRUE
  /\ worker' = "running"
  /\ cancelRequested' = cancelledBeforeStart
  /\ UNCHANGED <<finished, cancelledBeforeStart, pauseRequested, slotVars, queueVars,
                 permission, remembered, verdict, mutations, uiVars>>

cancelBeforeStart ==
  /\ UiReady /\ ~started
  /\ cancelledBeforeStart' = TRUE
  /\ UNCHANGED <<started, finished, pauseRequested, cancelRequested, slotVars, queueVars,
                 workerVars, uiVars>>

(* Mutant: undrained requests stay queued.                                  *)
WithoutRequests_Kept(queue) == queue

WithoutRequests(queue) == queue \ DecisionsIn(queue)

cancel ==
  /\ UiReady /\ started
  /\ cancelRequested' = TRUE
  /\ events' = WithoutRequests(events)
  /\ notifyDue' = TRUE
  /\ UNCHANGED <<statusVars, pauseRequested, slotVars, clock, workerVars, ui, deliveryVars>>

(* Mutant: the condition of the notification is inverted.                   *)
setPaused_NotifyingOnPause(paused) ==
  /\ UiReady /\ pauseRequested # paused
  /\ pauseRequested' = paused
  /\ notifyDue' = paused
  /\ UNCHANGED <<statusVars, cancelRequested, slotVars, queueVars, workerVars, ui,
                 deliveryVars>>

setPaused(paused) ==
  /\ UiReady /\ pauseRequested # paused
  /\ pauseRequested' = paused
  /\ notifyDue' = ~paused
  /\ UNCHANGED <<statusVars, cancelRequested, slotVars, queueVars, workerVars, ui,
                 deliveryVars>>

(* The answer the user gives to a request the listener received.  Only an   *)
(* answer the job accepts changes anything.                                 *)
hasPendingDecision ==
  /\ pendingRequest # NoRequest
  /\ submittedDecision = NoDecision
  /\ ~cancelRequested

IsAnswerTo(action, scope, request) ==
  /\ action \in allowedActionsFor(request.kind)
  /\ \/ scope = "ThisItem"
     \/ /\ request.remainingMatchingScopeAllowed
        /\ isActionRememberable(request.kind, action)

submitDecision(request, action, scope) ==
  /\ UiReady
  /\ hasPendingDecision
  /\ IsAnswerTo(action, scope, pendingRequest)
  /\ submittedDecision' = [action |-> action, scope |-> scope, to |-> request]
  /\ notifyDue' = TRUE
  /\ UNCHANGED <<statusVars, pauseRequested, cancelRequested, pendingRequest, queueVars,
                 workerVars, ui, deliveryVars>>

(* Mutant: the queue is copied, not swapped.                                *)
drain_Copying ==
  /\ UiReady /\ batch = {} /\ events # {}
  /\ batch' = events
  /\ UNCHANGED <<jobVars, workerVars, ui, notifyDue, presented, summaries>>

(* processEvents swaps the queue out under the mutex, then dispatches with  *)
(* the mutex released: between two deliveries the listener may call any     *)
(* other function of the job.                                               *)
drain ==
  /\ UiReady /\ batch = {} /\ events # {}
  /\ batch' = events
  /\ events' = {}
  /\ UNCHANGED <<statusVars, pauseRequested, cancelRequested, slotVars, clock, workerVars, ui,
                 notifyDue, presented, summaries>>

First(queue) == {e \in queue : \A f \in queue : e.stamp <= f.stamp}

dispatch(event) ==
  /\ ui = "using" /\ ~notifyDue
  /\ batch' = batch \ {event}
  /\ presented' = IF event.type = "decision" THEN presented \cup {event} ELSE presented
  /\ summaries' = IF event.type = "summary" THEN summaries + 1 ELSE summaries
  /\ UNCHANGED <<jobVars, workerVars, ui, notifyDue>>

WakeWorker ==
  worker' = IF worker = "pauseAsleep" THEN "pauseAwake"
            ELSE IF worker = "askAsleep" THEN "askAwake" ELSE worker

notify ==
  /\ notifyDue
  /\ notifyDue' = FALSE
  /\ WakeWorker
  /\ UNCHANGED <<jobVars, permission, remembered, verdict, mutations, ui, deliveryVars>>

(* Mutant: the destructor only joins.                                       *)
destroy_WithoutCancelling ==
  /\ UiReady /\ batch = {}
  /\ notifyDue' = TRUE
  /\ ui' = "joining"
  /\ UNCHANGED <<jobVars, workerVars, deliveryVars>>

destroy ==
  /\ UiReady /\ batch = {}
  /\ cancelRequested' = TRUE
  /\ notifyDue' = TRUE
  /\ ui' = "joining"
  /\ UNCHANGED <<statusVars, pauseRequested, slotVars, queueVars, workerVars, deliveryVars>>

join ==
  /\ ui = "joining" /\ ~notifyDue
  /\ worker \in {"absent", "ended"}
  /\ ui' = "gone"
  /\ UNCHANGED <<jobVars, workerVars, notifyDue, deliveryVars>>

-----------------------------------------------------------------------------
(* The worker thread, inside the executor.                                 *)

(* An executor that was told to stop only returns.                         *)
Executing == worker = "running" /\ permission # "stop"

(* Mutant: a paused worker waits for the resume only.                       *)
PauseOver_IgnoringCancel == ~pauseRequested

PauseOver == ~pauseRequested \/ cancelRequested

leavePauseWait ==
  /\ PauseOver
  /\ worker' = "running"
  /\ permission' = IF cancelRequested THEN "stop" ELSE "go"

keepPauseWait ==
  /\ ~PauseOver
  /\ worker' = "pauseBlocking"
  /\ permission' = permission

workerCheckpoint ==
  /\ Executing \/ worker = "pauseAwake"
  /\ leavePauseWait \/ keepPauseWait
  /\ UNCHANGED <<jobVars, remembered, verdict, mutations, uiVars>>

block ==
  /\ ~MutexFree
  /\ worker' = IF worker = "pauseBlocking" THEN "pauseAsleep" ELSE "askAsleep"
  /\ UNCHANGED <<jobVars, permission, remembered, verdict, mutations, uiVars>>

spuriousWakeup ==
  /\ worker \in {"pauseAsleep", "askAsleep"}
  /\ WakeWorker
  /\ UNCHANGED <<jobVars, permission, remembered, verdict, mutations, uiVars>>

(* Mutant: the scope is tested the wrong way round.                         *)
HasRememberedAnswer_Inverted(kind, scopeAllowed) == ~scopeAllowed /\ remembered[kind] # NoAction

(* resolveDecision: a remembered answer applies without asking, so without  *)
(* looking at the cancellation flag.                                        *)
HasRememberedAnswer(kind, scopeAllowed) == scopeAllowed /\ remembered[kind] # NoAction

workerRequestDecision(kind, scopeAllowed) ==
  LET request == [type |-> "decision", stamp |-> clock, kind |-> kind,
                  remainingMatchingScopeAllowed |-> scopeAllowed]
  IN
  /\ Executing /\ clock < MaxEvents
  /\ ~HasRememberedAnswer(kind, scopeAllowed)
  /\ \/ /\ cancelRequested
        /\ permission' = "stop"
        /\ UNCHANGED <<pendingRequest, queueVars, worker>>
     \/ /\ ~cancelRequested
        /\ pendingRequest' = request
        /\ events' = events \cup {request}
        /\ clock' = clock + 1
        /\ worker' = "askBlocking"
        /\ UNCHANGED permission
  /\ UNCHANGED <<statusVars, pauseRequested, cancelRequested, submittedDecision, remembered,
                 verdict, mutations, uiVars>>

(* Mutant: the wait has no predicate.                                       *)
AskOver_OnAnyWakeup == TRUE

AskOver == submittedDecision # NoDecision \/ cancelRequested

keepAskWait ==
  /\ worker = "askAwake"
  /\ ~AskOver
  /\ worker' = "askBlocking"
  /\ UNCHANGED <<jobVars, permission, remembered, verdict, mutations, uiVars>>

(* Mutant: the wrong member is stored.                                      *)
Remember_TheScope(request, decision) ==
  IF decision.scope = "RemainingMatchingIssues" /\ request.remainingMatchingScopeAllowed
  THEN [remembered EXCEPT ![request.kind] = decision.scope]
  ELSE remembered

(* An answer for all matching issues is stored only if the request allowed  *)
(* that scope and the action may be repeated unattended.                    *)
Remember(request, decision) ==
  IF /\ decision.scope = "RemainingMatchingIssues"
     /\ request.remainingMatchingScopeAllowed
     /\ isActionRememberable(request.kind, decision.action)
  THEN [remembered EXCEPT ![request.kind] = decision.action]
  ELSE remembered

(* Mutant: the answer is copied, not moved out.                             *)
leaveAskWait_KeepingTheAnswer ==
  /\ worker = "askAwake" /\ AskOver
  /\ worker' = "running"
  /\ pendingRequest' = NoRequest
  /\ permission' = IF cancelRequested \/ submittedDecision.action = "Cancel" THEN "stop" ELSE "go"
  /\ remembered' = IF cancelRequested THEN remembered ELSE Remember(pendingRequest, submittedDecision)
  /\ UNCHANGED <<statusVars, pauseRequested, cancelRequested, submittedDecision, queueVars,
                 verdict, mutations, uiVars>>

leaveAskWait ==
  /\ worker = "askAwake"
  /\ AskOver
  /\ worker' = "running"
  /\ pendingRequest' = NoRequest
  /\ submittedDecision' = NoDecision
  /\ IF cancelRequested
     THEN /\ permission' = "stop"
          /\ UNCHANGED remembered
     ELSE /\ permission' = IF submittedDecision.action = "Cancel" THEN "stop" ELSE "go"
          /\ remembered' = Remember(pendingRequest, submittedDecision)
  /\ UNCHANGED <<statusVars, pauseRequested, cancelRequested, queueVars, verdict, mutations,
                 uiVars>>

(* One unit of work on the file system: what an executor does between two   *)
(* checks of the cancellation flag.                                         *)
mutate ==
  /\ Executing /\ permission = "go"
  /\ permission' = "none"
  /\ mutations' = CASE mutations = "none" /\ cancelRequested -> "oneAfterCancel"
                    [] mutations = "before" /\ cancelRequested -> "oneAfterCancel"
                    [] mutations \in {"oneAfterCancel", "manyAfterCancel"} -> "manyAfterCancel"
                    [] OTHER -> "before"
  /\ UNCHANGED <<jobVars, worker, remembered, verdict, uiVars>>

(* Mutant: any queued snapshot is replaced.                                 *)
Superseded_AnyProgress(queue) == {e \in queue : e.type = "progress"}

(* Progress replaces progress at the end of the queue, but goes behind a      *)
(* barrier.  Executors publish it on their way out too.                     *)
Superseded(queue) == {e \in Last(queue) : e.type = "progress"}

enqueueProgress ==
  /\ worker = "running" /\ clock < MaxEvents
  /\ events' = (events \ Superseded(events)) \cup {[type |-> "progress", stamp |-> clock]}
  /\ clock' = clock + 1
  /\ UNCHANGED <<statusVars, pauseRequested, cancelRequested, slotVars, workerVars, uiVars>>

(* The executor returns a summary, or throws: then the default one stands.  *)
executorReturns ==
  /\ worker = "running"
  /\ worker' = "unwinding"
  /\ verdict' \in IF permission = "stop" THEN {"Cancelled", "Failed"}
                                         ELSE {"Completed", "Failed"}
  /\ UNCHANGED <<jobVars, permission, remembered, mutations, uiVars>>

publishSummary ==
  /\ worker = "unwinding"
  /\ events' = events \cup {[type |-> "summary", stamp |-> clock, status |-> verdict]}
  /\ finished' = TRUE
  /\ worker' = "ended"
  /\ UNCHANGED <<started, cancelledBeforeStart, pauseRequested, cancelRequested, slotVars,
                 clock, permission, remembered, verdict, mutations, uiVars>>

-----------------------------------------------------------------------------
UiNext ==
  \/ start \/ cancelBeforeStart \/ cancel
  \/ \E paused \in BOOLEAN : setPaused(paused)
  \/ \E request \in presented, action \in DecisionAction, scope \in Scope :
       submitDecision(request, action, scope)
  \/ drain
  \/ \E event \in First(batch) : dispatch(event)
  \/ notify
  \/ destroy \/ join

WorkerNext ==
  \/ workerCheckpoint \/ block
  \/ \E kind \in Kinds, scopeAllowed \in BOOLEAN : workerRequestDecision(kind, scopeAllowed)
  \/ keepAskWait \/ leaveAskWait
  \/ mutate \/ enqueueProgress \/ executorReturns \/ publishSummary

Terminated == ui = "gone" /\ UNCHANGED vars

Next == UiNext \/ WorkerNext \/ spuriousWakeup \/ Terminated

(***************************************************************************)
(* Fairness: the worker thread runs (its executor does finitely much work, *)
(* MaxEvents here), and a UI thread inside cancel(), setPaused(),          *)
(* submitDecision() or the destructor finishes that call.  Nothing obliges *)
(* the user to resume, to answer, to drain or to destroy.                  *)
(***************************************************************************)
Fairness == WF_vars(WorkerNext) /\ WF_vars(notify) /\ WF_vars(join)

Spec == Init /\ [][Next]_vars
FairSpec == Spec /\ Fairness

-----------------------------------------------------------------------------
(* Properties.                                                             *)

(* The type invariant.  The summary is stamped with the clock's last value, *)
(* every other event with an earlier one.                                   *)
TypeOK ==
  /\ started \in BOOLEAN /\ finished \in BOOLEAN
  /\ cancelledBeforeStart \in BOOLEAN /\ pauseRequested \in BOOLEAN
  /\ cancelRequested \in BOOLEAN
  /\ pendingRequest \in DecisionRequest \cup {NoRequest}
  /\ submittedDecision \in Decision \cup {NoDecision}
  /\ events \subseteq OperationEvent
  /\ clock \in Stamp
  /\ worker \in {"absent", "running", "pauseBlocking", "pauseAsleep", "pauseAwake",
                 "askBlocking", "askAsleep", "askAwake", "unwinding", "ended"}
  /\ permission \in {"none", "go", "stop"}
  /\ remembered \in [IssueKind -> DecisionAction \cup {NoAction}]
  /\ verdict \in CompletionStatus
  /\ ui \in {"using", "joining", "gone"}
  /\ notifyDue \in BOOLEAN
  /\ batch \subseteq OperationEvent
  /\ presented \subseteq DecisionRequest
  /\ mutations \in {"none", "before", "oneAfterCancel", "manyAfterCancel"}
  /\ summaries \in Nat

(* No lost wakeup (cfileoperationjob.h:47): a worker asleep on the condition *)
(* variable whose wait is over has a notification still to come.             *)
NoLostWakeup ==
  \/ worker = "pauseAsleep" /\ PauseOver
  \/ worker = "askAsleep" /\ AskOver
  => notifyDue

(* The decision slot is a rendezvous: it holds a request exactly while the   *)
(* worker waits for its answer, and an answer only beside a request.  This   *)
(* is what the assertion on entry to workerRequestDecision relies on.        *)
DecisionSlot ==
  /\ pendingRequest # NoRequest <=> worker \in {"askBlocking", "askAsleep", "askAwake"}
  /\ submittedDecision # NoDecision => pendingRequest # NoRequest

(* The listener gets one summary, as the last event of all; Finished means   *)
(* it is queued, being dispatched, or delivered (cfileoperationjob.h:81).    *)
SummaryExactlyOnceAndLast ==
  LET undelivered == events \cup batch
      unreported == SummariesIn(undelivered)
  IN
  /\ events \cap batch = {}
  /\ ~finished => summaries = 0 /\ unreported = {}
  /\ finished => \/ summaries = 1 /\ undelivered = {}
                 \/ /\ summaries = 0
                    /\ \E summary \in undelivered :
                         /\ unreported = {summary}
                         /\ \A e \in undelivered \ {summary} : e.stamp < summary.stamp

(* Once the operation is cancelled no decision request is left in the queue: *)
(* a prompt nobody can answer is never drained (cfileoperationjob.h:49).     *)
NoUnanswerableRequestQueued == started /\ cancelRequested /\ ui = "using" => DecisionsIn(events) = {}

(* Cancellation is effective: at most the unit of work that was under way    *)
(* when it was requested still happens, and none at all if the request came  *)
(* before start() (cfileoperationjob.cpp:37).                                *)
CancellationStopsWork ==
  /\ mutations # "manyAfterCancel"
  /\ cancelledBeforeStart => mutations = "none"

(* "Apply to all" is final: a request that permits that scope is never put   *)
(* to the user again for a kind they answered for all remaining issues, and  *)
(* what is repeated unattended is neither Cancel nor Retry nor Rename.       *)
AnswerForAllIsFinal ==
  /\ \A kind \in IssueKind :
        remembered[kind] # NoAction => /\ remembered[kind] \in allowedActionsFor(kind)
                                       /\ isActionRememberable(kind, remembered[kind])
  /\ pendingRequest # NoRequest /\ pendingRequest.remainingMatchingScopeAllowed
       => remembered[pendingRequest.kind] = NoAction

(* A decision request is a barrier: while it is queued, nothing in front of  *)
(* it changes - later progress is never merged into an earlier snapshot.     *)
BarriersStayInPlace ==
  [][\A barrier \in DecisionsIn(events) \cap DecisionsIn(events') :
       {e \in events' : e.stamp < barrier.stamp} = {e \in events : e.stamp < barrier.stamp}]_events

(* The answer the worker receives was given to the request it asked.         *)
AnswersMatchRequests == submittedDecision # NoDecision => submittedDecision.to = pendingRequest

(* Cancellation ends the operation, whatever the worker was waiting for, and *)
(* the destructor's join returns.                                            *)
CancellationEndsTheOperation == started /\ cancelRequested ~> finished
DestructorReturns == ui = "joining" ~> ui = "gone"
-----------------------------------------------------------------------------
(* The inductive strengthenings the proofs use.                            *)

(* The worker keeps the mutex from finding its predicate false to blocking. *)
BlockingIsJustified ==
  /\ worker = "pauseBlocking" => ~PauseOver
  /\ worker = "askBlocking" => ~AskOver

NoWorkerBeforeStart == ~started <=> worker = "absent"

Handshake == NoWorkerBeforeStart /\ BlockingIsJustified /\ NoLostWakeup /\ DecisionSlot

BeforeStart ==
  ~started => /\ permission = "none" /\ mutations = "none"
              /\ events = {} /\ batch = {}
              /\ ui = "using" => ~cancelRequested

(* After the cancellation no check grants permission any more.              *)
CancellationTakesHold ==
  /\ mutations \in {"oneAfterCancel", "manyAfterCancel"} => cancelRequested /\ permission # "go"
  /\ started /\ cancelledBeforeStart => cancelRequested /\ permission # "go"

Cancellation ==
  /\ BeforeStart /\ CancellationTakesHold
  /\ CancellationStopsWork /\ NoUnanswerableRequestQueued

Answers ==
  /\ submittedDecision # NoDecision =>
       /\ pendingRequest # NoRequest
       /\ IsAnswerTo(submittedDecision.action, submittedDecision.scope, pendingRequest)
  /\ AnswerForAllIsFinal

(* Only the summary, the last event of all, carries the clock's value, and   *)
(* what was swapped out is older than what is queued.                        *)
Summary ==
  /\ finished <=> worker = "ended"
  /\ \A e \in events \cup batch : e.stamp < clock \/ e.type = "summary"
  /\ \A older \in batch, newer \in events : older.stamp < newer.stamp
  /\ SummaryExactlyOnceAndLast

=============================================================================
