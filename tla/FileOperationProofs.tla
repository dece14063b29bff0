------------------------- MODULE FileOperationProofs -------------------------
(***************************************************************************)
(* Proofs about FileOperationJob, for every set of issue kinds and every   *)
(* number of events, and about FileOperationDialog: the dialog drives the  *)
(* job within the contract the job's own proofs assume, so that what they  *)
(* establish holds of the two together, and its prompts, its pause and its *)
(* outcome are what the user is entitled to.                               *)
(***************************************************************************)
EXTENDS FileOperationDialog, SequenceTheorems, TLAPS

-----------------------------------------------------------------------------
(* The job.                                                                *)

(* No step of the two threads gives a member a value of another type.        *)
LEMMA TypeStep == TypeOK /\ [Next]_vars => TypeOK'
<1> SUFFICES ASSUME TypeOK, [Next]_vars
             PROVE  TypeOK'
  OBVIOUS
<1> USE KindsAssumption, MaxEventsAssumption DEF NoAction, CompletionStatus, Stamp
<1> USE DEF TypeOK, statusVars, slotVars, queueVars, deliveryVars, jobVars, workerVars, uiVars
<1>1. CASE start
  BY <1>1 DEF start
<1>2. CASE cancelBeforeStart
  BY <1>2 DEF cancelBeforeStart
<1>3. CASE cancel
  BY <1>3 DEF cancel, WithoutRequests
<1>4. ASSUME NEW paused \in BOOLEAN, setPaused(paused)
      PROVE  TypeOK'
  BY <1>4 DEF setPaused
<1>5. ASSUME NEW request \in presented, NEW action \in DecisionAction, NEW scope \in Scope,
             submitDecision(request, action, scope)
      PROVE  TypeOK'
  BY <1>5 DEF submitDecision, Decision
<1>6. CASE drain
  BY <1>6 DEF drain
<1>7. ASSUME NEW event \in First(batch), dispatch(event)
      PROVE  TypeOK'
  <2>1. event \in OperationEvent
    BY DEF First
  <2>2. event.type = "decision" => event \in DecisionRequest
    BY <2>1 DEF OperationEvent, ProgressSnapshot, OperationSummary, DecisionRequest
  <2> QED
    BY <1>7, <2>2 DEF dispatch
<1>8. CASE notify
  <2>1. worker' \in {"absent", "running", "pauseBlocking", "pauseAsleep", "pauseAwake",
                     "askBlocking", "askAsleep", "askAwake", "unwinding", "ended"}
    BY <1>8 DEF notify, WakeWorker
  <2> QED
    <3>1. UNCHANGED jobVars /\ notifyDue' \in BOOLEAN
      BY <1>8 DEF notify
    <3>2. UNCHANGED <<permission, remembered, verdict, mutations, ui, batch, presented, summaries>>
      BY <1>8 DEF notify
    <3> QED
      BY <2>1, <3>1, <3>2
<1>9. CASE destroy
  BY <1>9 DEF destroy
<1>10. CASE join
  BY <1>10 DEF join
<1>11. CASE workerCheckpoint
  BY <1>11 DEF workerCheckpoint, leavePauseWait, keepPauseWait
<1>12. CASE block
  BY <1>12 DEF block
<1>13. ASSUME NEW kind \in Kinds, NEW scopeAllowed \in BOOLEAN,
              workerRequestDecision(kind, scopeAllowed)
       PROVE  TypeOK'
  <2> DEFINE request == [type |-> "decision", stamp |-> clock, kind |-> kind,
                         remainingMatchingScopeAllowed |-> scopeAllowed]
  <2>1. request \in DecisionRequest
    BY DEF DecisionRequest, Stamp
  <2>2. request \in OperationEvent
    BY <2>1 DEF OperationEvent
  <2>3. clock < MaxEvents => clock + 1 \in Stamp
    BY DEF Stamp
  <2> QED
    BY <1>13, <2>1, <2>2, <2>3 DEF workerRequestDecision
<1>14. CASE keepAskWait
  BY <1>14 DEF keepAskWait
<1>15. CASE leaveAskWait
  <2>1. remembered' \in [IssueKind -> DecisionAction \cup {NoAction}]
    <3>1. CASE submittedDecision \in Decision
      BY <1>15, <3>1 DEF leaveAskWait, Remember, Decision
    <3>2. CASE submittedDecision = NoDecision
      BY <1>15, <3>2 DEF leaveAskWait, AskOver
    <3> QED
      BY <3>1, <3>2
  <2> QED
    BY <1>15, <2>1 DEF leaveAskWait
<1>16. CASE mutate
  BY <1>16 DEF mutate
<1>17. CASE enqueueProgress
  <2>1. [type |-> "progress", stamp |-> clock] \in OperationEvent
    BY DEF OperationEvent, ProgressSnapshot
  <2>2. clock < MaxEvents => clock + 1 \in Stamp
    BY DEF Stamp
  <2> QED
    BY <1>17, <2>1, <2>2 DEF enqueueProgress
<1>18. CASE executorReturns
  BY <1>18 DEF executorReturns, CompletionStatus
<1>19. CASE publishSummary
  <2>1. [type |-> "summary", stamp |-> clock, status |-> verdict] \in OperationEvent
    BY DEF OperationEvent, OperationSummary
  <2> QED
    BY <1>19, <2>1 DEF publishSummary
<1>20. CASE spuriousWakeup
  BY <1>20 DEF spuriousWakeup, WakeWorker
<1>21. CASE Terminated
  BY <1>21 DEF Terminated, vars
<1>22. CASE UNCHANGED vars
  BY <1>22 DEF vars
<1> QED
  BY <1>1, <1>2, <1>3, <1>4, <1>5, <1>6, <1>7, <1>8, <1>9, <1>10, <1>11, <1>12, <1>13,
     <1>14, <1>15, <1>16, <1>17, <1>18, <1>19, <1>20, <1>21, <1>22
  DEF Next, UiNext, WorkerNext

LEMMA InitTypeOK == Init => TypeOK
<1> SUFFICES ASSUME Init PROVE TypeOK
  OBVIOUS
<1> USE KindsAssumption, MaxEventsAssumption DEF NoAction, CompletionStatus, Stamp
<1>1. remembered \in [IssueKind -> DecisionAction \cup {NoAction}]
  BY DEF Init
<1>2. clock \in Stamp
  BY DEF Init
<1>3. 0 \in Nat
  OBVIOUS
<1> QED
  BY <1>1, <1>2, <1>3, Zenon DEF Init, TypeOK

(* Type correctness of the job: every member keeps its type whatever the two  *)
(* threads do.                                                                *)
THEOREM TypeCorrectness == Spec => []TypeOK
BY InitTypeOK, TypeStep, PTL DEF Spec

-----------------------------------------------------------------------------
(* What the two threads may do to the handshake: each action either leaves it *)
(* alone or is one of the steps of the wait.                                  *)
LEMMA HandshakeStep == TypeOK /\ Handshake /\ [Next]_vars => Handshake'
<1> SUFFICES ASSUME TypeOK, Handshake, [Next]_vars
             PROVE  Handshake'
  OBVIOUS
<1> USE DEF Handshake, NoWorkerBeforeStart, BlockingIsJustified, NoLostWakeup, DecisionSlot, PauseOver, AskOver,
            statusVars, slotVars, queueVars, deliveryVars, jobVars, workerVars, uiVars, UiReady, MutexFree
<1>1. CASE start
  BY <1>1 DEF start, TypeOK
<1>2. CASE cancelBeforeStart
  BY <1>2 DEF cancelBeforeStart
<1>3. CASE cancel
  BY <1>3 DEF cancel, WithoutRequests
<1>4. ASSUME NEW paused \in BOOLEAN, setPaused(paused)
      PROVE  Handshake'
  BY <1>4 DEF setPaused
<1>5. ASSUME NEW request \in presented, NEW action \in DecisionAction, NEW scope \in Scope,
             submitDecision(request, action, scope)
      PROVE  Handshake'
  BY <1>5 DEF submitDecision, hasPendingDecision
<1>6. CASE drain
  BY <1>6 DEF drain
<1>7. ASSUME NEW event \in First(batch), dispatch(event)
      PROVE  Handshake'
  BY <1>7 DEF dispatch
<1>8. CASE notify
  <2>1. /\ worker' \notin {"pauseAsleep", "askAsleep"}
        /\ worker' = "absent" <=> worker = "absent"
        /\ worker' = "pauseBlocking" => worker = "pauseBlocking"
        /\ worker' = "askBlocking" => worker = "askBlocking"
        /\ worker' \in {"askBlocking", "askAsleep", "askAwake"}
             <=> worker \in {"askBlocking", "askAsleep", "askAwake"}
    BY <1>8 DEF notify, WakeWorker
  <2>2. UNCHANGED jobVars
    BY <1>8 DEF notify
  <2> QED
    BY <2>1, <2>2
<1>9. CASE destroy
  BY <1>9 DEF destroy
<1>10. CASE join
  BY <1>10 DEF join
<1>11. CASE workerCheckpoint
  BY <1>11 DEF workerCheckpoint, leavePauseWait, keepPauseWait, Executing
<1>12. CASE block
  BY <1>12 DEF block
<1>13. ASSUME NEW kind \in Kinds, NEW scopeAllowed \in BOOLEAN,
              workerRequestDecision(kind, scopeAllowed)
       PROVE  Handshake'
  BY <1>13 DEF workerRequestDecision, Executing, NoRequest
<1>14. CASE keepAskWait
  BY <1>14 DEF keepAskWait
<1>15. CASE leaveAskWait
  BY <1>15 DEF leaveAskWait
<1>16. CASE mutate
  BY <1>16 DEF mutate
<1>17. CASE enqueueProgress
  BY <1>17 DEF enqueueProgress
<1>18. CASE executorReturns
  BY <1>18 DEF executorReturns
<1>19. CASE publishSummary
  BY <1>19 DEF publishSummary
<1>20. CASE spuriousWakeup
  BY <1>20 DEF spuriousWakeup, WakeWorker
<1>21. CASE Terminated
  BY <1>21 DEF Terminated, vars
<1>22. CASE UNCHANGED vars
  BY <1>22 DEF vars
<1> QED
  BY <1>1, <1>2, <1>3, <1>4, <1>5, <1>6, <1>7, <1>8, <1>9, <1>10, <1>11, <1>12, <1>13,
     <1>14, <1>15, <1>16, <1>17, <1>18, <1>19, <1>20, <1>21, <1>22
  DEF Next, UiNext, WorkerNext

LEMMA HandshakeHolds == Spec => []Handshake
<1>1. Init => Handshake
  BY DEF Init, Handshake, NoWorkerBeforeStart, BlockingIsJustified, NoLostWakeup, DecisionSlot
<1> QED
  BY <1>1, HandshakeStep, TypeCorrectness, PTL DEF Spec

(* A worker asleep although its wait is over is always about to be notified:  *)
(* cancel(), setPaused() and submitDecision() cannot lose a wakeup.           *)
THEOREM WakeupsAreNotLost == Spec => []NoLostWakeup
BY HandshakeHolds, PTL DEF Handshake

(* The decision slot is a rendezvous, so the worker always finds it empty     *)
(* when it asks.                                                              *)
THEOREM DecisionSlotIsARendezvous == Spec => []DecisionSlot
BY HandshakeHolds, PTL DEF Handshake

-----------------------------------------------------------------------------
(* No step undoes a cancellation, and none grants the executor permission     *)
(* after it.                                                                  *)
LEMMA CancellationStep ==
  TypeOK /\ Handshake /\ Cancellation /\ [Next]_vars => Cancellation'
<1> SUFFICES ASSUME TypeOK, Handshake, Cancellation, [Next]_vars
             PROVE  Cancellation'
  OBVIOUS
<1> USE DEF Cancellation, BeforeStart, CancellationTakesHold, CancellationStopsWork,
            NoUnanswerableRequestQueued, DecisionsIn, UiReady,
            statusVars, slotVars, queueVars, deliveryVars, jobVars, workerVars, uiVars
<1>1. CASE start
  BY <1>1 DEF start, TypeOK
<1>2. CASE cancelBeforeStart
  BY <1>2 DEF cancelBeforeStart
<1>3. CASE cancel
  BY <1>3 DEF cancel, WithoutRequests
<1>4. ASSUME NEW paused \in BOOLEAN, setPaused(paused)
      PROVE  Cancellation'
  BY <1>4 DEF setPaused
<1>5. ASSUME NEW request \in presented, NEW action \in DecisionAction, NEW scope \in Scope,
             submitDecision(request, action, scope)
      PROVE  Cancellation'
  BY <1>5 DEF submitDecision
<1>6. CASE drain
  BY <1>6 DEF drain
<1>7. ASSUME NEW event \in First(batch), dispatch(event)
      PROVE  Cancellation'
  BY <1>7 DEF dispatch, First
<1>8. CASE notify
  BY <1>8 DEF notify, WakeWorker
<1>9. CASE destroy
  BY <1>9 DEF destroy
<1>10. CASE join
  BY <1>10 DEF join
<1>11. CASE workerCheckpoint
  BY <1>11 DEF workerCheckpoint, leavePauseWait, keepPauseWait, Executing, Handshake,
     NoWorkerBeforeStart
<1>12. CASE block
  BY <1>12 DEF block
<1>13. ASSUME NEW kind \in Kinds, NEW scopeAllowed \in BOOLEAN,
              workerRequestDecision(kind, scopeAllowed)
       PROVE  Cancellation'
  BY <1>13 DEF workerRequestDecision, Executing, Handshake, NoWorkerBeforeStart
<1>14. CASE keepAskWait
  BY <1>14 DEF keepAskWait
<1>15. CASE leaveAskWait
  BY <1>15 DEF leaveAskWait, Handshake, NoWorkerBeforeStart
<1>16. CASE mutate
  BY <1>16 DEF mutate, Executing, TypeOK, Handshake, NoWorkerBeforeStart
<1>17. CASE enqueueProgress
  BY <1>17 DEF enqueueProgress, Handshake, NoWorkerBeforeStart
<1>18. CASE executorReturns
  BY <1>18 DEF executorReturns
<1>19. CASE publishSummary
  BY <1>19 DEF publishSummary, Handshake, NoWorkerBeforeStart
<1>20. CASE spuriousWakeup
  BY <1>20 DEF spuriousWakeup, WakeWorker
<1>21. CASE Terminated
  BY <1>21 DEF Terminated, vars
<1>22. CASE UNCHANGED vars
  BY <1>22 DEF vars
<1> QED
  BY <1>1, <1>2, <1>3, <1>4, <1>5, <1>6, <1>7, <1>8, <1>9, <1>10, <1>11, <1>12, <1>13,
     <1>14, <1>15, <1>16, <1>17, <1>18, <1>19, <1>20, <1>21, <1>22
  DEF Next, UiNext, WorkerNext

LEMMA CancellationHolds == Spec => []Cancellation
<1>1. Init => Cancellation
  BY DEF Init, Cancellation, BeforeStart, CancellationTakesHold, CancellationStopsWork,
         NoUnanswerableRequestQueued
<1> QED
  BY <1>1, CancellationStep, TypeCorrectness, HandshakeHolds, PTL DEF Spec

(* At most the unit of work under way when the user cancels still happens,    *)
(* and nothing at all after a cancellation that came before the start.        *)
THEOREM CancellationIsEffective == Spec => []CancellationStopsWork
BY CancellationHolds, PTL DEF Cancellation

(* After cancel() no prompt that nobody can answer is left in the queue.      *)
THEOREM CancellationClearsRequests == Spec => []NoUnanswerableRequestQueued
BY CancellationHolds, PTL DEF Cancellation
-----------------------------------------------------------------------------
(* A stored answer was allowed and may be repeated; once stored it answers.   *)
LEMMA AnswersStep == TypeOK /\ Handshake /\ Answers /\ [Next]_vars => Answers'
<1> SUFFICES ASSUME TypeOK, Handshake, Answers, [Next]_vars
             PROVE  Answers'
  OBVIOUS
<1> USE DEF Answers, AnswerForAllIsFinal, statusVars, slotVars, queueVars, deliveryVars, jobVars, workerVars, uiVars
<1>1. CASE start
  BY <1>1 DEF start
<1>2. CASE cancelBeforeStart
  BY <1>2 DEF cancelBeforeStart
<1>3. CASE cancel
  BY <1>3 DEF cancel, WithoutRequests
<1>4. ASSUME NEW paused \in BOOLEAN, setPaused(paused)
      PROVE  Answers'
  BY <1>4 DEF setPaused
<1>5. ASSUME NEW request \in presented, NEW action \in DecisionAction, NEW scope \in Scope,
             submitDecision(request, action, scope)
      PROVE  Answers'
  BY <1>5 DEF submitDecision, hasPendingDecision
<1>6. CASE drain
  BY <1>6 DEF drain
<1>7. ASSUME NEW event \in First(batch), dispatch(event)
      PROVE  Answers'
  BY <1>7 DEF dispatch
<1>8. CASE notify
  BY <1>8 DEF notify
<1>9. CASE destroy
  BY <1>9 DEF destroy
<1>10. CASE join
  BY <1>10 DEF join
<1>11. CASE workerCheckpoint
  BY <1>11 DEF workerCheckpoint
<1>12. CASE block
  BY <1>12 DEF block
<1>13. ASSUME NEW kind \in Kinds, NEW scopeAllowed \in BOOLEAN,
              workerRequestDecision(kind, scopeAllowed)
       PROVE  Answers'
  <2>1. submittedDecision = NoDecision
    BY <1>13 DEF workerRequestDecision, Executing, Handshake, DecisionSlot
  <2>2. CASE cancelRequested
    BY <1>13, <2>2 DEF workerRequestDecision
  <2>3. CASE ~cancelRequested
    BY <1>13, <2>1, <2>3 DEF workerRequestDecision, HasRememberedAnswer
  <2> QED
    BY <2>2, <2>3
<1>14. CASE keepAskWait
  BY <1>14 DEF keepAskWait
<1>15. CASE leaveAskWait
  <2>1. pendingRequest' = NoRequest /\ submittedDecision' = NoDecision
    BY <1>15 DEF leaveAskWait
  <2>2. ASSUME NEW kind \in IssueKind, remembered'[kind] # NoAction
        PROVE  /\ remembered'[kind] \in allowedActionsFor(kind)
               /\ isActionRememberable(kind, remembered'[kind])
    <3>1. CASE remembered' = remembered
      BY <2>2, <3>1
    <3>2. CASE remembered' # remembered
      <4>1. /\ submittedDecision # NoDecision
            /\ isActionRememberable(pendingRequest.kind, submittedDecision.action)
            /\ remembered' = [remembered EXCEPT ![pendingRequest.kind] = submittedDecision.action]
        BY <1>15, <3>2 DEF leaveAskWait, Remember, AskOver
      <4>2. submittedDecision.action \in allowedActionsFor(pendingRequest.kind)
        BY <4>1 DEF IsAnswerTo
      <4>3. CASE kind = pendingRequest.kind
        BY <4>1, <4>2, <4>3 DEF TypeOK
      <4>4. CASE kind # pendingRequest.kind
        BY <2>2, <4>1, <4>4 DEF TypeOK
      <4> QED
        BY <4>3, <4>4
    <3> QED
      BY <3>1, <3>2
  <2> QED
    BY <2>1, <2>2
<1>16. CASE mutate
  BY <1>16 DEF mutate
<1>17. CASE enqueueProgress
  BY <1>17 DEF enqueueProgress
<1>18. CASE executorReturns
  BY <1>18 DEF executorReturns
<1>19. CASE publishSummary
  BY <1>19 DEF publishSummary
<1>20. CASE spuriousWakeup
  BY <1>20 DEF spuriousWakeup
<1>21. CASE Terminated
  BY <1>21 DEF Terminated, vars
<1>22. CASE UNCHANGED vars
  BY <1>22 DEF vars
<1> QED
  BY <1>1, <1>2, <1>3, <1>4, <1>5, <1>6, <1>7, <1>8, <1>9, <1>10, <1>11, <1>12, <1>13,
     <1>14, <1>15, <1>16, <1>17, <1>18, <1>19, <1>20, <1>21, <1>22
  DEF Next, UiNext, WorkerNext

(* "Apply to all" is final, and nothing that must not be repeated unattended  *)
(* is ever remembered.                                                        *)
THEOREM RememberedAnswersAreFinal == Spec => []AnswerForAllIsFinal
<1>1. Init => Answers
  BY DEF Init, Answers, AnswerForAllIsFinal
<1>2. Answers => AnswerForAllIsFinal
  BY DEF Answers
<1> QED
  BY <1>1, <1>2, AnswersStep, TypeCorrectness, HandshakeHolds, PTL DEF Spec

-----------------------------------------------------------------------------
(* Stamps can be compared.                                                    *)
LEMMA StampsAreNumbers == TypeOK => clock \in Nat /\ \A e \in events \cup batch : e.stamp \in Nat
  BY MaxEventsAssumption
  DEF TypeOK, Stamp, OperationEvent, ProgressSnapshot, DecisionRequest, OperationSummary

(* Every event but the summary was produced before the clock's value, and the *)
(* summary is the worker's last act.                                          *)
LEMMA SummaryStep == TypeOK /\ Cancellation /\ Handshake /\ Summary /\ [Next]_vars => Summary'
<1> SUFFICES ASSUME TypeOK, Cancellation, Handshake, Summary, [Next]_vars
             PROVE  Summary'
  OBVIOUS
<1> USE DEF Summary, SummaryExactlyOnceAndLast, SummariesIn, statusVars, slotVars, queueVars, deliveryVars, jobVars, workerVars, uiVars
<1>1. CASE start
  BY <1>1 DEF start, Handshake, NoWorkerBeforeStart
<1>2. CASE cancelBeforeStart
  BY <1>2 DEF cancelBeforeStart
<1>3. CASE cancel
  <2>1. \A e \in events : e \in events' \/ e.type = "decision"
    BY <1>3 DEF cancel, WithoutRequests, DecisionsIn
  <2>2. events' \subseteq events /\ UNCHANGED <<batch, finished, summaries, worker, clock>>
    BY <1>3 DEF cancel, WithoutRequests
  <2> QED
    BY <2>1, <2>2
<1>4. ASSUME NEW paused \in BOOLEAN, setPaused(paused)
      PROVE  Summary'
  BY <1>4 DEF setPaused
<1>5. ASSUME NEW request \in presented, NEW action \in DecisionAction, NEW scope \in Scope,
             submitDecision(request, action, scope)
      PROVE  Summary'
  BY <1>5 DEF submitDecision
<1>6. CASE drain
  BY <1>6 DEF drain
<1>7. ASSUME NEW event \in First(batch), dispatch(event)
      PROVE  Summary'
  <2>1. /\ event \in batch /\ batch' = batch \ {event} /\ UNCHANGED <<events, finished, worker, clock>>
        /\ \A f \in batch : event.stamp <= f.stamp
        /\ summaries' = IF event.type = "summary" THEN summaries + 1 ELSE summaries
    BY <1>7 DEF dispatch, First
  <2>2. CASE event.type # "summary"
    BY <2>1, <2>2
  <2>3. CASE event.type = "summary"
    <3>1. finished /\ summaries = 0
      BY <2>1, <2>3
    <3>2. \A e \in (events \cup batch) \ {event} : e.stamp < event.stamp
      BY <2>1, <2>3, <3>1
    <3>3. batch' = {}
      BY <2>1, <3>2, StampsAreNumbers
    <3>4. events = {}
      BY <2>1, <3>2, StampsAreNumbers
    <3> QED
      BY <2>1, <2>3, <3>1, <3>3, <3>4
  <2> QED
    BY <2>2, <2>3
<1>8. CASE notify
  BY <1>8 DEF notify, WakeWorker
<1>9. CASE destroy
  BY <1>9 DEF destroy
<1>10. CASE join
  BY <1>10 DEF join
<1>11. CASE workerCheckpoint
  BY <1>11 DEF workerCheckpoint, leavePauseWait, keepPauseWait, Executing
<1>12. CASE block
  BY <1>12 DEF block, MutexFree
<1>13. ASSUME NEW kind \in Kinds, NEW scopeAllowed \in BOOLEAN,
              workerRequestDecision(kind, scopeAllowed)
       PROVE  Summary'
  <2>1. CASE cancelRequested
    BY <1>13, <2>1 DEF workerRequestDecision
  <2>2. CASE ~cancelRequested
    <3> DEFINE request == [type |-> "decision", stamp |-> clock, kind |-> kind,
                           remainingMatchingScopeAllowed |-> scopeAllowed]
    <3>1. /\ ~finished /\ worker' = "askBlocking" /\ UNCHANGED <<finished, summaries, batch>>
          /\ events' = events \cup {request} /\ clock' = clock + 1
      BY <1>13, <2>2 DEF workerRequestDecision, Executing
    <3> HIDE DEF request
    <3>2. request.type = "decision" /\ request.stamp = clock
      BY DEF request
    <3>3. \A e \in events \cup batch : e.type # "summary" /\ e.stamp < clock
      BY <3>1
    <3>4. request \notin batch
      BY <3>2, <3>3, StampsAreNumbers
    <3> QED
      BY <3>1, <3>2, <3>3, <3>4, StampsAreNumbers
  <2> QED
    BY <2>1, <2>2
<1>14. CASE keepAskWait
  BY <1>14 DEF keepAskWait
<1>15. CASE leaveAskWait
  BY <1>15 DEF leaveAskWait
<1>16. CASE mutate
  BY <1>16 DEF mutate
<1>17. CASE enqueueProgress
  <2> DEFINE snapshot == [type |-> "progress", stamp |-> clock]
  <2>1. /\ ~finished /\ UNCHANGED <<finished, summaries, batch, worker>>
        /\ events' = (events \ Superseded(events)) \cup {snapshot} /\ clock' = clock + 1
    BY <1>17 DEF enqueueProgress
  <2>2. events' \subseteq events \cup {snapshot}
    BY <2>1
  <2> HIDE DEF snapshot
  <2>3. snapshot.type = "progress" /\ snapshot.stamp = clock
    BY DEF snapshot
  <2>4. \A e \in events \cup batch : e.type # "summary" /\ e.stamp < clock
    BY <2>1
  <2>5. snapshot \notin batch
    BY <2>3, <2>4, StampsAreNumbers
  <2> QED
    BY <2>1, <2>2, <2>3, <2>4, <2>5, StampsAreNumbers
<1>18. CASE executorReturns
  BY <1>18 DEF executorReturns
<1>19. CASE publishSummary
  <2> DEFINE summary == [type |-> "summary", stamp |-> clock, status |-> verdict]
  <2>1. /\ ~finished /\ finished' /\ worker' = "ended" /\ UNCHANGED <<summaries, batch, clock>>
        /\ events' = events \cup {summary}
    BY <1>19 DEF publishSummary
  <2> HIDE DEF summary
  <2>2. summary.type = "summary" /\ summary.stamp = clock
    BY DEF summary
  <2>3. \A e \in events \cup batch : e.type # "summary" /\ e.stamp < clock
    BY <2>1
  <2>4. summary \notin batch /\ summaries = 0
    BY <2>1, <2>2, <2>3
  <2> QED
    BY <2>1, <2>2, <2>3, <2>4, StampsAreNumbers
<1>20. CASE spuriousWakeup
  BY <1>20 DEF spuriousWakeup, WakeWorker
<1>21. CASE Terminated
  BY <1>21 DEF Terminated, vars
<1>22. CASE UNCHANGED vars
  BY <1>22 DEF vars
<1> QED
  BY <1>1, <1>2, <1>3, <1>4, <1>5, <1>6, <1>7, <1>8, <1>9, <1>10, <1>11, <1>12, <1>13,
     <1>14, <1>15, <1>16, <1>17, <1>18, <1>19, <1>20, <1>21, <1>22
  DEF Next, UiNext, WorkerNext

LEMMA SummaryHolds == Spec => []Summary
<1>1. Init => Summary
  BY DEF Init, Summary, SummaryExactlyOnceAndLast, SummariesIn
<1> QED
  BY <1>1, SummaryStep, TypeCorrectness, HandshakeHolds, CancellationHolds, PTL DEF Spec

(* The listener is told the outcome exactly once, and nothing after it: the   *)
(* contract of Finished (cfileoperationjob.h:81).                             *)
THEOREM SummaryIsDeliveredOnceAndLast == Spec => []SummaryExactlyOnceAndLast
BY SummaryHolds, PTL DEF Summary
-----------------------------------------------------------------------------
(* Every step but three leaves the queue's order alone; the three are the     *)
(* cancellation, which leaves no barrier, and what the worker appends.        *)
LEMMA BarriersStep ==
  TypeOK /\ Summary /\ [Next]_vars
    => \/ UNCHANGED events
       \/ \A barrier \in DecisionsIn(events) \cap DecisionsIn(events') :
            {e \in events' : e.stamp < barrier.stamp} = {e \in events : e.stamp < barrier.stamp}
<1> SUFFICES ASSUME TypeOK, Summary, [Next]_vars, events' # events,
                    NEW barrier \in DecisionsIn(events) \cap DecisionsIn(events')
             PROVE  {e \in events' : e.stamp < barrier.stamp}
                      = {e \in events : e.stamp < barrier.stamp}
  OBVIOUS
<1> USE DEF statusVars, slotVars, queueVars, deliveryVars, jobVars, workerVars, uiVars
<1>0. barrier \in events /\ barrier \in events' /\ barrier.type = "decision"
  BY DEF DecisionsIn
(* Nothing produced now comes before it.                                      *)
<1>1. barrier.stamp \in Nat /\ barrier.stamp < clock
  BY <1>0, StampsAreNumbers DEF Summary
<1>2. ASSUME NEW e, events' = events \cup {e}, e.stamp = clock
      PROVE  {f \in events' : f.stamp < barrier.stamp} = {f \in events : f.stamp < barrier.stamp}
  BY <1>1, <1>2, StampsAreNumbers
<1>3. CASE cancel
  BY <1>0, <1>3 DEF cancel, WithoutRequests, DecisionsIn
<1>4. CASE drain
  BY <1>0, <1>4 DEF drain
<1>5. ASSUME NEW kind \in Kinds, NEW scopeAllowed \in BOOLEAN,
             workerRequestDecision(kind, scopeAllowed)
      PROVE  {e \in events' : e.stamp < barrier.stamp} = {e \in events : e.stamp < barrier.stamp}
  <2> DEFINE request == [type |-> "decision", stamp |-> clock, kind |-> kind,
                         remainingMatchingScopeAllowed |-> scopeAllowed]
  <2>1. events' = events \cup {request}
    BY <1>5 DEF workerRequestDecision
  <2>2. request.stamp = clock
    OBVIOUS
  <2> QED
    BY <1>2, <2>1, <2>2
(* What a snapshot replaces was the last of the queue: it did not precede the *)
(* barrier.                                                                   *)
<1>6. CASE enqueueProgress
  <2> DEFINE snapshot == [type |-> "progress", stamp |-> clock]
  <2>1. events' = (events \ Superseded(events)) \cup {snapshot}
    BY <1>6 DEF enqueueProgress
  <2>2. snapshot.stamp = clock
    OBVIOUS
  <2> HIDE DEF snapshot
  <2>3. \A e \in Superseded(events) : e \in events /\ barrier.stamp <= e.stamp
    BY <1>0 DEF Superseded, Last
  <2> QED
    BY <1>1, <2>1, <2>2, <2>3, StampsAreNumbers
<1>7. CASE publishSummary
  <2> DEFINE summary == [type |-> "summary", stamp |-> clock, status |-> verdict]
  <2>1. events' = events \cup {summary}
    BY <1>7 DEF publishSummary
  <2>2. summary.stamp = clock
    OBVIOUS
  <2> QED
    BY <1>2, <2>1, <2>2
(* The others leave the queue as it is.                                       *)
<1>8. CASE start \/ cancelBeforeStart \/ notify \/ destroy \/ join \/ \E paused \in BOOLEAN : setPaused(paused)
  BY <1>8 DEF start, cancelBeforeStart, notify, destroy, join, setPaused, WakeWorker
<1>9. CASE \E request \in presented, action \in DecisionAction, scope \in Scope :
             submitDecision(request, action, scope)
  BY <1>9 DEF submitDecision
<1>10. CASE \E event \in First(batch) : dispatch(event)
  BY <1>10 DEF dispatch
<1>11. CASE workerCheckpoint \/ block \/ keepAskWait \/ leaveAskWait \/ mutate \/ executorReturns
  BY <1>11 DEF workerCheckpoint, leavePauseWait, keepPauseWait, Executing, block, keepAskWait,
     leaveAskWait, mutate, executorReturns
<1>12. CASE spuriousWakeup \/ Terminated \/ UNCHANGED vars
  BY <1>12 DEF spuriousWakeup, WakeWorker, Terminated, vars
<1> QED
  BY <1>3, <1>4, <1>5, <1>6, <1>7, <1>8, <1>9, <1>10, <1>11, <1>12 DEF Next, UiNext, WorkerNext

(* A decision request is a barrier for as long as it is queued: progress is   *)
(* merged behind it only (cfileoperationjob.cpp:144-160).                     *)
THEOREM BarriersAreKept == Spec => BarriersStayInPlace
<1>1. TypeOK /\ Summary /\ [Next]_vars
        => [\A barrier \in DecisionsIn(events) \cap DecisionsIn(events') :
              {e \in events' : e.stamp < barrier.stamp}
                = {e \in events : e.stamp < barrier.stamp}]_events
  BY BarriersStep
<1> QED
  BY <1>1, TypeCorrectness, SummaryHolds, PTL DEF Spec, BarriersStayInPlace

-----------------------------------------------------------------------------
(* The call stack.                                                         *)

Frame ==
  {DrainFrame}
  \cup [call: {"presentDecision"}, request: DecisionRequest]
  \cup [call: {"confirmCancellation"}, closing: BOOLEAN, wasPaused: BOOLEAN,
        wasDraining: BOOLEAN]

(* A drain is the lowest call and a prompt stands on it; the guard is up     *)
(* exactly while there is a call, and each question remembers whether it was *)
(* up.  There is no call before the operation starts.                       *)
StackIsNested ==
  /\ stack \in Seq(Frame)
  /\ Len(stack) <= MaxDepth
  /\ \A i \in DOMAIN stack :
       /\ stack[i].call = "drainEvents" => i = 1
       /\ stack[i].call = "presentDecision" =>
            i = 2 /\ stack[1] = DrainFrame /\ stack[i].request \in presented
       /\ stack[i].call = "confirmCancellation" => stack[i].wasDraining = (i # 1)
  /\ _draining = (stack # <<>>)
  /\ ~started => stack = <<>>

FlagsAreBoolean ==
  /\ _draining \in BOOLEAN /\ _paused \in BOOLEAN /\ userPaused \in BOOLEAN
  /\ visible \in BOOLEAN /\ firstShowDue \in BOOLEAN /\ recycleDue \in BOOLEAN
  /\ disposed \in BOOLEAN /\ acknowledged \in BOOLEAN
  /\ _isInBackgroundMode \in BOOLEAN /\ _dismissedWhileRunning \in BOOLEAN
  /\ _result \in Result \cup {NoResult}

(* What the type of the dialog's state rests on, the job's included.         *)
DialogShape == TypeOK /\ StackIsNested /\ FlagsAreBoolean

-----------------------------------------------------------------------------
(* What the dialog knows of the job and the user.                          *)

Prompts == Calls("presentDecision")
Questions == Calls("confirmCancellation")

(* A prompt is of a live operation, on screen, and about the request the     *)
(* worker waits on; so is a request on its way to the user, of which there   *)
(* is none beside a prompt.                                                 *)
RequestsAreAwaited ==
  ~cancelRequested =>
    /\ \A e \in DecisionsIn(events \cup batch) :
         pendingRequest = e /\ submittedDecision = NoDecision
    /\ \A i \in Prompts :
         /\ visible
         /\ pendingRequest = stack[i].request /\ submittedDecision = NoDecision
         /\ DecisionsIn(events \cup batch) = {}

(* The lowest question remembers what the user chose, the ones above it that *)
(* the operation is paused already.                                         *)
PausesAreNested ==
  /\ _paused = pauseRequested
  /\ ~started => ~_paused /\ ~userPaused
  /\ ~cancelRequested =>
       /\ \A i \in Questions :
            /\ _paused
            /\ stack[i].wasPaused = (userPaused \/ \E j \in Questions : j < i)
       /\ Questions = {} => _paused = userPaused

(* There is a result once the summary was delivered, which no question is    *)
(* asked after, and nothing to dispose of before.                           *)
ResultIsTheSummary ==
  /\ _result = NoResult <=> summaries = 0
  /\ Questions # {} => _result = NoResult
  /\ disposed => _result # NoResult
  /\ OutcomeIsShown

DialogInv == RequestsAreAwaited /\ PausesAreNested /\ ResultIsTheSummary /\ AnswersMatchRequests

-----------------------------------------------------------------------------
(* A call that begins is on top, and the one that returns leaves the others. *)
LEMMA PushFacts ==
  ASSUME NEW S, NEW s \in Seq(S), NEW f \in S
  PROVE  /\ Append(s, f) \in Seq(S)
         /\ Len(s) \in Nat
         /\ Len(Append(s, f)) = Len(s) + 1
         /\ DOMAIN s = 1..Len(s)
         /\ DOMAIN Append(s, f) = 1..(Len(s) + 1)
         /\ \A i \in 1..Len(s) : Append(s, f)[i] = s[i]
         /\ Append(s, f)[Len(s) + 1] = f
<1>1. /\ Append(s, f) \in Seq(S)
      /\ Len(Append(s, f)) = Len(s) + 1
      /\ \A i \in 1..Len(s) : Append(s, f)[i] = s[i]
      /\ Append(s, f)[Len(s) + 1] = f
  BY AppendProperties
<1>2. Len(s) \in Nat /\ DOMAIN s = 1..Len(s)
  BY LenProperties
<1>3. DOMAIN Append(s, f) = 1..Len(Append(s, f))
  BY <1>1, LenProperties
<1> QED BY <1>1, <1>2, <1>3

LEMMA PopFacts ==
  ASSUME NEW S, NEW s \in Seq(S), s # <<>>
  PROVE  LET t == SubSeq(s, 1, Len(s) - 1) IN
         /\ t \in Seq(S)
         /\ Len(s) \in Nat \ {0}
         /\ Len(t) = Len(s) - 1
         /\ DOMAIN s = 1..Len(s)
         /\ DOMAIN t = 1..(Len(s) - 1)
         /\ \A i \in 1..(Len(s) - 1) : t[i] = s[i]
         /\ s[Len(s)] \in S
         /\ t = <<>> <=> Len(s) = 1
<1> DEFINE t == SubSeq(s, 1, Len(s) - 1)
<1>1. Len(s) \in Nat \ {0} /\ DOMAIN s = 1..Len(s) /\ \A i \in 1..Len(s) : s[i] \in S
  BY EmptySeq, LenProperties, ElementOfSeq
<1>2. /\ t \in Seq(S)
      /\ Len(t) = IF 1 <= Len(s) - 1 THEN (Len(s) - 1) - 1 + 1 ELSE 0
      /\ \A i \in 1..((Len(s) - 1) - 1 + 1) : t[i] = s[1 + i - 1]
  <2>1. 1 \in Int /\ Len(s) - 1 \in Int /\ \A i \in 1..(Len(s) - 1) : s[i] \in S
    BY <1>1
  <2> QED BY <2>1, SubSeqProperties
<1>3. Len(t) = Len(s) - 1 /\ \A i \in 1..(Len(s) - 1) : t[i] = s[i]
  BY <1>1, <1>2
<1>4. DOMAIN t = 1..(Len(s) - 1)
  BY <1>2, <1>3, LenProperties
<1>5. t = <<>> <=> Len(s) = 1
  <2>1. Len(s) = 1 => t = <<>>
    BY SubSeqEmpty
  <2>2. t = <<>> => Len(t) = 0
    BY EmptySeq
  <2> QED BY <1>1, <1>3, <2>1, <2>2
<1> QED BY <1>1, <1>2, <1>3, <1>4, <1>5

-----------------------------------------------------------------------------
(* Whatever the dialog does is something the job's interface allows: it      *)
(* answers only requests the job has presented.                             *)
LEMMA DialogStepIsJobStep == DialogShape /\ [DialogNext]_allVars => [Next]_vars
<1> SUFFICES ASSUME DialogShape, [DialogNext]_allVars
             PROVE  [Next]_vars
  OBVIOUS
<1> USE DEF Next
<1>1. CASE startDialog
  BY <1>1 DEF startDialog, UiNext
<1>2. CASE firstShow \/ drainReturns \/ switchToBackground \/ recycleWindow \/ closeFinished
  BY <1>2 DEF firstShow, drainReturns, switchToBackground, recycleWindow, closeFinished
<1>3. CASE drainEvents
  BY <1>3 DEF drainEvents, UiNext
<1>4. CASE Dispatch
  <2>1. PICK event \in First(batch) : dispatch(event)
    BY <1>4 DEF Dispatch, renderProgress, handleDecisionRequest, handleCompletion
  <2> QED BY <2>1 DEF UiNext
<1>5. ASSUME NEW action \in DecisionAction, NEW scope \in Scope, answerPrompt(action, scope)
      PROVE  [Next]_vars
  <2>1. CASE ~hasPendingDecision
    BY <1>5, <2>1 DEF answerPrompt
  <2>2. CASE hasPendingDecision
    <3>1. submitDecision(Top.request, action, scope)
      BY <1>5, <2>2 DEF answerPrompt
    <3>2. Top.request \in presented
      <4>1. stack # <<>> /\ Top.call = "presentDecision"
        BY <1>5 DEF answerPrompt, Running
      <4>2. Len(stack) \in DOMAIN stack
        BY <4>1, PopFacts DEF DialogShape, StackIsNested
      <4> QED BY <4>1, <4>2 DEF DialogShape, StackIsNested, Top
    <3> QED BY <3>1, <3>2 DEF UiNext
  <2> QED BY <2>1, <2>2
<1>6. CASE confirmYes
  BY <1>6 DEF confirmYes, UiNext
<1>7. ASSUME NEW paused \in BOOLEAN, DialogSetPaused(paused)
      PROVE  [Next]_vars
  BY <1>7 DEF DialogSetPaused, UiNext
<1>8. CASE confirmNo
  <2>1. (_paused /\ (Top.wasPaused \/ _result # NoResult)) \in BOOLEAN
    OBVIOUS
  <2> QED BY <1>7, <1>8, <2>1 DEF confirmNo
<1>9. CASE togglePause
  <2>1. (~_paused) \in BOOLEAN
    OBVIOUS
  <2> QED BY <1>7, <1>9, <2>1 DEF togglePause
<1>10. CASE pressCancel \/ closeRunning
  BY <1>7, <1>10 DEF pressCancel, closeRunning, askForConfirmation
<1>11. CASE destroyDialog
  BY <1>11 DEF destroyDialog, UiNext
<1>12. CASE Worker \/ Notify \/ Join
  BY <1>12 DEF Worker, Notify, Join, UiNext
<1>13. CASE (spuriousWakeup /\ UNCHANGED dialogVars) \/ (Terminated /\ UNCHANGED dialogVars)
  BY <1>13
<1>14. CASE UNCHANGED allVars
  BY <1>14 DEF allVars
<1> QED
  BY <1>1, <1>2, <1>3, <1>4, <1>5, <1>6, <1>8, <1>9, <1>10, <1>11, <1>12, <1>13, <1>14
     DEF DialogNext, UserAnswers

(* The operation does not go back to before it was started, and what was     *)
(* presented stays presented.                                               *)
LEMMA JobGrows ==
  [Next]_vars => presented \subseteq presented' /\ (started => started')
<1> SUFFICES ASSUME [Next]_vars
             PROVE  presented \subseteq presented' /\ (started => started')
  OBVIOUS
<1> USE DEF vars, statusVars, slotVars, queueVars, deliveryVars, jobVars, workerVars, uiVars
<1>1. CASE UiNext
  BY <1>1 DEF UiNext, start, cancelBeforeStart, cancel, setPaused, submitDecision, drain,
     dispatch, notify, destroy, join
<1>2. CASE WorkerNext
  BY <1>2 DEF WorkerNext, workerCheckpoint, block, workerRequestDecision, keepAskWait,
     leaveAskWait, mutate, enqueueProgress, executorReturns, publishSummary
<1>3. CASE spuriousWakeup \/ Terminated \/ UNCHANGED vars
  BY <1>3 DEF spuriousWakeup, Terminated
<1> QED BY <1>1, <1>2, <1>3 DEF Next

-----------------------------------------------------------------------------
(* The call stack through a step that leaves it alone, and one that returns  *)
(* from the call on top.                                                    *)
LEMMA StackStays ==
  ASSUME StackIsNested, UNCHANGED <<stack, _draining>>,
         presented \subseteq presented', started => started'
  PROVE  StackIsNested'
BY DEF StackIsNested

LEMMA StackReturns ==
  ASSUME StackIsNested, stack # <<>>, Pop, _draining' = (Len(stack) # 1),
         presented \subseteq presented', started => started'
  PROVE  StackIsNested'
<1>1. /\ stack' \in Seq(Frame)
      /\ Len(stack) \in Nat \ {0} /\ Len(stack') = Len(stack) - 1
      /\ DOMAIN stack = 1..Len(stack)
      /\ DOMAIN stack' = 1..(Len(stack) - 1)
      /\ \A i \in 1..(Len(stack) - 1) : stack'[i] = stack[i]
      /\ stack' = <<>> <=> Len(stack) = 1
  BY PopFacts DEF StackIsNested, Pop
<1>2. Len(stack') <= MaxDepth
  BY <1>1, MaxDepthAssumption DEF StackIsNested
<1>3. \A i \in DOMAIN stack' : i \in DOMAIN stack /\ stack'[i] = stack[i] /\ stack'[1] = stack[1]
  BY <1>1
<1> QED BY <1>1, <1>2, <1>3 DEF StackIsNested

(* The stack through a call that begins.                                    *)
LEMMA StackCalls ==
  ASSUME StackIsNested, NEW f \in Frame, stack' = Append(stack, f), _draining',
         _draining' \in BOOLEAN, Len(stack) < MaxDepth, started,
         f.call = "drainEvents" => stack = <<>>,
         f.call = "presentDecision" =>
           Len(stack) = 1 /\ stack[1] = DrainFrame /\ f.request \in presented',
         f.call = "confirmCancellation" => f.wasDraining = _draining,
         presented \subseteq presented', started => started'
  PROVE  StackIsNested'
<1>1. /\ stack' \in Seq(Frame)
      /\ Len(stack) \in Nat
      /\ Len(stack') = Len(stack) + 1
      /\ DOMAIN stack = 1..Len(stack)
      /\ DOMAIN stack' = 1..(Len(stack) + 1)
      /\ \A i \in 1..Len(stack) : stack'[i] = stack[i]
      /\ stack'[Len(stack) + 1] = f
  BY PushFacts DEF StackIsNested
<1>2. stack' # <<>> /\ (stack = <<>> <=> Len(stack) = 0)
  BY <1>1, EmptySeq DEF StackIsNested
<1>3. Len(stack') <= MaxDepth
  BY <1>1, MaxDepthAssumption
<1>4. ASSUME NEW i \in DOMAIN stack'
      PROVE  /\ stack'[i].call = "drainEvents" => i = 1
             /\ stack'[i].call = "presentDecision" =>
                  i = 2 /\ stack'[1] = DrainFrame /\ stack'[i].request \in presented'
             /\ stack'[i].call = "confirmCancellation" => stack'[i].wasDraining = (i # 1)
  <2>1. CASE i \in 1..Len(stack)
    <3>1. 1 \in 1..Len(stack) /\ i \in DOMAIN stack /\ stack'[i] = stack[i] /\ stack'[1] = stack[1]
      BY <1>1, <2>1
    <3> QED BY <3>1 DEF StackIsNested
  <2>2. CASE i = Len(stack) + 1
    <3>1. stack'[i] = f
      BY <1>1, <2>2
    <3>2. Len(stack) = 1 => stack'[1] = stack[1]
      BY <1>1
    <3>3. f.call = "confirmCancellation" => f.wasDraining = (i # 1)
      BY <1>1, <1>2, <2>2 DEF StackIsNested
    <3> QED BY <1>1, <1>2, <2>2, <3>1, <3>2, <3>3
  <2> QED BY <1>1, <2>1, <2>2
<1> QED BY <1>1, <1>2, <1>3, <1>4 DEF StackIsNested

(* The call that is on top.                                                 *)
LEMMA TopFacts ==
  ASSUME StackIsNested, stack # <<>>
  PROVE  /\ Len(stack) \in Nat \ {0} /\ DOMAIN stack = 1..Len(stack)
         /\ Top \in Frame /\ Top = stack[Len(stack)] /\ Len(stack) \in DOMAIN stack
         /\ Top.call = "drainEvents" => Len(stack) = 1 /\ stack[1] = DrainFrame
         /\ Top.call = "presentDecision" =>
              Len(stack) = 2 /\ stack[1] = DrainFrame /\ Top.request \in presented
         /\ Top.call = "confirmCancellation" => Top.wasDraining = (Len(stack) # 1)
<1>1. /\ Len(stack) \in Nat \ {0} /\ DOMAIN stack = 1..Len(stack)
      /\ Top \in Frame /\ Top = stack[Len(stack)] /\ Len(stack) \in DOMAIN stack
  BY PopFacts DEF StackIsNested, Top
<1>2. Top.call = "drainEvents" => Top = DrainFrame
  BY <1>1 DEF Frame, DrainFrame
<1> QED BY <1>1, <1>2 DEF StackIsNested

(* Every step of the dialog leaves the stack nested.                        *)
LEMMA StackStep == DialogShape /\ [DialogNext]_allVars => StackIsNested'
<1> SUFFICES ASSUME DialogShape, [DialogNext]_allVars
             PROVE  StackIsNested'
  OBVIOUS
<1>1. /\ presented \subseteq presented' /\ (started => started')
      /\ TypeOK /\ StackIsNested /\ FlagsAreBoolean
  BY DialogStepIsJobStep, JobGrows DEF DialogShape
<1>2. ASSUME UNCHANGED <<stack, _draining>> PROVE StackIsNested'
  BY <1>1, <1>2, StackStays
<1>3. CASE drainEvents
  <2>1. /\ Push(DrainFrame) /\ _draining' /\ _draining' \in BOOLEAN /\ stack = <<>> /\ started
    BY <1>1, <1>3 DEF drainEvents, StackIsNested
  <2>2. DrainFrame \in Frame /\ DrainFrame.call = "drainEvents" /\ Len(stack) < MaxDepth
    BY <2>1, EmptySeq, MaxDepthAssumption DEF Frame, DrainFrame
  <2> QED BY <1>1, <2>1, <2>2, StackCalls DEF Push
<1>4. CASE drainReturns
  <2>1. stack # <<>> /\ Len(stack) = 1 /\ Pop /\ ~_draining' /\ _draining' \in BOOLEAN
    BY <1>1, <1>4, TopFacts DEF drainReturns, Running
  <2> QED BY <1>1, <2>1, StackReturns
<1>5. ASSUME NEW event \in First(batch), handleDecisionRequest(event)
      PROVE  StackIsNested'
  <2>1. CASE ~hasPendingDecision
    BY <1>2, <1>5, <2>1 DEF handleDecisionRequest
  <2>2. CASE hasPendingDecision
    <3>1. /\ stack # <<>> /\ Top.call = "drainEvents" /\ event.type = "decision"
          /\ dispatch(event) /\ Push(PromptFrame(event)) /\ _draining' = _draining
      BY <1>5, <2>2 DEF handleDecisionRequest, Present, Running
    <3>2. Len(stack) = 1 /\ stack[1] = DrainFrame /\ _draining /\ started
      BY <1>1, <3>1, TopFacts DEF StackIsNested
    <3>3. event \in DecisionRequest /\ event \in presented'
      <4>1. event \in OperationEvent
        BY <1>1 DEF TypeOK, First
      <4> QED
        BY <3>1, <4>1 DEF dispatch, OperationEvent, ProgressSnapshot, OperationSummary, DecisionRequest
    <3>4. /\ PromptFrame(event) \in Frame /\ PromptFrame(event).call = "presentDecision"
          /\ PromptFrame(event).request = event
      BY <3>3 DEF PromptFrame, Frame
    <3>5. Len(stack) < MaxDepth
      BY <3>2, MaxDepthAssumption
    <3> QED BY <1>1, <3>1, <3>2, <3>3, <3>4, <3>5, StackCalls DEF Push
  <2> QED BY <2>1, <2>2
<1>6. ASSUME NEW action \in DecisionAction, NEW scope \in Scope, answerPrompt(action, scope)
      PROVE  StackIsNested'
  <2>1. /\ stack # <<>> /\ Top.call = "presentDecision" /\ Pop /\ _draining' = _draining
    BY <1>6 DEF answerPrompt, Running
  <2>2. _draining' = (Len(stack) # 1)
    BY <1>1, <2>1, TopFacts DEF StackIsNested
  <2> QED BY <1>1, <2>1, <2>2, StackReturns
<1>7. CASE confirmYes \/ confirmNo
  <2>1. /\ stack # <<>> /\ Top.call = "confirmCancellation" /\ Pop
        /\ _draining' = Top.wasDraining
    BY <1>7 DEF confirmYes, confirmNo, ConfirmationReturns, Running
  <2>2. _draining' = (Len(stack) # 1)
    BY <1>1, <2>1, TopFacts
  <2> QED BY <1>1, <2>1, <2>2, StackReturns
<1>8. ASSUME NEW closing \in BOOLEAN, askForConfirmation(closing), started,
             Len(stack) < MaxDepth
      PROVE  StackIsNested'
  <2>1. /\ Push(ConfirmFrame(closing)) /\ _draining' /\ _draining' \in BOOLEAN
    BY <1>8 DEF askForConfirmation
  <2>2. /\ ConfirmFrame(closing) \in Frame
        /\ ConfirmFrame(closing).call = "confirmCancellation"
        /\ ConfirmFrame(closing).wasDraining = _draining
    BY <1>1 DEF ConfirmFrame, Frame, FlagsAreBoolean
  <2> QED BY <1>1, <1>8, <2>1, <2>2, StackCalls DEF Push
<1>9. CASE pressCancel \/ closeRunning
  <2>1. CASE pressCancel
    <3>1. stack = <<>> /\ started /\ askForConfirmation(FALSE)
      BY <2>1 DEF pressCancel, Controls
    <3>2. Len(stack) < MaxDepth
      BY <3>1, EmptySeq, MaxDepthAssumption
    <3> QED BY <1>8, <3>1, <3>2
  <2>2. CASE closeRunning
    BY <1>8, <2>2 DEF closeRunning
  <2> QED BY <1>9, <2>1, <2>2
<1>10. CASE startDialog \/ firstShow \/ togglePause \/ switchToBackground \/ recycleWindow
            \/ closeFinished \/ destroyDialog
  BY <1>2, <1>10 DEF startDialog, firstShow, togglePause, switchToBackground, recycleWindow,
     closeFinished, destroyDialog
<1>11. ASSUME NEW event \in First(batch), NEW diagnostics \in BOOLEAN,
              renderProgress(event) \/ handleCompletion(event, diagnostics)
       PROVE  StackIsNested'
  BY <1>2, <1>11 DEF renderProgress, handleCompletion, dialogVars
<1>12. CASE UNCHANGED dialogVars
  BY <1>2, <1>12 DEF dialogVars
<1>13. CASE DialogNext
  BY <1>3, <1>4, <1>5, <1>6, <1>7, <1>9, <1>10, <1>11, <1>12, <1>13
     DEF DialogNext, UserAnswers, Dispatch, Worker, Notify, Join
<1> QED BY <1>12, <1>13 DEF allVars

(* Every step of the dialog leaves a flag a flag, and a result a result.    *)
LEMMA FlagsStep == DialogShape /\ [DialogNext]_allVars => FlagsAreBoolean'
<1> SUFFICES ASSUME DialogShape, [DialogNext]_allVars
             PROVE  FlagsAreBoolean'
  OBVIOUS
<1>1. TypeOK /\ StackIsNested /\ FlagsAreBoolean
  BY DEF DialogShape
<1> USE <1>1 DEF FlagsAreBoolean, flagVars, windowVars, endVars
<1>2. CASE startDialog \/ firstShow \/ drainEvents \/ drainReturns
  BY ZenonT(40), <1>2 DEF startDialog, firstShow, drainEvents, drainReturns
<1>3. ASSUME NEW event \in First(batch), renderProgress(event) \/ handleDecisionRequest(event)
      PROVE  FlagsAreBoolean'
  BY ZenonT(40), <1>3 DEF renderProgress, handleDecisionRequest, Present, dialogVars
<1>4. ASSUME NEW event \in First(batch), NEW diagnostics \in BOOLEAN,
             handleCompletion(event, diagnostics)
      PROVE  FlagsAreBoolean'
  <2> DEFINE summary == [status |-> event.status, diagnostics |-> diagnostics]
  <2>1. event.status \in CompletionStatus
    <3>1. event \in OperationEvent /\ event.type = "summary"
      BY <1>4 DEF TypeOK, First, handleCompletion
    <3> QED
      BY <3>1 DEF OperationEvent, ProgressSnapshot, OperationSummary, DecisionRequest
  <2>2. _result' \in Result
    BY <1>4, <2>1 DEF handleCompletion, Result
  <2>3. LeavesNoWindow(summary) \in BOOLEAN
    BY DEF LeavesNoWindow
  <2> QED BY <1>4, <2>2, <2>3 DEF handleCompletion
<1>5. ASSUME NEW action \in DecisionAction, NEW scope \in Scope, answerPrompt(action, scope)
      PROVE  FlagsAreBoolean'
  BY <1>5 DEF answerPrompt
<1>6. CASE confirmYes \/ confirmNo
  <2>1. stack # <<>> /\ Top.call = "confirmCancellation"
    BY <1>6 DEF confirmYes, confirmNo, ConfirmationReturns, Running
  <2>2. Top.wasDraining \in BOOLEAN /\ Top.closing \in BOOLEAN /\ Top.wasPaused \in BOOLEAN
    BY <2>1, TopFacts DEF Frame, DrainFrame
  <2>3. CASE confirmYes
    BY <2>2, <2>3 DEF confirmYes, ConfirmationReturns
  <2>4. CASE confirmNo
    BY <2>2, <2>4 DEF confirmNo, ConfirmationReturns, DialogSetPaused
  <2> QED BY <1>6, <2>3, <2>4
<1>7. CASE togglePause \/ pressCancel \/ closeRunning
  BY ZenonT(40), <1>7 DEF togglePause, pressCancel, closeRunning, askForConfirmation, DialogSetPaused
<1>8. CASE switchToBackground \/ recycleWindow \/ closeFinished \/ destroyDialog
  BY ZenonT(40), <1>8 DEF switchToBackground, recycleWindow, closeFinished, destroyDialog
<1>9. CASE UNCHANGED dialogVars
  BY <1>9 DEF dialogVars
<1>10. CASE DialogNext
  BY <1>2, <1>3, <1>4, <1>5, <1>6, <1>7, <1>8, <1>9, <1>10
     DEF DialogNext, UserAnswers, Dispatch, Worker, Notify, Join
<1> QED BY <1>9, <1>10 DEF allVars

LEMMA DialogShapeHolds == DialogSpec => []DialogShape
<1>1. DialogInit => DialogShape
  <2> SUFFICES ASSUME DialogInit PROVE DialogShape
    OBVIOUS
  <2>1. TypeOK
    BY InitTypeOK DEF DialogInit
  <2>2. StackIsNested
    <3>1. stack = <<>> /\ stack \in Seq(Frame) /\ Len(stack) = 0 /\ _draining = FALSE
      BY EmptySeq DEF DialogInit, Init
    <3>2. DOMAIN stack = {}
      BY <3>1, LenProperties
    <3>3. Len(stack) <= MaxDepth
      BY <3>1, MaxDepthAssumption
    <3> QED BY <3>1, <3>2, <3>3 DEF StackIsNested
  <2>3. FlagsAreBoolean
    BY DEF DialogInit, FlagsAreBoolean
  <2> QED BY <2>1, <2>2, <2>3 DEF DialogShape
<1>2. DialogShape /\ [DialogNext]_allVars => DialogShape'
  BY DialogStepIsJobStep, TypeStep, StackStep, FlagsStep DEF DialogShape
<1> QED BY <1>1, <1>2, PTL DEF DialogSpec

(* The dialog is a client the job can have: whatever it does, however its    *)
(* calls are nested, the job goes through a behaviour of its own             *)
(* specification, so that what is proved of the job holds under the dialog.  *)
THEOREM DialogKeepsTheContract == DialogSpec => Spec
<1>1. DialogInit => Init
  BY DEF DialogInit
<1> QED BY <1>1, DialogShapeHolds, DialogStepIsJobStep, PTL DEF DialogSpec, Spec

(* Type correctness of the dialog's state, for every bound of the stack that *)
(* leaves room for a drain and its prompt.                                  *)
THEOREM DialogTypeCorrectness == DialogSpec => []DialogTypeOK
<1>1. DialogShape => DialogTypeOK
  <2> SUFFICES ASSUME DialogShape PROVE DialogTypeOK
    OBVIOUS
  <2>1. ASSUME NEW i \in DOMAIN stack
        PROVE  stack[i] \in {DrainFrame} \cup {PromptFrame(r) : r \in presented}
                    \cup [call: {"confirmCancellation"}, closing: BOOLEAN,
                          wasPaused: BOOLEAN, wasDraining: BOOLEAN]
    <3>1. stack[i] \in Frame
      BY LenProperties, ElementOfSeq DEF DialogShape, StackIsNested
    <3>2. CASE stack[i] \in [call: {"presentDecision"}, request: DecisionRequest]
      <4>1. stack[i] = PromptFrame(stack[i].request)
        BY <3>2 DEF PromptFrame
      <4>2. stack[i].request \in presented
        BY <3>2 DEF DialogShape, StackIsNested
      <4> QED BY <4>1, <4>2
    <3> QED BY <3>1, <3>2 DEF Frame
  <2>2. Len(stack) <= MaxDepth
    BY DEF DialogShape, StackIsNested
  <2> QED BY <2>1, <2>2 DEF DialogShape, FlagsAreBoolean, DialogTypeOK
<1> QED BY <1>1, DialogShapeHolds, PTL

-----------------------------------------------------------------------------
(* The calls of a kind, when one begins and when one returns.               *)
LEMMA CallsAfterPush ==
  ASSUME StackIsNested, NEW f \in Frame, Push(f), NEW call
  PROVE  /\ f.call = call => Calls(call)' = Calls(call) \cup {Len(stack) + 1}
         /\ f.call # call => Calls(call)' = Calls(call)
         /\ Calls(call) \subseteq 1..Len(stack) /\ Len(stack) \in Nat
         /\ \A i \in Calls(call) : stack'[i] = stack[i]
         /\ stack'[Len(stack) + 1] = f
<1>1. /\ Len(stack) \in Nat
      /\ DOMAIN stack = 1..Len(stack)
      /\ DOMAIN stack' = 1..(Len(stack) + 1)
      /\ \A i \in 1..Len(stack) : stack'[i] = stack[i]
      /\ stack'[Len(stack) + 1] = f
  BY PushFacts DEF StackIsNested, Push
<1>2. 1..(Len(stack) + 1) = (1..Len(stack)) \cup {Len(stack) + 1}
  BY <1>1
<1> QED BY <1>1, <1>2 DEF Calls

LEMMA CallsAfterPop ==
  ASSUME StackIsNested, stack # <<>>, Pop, NEW call
  PROVE  /\ Calls(call)' = Calls(call) \ {Len(stack)}
         /\ Calls(call) \subseteq 1..Len(stack) /\ Len(stack) \in Nat \ {0}
         /\ \A i \in Calls(call)' : stack'[i] = stack[i]
         /\ (Top.call = call) = (Len(stack) \in Calls(call))
<1>1. /\ Len(stack) \in Nat \ {0}
      /\ DOMAIN stack = 1..Len(stack)
      /\ DOMAIN stack' = 1..(Len(stack) - 1)
      /\ \A i \in 1..(Len(stack) - 1) : stack'[i] = stack[i]
  BY PopFacts DEF StackIsNested, Pop
<1>2. 1..(Len(stack) - 1) = (1..Len(stack)) \ {Len(stack)}
  BY <1>1
<1> QED BY <1>1, <1>2 DEF Calls, Top

(* A question is put on top of what there is, and remembers it.             *)
LEMMA CallsAfterAsking ==
  ASSUME StackIsNested, FlagsAreBoolean, NEW closing \in BOOLEAN, Push(ConfirmFrame(closing))
  PROVE  /\ Prompts' = Prompts
         /\ Questions' = Questions \cup {Len(stack) + 1}
         /\ Questions \subseteq 1..Len(stack) /\ Len(stack) \in Nat
         /\ \A i \in Prompts \cup Questions : stack'[i] = stack[i]
         /\ stack'[Len(stack) + 1].wasPaused = _paused
<1> DEFINE f == ConfirmFrame(closing)
<1>1. f \in Frame /\ f.call = "confirmCancellation" /\ f.wasPaused = _paused
  BY DEF ConfirmFrame, Frame, FlagsAreBoolean
<1> HIDE DEF f
<1>2. Push(f)
  BY DEF f
<1>3. /\ Prompts' = Prompts
      /\ \A i \in Prompts : stack'[i] = stack[i]
  BY <1>1, <1>2, CallsAfterPush DEF Prompts
<1>4. /\ Questions' = Questions \cup {Len(stack) + 1}
      /\ Questions \subseteq 1..Len(stack) /\ Len(stack) \in Nat
      /\ \A i \in Questions : stack'[i] = stack[i]
      /\ stack'[Len(stack) + 1] = f
  BY <1>1, <1>2, CallsAfterPush DEF Questions
<1> QED BY <1>1, <1>3, <1>4

(* An empty stack has no calls, and prompts are the second of two at least.  *)
LEMMA CallsNow ==
  ASSUME StackIsNested
  PROVE  /\ stack = <<>> => \A call : Calls(call) = {}
         /\ Prompts \subseteq {2}
         /\ \A i \in Prompts : Len(stack) >= 2 /\ stack[i].request \in presented
         /\ Running("drainEvents") => Prompts = {} /\ Questions = {} /\ Len(stack) = 1
<1>1. Len(stack) \in Nat /\ DOMAIN stack = 1..Len(stack) /\ (stack = <<>> => Len(stack) = 0)
  BY LenProperties, EmptySeq DEF StackIsNested
<1>2. stack = <<>> => \A call : Calls(call) = {}
  BY <1>1 DEF Calls
<1>3. ASSUME NEW i \in Prompts
      PROVE  i = 2 /\ Len(stack) >= 2 /\ stack[i].request \in presented
  BY <1>1 DEF Prompts, Calls, StackIsNested
<1>4. ASSUME Running("drainEvents")
      PROVE  Prompts = {} /\ Questions = {} /\ Len(stack) = 1
  <2>1. Len(stack) = 1 /\ stack[1] = DrainFrame
    BY <1>4, TopFacts DEF Running
  <2>2. \A i \in DOMAIN stack : stack[i].call = "drainEvents"
    BY <1>1, <2>1 DEF DrainFrame
  <2> QED BY <2>1, <2>2 DEF Prompts, Questions, Calls
<1> QED BY <1>2, <1>3, <1>4

-----------------------------------------------------------------------------
(* Requests and prompts, through a step that puts no more of them there and  *)
(* leaves the decision slot alone.                                          *)
LEMMA AwaitedStays ==
  ASSUME RequestsAreAwaited,
         UNCHANGED <<cancelRequested, pendingRequest, submittedDecision>>,
         DecisionsIn(events \cup batch)' \subseteq DecisionsIn(events \cup batch),
         Prompts' \subseteq Prompts, \A i \in Prompts' : stack'[i] = stack[i],
         Prompts' # {} /\ visible => visible'
  PROVE  RequestsAreAwaited'
BY DEF RequestsAreAwaited

(* A prompt is of a decision request.                                       *)
LEMMA PromptsAreOfRequests ==
  ASSUME TypeOK, StackIsNested
  PROVE  \A i \in Prompts : stack[i].request \in DecisionRequest
                              /\ stack[i].request # NoRequest
<1>1. \A r \in DecisionRequest : r # NoRequest
  BY DEF DecisionRequest, NoRequest
<1> QED BY <1>1, CallsNow DEF TypeOK

(* The worker asks only when no request is awaited, and leaves its wait only  *)
(* with the answer, or cancelled.                                           *)
LEMMA WorkerAwaits ==
  ASSUME TypeOK, StackIsNested, Handshake, RequestsAreAwaited, WorkerNext,
         UNCHANGED dialogVars
  PROVE  RequestsAreAwaited'
<1> USE DEF dialogVars, windowVars, jobVars, statusVars, slotVars, queueVars, workerVars, uiVars,
            deliveryVars
<1>1. Prompts' = Prompts /\ stack' = stack /\ visible' = visible /\ batch' = batch
  BY DEF Prompts, Calls, WorkerNext, workerCheckpoint, block, workerRequestDecision, keepAskWait,
     leaveAskWait, mutate, enqueueProgress, executorReturns, publishSummary
<1>2. CASE workerCheckpoint \/ block \/ keepAskWait \/ mutate \/ executorReturns
  <2>1. UNCHANGED <<cancelRequested, pendingRequest, submittedDecision, events>>
    BY <1>2 DEF workerCheckpoint, block, keepAskWait, mutate, executorReturns
  <2> QED BY <1>1, <2>1 DEF RequestsAreAwaited, DecisionsIn
<1>3. ASSUME NEW kind \in Kinds, NEW scopeAllowed \in BOOLEAN,
             workerRequestDecision(kind, scopeAllowed)
      PROVE  RequestsAreAwaited'
  <2>1. CASE cancelRequested
    BY <1>3, <2>1 DEF workerRequestDecision, RequestsAreAwaited
  <2>2. CASE ~cancelRequested
    <3>1. pendingRequest = NoRequest /\ submittedDecision = NoDecision
      BY <1>3 DEF workerRequestDecision, Executing, Handshake, DecisionSlot
    <3>2. DecisionsIn(events \cup batch) = {} /\ Prompts = {}
      <4>1. \A e \in DecisionsIn(events \cup batch) : e.type = "decision"
        BY DEF DecisionsIn
      <4>2. NoRequest.type = "none"
        BY DEF NoRequest
      <4>3. DecisionsIn(events \cup batch) = {}
        BY <2>2, <3>1, <4>1, <4>2 DEF RequestsAreAwaited
      <4>4. \A i \in Prompts : stack[i].request = NoRequest
        BY <2>2, <3>1 DEF RequestsAreAwaited
      <4> QED BY <4>2, <4>3, <4>4, PromptsAreOfRequests
    <3>3. PICK request : /\ pendingRequest' = request /\ events' = events \cup {request}
                         /\ submittedDecision' = NoDecision
      BY <1>3, <2>2, <3>1 DEF workerRequestDecision
    <3>4. DecisionsIn(events \cup batch)' \subseteq {request}
      BY <1>1, <3>2, <3>3 DEF DecisionsIn
    <3> QED BY <1>1, <3>2, <3>3, <3>4 DEF RequestsAreAwaited
  <2> QED BY <2>1, <2>2
<1>4. CASE leaveAskWait
  <2>1. UNCHANGED <<cancelRequested, events>>
    BY <1>4 DEF leaveAskWait
  <2>2. ~cancelRequested => submittedDecision # NoDecision
    BY <1>4 DEF leaveAskWait, AskOver
  <2>3. ~cancelRequested => DecisionsIn(events \cup batch) = {} /\ Prompts = {}
    BY <2>2 DEF RequestsAreAwaited
  <2> QED BY <1>1, <2>1, <2>3 DEF RequestsAreAwaited, DecisionsIn
<1>5. CASE enqueueProgress \/ publishSummary
  <2>1. UNCHANGED <<cancelRequested, pendingRequest, submittedDecision>>
    BY <1>5 DEF enqueueProgress, publishSummary
  <2>2. PICK e : e.type # "decision" /\ events' \subseteq events \cup {e}
    <3>1. CASE enqueueProgress
      <4> DEFINE snapshot == [type |-> "progress", stamp |-> clock]
      <4>1. events' \subseteq events \cup {snapshot} /\ snapshot.type # "decision"
        BY <3>1 DEF enqueueProgress
      <4> QED BY <4>1
    <3>2. CASE publishSummary
      <4> DEFINE summary == [type |-> "summary", stamp |-> clock, status |-> verdict]
      <4>1. events' \subseteq events \cup {summary} /\ summary.type # "decision"
        BY <3>2 DEF publishSummary
      <4> QED BY <4>1
    <3> QED BY <1>5, <3>1, <3>2
  <2>3. DecisionsIn(events \cup batch)' \subseteq DecisionsIn(events \cup batch)
    BY <1>1, <2>2 DEF DecisionsIn
  <2> QED BY <1>1, <2>1, <2>3, AwaitedStays
<1> QED BY <1>2, <1>3, <1>4, <1>5 DEF WorkerNext

(* The dialog prompts for a request when it is delivered, and for no other   *)
(* then; what it answers is what the worker waits for.                      *)
LEMMA AwaitedStep ==
  DialogShape /\ Handshake /\ Cancellation /\ Summary /\ RequestsAreAwaited
    /\ [DialogNext]_allVars
  => RequestsAreAwaited'
<1> SUFFICES ASSUME DialogShape, Handshake, Cancellation, Summary, RequestsAreAwaited,
                    [DialogNext]_allVars
             PROVE  RequestsAreAwaited'
  OBVIOUS
<1>1. TypeOK /\ StackIsNested /\ FlagsAreBoolean
  BY DEF DialogShape
<1> USE DEF flagVars, windowVars, endVars, jobVars, statusVars, slotVars, queueVars, workerVars,
            uiVars, deliveryVars
<1>2. ASSUME cancelRequested' PROVE RequestsAreAwaited'
  BY <1>2 DEF RequestsAreAwaited
<1>3. ASSUME UNCHANGED <<cancelRequested, pendingRequest, submittedDecision, stack>>,
             DecisionsIn(events \cup batch)' \subseteq DecisionsIn(events \cup batch),
             Prompts # {} /\ visible => visible'
      PROVE  RequestsAreAwaited'
  <2>1. Prompts' = Prompts
    BY <1>3 DEF Prompts, Calls
  <2> QED BY <1>3, <2>1, AwaitedStays
<1>4. CASE startDialog
  <2>1. events' = {} /\ batch' = {} /\ stack' = <<>>
    BY <1>1, <1>4 DEF startDialog, start, Cancellation, BeforeStart, StackIsNested
  <2>2. Prompts' = {}
    BY <2>1, EmptySeq, LenProperties DEF Prompts, Calls
  <2> QED BY <2>1, <2>2 DEF RequestsAreAwaited, DecisionsIn
<1>5. CASE firstShow \/ switchToBackground \/ recycleWindow
  BY <1>1, <1>3, <1>5 DEF firstShow, switchToBackground, recycleWindow, vars, FlagsAreBoolean
<1>6. CASE closeFinished
  <2>1. Prompts = {}
    BY <1>1, <1>6, CallsNow DEF closeFinished, Controls, Prompts
  <2> QED BY <1>3, <1>6, <2>1 DEF closeFinished, vars
<1>7. CASE confirmYes \/ destroyDialog
  BY <1>2, <1>7 DEF confirmYes, destroyDialog, cancel, destroy
<1>8. CASE drainEvents
  <2>1. /\ DrainFrame \in Frame /\ DrainFrame.call = "drainEvents" /\ Push(DrainFrame)
        /\ stack = <<>> /\ drain
    BY <1>1, <1>8 DEF drainEvents, StackIsNested, Frame, DrainFrame
  <2>2. Prompts' = {}
    BY <1>1, <2>1, CallsAfterPush, CallsNow DEF Prompts
  <2>3. /\ UNCHANGED <<cancelRequested, pendingRequest, submittedDecision>>
        /\ DecisionsIn(events \cup batch)' \subseteq DecisionsIn(events \cup batch)
    BY <2>1 DEF drain, DecisionsIn
  <2> QED BY <2>2, <2>3, AwaitedStays
<1>9. CASE drainReturns
  <2>1. Prompts' \subseteq Prompts /\ Prompts = {}
    BY <1>1, <1>9, CallsAfterPop, CallsNow DEF drainReturns, Running, Prompts
  <2> QED BY <1>9, <2>1, AwaitedStays DEF drainReturns, vars
<1>10. ASSUME NEW event \in First(batch), dispatch(event)
       PROVE  /\ UNCHANGED <<cancelRequested, pendingRequest, submittedDecision, events>>
              /\ batch' = batch \ {event} /\ event \in batch
              /\ DecisionsIn(events \cup batch)' \subseteq DecisionsIn(events \cup batch)
  BY <1>10 DEF dispatch, DecisionsIn, First
<1>11. ASSUME NEW event \in First(batch), NEW diagnostics \in BOOLEAN,
              renderProgress(event) \/ handleCompletion(event, diagnostics)
       PROVE  RequestsAreAwaited'
  <2>1. dispatch(event) /\ stack' = stack /\ (visible => visible')
    BY <1>1, <1>11 DEF renderProgress, handleCompletion, dialogVars, FlagsAreBoolean
  <2> QED BY <1>3, <1>10, <2>1
<1>12. ASSUME NEW event \in First(batch), handleDecisionRequest(event)
       PROVE  RequestsAreAwaited'
  <2>1. dispatch(event) /\ event.type = "decision" /\ Running("drainEvents")
    BY <1>12 DEF handleDecisionRequest
  <2>2. CASE ~hasPendingDecision
    <3>1. stack' = stack /\ visible' = visible
      BY <1>12, <2>2 DEF handleDecisionRequest
    <3> QED BY <1>3, <1>10, <2>1, <3>1
  <2>3. CASE hasPendingDecision
    <3>1. Push(PromptFrame(event)) /\ visible' = TRUE
      BY <1>12, <2>3 DEF handleDecisionRequest, Present
    <3>2. PromptFrame(event) \in Frame /\ PromptFrame(event).request = event
      <4>1. event \in OperationEvent
        BY <1>1 DEF TypeOK, First
      <4>2. event \in DecisionRequest
        BY <2>1, <4>1 DEF OperationEvent, ProgressSnapshot, OperationSummary, DecisionRequest
      <4> QED BY <4>2 DEF PromptFrame, Frame
    <3>3. /\ Prompts' \subseteq {Len(stack) + 1}
          /\ stack'[Len(stack) + 1].request = event
      BY <1>1, <2>1, <3>1, <3>2, CallsAfterPush, CallsNow DEF Prompts
    <3>4. /\ pendingRequest = event /\ submittedDecision = NoDecision
          /\ DecisionsIn(events \cup batch) \subseteq {event}
      BY <1>10, <2>1, <2>3 DEF RequestsAreAwaited, hasPendingDecision, DecisionsIn
    <3>5. DecisionsIn(events \cup batch)' = {}
      <4>1. event \notin events
        BY <1>10, <2>1 DEF Summary, SummaryExactlyOnceAndLast
      <4> QED BY <1>10, <2>1, <3>4, <4>1 DEF DecisionsIn
    <3> QED BY <1>10, <2>1, <3>1, <3>3, <3>4, <3>5 DEF RequestsAreAwaited
  <2> QED BY <2>2, <2>3
<1>13. ASSUME NEW action \in DecisionAction, NEW scope \in Scope, answerPrompt(action, scope)
       PROVE  RequestsAreAwaited'
  <2>1. stack # <<>> /\ Top.call = "presentDecision" /\ Pop /\ visible' = visible
    BY <1>13 DEF answerPrompt, Running
  <2>2. Len(stack) \in Prompts /\ Prompts' = Prompts \ {Len(stack)}
    BY <1>1, <2>1, CallsAfterPop DEF Prompts
  <2>3. Prompts' = {}
    BY <1>1, <2>2, CallsNow
  <2>4. cancelRequested' = cancelRequested /\ UNCHANGED <<events, batch>>
    BY <1>13 DEF answerPrompt, submitDecision, vars
  <2>5. ~cancelRequested => DecisionsIn(events \cup batch) = {}
    BY <2>2 DEF RequestsAreAwaited
  <2> QED BY <2>3, <2>4, <2>5 DEF RequestsAreAwaited, DecisionsIn
<1>14. ASSUME NEW paused, DialogSetPaused(paused)
       PROVE  /\ UNCHANGED <<cancelRequested, pendingRequest, submittedDecision>>
              /\ DecisionsIn(events \cup batch)' \subseteq DecisionsIn(events \cup batch)
  BY <1>14 DEF DialogSetPaused, setPaused, vars, DecisionsIn
<1>15. CASE confirmNo
  <2>1. /\ stack # <<>> /\ Top.call = "confirmCancellation" /\ Pop /\ visible' = visible
        /\ DialogSetPaused(_paused /\ (Top.wasPaused \/ _result # NoResult))
    BY <1>15 DEF confirmNo, ConfirmationReturns, Running
  <2>2. Prompts' \subseteq Prompts /\ \A i \in Prompts' : stack'[i] = stack[i]
    BY <1>1, <2>1, CallsAfterPop DEF Prompts
  <2> QED BY <1>14, <2>1, <2>2, AwaitedStays
<1>16. CASE togglePause
  BY <1>3, <1>14, <1>16 DEF togglePause
<1>17. ASSUME NEW closing \in BOOLEAN, askForConfirmation(closing)
       PROVE  RequestsAreAwaited'
  <2>1. /\ Push(ConfirmFrame(closing)) /\ DialogSetPaused(TRUE) /\ visible' = visible
    BY <1>17 DEF askForConfirmation
  <2>2. Prompts' = Prompts /\ \A i \in Prompts' : stack'[i] = stack[i]
    BY <1>1, <2>1, CallsAfterAsking DEF Prompts
  <2> QED BY <1>14, <2>1, <2>2, AwaitedStays
<1>18. CASE pressCancel \/ closeRunning
  BY <1>17, <1>18 DEF pressCancel, closeRunning
<1>19. CASE Worker
  BY <1>1, <1>19, WorkerAwaits DEF Worker
<1>20. CASE Notify \/ Join \/ (spuriousWakeup /\ UNCHANGED dialogVars)
              \/ (Terminated /\ UNCHANGED dialogVars) \/ UNCHANGED allVars
  BY <1>3, <1>20 DEF Notify, Join, notify, join, spuriousWakeup, Terminated, vars, allVars,
     dialogVars, DecisionsIn
<1> QED
  BY <1>4, <1>5, <1>6, <1>7, <1>8, <1>9, <1>11, <1>12, <1>13, <1>15, <1>16, <1>18, <1>19, <1>20
     DEF DialogNext, UserAnswers, Dispatch

-----------------------------------------------------------------------------
(* The answer the worker takes is of the request it asked.                  *)
LEMMA AnswersStepInDialog ==
  DialogShape /\ Handshake /\ RequestsAreAwaited /\ AnswersMatchRequests
    /\ [DialogNext]_allVars
  => AnswersMatchRequests'
<1> SUFFICES ASSUME DialogShape, Handshake, RequestsAreAwaited, AnswersMatchRequests,
                    [DialogNext]_allVars
             PROVE  AnswersMatchRequests'
  OBVIOUS
<1>1. TypeOK /\ StackIsNested
  BY DEF DialogShape
<1> USE DEF AnswersMatchRequests, jobVars, statusVars, slotVars, queueVars, workerVars, uiVars,
            deliveryVars
<1>2. ASSUME UNCHANGED slotVars PROVE AnswersMatchRequests'
  BY <1>2
<1>3. ASSUME NEW paused, DialogSetPaused(paused)
      PROVE  AnswersMatchRequests'
  BY <1>3 DEF DialogSetPaused, setPaused, vars
<1>4. ASSUME NEW action \in DecisionAction, NEW scope \in Scope, answerPrompt(action, scope)
      PROVE  AnswersMatchRequests'
  <2>1. CASE ~hasPendingDecision
    BY <1>4, <2>1 DEF answerPrompt, vars
  <2>2. CASE hasPendingDecision
    <3>1. /\ stack # <<>> /\ Top.call = "presentDecision" /\ Pop
          /\ submitDecision(Top.request, action, scope)
      BY <1>4, <2>2 DEF answerPrompt, Running
    <3>2. Len(stack) \in Prompts
      BY <1>1, <3>1, CallsAfterPop DEF Prompts
    <3>3. pendingRequest = Top.request
      BY <2>2, <3>2 DEF hasPendingDecision, RequestsAreAwaited, Top
    <3> QED BY <3>1, <3>3 DEF submitDecision
  <2> QED BY <2>1, <2>2
<1>5. CASE startDialog \/ firstShow \/ drainEvents \/ drainReturns \/ Dispatch
  BY <1>5 DEF startDialog, start, firstShow, drainEvents, drain, drainReturns, Dispatch,
     renderProgress, handleDecisionRequest, handleCompletion, dispatch, vars
<1>6. CASE confirmYes \/ confirmNo
  BY <1>3, <1>6 DEF confirmYes, confirmNo, cancel
<1>7. CASE togglePause \/ pressCancel \/ closeRunning
  BY <1>3, <1>7 DEF togglePause, pressCancel, closeRunning, askForConfirmation
<1>8. CASE switchToBackground \/ recycleWindow \/ closeFinished \/ destroyDialog
  BY <1>8 DEF switchToBackground, recycleWindow, closeFinished, destroyDialog, destroy, vars
<1>9. CASE Worker
  <2>1. ASSUME NEW kind \in Kinds, NEW scopeAllowed \in BOOLEAN,
               workerRequestDecision(kind, scopeAllowed)
        PROVE  AnswersMatchRequests'
    <3>1. submittedDecision = NoDecision
      BY <2>1 DEF workerRequestDecision, Executing, Handshake, DecisionSlot
    <3> QED BY <2>1, <3>1 DEF workerRequestDecision
  <2> QED
    BY <1>9, <2>1 DEF Worker, WorkerNext, workerCheckpoint, block, keepAskWait, leaveAskWait,
       mutate, enqueueProgress, executorReturns, publishSummary
<1>10. CASE Notify \/ Join \/ (spuriousWakeup /\ UNCHANGED dialogVars)
              \/ (Terminated /\ UNCHANGED dialogVars) \/ UNCHANGED allVars
  BY <1>2, <1>10 DEF Notify, Join, notify, join, spuriousWakeup, Terminated, vars, allVars
<1> QED
  BY <1>4, <1>5, <1>6, <1>7, <1>8, <1>9, <1>10 DEF DialogNext, UserAnswers

-----------------------------------------------------------------------------
(* Only the dialog pauses the job, and only once it was started.            *)
LEMMA PauseIsTheDialogs ==
  ASSUME FlagsAreBoolean, _paused = pauseRequested, NEW paused \in BOOLEAN,
         DialogSetPaused(paused)
  PROVE  _paused' = paused /\ _paused' = pauseRequested' /\ started' = started
         /\ cancelRequested' = cancelRequested
BY DEF DialogSetPaused, setPaused, vars, jobVars, statusVars, FlagsAreBoolean

(* A question pauses the operation and its answer undoes just that.         *)
LEMMA PausesStep ==
  DialogShape /\ PausesAreNested /\ ResultIsTheSummary /\ [DialogNext]_allVars
  => PausesAreNested'
<1> SUFFICES ASSUME DialogShape, PausesAreNested, ResultIsTheSummary, [DialogNext]_allVars
             PROVE  PausesAreNested'
  OBVIOUS
<1>1. /\ StackIsNested /\ FlagsAreBoolean /\ _paused = pauseRequested
      /\ started => started'
  BY DialogStepIsJobStep, JobGrows DEF DialogShape, PausesAreNested
<1> USE DEF flagVars, windowVars, endVars, jobVars, statusVars, slotVars, queueVars, workerVars,
            uiVars, deliveryVars
<1>2. ASSUME UNCHANGED <<_paused, userPaused, pauseRequested>>,
             cancelRequested => cancelRequested',
             Questions' = Questions, \A i \in Questions : stack'[i] = stack[i]
      PROVE  PausesAreNested'
  BY <1>1, <1>2 DEF PausesAreNested
<1>3. ASSUME stack' = stack
      PROVE  Questions' = Questions /\ \A i \in Questions : stack'[i] = stack[i]
  BY <1>3 DEF Questions, Calls
<1>4. CASE startDialog
  <2>1. /\ ~_paused /\ ~userPaused /\ stack = <<>>
        /\ UNCHANGED <<stack, _paused, userPaused, pauseRequested>>
    BY <1>1, <1>4 DEF startDialog, start, StackIsNested, PausesAreNested
  <2>2. Questions' = {}
    BY <1>1, <1>3, <2>1, CallsNow DEF Questions
  <2>3. _paused = FALSE /\ userPaused = FALSE
    BY <1>1, <2>1 DEF FlagsAreBoolean
  <2> QED BY <1>1, <2>1, <2>2, <2>3 DEF PausesAreNested
<1>5. CASE firstShow \/ switchToBackground \/ recycleWindow \/ closeFinished
  BY <1>2, <1>3, <1>5 DEF firstShow, switchToBackground, recycleWindow, closeFinished, vars
<1>6. CASE destroyDialog
  BY <1>2, <1>3, <1>6 DEF destroyDialog, destroy
<1>7. CASE drainEvents
  <2>1. /\ DrainFrame \in Frame /\ DrainFrame.call = "drainEvents" /\ Push(DrainFrame)
        /\ stack = <<>> /\ drain
    BY <1>1, <1>7 DEF drainEvents, StackIsNested, Frame, DrainFrame
  <2>2. Questions' = {} /\ Questions = {}
    BY <1>1, <2>1, CallsAfterPush, CallsNow DEF Questions
  <2> QED BY <1>2, <1>7, <2>1, <2>2 DEF drainEvents, drain
<1>8. CASE drainReturns
  <2>1. Questions' = Questions /\ Questions = {}
    BY <1>1, <1>8, CallsAfterPop, CallsNow DEF drainReturns, Running, Questions
  <2> QED BY <1>2, <1>8, <2>1 DEF drainReturns, vars
<1>9. ASSUME NEW event \in First(batch), NEW diagnostics \in BOOLEAN,
             renderProgress(event) \/ handleCompletion(event, diagnostics)
      PROVE  PausesAreNested'
  BY <1>2, <1>3, <1>9 DEF renderProgress, handleCompletion, dispatch, dialogVars
<1>10. ASSUME NEW event \in First(batch), handleDecisionRequest(event)
       PROVE  PausesAreNested'
  <2>1. /\ dispatch(event) /\ event.type = "decision" /\ Running("drainEvents")
        /\ UNCHANGED flagVars
        /\ stack' = stack \/ Push(PromptFrame(event))
    BY <1>10 DEF handleDecisionRequest, Present
  <2>2. CASE stack' = stack
    BY <1>2, <1>3, <2>1, <2>2 DEF dispatch
  <2>3. CASE Push(PromptFrame(event))
    <3>1. PromptFrame(event) \in Frame /\ PromptFrame(event).call = "presentDecision"
      <4>1. event \in OperationEvent
        BY DEF DialogShape, TypeOK, First
      <4>2. event \in DecisionRequest
        BY <2>1, <4>1 DEF OperationEvent, ProgressSnapshot, OperationSummary, DecisionRequest
      <4> QED BY <4>2 DEF PromptFrame, Frame
    <3> HIDE DEF PromptFrame
    <3>2. Questions' = Questions /\ Questions = {}
      BY <1>1, <2>1, <2>3, <3>1, CallsAfterPush, CallsNow DEF Questions
    <3> QED BY <1>2, <2>1, <3>2 DEF dispatch
  <2> QED BY <2>1, <2>2, <2>3
<1>11. ASSUME NEW action \in DecisionAction, NEW scope \in Scope, answerPrompt(action, scope)
       PROVE  PausesAreNested'
  <2>1. stack # <<>> /\ Top.call = "presentDecision" /\ Pop /\ UNCHANGED flagVars
    BY <1>11 DEF answerPrompt, Running
  <2>2. /\ Questions' = Questions \ {Len(stack)} /\ Len(stack) \notin Questions
        /\ \A i \in Questions' : stack'[i] = stack[i]
    BY <1>1, <2>1, CallsAfterPop DEF Questions
  <2>3. UNCHANGED <<pauseRequested, cancelRequested>>
    BY <1>11 DEF answerPrompt, submitDecision, vars
  <2> QED BY <1>2, <2>1, <2>2, <2>3
<1>12. CASE confirmYes
  <2>1. cancelRequested' /\ UNCHANGED <<_paused, userPaused, pauseRequested>> /\ started
    BY <1>12 DEF confirmYes, cancel
  <2> QED BY <1>1, <2>1 DEF PausesAreNested
<1>13. CASE confirmNo
  <2> DEFINE n == Len(stack)
             paused == _paused /\ (Top.wasPaused \/ _result # NoResult)
  <2>1. /\ stack # <<>> /\ Top.call = "confirmCancellation" /\ Pop
        /\ DialogSetPaused(paused) /\ userPaused' = userPaused
    BY <1>13 DEF confirmNo, ConfirmationReturns, Running
  <2>2. /\ n \in Questions /\ Questions' = Questions \ {n}
        /\ Questions \subseteq 1..n /\ n \in Nat \ {0}
        /\ \A i \in Questions' : stack'[i] = stack[i]
    BY <1>1, <2>1, CallsAfterPop DEF Questions
  <2>3. _result = NoResult /\ Top = stack[n]
    BY <2>2 DEF ResultIsTheSummary, Top
  <2>4. paused \in BOOLEAN
    OBVIOUS
  <2>5. /\ _paused' = paused /\ _paused' = pauseRequested' /\ started' = started
        /\ cancelRequested' = cancelRequested
    BY <1>1, <2>1, <2>4, PauseIsTheDialogs
  <2>6. started
    BY <1>1, <2>1 DEF StackIsNested
  <2>7. CASE cancelRequested
    BY <2>5, <2>6, <2>7 DEF PausesAreNested
  <2>8. CASE ~cancelRequested
    <3>1. _paused /\ stack[n].wasPaused = (userPaused \/ \E j \in Questions : j < n)
      BY <2>2, <2>8 DEF PausesAreNested
    <3>2. _paused' = (userPaused \/ \E j \in Questions : j < n)
      BY <2>3, <2>5, <3>1, <1>1 DEF FlagsAreBoolean
    <3>3. \A i \in Questions' : i \in Questions /\ i < n
      BY <2>2
    <3>4. ASSUME NEW i \in Questions'
          PROVE  /\ _paused'
                 /\ stack'[i].wasPaused = (userPaused' \/ \E j \in Questions' : j < i)
      <4>1. stack'[i] = stack[i] /\ i \in Questions /\ i < n /\ i \in Nat
        BY <2>2, <3>3, <3>4
      <4>2. stack[i].wasPaused = (userPaused \/ \E j \in Questions : j < i)
        BY <2>8, <4>1 DEF PausesAreNested
      <4>3. \A j \in Questions : j < i => j \in Questions'
        BY <2>2, <4>1
      <4>4. Questions' \subseteq Questions
        BY <2>2
      <4>5. _paused'
        BY <3>2, <4>1
      <4> QED BY <2>1, <4>1, <4>2, <4>3, <4>4, <4>5
    <3>5. Questions' = {} => _paused' = userPaused'
      <4>1. Questions' = {} => ~\E j \in Questions : j < n
        BY <2>2
      <4> QED BY <1>1, <2>1, <3>2, <4>1 DEF FlagsAreBoolean
    <3> QED BY <2>5, <2>6, <3>4, <3>5 DEF PausesAreNested
  <2> QED BY <2>7, <2>8
<1>14. CASE togglePause
  <2>1. /\ stack = <<>> /\ started /\ stack' = stack
        /\ DialogSetPaused(~_paused) /\ userPaused' = ~_paused
    BY <1>14 DEF togglePause, Controls
  <2>2. Questions' = {}
    BY <1>1, <1>3, <2>1, CallsNow DEF Questions
  <2>3. (~_paused) \in BOOLEAN
    OBVIOUS
  <2>4. /\ _paused' = ~_paused /\ _paused' = pauseRequested' /\ started' = started
    BY <1>1, <2>1, <2>3, PauseIsTheDialogs
  <2> QED BY <2>1, <2>2, <2>4 DEF PausesAreNested
<1>15. ASSUME NEW closing \in BOOLEAN, askForConfirmation(closing), started
       PROVE  PausesAreNested'
  <2> DEFINE n == Len(stack) + 1
  <2>1. /\ Push(ConfirmFrame(closing)) /\ DialogSetPaused(TRUE) /\ userPaused' = userPaused
    BY <1>15 DEF askForConfirmation
  <2>2. /\ Questions' = Questions \cup {n} /\ Questions \subseteq 1..(n - 1) /\ n \in Nat
        /\ \A i \in Questions : stack'[i] = stack[i]
        /\ stack'[n].wasPaused = _paused
    BY <1>1, <2>1, CallsAfterAsking
  <2>3. /\ _paused' /\ _paused' = pauseRequested' /\ started' = started
        /\ cancelRequested' = cancelRequested
    BY <1>1, <2>1, PauseIsTheDialogs
  <2>4. CASE cancelRequested
    BY <1>15, <2>3, <2>4 DEF PausesAreNested
  <2>5. CASE ~cancelRequested
    <3>1. ASSUME NEW i \in Questions
          PROVE  stack'[i].wasPaused = (userPaused' \/ \E j \in Questions' : j < i)
      <4>1. stack[i].wasPaused = (userPaused \/ \E j \in Questions : j < i)
        BY <2>5 DEF PausesAreNested
      <4>2. (\E j \in Questions : j < i) <=> (\E j \in Questions' : j < i)
        BY <2>2
      <4> QED BY <2>1, <2>2, <4>1, <4>2
    <3>2. stack'[n].wasPaused = (userPaused' \/ \E j \in Questions' : j < n)
      <4>1. CASE Questions = {}
        <5>1. _paused = userPaused /\ ~\E j \in Questions' : j < n
          BY <2>2, <2>5, <4>1 DEF PausesAreNested
        <5> QED BY <1>1, <2>1, <2>2, <5>1 DEF FlagsAreBoolean
      <4>2. CASE Questions # {}
        <5>1. PICK q \in Questions : _paused
          BY <2>5, <4>2 DEF PausesAreNested
        <5>2. q \in Questions' /\ q < n
          BY <2>2
        <5> QED BY <1>1, <2>2, <5>1, <5>2 DEF FlagsAreBoolean
      <4> QED BY <4>1, <4>2
    <3> QED BY <1>15, <2>2, <2>3, <3>1, <3>2 DEF PausesAreNested
  <2> QED BY <2>4, <2>5
<1>16. CASE pressCancel \/ closeRunning
  BY <1>15, <1>16 DEF pressCancel, closeRunning
<1>17. CASE Worker
  BY <1>2, <1>3, <1>17
     DEF Worker, WorkerNext, workerCheckpoint, block, workerRequestDecision, keepAskWait,
         leaveAskWait, mutate, enqueueProgress, executorReturns, publishSummary, dialogVars
<1>18. CASE Notify \/ Join \/ (spuriousWakeup /\ UNCHANGED dialogVars)
              \/ (Terminated /\ UNCHANGED dialogVars) \/ UNCHANGED allVars
  BY <1>2, <1>3, <1>18 DEF Notify, Join, notify, join, spuriousWakeup, Terminated, vars, allVars,
     dialogVars
<1> QED
  BY <1>4, <1>5, <1>6, <1>7, <1>8, <1>9, <1>10, <1>11, <1>12, <1>13, <1>14, <1>16, <1>17, <1>18
     DEF DialogNext, UserAnswers, Dispatch

-----------------------------------------------------------------------------
(* The outcome is put on screen when the summary comes, and only the user    *)
(* takes it from there.                                                     *)
LEMMA ResultStep ==
  DialogShape /\ Summary /\ ResultIsTheSummary /\ [DialogNext]_allVars
  => ResultIsTheSummary'
<1> SUFFICES ASSUME DialogShape, Summary, ResultIsTheSummary, [DialogNext]_allVars
             PROVE  ResultIsTheSummary'
  OBVIOUS
<1>1. TypeOK /\ StackIsNested /\ FlagsAreBoolean
  BY DEF DialogShape
<1> USE DEF flagVars, windowVars, endVars, jobVars, statusVars, slotVars, queueVars, workerVars,
            uiVars, deliveryVars
<1>2. ASSUME UNCHANGED <<_result, summaries>>,
             Questions' # {} => Questions # {} \/ _result = NoResult,
             disposed' => disposed \/ _result # NoResult,
             OutcomeIsShown'
      PROVE  ResultIsTheSummary'
  BY <1>2 DEF ResultIsTheSummary
<1>3. ASSUME stack' = stack
      PROVE  Questions' = Questions
  BY <1>3 DEF Questions, Calls
<1>4. ASSUME UNCHANGED <<_result, disposed, _dismissedWhileRunning, acknowledged>>,
             ui' = "using" => ui = "using", visible => visible'
      PROVE  OutcomeIsShown'
  BY <1>4 DEF ResultIsTheSummary, OutcomeIsShown, outcomeNeedsAttention
<1>5. CASE startDialog \/ firstShow \/ switchToBackground \/ recycleWindow
  <2>1. /\ UNCHANGED <<_result, summaries, disposed, _dismissedWhileRunning, acknowledged, ui,
                       stack>>
        /\ visible => visible'
    BY <1>1, <1>5 DEF startDialog, start, firstShow, switchToBackground, recycleWindow, vars,
       FlagsAreBoolean
  <2> QED BY <1>2, <1>3, <1>4, <2>1
<1>6. CASE drainEvents
  <2>1. /\ DrainFrame \in Frame /\ DrainFrame.call = "drainEvents" /\ Push(DrainFrame)
        /\ UNCHANGED <<_result, summaries, disposed, _dismissedWhileRunning, acknowledged, ui,
                       visible>>
    BY <1>1, <1>6 DEF drainEvents, drain, Frame, DrainFrame
  <2>2. Questions' = Questions
    BY <1>1, <2>1, CallsAfterPush DEF Questions
  <2> QED BY <1>2, <1>4, <2>1, <2>2
<1>7. CASE drainReturns
  <2>1. Questions' \subseteq Questions
    BY <1>1, <1>7, CallsAfterPop DEF drainReturns, Running, Questions
  <2> QED BY <1>2, <1>4, <1>7, <2>1 DEF drainReturns, vars
<1>8. ASSUME NEW event \in First(batch), renderProgress(event)
      PROVE  ResultIsTheSummary'
  BY <1>2, <1>3, <1>4, <1>8 DEF renderProgress, dispatch, dialogVars
<1>9. ASSUME NEW event \in First(batch), handleDecisionRequest(event)
      PROVE  ResultIsTheSummary'
  <2>1. /\ dispatch(event) /\ event.type = "decision" /\ Running("drainEvents")
        /\ UNCHANGED endVars /\ (visible => visible')
        /\ stack' = stack \/ Push(PromptFrame(event))
    BY <1>1, <1>9 DEF handleDecisionRequest, Present, FlagsAreBoolean
  <2>2. UNCHANGED <<summaries, ui>>
    BY <2>1 DEF dispatch
  <2>3. CASE stack' = stack
    BY <1>2, <1>3, <1>4, <2>1, <2>2, <2>3
  <2>4. CASE Push(PromptFrame(event))
    <3>1. PromptFrame(event) \in Frame /\ PromptFrame(event).call = "presentDecision"
      <4>1. event \in OperationEvent
        BY <1>1 DEF TypeOK, First
      <4>2. event \in DecisionRequest
        BY <2>1, <4>1 DEF OperationEvent, ProgressSnapshot, OperationSummary, DecisionRequest
      <4> QED BY <4>2 DEF PromptFrame, Frame
    <3> HIDE DEF PromptFrame
    <3>2. Questions' = Questions
      BY <1>1, <2>4, <3>1, CallsAfterPush DEF Questions
    <3> QED BY <1>2, <1>4, <2>1, <2>2, <3>2
  <2> QED BY <2>1, <2>3, <2>4
<1>10. ASSUME NEW event \in First(batch), NEW diagnostics \in BOOLEAN,
              handleCompletion(event, diagnostics)
       PROVE  ResultIsTheSummary'
  <2> DEFINE summary == [status |-> event.status, diagnostics |-> diagnostics]
  <2>1. /\ Running("drainEvents") /\ event.type = "summary" /\ dispatch(event)
        /\ _result' = summary
        /\ disposed' = (disposed \/ LeavesNoWindow(summary))
        /\ visible' = (visible \/ ~LeavesNoWindow(summary))
        /\ UNCHANGED <<stack, _dismissedWhileRunning, acknowledged>>
    BY <1>10 DEF handleCompletion
  <2>2. summaries = 0 /\ summaries' = 1
    <3>1. event \in SummariesIn(events \cup batch)
      BY <2>1 DEF First, SummariesIn
    <3>2. event \in events \cup batch /\ SummariesIn(events \cup batch) # {}
      BY <3>1 DEF SummariesIn
    <3>3. summaries = 0
      BY <3>2 DEF Summary, SummaryExactlyOnceAndLast
    <3> QED BY <2>1, <3>3 DEF dispatch
  <2>3. _result = NoResult /\ disposed = FALSE
    BY <1>1, <2>2 DEF ResultIsTheSummary, FlagsAreBoolean
  <2>4. summary # NoResult
    <3>1. event \in OperationEvent
      BY <1>1 DEF TypeOK, First
    <3>2. event.status # "none"
      BY <2>1, <3>1 DEF OperationEvent, ProgressSnapshot, OperationSummary, DecisionRequest,
         CompletionStatus
    <3> QED BY <3>2 DEF NoResult
  <2>5. Questions' = {}
    BY <1>1, <1>3, <2>1, CallsNow
  <2>6. OutcomeIsShown'
    BY <2>1, <2>3 DEF OutcomeIsShown, LeavesNoWindow, outcomeNeedsAttention
  <2> QED BY <2>1, <2>2, <2>4, <2>5, <2>6 DEF ResultIsTheSummary
<1>11. ASSUME NEW action \in DecisionAction, NEW scope \in Scope, answerPrompt(action, scope)
       PROVE  ResultIsTheSummary'
  <2>1. stack # <<>> /\ Pop /\ UNCHANGED endVars /\ visible' = visible
        /\ UNCHANGED <<summaries, ui>>
    BY <1>11 DEF answerPrompt, submitDecision, vars, Running
  <2>2. Questions' \subseteq Questions
    BY <1>1, <2>1, CallsAfterPop DEF Questions
  <2> QED BY <1>2, <1>4, <2>1, <2>2
<1>12. ASSUME NEW paused, DialogSetPaused(paused)
       PROVE  UNCHANGED <<summaries, ui>>
  BY <1>12 DEF DialogSetPaused, setPaused, vars
<1>13. CASE confirmYes \/ confirmNo
  <2>1. /\ stack # <<>> /\ Top.call = "confirmCancellation" /\ Pop
        /\ UNCHANGED <<_result, disposed, acknowledged, summaries, ui>>
    BY <1>12, <1>13 DEF confirmYes, confirmNo, ConfirmationReturns, Running, cancel
  <2>2. Questions' \subseteq Questions /\ Len(stack) \in Questions
    BY <1>1, <2>1, CallsAfterPop DEF Questions
  <2>3. _result = NoResult
    BY <2>2 DEF ResultIsTheSummary
  <2>4. OutcomeIsShown'
    BY <2>1, <2>3 DEF OutcomeIsShown
  <2> QED BY <1>2, <2>1, <2>2, <2>4
<1>14. CASE togglePause
  BY <1>2, <1>3, <1>4, <1>12, <1>14 DEF togglePause
<1>15. CASE pressCancel \/ closeRunning
  <2>1. /\ _result = NoResult
        /\ UNCHANGED <<_result, disposed, _dismissedWhileRunning, acknowledged, summaries, ui,
                       visible>>
    BY <1>12, <1>15 DEF pressCancel, closeRunning, askForConfirmation
  <2> QED BY <1>2, <1>4, <2>1
<1>16. CASE closeFinished
  <2>1. /\ _result # NoResult /\ acknowledged' /\ UNCHANGED <<_result, stack, summaries>>
    BY <1>16 DEF closeFinished, vars
  <2>2. OutcomeIsShown'
    BY <2>1 DEF OutcomeIsShown
  <2> QED BY <1>2, <1>3, <2>1, <2>2
<1>17. CASE destroyDialog
  <2>1. ui' = "joining" /\ UNCHANGED <<_result, stack, summaries, disposed>>
    BY <1>17 DEF destroyDialog, destroy
  <2>2. OutcomeIsShown'
    BY <2>1 DEF OutcomeIsShown
  <2> QED BY <1>2, <1>3, <2>1, <2>2
<1>18. CASE Worker
  <2>1. UNCHANGED <<summaries, ui>> /\ UNCHANGED dialogVars
    BY <1>18
       DEF Worker, WorkerNext, workerCheckpoint, block, workerRequestDecision, keepAskWait,
           leaveAskWait, mutate, enqueueProgress, executorReturns, publishSummary
  <2> QED BY <1>2, <1>3, <1>4, <2>1 DEF dialogVars
<1>19. CASE Notify \/ Join \/ (spuriousWakeup /\ UNCHANGED dialogVars)
              \/ (Terminated /\ UNCHANGED dialogVars) \/ UNCHANGED allVars
  <2>1. UNCHANGED summaries /\ UNCHANGED dialogVars /\ (ui' = "using" => ui = "using")
    BY <1>19 DEF Notify, Join, notify, join, spuriousWakeup, Terminated, vars, allVars
  <2> QED BY <1>2, <1>3, <1>4, <2>1 DEF dialogVars
<1> QED
  BY <1>5, <1>6, <1>7, <1>8, <1>9, <1>10, <1>11, <1>13, <1>14, <1>15, <1>16, <1>17, <1>18, <1>19
     DEF DialogNext, UserAnswers, Dispatch

-----------------------------------------------------------------------------
LEMMA DialogInvHolds == DialogSpec => []DialogInv
<1>1. DialogInit => DialogInv
  <2> SUFFICES ASSUME DialogInit PROVE DialogInv
    OBVIOUS
  <2>1. /\ Prompts = {} /\ Questions = {}
    BY EmptySeq, LenProperties DEF DialogInit, Prompts, Questions, Calls
  <2>2. RequestsAreAwaited /\ AnswersMatchRequests
    BY <2>1 DEF DialogInit, Init, RequestsAreAwaited, AnswersMatchRequests, DecisionsIn
  <2>3. PausesAreNested
    BY <2>1 DEF DialogInit, Init, PausesAreNested
  <2>4. ResultIsTheSummary
    BY <2>1 DEF DialogInit, Init, ResultIsTheSummary, OutcomeIsShown
  <2> QED BY <2>2, <2>3, <2>4 DEF DialogInv
<1>2. DialogShape /\ Handshake /\ Cancellation /\ Summary /\ DialogInv /\ [DialogNext]_allVars
      => DialogInv'
  BY AwaitedStep, PausesStep, ResultStep, AnswersStepInDialog DEF DialogInv
<1> QED
  BY <1>1, <1>2, DialogShapeHolds, DialogKeepsTheContract, HandshakeHolds, CancellationHolds,
     SummaryHolds, PTL DEF DialogSpec

(* A decision prompt stands on the drain of a dialog that is on screen, never *)
(* on a confirmation or on another prompt (handleDecisionRequest and         *)
(* confirmCancellation, cfileoperationdialog.cpp:211-222, :376-383).         *)
THEOREM PromptsStandWhereTheyShould == DialogSpec => []PromptsStandOnTheDialog
<1>1. DialogShape /\ DialogInv => PromptsStandOnTheDialog
  BY DEF DialogShape, StackIsNested, DialogInv, RequestsAreAwaited, Prompts, Calls,
     PromptsStandOnTheDialog
<1> QED BY <1>1, DialogShapeHolds, DialogInvHolds, PTL

(* A prompt on screen is about the request the worker waits on, unless the    *)
(* operation was cancelled under it (cfileoperationdialog.cpp:213-220).       *)
THEOREM PromptsAreAnswerable == DialogSpec => []PromptsAreLive
<1>1. DialogInv => PromptsAreLive
  BY DEF DialogInv, RequestsAreAwaited, Prompts, PromptsAreLive
<1> QED BY <1>1, DialogInvHolds, PTL

(* The answer the worker takes was given to the request it asked; the job     *)
(* does not check that itself (CFileOperationJob::submitDecision).            *)
THEOREM AnswersReachTheirRequest == DialogSpec => []AnswersMatchRequests
BY DialogInvHolds, PTL DEF DialogInv

(* However questions are nested, once none is open the operation is paused if *)
(* and only if the user paused it.                                          *)
THEOREM QuestionsLeaveThePause == DialogSpec => []PauseFollowsTheUser
<1>1. DialogInv => PauseFollowsTheUser
  BY DEF DialogInv, PausesAreNested, Questions, PauseFollowsTheUser
<1> QED BY <1>1, DialogInvHolds, PTL

(* An outcome that needs attention is on screen until the user closes it or   *)
(* has dismissed the dialog before (cfileoperationdialog.cpp:224-260).       *)
THEOREM OutcomeStaysOnScreen == DialogSpec => []OutcomeIsShown
BY DialogInvHolds, PTL DEF DialogInv, ResultIsTheSummary
==============================================================================
