CONSTANTS
  Kinds = {"FileReplacement", "ActionFailed"}
  MaxEvents = 3
SPECIFICATION FairSpec
INVARIANTS
  TypeOK
  NoLostWakeup
  DecisionSlot
  SummaryExactlyOnceAndLast
  NoUnanswerableRequestQueued
  CancellationStopsWork
  AnswerForAllIsFinal
PROPERTIES
  BarriersStayInPlace
  DestructorReturns
