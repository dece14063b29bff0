CONSTANTS
  Kinds = {"ActionFailed"}
  MaxEvents = 2
  MaxDepth = 3
SPECIFICATION DialogSpec
INVARIANTS
  DialogTypeOK
  PromptsStandOnTheDialog
  PromptsAreLive
  AnswersMatchRequests
  PauseFollowsTheUser
  OutcomeIsShown
