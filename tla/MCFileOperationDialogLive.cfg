CONSTANTS
  Kinds = {"ActionFailed"}
  MaxEvents = 1
  MaxDepth = 2
SPECIFICATION FairDialogSpec
PROPERTIES
  DismissedDialogGoes
  CancelledOperationEnds
