CONSTANTS
  Names = {a, b}
  Settings <- MCSettings
  Policies <- MCPolicies
  MaxMeddling = 1
  MaxWarnings = 1
SYMMETRY NameSymmetry
SPECIFICATION Spec
INVARIANTS
  TypeOK
  OverwritingIsAuthorizedAndSafe
  LeftoversAreReported
  AccountedExactlyOnce
  CancellationStopsTransfer
PROPERTIES
  KeepsTheContract
  CancelledTransferNearsItsEnd
