SPECIFICATION Spec
CONSTANTS
  Invocations = {1, 2}
  Scenarios <- MCScenarios
  EditedPolicies <- MCEditedPolicies
  Pieces <- MCPieces
  Missing = Missing
  Broken = Broken
  Off = Off
  NoName = NoName
  NoProc = NoProc
INVARIANTS
  OnlyPermittedActs
  ActsAreGranted
  PreflightAgrees
  AuditTellsTheTruth
PROPERTIES
  NoPolicyEditLost
  KeyringFollowsBackend
