SPECIFICATION RunFairSpec
CONSTANTS
  OutScripts <- MCOutScripts
  ErrScripts <- MCErrScripts
  Window = 2
  OutputLimit = 6
INVARIANTS
  SecretsHidden
  OutputIsTheCommands
PROPERTIES
  RunReturns
