SPECIFICATION Spec
CONSTANTS
  Inputs <- MCInputs
  Builtin <- MCBuiltin
  Placeholder <- MCPlaceholder
  MaxDepth = 12
  Registered <- MCRegistered
  Deployed <- Hosts
  Chmods = {"su", "buri"}
  BuriCommands = {"probe", "health", "run"}
  MaxFaults <- MCMaxFaults
INVARIANTS RequiredFirst AllThere InstallsPossible PortsAgree ResultRight
INVARIANTS FailureExplained DoneHolds BuriStays
CHECK_DEADLOCK FALSE
