SPECIFICATION Spec
CONSTANTS
  Env = {"e1", "e2"}
  BootEnv = "e1"
  Act = {h1, h2}
  Revisions <- MCRevisions
  MaxRequests = 1
  MaxFaults <- MCMaxFaults
PROPERTIES NoGoingBack EndExplained Executed
CHECK_DEADLOCK FALSE
