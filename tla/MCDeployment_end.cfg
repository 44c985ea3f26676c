SPECIFICATION Spec
CONSTANTS
  IdStart = "start"
  IdEnd = "end"
  StartName = "Start"
  EndName = "End"
  AnyName = "any"
  NilType = "adapter.NilType"
  NoType = ""
  Stories <- Deployment
INVARIANTS EndRuns
CHECK_DEADLOCK FALSE
