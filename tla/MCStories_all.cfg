SPECIFICATION StoriesSpec
CONSTANTS
  IdStart = "start"
  IdEnd = "end"
  StartName = "Start"
  EndName = "End"
  AnyName = "any"
  NilType = "adapter.NilType"
  NoType = ""
  X = "X"
  Y = "Y"
  T = "T"
  U = "U"
  V = "V"
  Stories <- AllStories
  Inputs <- Graphs
  Types <- MCTypes
INVARIANTS ResultRight StoryComplete AcceptedRuns RightArguments EachResultOnce StoriesRun
CHECK_DEADLOCK FALSE
