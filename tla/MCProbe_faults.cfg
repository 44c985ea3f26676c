SPECIFICATION FairSpec
CONSTANTS
  Task <- Known
  Config <- Clusters
  Registered <- Types
  MaxStarts = 2
  MaxFaults <- OneOfEach
INVARIANTS TypeOK NoTaskSkipped BoundedRepeats NewestLast
PROPERTIES CompletesOrStalls
CHECK_DEADLOCK FALSE
