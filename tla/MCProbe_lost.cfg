SPECIFICATION FairSpec
CONSTANTS
  Task <- Known
  Config <- WebOnly
  Registered <- Types
  MaxStarts = 1
  MaxFaults <- CrashLosing
PROPERTIES Completes
CHECK_DEADLOCK FALSE
