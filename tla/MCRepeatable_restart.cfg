SPECIFICATION Spec
CONSTANTS
  a = a
  b = b
  end = end
  Start = Start
  Part <- Diamond
  Links <- DiamondLinks
  Dim = {d1}
  Worker = {w1, w2}
  Caller = {c1}
  MaxRuns = 2
  MaxGrants = 1
  MaxFaults <- CrashAndLoss
SYMMETRY Symmetry
INVARIANTS TypeOK InputsOfOneRun StatusSound
PROPERTIES ImplementsStory
CHECK_DEADLOCK FALSE
