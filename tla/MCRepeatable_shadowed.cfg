SPECIFICATION FairSpec
CONSTANTS
  a = a
  b = b
  end = end
  Start = Start
  Part <- Diamond
  Links <- DiamondLinks
  Dim = {d1}
  Worker = {w1, w2}
  Caller = {c1}
  MaxRuns = 2
  MaxGrants = 1
  MaxFaults <- Failing
PROPERTIES CurrentRunFinishes
CHECK_DEADLOCK FALSE
