SPECIFICATION FairSpec
CONSTANTS
  a = a
  b = b
  end = end
  Start = Start
  Part <- Short
  Links <- ShortLinks
  Dim = {d1}
  Worker = {w1, w2}
  Caller = {c1, c2}
  MaxRuns = 2
  MaxGrants = 1
  MaxFaults <- FailAndPanic
PROPERTIES FinishesUnlessShadowed SupersededRunEnds
CHECK_DEADLOCK FALSE
