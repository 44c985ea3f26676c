SPECIFICATION FairSpec
CONSTANTS
  a = a
  end = end
  Start = Start
  Part <- Short
  Links <- ShortLinks
  Worker = {w1, w2}
  MaxRuns = 2
  MaxGrants = 1
  MaxFaults <- Once
PROPERTIES ImplementsStory RunsFinish
CHECK_DEADLOCK FALSE
