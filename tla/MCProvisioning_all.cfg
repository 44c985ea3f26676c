SPECIFICATION MCSpec
CONSTANTS
  Workers = {w1, w2}
  Clusters = {c1, c2}
  Slices <- AllSlices
  MaxExecutions = 2
  MaxFaults = 1
  Blocks = 2
  Occupied <- SomeAccess
  Services = {"s1", "s2"}
  Paths = {"p1", "p2"}
  Nodes = 1
  Sizes = {"small", "big"}
SYMMETRY Symmetry
INVARIANTS TypeOK ResultsHold NoSurplus RoutesAttached CompleteUnlessStopped
PROPERTY StaysServed
CHECK_DEADLOCK FALSE
