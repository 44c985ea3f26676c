SPECIFICATION FairSpec
CONSTANTS
  Host = {h1}
  Key = {k1}
  Conn = {c1, c2}
  Putter = {p1}
  Deployer = {d1}
  Cap = 1
  MaxConfigs = 2
  MaxFaults <- Breaking
INVARIANTS TypeOK NotReordered
PROPERTIES PutReaches SendersReturn
CHECK_DEADLOCK FALSE
