SPECIFICATION Spec
CONSTANTS
  Geometry <- MCGeometry
  Policies = {"lru", "lrup", "random", "par", "uar", "hawkeye", "dm", "skew"}
  Addrs <- MCAddrs
  PCs = {4}
  Junk = {0, 7}
  MaxSteps = 6
INVARIANTS LinesFindable LruRecency
CHECK_DEADLOCK FALSE
