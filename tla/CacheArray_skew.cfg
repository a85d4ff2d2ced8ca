SPECIFICATION Spec
CONSTANTS
  Geometry <- MCGeometry
  Policies = {"skew"}
  Addrs <- MCAddrs
  PCs = {4}
  Junk = {0, 7}
  MaxSteps = 6
INVARIANT OneCopy
CHECK_DEADLOCK FALSE
