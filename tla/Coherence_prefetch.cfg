CONSTANTS
  L1s = {"c0", "c1"}
  L2 = "l2"
  Addr = {"x", "y"}
  Confs <- MCDisplacing
  MaxPrefetch = 1
  MaxSharers = 64
  NEntries = 8
  calcEntry <- EntryOf
  PortsLimited = FALSE
  Ids = {1, 2, 3, 4, 5, 6, 7, 8, 9, 10}
SPECIFICATION Spec
INVARIANT OneWriter
CHECK_DEADLOCK FALSE
