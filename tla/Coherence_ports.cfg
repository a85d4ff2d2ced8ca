CONSTANTS
  L1s = {"c0", "c1"}
  L2 = "l2"
  Addr = {"x", "y"}
  Confs <- MCPorts
  MaxPrefetch = 1
  MaxSharers = 64
  NEntries = 8
  calcEntry <- EntryOf
  PortsLimited = TRUE
  Ids = {1, 2, 3, 4, 5, 6, 7, 8, 9, 10}
SPECIFICATION Spec
INVARIANT SingleWriter
CHECK_DEADLOCK FALSE
