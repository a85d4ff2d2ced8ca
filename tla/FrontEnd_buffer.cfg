SPECIFICATION Spec
CONSTANTS
  PipeLength = 2
  MaxIRequests = 5
  FetchWidth = 1
  RasSize = 0
  bpredDelay1 = 1
  bpredDelay2 = 2
  bpredDelay3 = 3
  max_bb_cycle = 1
  MaxInst = 9
  InstQueueSize = 1
  IssueWidth = 1
  Levels = 1
  Kinds = {"op"}
INVARIANT BufferFits
CHECK_DEADLOCK FALSE
