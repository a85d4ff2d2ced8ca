SPECIFICATION Spec
CONSTANTS
  PipeLength = 2
  MaxIRequests = 2
  FetchWidth = 2
  RasSize = 2
  bpredDelay1 = 1
  bpredDelay2 = 2
  bpredDelay3 = 3
  max_bb_cycle = 2
  MaxInst = 4
  InstQueueSize = 4
  IssueWidth = 2
  Levels = 3
  Kinds = {"op", "branch", "call", "ret"}
INVARIANTS InstructionsKept BucketsConserved OneUnblockPending ReturnsPredicted NothingStranded
CHECK_DEADLOCK FALSE
