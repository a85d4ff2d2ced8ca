SPECIFICATION FairSpec
CONSTANTS
  Jobs <- MCJobs
  priority <- MCPriority
  AccessSize = 8
  MaxTime = 1000
  Deltas <- MCDeltas
  NPorts = 2
  nUnits <- MCUnits
  Reqs <- MCReqs
  MaxClock = 10
INVARIANTS
  TypeOK
  GrantsBounded
PROPERTIES
  CallsOnTime
  StrictPriority
  FixedPoint
  EverythingHappens
