SPECIFICATION Spec
CONSTANTS
  l1 = l1
  l2 = l2
  NoLine = NoLine
  N = 3
  Program <- ThreeLoads
  Lines <- TwoLines
  Words <- OneWord
  scb_size = 1
  ldq_size = 1
  stq_size = 1
  lsq_size = 3
  MaxROBSize = 5
  ldq_late_alloc = TRUE
  UninitPresent <- Cleared
PROPERTY
  NoSpeculativeWrite
