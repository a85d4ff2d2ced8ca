SPECIFICATION FairSpec
CONSTANTS
  l1 = l1
  l2 = l2
  NoLine = NoLine
  N = 4
  Program <- Mixed
  Lines <- TwoLines
  Words <- OneWord
  scb_size = 1
  ldq_size = 1
  stq_size = 2
  lsq_size = 3
  MaxROBSize = 5
  ldq_late_alloc = TRUE
  UninitPresent <- Cleared
INVARIANTS
  TypeOK
  NoUseAfterDestroy
  SlotReturnsClean
  PerformedAfterPNR
  EntriesConserved
PROPERTIES
  ImplementsStoreBuffer
  EveryDinstDestroyed
