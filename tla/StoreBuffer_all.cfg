SPECIFICATION FairSpec
CONSTANTS
  l1 = l1
  l2 = l2
  l3 = l3
  l4 = l4
  NoLine = NoLine
  Lines <- FourLines
  Words <- OneWord
  scb_size = 1
  PrefetchLines <- OneLine
  SpecLoadLines <- TwoLines
  PrefetchHits = TRUE
  FlushTransients = TRUE
  UninitPrefetch <- Zeroed
  MaxCallbacks = 2
INVARIANTS
  TypeOK
  OnlyPrefetchesStall
  CapacityBound
  StoresStayForwardable
PROPERTY
  UnprefetchedLinesGetClean
