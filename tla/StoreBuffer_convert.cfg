SPECIFICATION FairSpec
CONSTANTS
  l1 = l1
  l2 = l2
  l3 = l3
  l4 = l4
  NoLine = NoLine
  Lines <- TwoLines
  Words <- OneWord
  scb_size = 1
  PrefetchLines <- OneLine
  SpecLoadLines <- OneLine
  PrefetchHits = FALSE
  FlushTransients = FALSE
  UninitPrefetch <- Zeroed
  MaxCallbacks = 1
PROPERTY
  WaitingLinesGetClean
