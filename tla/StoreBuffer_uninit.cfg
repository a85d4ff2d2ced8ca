SPECIFICATION Spec
CONSTANTS
  l1 = l1
  l2 = l2
  l3 = l3
  l4 = l4
  NoLine = NoLine
  Lines <- MCLines
  Words <- OneWord
  scb_size = 1
  PrefetchLines <- NoLines
  SpecLoadLines <- NoLines
  PrefetchHits = FALSE
  FlushTransients = FALSE
  UninitPrefetch <- AnyBool
  MaxCallbacks = 1
INVARIANT
  StoresStayForwardable
