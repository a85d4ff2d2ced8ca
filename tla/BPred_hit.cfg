SPECIFICATION Spec
CONSTANTS
  Kinds = {"imli"}
  BtbConfs <- MCBtbConfs
  Garbage = {0, 6}
  Geometry <- MCGeometry
  Simple <- MCSimple
  Streams <- MCStreams
  Program <- MCProgram
  Start = 64
  Wander = 4
  Settled = 40
  Macros <- MCMacros
  Macros1 <- MCMacros1
  Imli <- MCImli
INVARIANT NewAllocIsWeak
CHECK_DEADLOCK FALSE
