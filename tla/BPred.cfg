SPECIFICATION Spec
CONSTANTS
  Kinds = {"oracle", "taken", "not_taken", "not_taken_enhanced", "miss", "2bit", "2bitl0", "tdata",
           "2level", "2level_path", "hybrid", "2bcgskew", "yags", "superbp",
           "tahead", "tahead1", "imli", "imli_inst"}
  BtbConfs <- MCBtbConfs
  Garbage = {0, 6}
  Geometry <- MCGeometry
  Simple <- MCSimple
  Streams <- MCStreams
  Program <- MCProgram
  Start = 64
  Wander = 4
  Settled = 40
  Macros <- MCMacros
  Macros1 <- MCMacros1
  Imli <- MCImli
INVARIANTS FoldedHistoryExact BlockIndexesFresh SettledLearned
CHECK_DEADLOCK FALSE
