SPECIFICATION FairSpec
CONSTANTS
  r1 = r1
  r2 = r2
  NoReg = NoReg
  MaxInst = 4
  Regs <- TwoRegs
  TransientKinds <- AllKinds
  MaxROBSize = 5
  num_regs = 3
  nRegs = 3
  MaxWinSize = 3
  max_branches = 2
INVARIANTS
  TypeOK
  NoCrossPollution
  NoUseAfterDestroy
  PoolsConserved
  RobInOrder
PROPERTY
  EveryInstDestroyed
