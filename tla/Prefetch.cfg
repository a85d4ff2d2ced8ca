CONSTANTS
    PCs <- MCPCs
    Loads <- MCLoads
    Size = 4
    Width = 3
    Degrees = {2, 4}
    Distance = 1
    AddrBits = 14
    IntBits = 13
SPECIFICATION Spec
INVARIANTS ChainOwned StrideLearned
