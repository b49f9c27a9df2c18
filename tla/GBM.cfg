SPECIFICATION GBMSpec
CONSTANTS
    Node = {n1, n2, n3}
    Miner = {n1, n2, n3}
    MaxBlock = 4
    MaxCleanups = 2
SYMMETRY Symmetry
INVARIANTS
    MainBranchesMeet
    QuiescentHeights
PROPERTIES
    ForkAndParentRetained
