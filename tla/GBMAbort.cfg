SPECIFICATION GBMSpec
CONSTANTS
    Node = {n1, n2}
    Miner = {n1, n2}
    MaxBlock = 4
    MaxCleanups = 1
INVARIANT NeverAborts
