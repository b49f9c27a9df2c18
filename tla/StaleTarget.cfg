SPECIFICATION RetargetSpec
CONSTANTS
    Node = {1, 2}
    Miner = {1, 2}
    MaxBlock = 5
    Root = 2
    MaxExponent = 10
    Period = 2
    Expected = 4
    Gap = {1, 5}
    InitialTarget = 1200
INVARIANTS
    TargetFollowsBranch
