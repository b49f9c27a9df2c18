SPECIFICATION SelfishSpec
CONSTANTS
    Node = {n1, n2, n3}
    Miner = {n1, n2, n3}
    Selfish = {n1}
    MaxBlock = 5
    MaxSelfishChainLength = 3
SYMMETRY Symmetry
INVARIANTS
    SelfishTypeOK
    PrivateChainTopsMainBranch
    PublishedToAllOrNone
    DistanceIsLead
