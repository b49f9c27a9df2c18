SPECIFICATION Spec
CONSTANTS
    Node = {n1, n2, n3}
    Miner = {n1, n2, n3}
    MaxBlock = 5
SYMMETRY Symmetry
INVARIANTS
    TypeOK
    MainBranchIsHighest
    HeadsAreLeaves
    BlockAccounting
    NeverAborts
    QuiescentAgreement
PROPERTIES
    FirstSeenWins
    ImplementsLongestChain
