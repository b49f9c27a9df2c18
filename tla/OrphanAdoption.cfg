SPECIFICATION Spec
CONSTANTS
    Node = {n1, n2}
    Miner = {n1, n2}
    MaxBlock = 3
INVARIANT OrphanAdoptedOnceParentKnown
