SPECIFICATION ObjectsSpec
CONSTANTS
    Word = 8192
    CompactLimit = {2, 3, 4}
    SlotValue = {0, 5}
    MaxSlots = 3
    Txn = {0, 1, 2, 3}
    PrevUtxos = {{}, {0}, {1}}
    MaxTxns = 4
    MaxBlockSize = 600
    Coins = {100, 393, 600}
    MaxCoins = 3
    Units = {"FIN", "uBTC"}
    Quantities = {1, 2}
    Share = {1, 2}
    MaxDest = 2
    FeeRates = {{1}, {1, 2}}
    Peer = {p1, p2}
    Address = {a1, a2}
    Port = {n1, n2}
    DefaultAddress = a1
    DefaultPort = n1
    Root = 2
    MaxExponent = 8
INVARIANTS
    DerivedFieldsFollow
    IndexIsUnspent
    PaymentBalances
    PeersStayReachable
    HashIsANumber
    RatesAddUp
PROPERTY PaymentEnds

CHECK_DEADLOCK FALSE
