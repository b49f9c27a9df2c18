SPECIFICATION LedgerSpec
CONSTANTS
    Node = {n1, n2}
    Miner = {n1, n2}
    Funded = {n1}
    Generator = {n1, n2}
    MaxBlock = 3
    MaxPayment = 2
    CoinbaseMaturity = 2
    MinConfirmations <- MCMinConfirmations
    FeeRate = {1}
INVARIANT WaitingMeansPoor
