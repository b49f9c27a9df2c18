-------------------------------- MODULE Ledger --------------------------------
(***************************************************************************)
(* The money of the simulated network: what a node's MempoolManager and    *)
(* Wallet hold while its BlockchainManager extends and swaps the main      *)
(* branch, its Miner fills blocks and its TransactionGenerator pays.       *)
(*                                                                         *)
(* A mempool, a wallet and a main branch are three objects kept in step by *)
(* calls made one after another, in the middle of appendBlock().  One of   *)
(* these calls, confirmUtxo(), may call back into the generator, which     *)
(* then spends from the wallet that is being updated.                      *)
(*                                                                         *)
(* Values, fees and sizes are abstract: every amount paid is below the     *)
(* value of any output, so that a generator is short of money exactly when *)
(* it has nothing to spend, the inputs it takes are any of the outputs it  *)
(* may spend, and any transactions of the mempool may fit in a block.      *)
(***************************************************************************)
EXTENDS BlockchainManager, Sequences, SequencesExt

CONSTANTS
    Funded,            \* the nodes with a starting balance
    Generator,         \* the nodes that run a TransactionGenerator
    CoinbaseMaturity,  \* confirmations a coinbase output must have
    MinConfirmations,  \* per generator: the confirmations it asks for
    FeeRate,           \* the fee rates that payments offer
    MaxPayment         \* bound: how many payments are made

ASSUME GeneratorAssumption == Generator \subseteq Node
ASSUME FundedAssumption == Funded \subseteq Node
ASSUME MaturityAssumption == CoinbaseMaturity \in Nat \ {0}
ASSUME ConfirmationsAssumption == MinConfirmations \in [Generator -> Nat]
ASSUME FeeRateAssumption == FeeRate \subseteq Nat

VARIABLES
    tx,          \* all transactions, numbered as their constructors ran
    txn,         \* per block: its transactions, in order
    utxos,       \* per block: the index of unspent outputs, per wallet
    mempool,     \* per node: the transactions of its MempoolManager
    wallet,      \* per node: the outputs in its Wallet, with confirmations
    waiting,     \* the nodes whose generator waits for the wallet's callback
    txInFlight   \* per node: the transactions of the DirectTxMsgs on their way

moneyVars == <<tx, mempool, wallet, waiting, txInFlight>>
ledgerVars == <<vars, txn, utxos, moneyVars>>

-----------------------------------------------------------------------------
(* Transactions.  The outputs that one transaction pays to one wallet are  *)
(* taken together: the output of t in the wallet of n is known there as t. *)

CoinbaseTx(payees) ==
    [coinbase |-> TRUE, feeRate |-> 0,
     spends |-> [n \in Node |-> {}], pays |-> payees]

(* What createTransaction() builds: the payer also receives the change. *)
Payment(n, inputs, payees, rate) ==
    [coinbase |-> FALSE, feeRate |-> rate,
     spends |-> [m \in Node |-> IF m = n THEN inputs ELSE {}],
     pays |-> payees \cup {n}]

Payments(h) == {t \in DOMAIN h : ~h[t].coinbase}

(* The outputs of t, of the transactions h, in the wallet of n. *)
Paid(h, t, n) == IF n \in h[t].pays THEN {t} ELSE {}

(* TransactionCmp: the order of a mempool. *)
Precedes(h, t, u) ==
    IF h[t].feeRate = h[u].feeRate THEN t < u ELSE h[t].feeRate > h[u].feeRate

(* The elements of S in the order of a std::set. *)
Sorted(S, Before(_, _)) ==
    [i \in 1 .. Cardinality(S) |->
        CHOOSE t \in S : Cardinality({u \in S : Before(u, t)}) = i - 1]

(* Miner::mineBlock() puts the coinbase before what it takes of the mempool. *)
(* (Fault: behind it.)                                                     *)
CoinbaseLast(h, coinbase, taken) ==
    Sorted(taken, LAMBDA t, u : Precedes(h, t, u)) \o <<coinbase>>
Ordered(h, coinbase, taken) ==
    <<coinbase>> \o Sorted(taken, LAMBDA t, u : Precedes(h, t, u))

(* Block::updateUtxosOnTransactionAdd(), for one and for all of a block. *)
UpdateUtxos(h, index, t) ==
    [n \in Node |-> (index[n] \ h[t].spends[n]) \cup Paid(h, t, n)]
UpdatedUtxos(h, index, ts) ==
    FoldLeft(LAMBDA i, t : UpdateUtxos(h, i, t), index, ts)

-----------------------------------------------------------------------------
(* The wallet w of node n.                                                 *)

(* appendTransaction() adds the outputs of t, then removes its inputs. *)
Added(h, w, t, n) ==
    [u \in (DOMAIN w \cup Paid(h, t, n)) \ h[t].spends[n] |->
        IF u \in Paid(h, t, n) THEN 0 ELSE w[u]]
AllAdded(h, w, ts, n) == FoldLeft(LAMBDA v, t : Added(h, v, t, n), w, ts)

(* confirmUtxo() *)
Count(w, t) == IF t \in DOMAIN w THEN w[t] ELSE 0
Confirmed(w, t) ==
    [u \in DOMAIN w \cup {t} |-> IF u = t THEN Count(w, t) + 1 ELSE w[u]]
AllConfirmed(w, ts) == FoldLeft(Confirmed, w, ts)

(* unconfirmWalletUtxos(), for the outputs in U. *)
Unconfirmed(w, U) ==
    [t \in {u \in DOMAIN w : u \in U => w[u] > 1} |->
        IF t \in U THEN w[t] - 1 ELSE w[t]]

(* What unspentOutputs() lists.  (Fault: immature coinbases too.) *)
ListedYoung(h, w, least) == {t \in DOMAIN w : w[t] >= least}
Listed(h, w, least) ==
    {t \in DOMAIN w : /\ w[t] >= least
                      /\ h[t].coinbase => w[t] >= CoinbaseMaturity}

(* This confirmation of t runs the callback.  (Fault: it never does for a  *)
(* coinbase.)                                                              *)
RipePayment(h, w, t) == ~h[t].coinbase /\ w[t] = 1
Ripe(h, w, t) == w[t] = IF h[t].coinbase THEN CoinbaseMaturity ELSE 1

-----------------------------------------------------------------------------
(* TransactionGenerator::createTransaction() at node n, whose wallet is w  *)
(* and whose mempool is pool; the outputs in the sequence rest are still   *)
(* to be confirmed when it returns.  Either it has too little for the fee  *)
(* and gives up, or the payment enters the mempool and is sent to all.     *)
CreateTransaction(n, h, w, pool, rest) ==
    /\ waiting' = waiting \ {n}
    /\ \/ /\ tx' = h
          /\ wallet' = [wallet EXCEPT ![n] = AllConfirmed(w, rest)]
          /\ mempool' = [mempool EXCEPT ![n] = pool]
          /\ UNCHANGED txInFlight
       \/ /\ Cardinality(Payments(h)) < MaxPayment
          /\ \E inputs \in SUBSET Listed(h, w, MinConfirmations[n]) \ {{}},
                payees \in SUBSET (Node \ {n}), rate \in FeeRate :
                tx' = Append(h, Payment(n, inputs, payees, rate))
          /\ LET t == Len(h) + 1
             IN  /\ wallet' = [wallet EXCEPT ![n] =
                       AllConfirmed(Added(tx', w, t, n), rest)]
                 /\ mempool' = [mempool EXCEPT ![n] = pool \cup {t}]
                 /\ txInFlight' = [m \in Node |->
                       IF m = n THEN txInFlight[m] ELSE txInFlight[m] \cup {t}]

(* handleSelfMessage(): the timer of the generator goes off. *)
Generate(n) ==
    /\ ~aborted
    /\ n \notin waiting
    /\ IF Listed(tx, wallet[n], MinConfirmations[n]) = {}
       THEN /\ waiting' = waiting \cup {n}
            /\ UNCHANGED <<tx, mempool, wallet, txInFlight>>
       ELSE CreateTransaction(n, tx, wallet[n], mempool[n], <<>>)
    /\ UNCHANGED <<vars, txn, utxos>>

(* MempoolManager::handleOtherMessage(): a DirectTxMsg reaches node n. *)
ReceiveTx(n, t) ==
    /\ ~aborted
    /\ t \in txInFlight[n]
    /\ txInFlight' = [txInFlight EXCEPT ![n] = @ \ {t}]
    /\ mempool' = [mempool EXCEPT ![n] = @ \cup {t}]
    /\ wallet' = [wallet EXCEPT ![n] = Added(tx, @, t, n)]
    /\ UNCHANGED <<vars, txn, utxos, tx, waiting>>

-----------------------------------------------------------------------------
(* appendBlock() moves the main branch.                                    *)

Txns(bs) == UNION {ToSet(txn'[b]) : b \in bs}

(* One block leaves the main branch: its index is unconfirmed, and its     *)
(* transactions return to the mempool.  (The first two are faults: nothing *)
(* is unconfirmed, or it is after the transactions have returned.)         *)
StillConfirmed(h, w, b, n) == AllAdded(h, w, txn'[b], n)
RevertedLate(h, w, b, n) ==
    Unconfirmed(AllAdded(h, w, txn'[b], n), utxos'[b][n])
Reverted(h, w, b, n) ==
    AllAdded(h, Unconfirmed(w, utxos'[b][n]), txn'[b], n)
AllReverted(h, w, bs, n) == FoldLeft(LAMBDA v, b : Reverted(h, v, b, n), w, bs)

(* The mempool after the blocks off have left the main branch and the      *)
(* blocks on have joined it.  (Fault: nothing returns to the mempool.)     *)
PoolWithoutReturn(pool, off, on) == pool \ Txns(on)
PoolAfter(pool, off, on) == (pool \cup Txns(off)) \ Txns(on)

(* Node n, whose wallet is w and whose mempool is pool, follows its main   *)
(* branch: blocks leave from the tip down to the fork, others join from    *)
(* there up, and each one that joins confirms all the outputs in its index *)
(* one by one.  The first confirmation that finds the generator waiting    *)
(* and leaves it something to spend makes it pay there and then.           *)
Follow(n, h, w, pool) ==
    LET old == block'[mainBranch[n]].chain
        new == block'[mainBranch'[n]].chain
        off == Sorted(old \ new, >)
        on == Sorted(new \ old, <)
        start == AllReverted(h, w, off, n)
        queue == FlattenSeq([i \in DOMAIN on |->
                                Sorted(utxos'[on[i]][n], <)])
        Upto(i) == AllConfirmed(start, SubSeq(queue, 1, i))
        wakes == {i \in DOMAIN queue :
                     /\ n \in waiting
                     /\ Ripe(h, Upto(i), queue[i])
                     /\ Listed(h, Upto(i), MinConfirmations[n]) # {}}
        left == PoolAfter(pool, old \ new, new \ old)
    IN  \/ /\ wakes = {}
           /\ tx' = h
           /\ wallet' = [wallet EXCEPT ![n] = Upto(Len(queue))]
           /\ mempool' = [mempool EXCEPT ![n] = left]
           /\ UNCHANGED <<waiting, txInFlight>>
        \/ \E i \in wakes :
              /\ \A j \in wakes : i <= j
              /\ CreateTransaction(n, h, Upto(i), left,
                                   SubSeq(queue, i + 1, Len(queue)))

(* mineBlock(): the coinbase goes into the mempool and the wallet before   *)
(* the block, which holds it, is appended.                                 *)
LedgerMine(n) ==
    /\ Mine(n)
    /\ \E taken \in SUBSET mempool[n] :
          LET h == Append(tx, CoinbaseTx({n}))
              c == Len(h)
          IN  /\ txn' = [txn EXCEPT ![mined'] = Ordered(h, c, taken)]
              /\ utxos' = [utxos EXCEPT ![mined'] =
                    UpdatedUtxos(h, utxos[mainBranch[n]], Ordered(h, c, taken))]
              /\ Follow(n, h, Added(h, wallet[n], c, n), mempool[n] \cup {c})

LedgerReceive(n, b) ==
    /\ Receive(n, b)
    /\ UNCHANGED <<txn, utxos>>
    /\ Follow(n, tx, wallet[n], mempool[n])

(* The genesis block pays the starting balances, and addGenesisBlock()     *)
(* confirms them to the full maturity at once.                             *)
LedgerInit ==
    /\ Init
    /\ tx = <<CoinbaseTx(Funded)>>
    /\ txn = [b \in Block |-> IF b = Genesis THEN <<1>> ELSE <<>>]
    /\ utxos = [b \in Block |->
                   [n \in Node |-> IF b = Genesis THEN Paid(tx, 1, n) ELSE {}]]
    /\ mempool = [n \in Node |-> {}]
    /\ wallet = [n \in Node |-> [t \in Paid(tx, 1, n) |-> CoinbaseMaturity]]
    /\ waiting = {}
    /\ txInFlight = [n \in Node |-> {}]

LedgerTimeLimit ==
    /\ TimeLimit
    /\ \A n \in Node : txInFlight[n] = {}
    /\ UNCHANGED ledgerVars

LedgerNext ==
    \/ \E n \in Miner : LedgerMine(n)
    \/ \E n \in Node : \E b \in Block : LedgerReceive(n, b)
    \/ \E n \in Generator : Generate(n)
    \/ \E n \in Node : \E t \in DOMAIN tx : ReceiveTx(n, t)
    \/ LedgerTimeLimit

LedgerSpec == LedgerInit /\ [][LedgerNext]_ledgerVars

-----------------------------------------------------------------------------
(* Properties                                                              *)

(* The transactions that the main branch of node n contains. *)
OnChain(n) == UNION {ToSet(txn[b]) : b \in block[mainBranch[n]].chain}

(* The blocks of n's main branch from the first one that contains t up. *)
Depth(n, t) ==
    LET chain == block[mainBranch[n]].chain
    IN  Cardinality({b \in chain :
            \E a \in chain : t \in ToSet(txn[a]) /\ a <= b})

(* Every variable holds a value of its type; every block begins with a     *)
(* coinbase, and only payments are sent from mempool to mempool.           *)
LedgerTypeOK ==
    /\ \A t \in DOMAIN tx :
          /\ tx[t].spends \in [Node -> SUBSET DOMAIN tx]
          /\ tx[t].pays \subseteq Node
    /\ txn \in [Block -> Seq(DOMAIN tx)]
    /\ \A b \in Genesis .. mined : tx[Head(txn[b])].coinbase
    /\ utxos \in [Block -> [Node -> SUBSET DOMAIN tx]]
    /\ mempool \in [Node -> SUBSET DOMAIN tx]
    /\ txInFlight \in [Node -> SUBSET Payments(tx)]
    /\ waiting \subseteq Generator
    /\ \A n \in Node : /\ DOMAIN wallet[n] \subseteq DOMAIN tx
                       /\ \A t \in DOMAIN wallet[n] : wallet[n][t] \in Nat

(* No payment is lost, however the main branch is swapped: at every node   *)
(* it is on its way, in the mempool, or in a block of the main branch.     *)
NoPaymentLost ==
    \A n \in Node : \A t \in Payments(tx) :
        t \in txInFlight[n] \cup mempool[n] \cup OnChain(n)

(* No money is lost: an output that pays a node, of a transaction in its   *)
(* mempool or main branch, is in its wallet unless another transaction     *)
(* there spends it.                                                        *)
NoFundsLost ==
    \A n \in Node :
        LET heard == mempool[n] \cup OnChain(n)
        IN  \A t \in heard :
                n \in tx[t].pays =>
                    \/ t \in DOMAIN wallet[n]
                    \/ \E u \in heard : t \in tx[u].spends[n]

(* A wallet never counts more confirmations than the main branch gives.    *)
(* (The outputs of the genesis block start with those of maturity.)        *)
NeverOvercounts ==
    \A n \in Node : \A t \in DOMAIN wallet[n] :
        wallet[n][t] <= Depth(n, t) + IF t = 1 THEN CoinbaseMaturity - 1 ELSE 0

(* The documentation of coinbaseMaturity: "Number of confirmations         *)
(* required before a coinbase transaction output can be spent".  So when a *)
(* payment is made, every coinbase it spends lies that deep in the main    *)
(* branch of the payer.                                                    *)
MaturityRespected ==
    [][\A u \in Payments(tx') \ Payments(tx) : \A n \in Node :
          \A t \in tx'[u].spends[n] \ {1} :
              tx'[t].coinbase => Depth(n, t)' >= CoinbaseMaturity]_ledgerVars

(* No confirmation is lost on a generator that waits and asks for at most  *)
(* one: while it waits, its wallet holds no output that was confirmed, nor *)
(* a coinbase that has matured.  (Wallet.cc, confirmUtxo().  What it holds *)
(* unconfirmed is another matter.)                                         *)
ConfirmationsWake ==
    \A n \in waiting :
        MinConfirmations[n] <= 1 => Listed(tx, wallet[n], 1) = {}

(* The documentation of TransactionGenerator: "the application waits until *)
(* the Wallet balance meets the required amount", where an output counts   *)
(* from minConfirmations on.  So while it waits, its wallet holds nothing  *)
(* that it may spend.                                                      *)
WaitingMeansPoor ==
    \A n \in waiting : Listed(tx, wallet[n], MinConfirmations[n]) = {}

(* The documentation of confirmUtxo(): it "increases the confirmation      *)
(* count for any remaining UTXOs in the Wallet".  So it brings back none   *)
(* that was spent, and no output is spent twice.                           *)
NoDoubleSpend ==
    \A t, u \in Payments(tx) : \A n \in Node :
        t # u => tx[t].spends[n] \cap tx[u].spends[n] = {}
=============================================================================
