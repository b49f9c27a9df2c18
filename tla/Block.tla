------------------------------- MODULE Block -------------------------------
(***************************************************************************)
(* Blocks (objects/Block.cc): an array of transactions, and beside it a    *)
(* length and an index of unspent outputs.  The index starts from the one  *)
(* of the previous block and is patched by every call.  The code keeps it  *)
(* by wallet; an output belongs to one wallet, so it is one set here.      *)
(*                                                                         *)
(* The transactions are a chain: transaction 0 is the coinbase, and every  *)
(* other t spends the output of t - 1.                                     *)
(***************************************************************************)
EXTENDS Transaction, FiniteSetsExt

CONSTANTS
    Txn,            \* the transactions, 0 among them
    PrevUtxos,      \* the possible indexes of the previous block
    MaxTxns,        \* bound: the slots of a block
    MaxBlockSize    \* the miner's limit, in bytes

ASSUME BlockAssumption ==
    /\ Txn \subseteq Nat /\ IsFiniteSet(Txn) /\ 0 \in Txn
    /\ PrevUtxos \subseteq SUBSET Txn
    /\ MaxTxns \in Nat /\ MaxBlockSize \in Nat

VARIABLES
    blk,    \* a block: header, the index of its predecessor ({} without
            \* one), txn, bytes, utxos; and followed, a history variable:
            \* whether the calls since the last rebuild added a transaction
            \* only when the index had what it spends and no block had what
            \* it pays, and removed one only when the index had what it pays
    mined   \* whether a miner built it, and no call followed

blockVars == <<blk, mined>>

NoTxn == -1
Spent(t) == IF t = 0 THEN {} ELSE {t - 1}
Paid(t) == {t}

(* A coinbase, a payment without change, a payment with change. *)
CoinbaseBytes == 10 + (36 + 1 + 4 + 0 + 4) + Bytes.txOut
TxnBytes(t) == IF t = 0 THEN CoinbaseBytes
               ELSE 10 + Bytes.txIn + Bytes.txOut * (1 + (t % 2))

-----------------------------------------------------------------------------
(* updateUtxosOnTransactionAdd(), updateUtxosOnTransactionRemove().        *)
(* (Fault: a removal gives nothing back.)                                  *)
Added(b, t) ==
    [b EXCEPT !.utxos = (@ \ Spent(t)) \cup Paid(t),
              !.followed = @ /\ Spent(t) \subseteq b.utxos
                             /\ Paid(t) \cap (b.utxos \cup b.prev) = {}]
RemovedForGood(b, t) ==
    [b EXCEPT !.utxos = @ \ Paid(t),
              !.followed = @ /\ Paid(t) \subseteq b.utxos]
Removed(b, t) ==
    [b EXCEPT !.utxos = (@ \ Paid(t)) \cup Spent(t),
              !.followed = @ /\ Paid(t) \subseteq b.utxos]

(* The same for a slot, which may be empty, and with the length.  (Fault:  *)
(* the length keeps what leaves.)                                          *)
Filled(b, t) ==
    IF t = NoTxn THEN b
    ELSE [Added(b, t) EXCEPT !.bytes = @ + TxnBytes(t)]
Emptied(b, t) ==
    IF t = NoTxn THEN b
    ELSE [Removed(b, t) EXCEPT !.bytes = @ - TxnBytes(t)]

Reslotted(b, n) ==
    [b EXCEPT !.txn = Resize(@, n, NoTxn),
              !.bytes = @ + CompactSize(n) - CompactSize(Len(b.txn))]

(* setTxnArraySize(): the slots that go are emptied from the last one up.  *)
WithSize(b, n) ==
    LET gone == Reverse(SubSeq(b.txn, n + 1, Len(b.txn)))
    IN  FoldLeft(Emptied, Reslotted(b, n), gone)

(* setTxn(), insertTxn(), eraseTxn() *)
WithTxn(b, k, t) ==
    Filled([Emptied(b, b.txn[k]) EXCEPT !.txn[k] = t], t)
WithInserted(b, k, t) ==
    LET n == Len(b.txn)
    IN  Filled([b EXCEPT !.txn = InsertAt(@, k, t),
                         !.bytes = @ + CompactSize(n + 1) - CompactSize(n)], t)
WithErased(b, k) ==
    LET n == Len(b.txn)
    IN  [Emptied(b, b.txn[k]) EXCEPT
            !.txn = RemoveAt(@, k),
            !.bytes = @ + CompactSize(n - 1) - CompactSize(n)]

(* rebuildUtxos(), with the transactions in the order of their slots. *)
Rebuilt(b) ==
    FoldLeft(LAMBDA c, t : IF t = NoTxn THEN c ELSE Added(c, t),
             [b EXCEPT !.utxos = b.prev, !.followed = TRUE], b.txn)

(* setHeader(), replaceHeader(), removeHeader() *)
WithHeader(b, prev) == Rebuilt([b EXCEPT !.header = TRUE, !.prev = prev])
WithoutHeader(b) == Rebuilt([b EXCEPT !.header = FALSE, !.prev = {}])

NewBlock ==
    [header |-> FALSE, prev |-> {}, txn |-> <<>>, bytes |-> 80 + 1,
     utxos |-> {}, followed |-> TRUE]

(* The miner's limit leaves room for the coinbase. *)
ASSUME MinerAssumption == NewBlock.bytes + TxnBytes(0) <= MaxBlockSize

-----------------------------------------------------------------------------
(* mineBlock(): the payments of the mempool, in its order, as far as they  *)
(* fit behind the coinbase.  A payment that does not fit is passed over.   *)
Offered(c, t) ==
    LET n == Len(c.txns)
        more == c.bytes + TxnBytes(t) + CompactSize(n + 2) - CompactSize(n + 1)
    IN  IF more > MaxBlockSize THEN c
        ELSE [txns |-> Append(c.txns, t), bytes |-> more]
Chosen(pool) ==
    FoldLeft(Offered, [txns |-> <<>>, bytes |-> NewBlock.bytes + TxnBytes(0)], pool)

(* Its slots are filled from the first one on. *)
WithTxns(b, txns) ==
    FoldLeftDomain(LAMBDA c, i : WithTxn(c, i, txns[i]), b, txns)

Assembled(prev, pool) ==
    LET txns == <<0>> \o Chosen(pool).txns
    IN  WithTxns(WithSize(WithHeader(NewBlock, prev), Len(txns)), txns)

-----------------------------------------------------------------------------
BlockInit ==
    /\ blk = NewBlock
    /\ mined = FALSE

MineBlock(prev, pool) ==
    /\ blk = NewBlock /\ ~mined
    /\ blk' = Assembled(prev, pool)
    /\ mined' = TRUE

Absent == Txn \ Range(blk.txn)

BlockNext ==
    \/ \E prev \in PrevUtxos, pool \in SetToAllKPermutations(Txn \ {0}) :
          MineBlock(prev, pool)
    \/ /\ mined' = FALSE
       /\ \/ \E n \in 0 .. MaxTxns :
                /\ Len(blk.txn) = 0 \/ n > 0
                /\ blk' = WithSize(blk, n)
          \/ \E t \in Absent : \E k \in DOMAIN blk.txn :
                blk' = WithTxn(blk, k, t)
          \/ \E t \in Absent : \E k \in 1 .. Len(blk.txn) + 1 :
                /\ Len(blk.txn) < MaxTxns
                /\ blk' = WithInserted(blk, k, t)
          \/ \E k \in DOMAIN blk.txn : blk' = WithErased(blk, k)
          \/ \E prev \in PrevUtxos :
                blk' = WithHeader(blk, prev)
          \/ blk.header /\ blk' = WithoutHeader(blk)

-----------------------------------------------------------------------------
Held(b) == Range(b.txn) \ {NoTxn}
PaidBy(T) == UNION {Paid(t) : t \in T}
SpentBy(T) == UNION {Spent(t) : t \in T}

(* The index is that of the previous block, with what the transactions pay *)
(* and without what they spend, whatever calls led to it and in whatever   *)
(* order the slots are, as long as each transaction came after those it    *)
(* spends from and left before them.  The wallets take their balance from  *)
(* it (getUtxos()).  A child added before its parent breaks it.            *)
IndexIsUnspent ==
    blk.followed =>
        blk.utxos = (blk.prev \cup PaidBy(Held(blk))) \ SpentBy(Held(blk))

(* A block's length is that of what it holds, and a miner's is in bounds.  *)
BlockFollows ==
    /\ blk.bytes = 80 + CompactSize(Len(blk.txn))
                      + MapThenSumSet(TxnBytes, Held(blk))
    /\ mined => blk.bytes <= MaxBlockSize
=============================================================================
