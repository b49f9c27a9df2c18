---------------------------- MODULE Ledger_proofs ----------------------------
(***************************************************************************)
(* What holds of the ledger for every network, every number of blocks and  *)
(* every number of payments.                                               *)
(*                                                                         *)
(* Where payments are does not depend on wallets: PaymentsAreNeverLost is  *)
(* proved first, from the tree of blocks alone.  The other properties are  *)
(* about what the folds over transactions, blocks and outputs leave in a   *)
(* wallet and in an index.  Each fold is unrolled into the wallets on the  *)
(* way (Confirms, Adds, Reverts, Updates), of which Induction.tla proves   *)
(* what holds at every step, and a whole appendBlock() into blocks that    *)
(* leave, outputs confirmed one by one and perhaps a payment (Follows).    *)
(* On these rest, each on the invariant of the one before:                 *)
(*                                                                         *)
(*   TypedInv    LedgerTypes, and with it                                  *)
(*   PoorInv     NoConfirmationIsLost                                      *)
(*   FundsInv    FundsAreNeverLost: the index of each block has what its   *)
(*               chain pays, but for what is spent there                   *)
(*   CountedInv  CountsAreCovered and CoinbasesMature: a count is at most  *)
(*               the number of blocks that confirm the output              *)
(***************************************************************************)
EXTENDS Ledger, BlockchainManager_proofs, Induction

(* The variables are functions of blocks and of nodes, and the transactions *)
(* are a sequence.                                                          *)
LedgerShape ==
    /\ tx \in Seq(ToSet(tx))
    /\ DOMAIN txn = Block
    /\ DOMAIN mempool = Node
    /\ DOMAIN txInFlight = Node

(* The inductive invariant. *)
LedgerInv == IInv /\ LedgerShape /\ NoPaymentLost

(* What a step at node n does to payments when it starts from the          *)
(* transactions h and leaves at least pool in the mempool: only this node  *)
(* may make a payment, and it sends it to all others.                      *)
Moved(n, h, pool) ==
    /\ tx' \in Seq(ToSet(tx'))
    /\ DOMAIN mempool' = Node
    /\ DOMAIN txInFlight' = Node
    /\ pool \subseteq mempool'[n]
    /\ \A m \in Node \ {n} : mempool'[m] = mempool[m]
    /\ \A m \in Node : txInFlight[m] \subseteq txInFlight'[m]
    /\ \A t \in Payments(tx') :
          \/ t \in Payments(h)
          \/ /\ t \in mempool'[n]
             /\ \A m \in Node \ {n} : t \in txInFlight'[m]

-----------------------------------------------------------------------------
(* A transaction is added at the end. *)
LEMMA AppendedTransaction ==
    ASSUME NEW h, h \in Seq(ToSet(h)), NEW e
    PROVE  /\ Append(h, e) \in Seq(ToSet(Append(h, e)))
           /\ Len(h) \in Nat
           /\ Len(Append(h, e)) = Len(h) + 1
           /\ \A t \in Payments(Append(h, e)) :
                 t \in Payments(h) \/ (t = Len(h) + 1 /\ ~e.coinbase)
<1> DEFINE g == Append(h, e)
<1>1. /\ Len(h) \in Nat /\ DOMAIN h = 1 .. Len(h)
      /\ Len(g) = Len(h) + 1 /\ DOMAIN g = 1 .. Len(h) + 1
      /\ g[Len(h) + 1] = e
      /\ \A i \in 1 .. Len(h) : g[i] = h[i]
  OBVIOUS
<1>2. h \in Seq(ToSet(h) \cup {e}) /\ e \in ToSet(h) \cup {e}
  OBVIOUS
<1>3. g \in Seq(ToSet(h) \cup {e})
  BY <1>2
<1> HIDE DEF g
<1>4. g \in Seq(ToSet(g))
  BY <1>1, <1>3 DEF ToSet
<1>5. \A t \in Payments(g) : t \in Payments(h) \/ (t = Len(h) + 1 /\ ~e.coinbase)
  BY <1>1 DEF Payments
<1> QED BY <1>1, <1>4, <1>5 DEF g

(* The payments a generator makes are sent to every other node. *)
LEMMA CreateMoves ==
    ASSUME LedgerShape, NEW n \in Node, NEW h, h \in Seq(ToSet(h)),
           NEW w, NEW pool, NEW rest, CreateTransaction(n, h, w, pool, rest)
    PROVE  Moved(n, h, pool)
<1>1. CASE /\ tx' = h
           /\ mempool' = [mempool EXCEPT ![n] = pool]
           /\ UNCHANGED txInFlight
  BY <1>1 DEF Moved, LedgerShape
<1>2. CASE \E e : /\ tx' = Append(h, e)
                  /\ mempool' = [mempool EXCEPT ![n] = pool \cup {Len(h) + 1}]
                  /\ txInFlight' = [m \in Node |->
                        IF m = n THEN txInFlight[m]
                        ELSE txInFlight[m] \cup {Len(h) + 1}]
  <2>1. PICK e : /\ tx' = Append(h, e)
                 /\ mempool' = [mempool EXCEPT ![n] = pool \cup {Len(h) + 1}]
                 /\ txInFlight' = [m \in Node |->
                       IF m = n THEN txInFlight[m]
                       ELSE txInFlight[m] \cup {Len(h) + 1}]
    BY <1>2
  <2>2. /\ tx' \in Seq(ToSet(tx'))
        /\ \A t \in Payments(tx') : t \in Payments(h) \/ t = Len(h) + 1
    BY <2>1, AppendedTransaction
  <2> DEFINE l == Len(h) + 1
  <2> HIDE DEF l
  <2>3. /\ mempool'[n] = pool \cup {l} /\ DOMAIN mempool' = Node
        /\ \A m \in Node \ {n} : mempool'[m] = mempool[m]
    BY <2>1 DEF LedgerShape, l
  <2>4. /\ DOMAIN txInFlight' = Node
        /\ \A m \in Node : txInFlight[m] \subseteq txInFlight'[m]
        /\ \A m \in Node \ {n} : l \in txInFlight'[m]
    BY <2>1 DEF l
  <2> QED BY <2>2, <2>3, <2>4 DEF Moved, l
<1>3. \/ /\ tx' = h
         /\ mempool' = [mempool EXCEPT ![n] = pool]
         /\ UNCHANGED txInFlight
      \/ \E e : /\ tx' = Append(h, e)
                /\ mempool' = [mempool EXCEPT ![n] = pool \cup {Len(h) + 1}]
                /\ txInFlight' = [m \in Node |->
                      IF m = n THEN txInFlight[m]
                      ELSE txInFlight[m] \cup {Len(h) + 1}]
  BY DEF CreateTransaction
<1> QED BY <1>1, <1>2, <1>3

(* Following the main branch returns the payments of the blocks that leave *)
(* it to the mempool, but for those in blocks that join it.                *)
LEMMA FollowMoves ==
    ASSUME LedgerShape, NEW n \in Node, NEW h, h \in Seq(ToSet(h)),
           NEW w, NEW pool, Follow(n, h, w, pool),
           NEW old, old = block'[mainBranch[n]].chain,
           NEW new, new = block'[mainBranch'[n]].chain
    PROVE  Moved(n, h, PoolAfter(pool, old \ new, new \ old))
<1> DEFINE left == PoolAfter(pool, old \ new, new \ old)
<1>1. \/ /\ tx' = h
         /\ mempool' = [mempool EXCEPT ![n] = left]
         /\ UNCHANGED <<waiting, txInFlight>>
      \/ \E v, rest : CreateTransaction(n, h, v, left, rest)
  BY DEF Follow
<1> HIDE DEF left
<1>2. CASE /\ tx' = h
           /\ mempool' = [mempool EXCEPT ![n] = left]
           /\ UNCHANGED <<waiting, txInFlight>>
  <2>1. Moved(n, h, left)
    BY <1>2 DEF Moved, LedgerShape
  <2> QED BY <2>1 DEF left
<1>3. CASE \E v, rest : CreateTransaction(n, h, v, left, rest)
  <2>1. Moved(n, h, left)
    BY <1>3, CreateMoves
  <2> QED BY <2>1 DEF left
<1> QED BY <1>1, <1>2, <1>3

-----------------------------------------------------------------------------
(* The inductive invariant.                                                *)

(* A step of BlockchainManager at node n, and what the ledger makes of it. *)
LEMMA MovingKeepsPayments ==
    ASSUME LedgerInv, NEW n \in Node,
           Mine(n) \/ \E b \in Block : Receive(n, b),
           NEW h, \A t \in Payments(h) : t \in Payments(tx),
           NEW pool, mempool[n] \subseteq pool,
           NEW old, old = block'[mainBranch[n]].chain,
           NEW new, new = block'[mainBranch'[n]].chain,
           Moved(n, h, PoolAfter(pool, old \ new, new \ old)),
           DOMAIN txn' = Block, \A b \in 0 .. mined : txn'[b] = txn[b]
    PROVE  LedgerShape' /\ NoPaymentLost'
<1>1. IInv /\ NoPaymentLost
  BY DEF LedgerInv
<1>2. /\ \A x \in 0 .. mined : block'[x] = block[x]
      /\ \A m \in Node \ {n} : mainBranch'[m] = mainBranch[m]
  BY <1>1, StepOfOneNode DEF IInv, TreeInv, TypeOK
<1>3. \A m \in Node : /\ mainBranch[m] \in 0 .. mined
                      /\ block[mainBranch[m]].chain \subseteq 0 .. mined
  BY <1>1, InvariantOfTree DEF IInv, TreeInv, TreeOK
<1>4. LedgerShape'
  BY DEF Moved, LedgerShape
<1> DEFINE left == PoolAfter(pool, old \ new, new \ old)
<1>5. /\ left \subseteq mempool'[n]
      /\ \A m \in Node \ {n} : mempool'[m] = mempool[m]
      /\ \A m \in Node : txInFlight[m] \subseteq txInFlight'[m]
      /\ \A t \in Payments(tx') :
            \/ t \in Payments(tx)
            \/ /\ t \in mempool'[n]
               /\ \A m \in Node \ {n} : t \in txInFlight'[m]
  BY DEF Moved
<1>6. ASSUME NEW m \in Node, NEW t \in OnChain(m), m # n
      PROVE  t \in OnChain(m)'
  <2>1. PICK b \in block[mainBranch[m]].chain : t \in ToSet(txn[b])
    BY <1>6 DEF OnChain
  <2>2. b \in block'[mainBranch'[m]].chain /\ t \in ToSet(txn'[b])
    BY <2>1, <1>2, <1>3, <1>6
  <2> QED BY <2>2 DEF OnChain, ToSet
<1>7. ASSUME NEW t \in Txns(new \ old) PROVE t \in OnChain(n)'
  BY <1>7 DEF Txns, OnChain, ToSet
<1>8. ASSUME NEW t \in mempool[n] \cup OnChain(n)
      PROVE  t \in left \cup OnChain(n)'
  <2>1. CASE t \in Txns(new \ old)
    BY <2>1, <1>7
  <2>2. CASE t \notin Txns(new \ old) /\ t \in mempool[n]
    BY <2>2 DEF PoolAfter
  <2>3. CASE t \notin Txns(new \ old) /\ t \in OnChain(n)
    <3>1. PICK b \in block[mainBranch[n]].chain : t \in ToSet(txn[b])
      BY <2>3 DEF OnChain
    <3>2. b \in old /\ t \in ToSet(txn'[b])
      BY <3>1, <1>2, <1>3
    <3>3. CASE b \in new
      BY <3>2, <3>3 DEF OnChain, ToSet
    <3>4. CASE b \notin new
      <4>1. t \in Txns(old \ new)
        BY <3>2, <3>4 DEF Txns
      <4> QED BY <4>1, <2>3 DEF PoolAfter
    <3> QED BY <3>3, <3>4
  <2> QED BY <2>1, <2>2, <2>3
<1> HIDE DEF left
<1>9. NoPaymentLost'
  <2>1. ASSUME NEW m \in Node, NEW t \in Payments(tx')
        PROVE  t \in txInFlight'[m] \cup mempool'[m] \cup OnChain(m)'
    <3>1. CASE t \in Payments(tx)
      <4>1. t \in txInFlight[m] \cup mempool[m] \cup OnChain(m)
        BY <3>1, <1>1 DEF NoPaymentLost
      <4>2. CASE m = n
        BY <4>1, <4>2, <1>5, <1>8
      <4>3. CASE m # n
        BY <4>1, <4>3, <1>5, <1>6
      <4> QED BY <4>2, <4>3
    <3>2. CASE t \notin Payments(tx)
      BY <3>2, <1>5
    <3> QED BY <3>1, <3>2
  <2>2. Payments(tx)' = Payments(tx')
    BY DEF Payments
  <2> QED BY <2>1, <2>2 DEF NoPaymentLost
<1> QED BY <1>4, <1>9

(* A mined block takes payments from the mempool, and the main branch that *)
(* it extends is followed.                                                 *)
LEMMA LedgerMineKeepsInv ==
    ASSUME LedgerInv, NEW n \in Node, LedgerMine(n)
    PROVE  LedgerInv'
<1>1. IInv /\ LedgerShape /\ NoPaymentLost /\ Mine(n)
  BY DEF LedgerInv, LedgerMine
<1>2. IInv' /\ mined \in Nat /\ mined' = mined + 1
  BY <1>1, MineKeepsIInv, StepOfOneNode DEF Mine
<1> DEFINE h == Append(tx, CoinbaseTx({n}))
           c == Len(h)
           old == block'[mainBranch[n]].chain
           new == block'[mainBranch'[n]].chain
           pool == mempool[n] \cup {c}
<1>3. PICK taken : /\ txn' = [txn EXCEPT ![mined'] = Ordered(h, c, taken)]
                   /\ Follow(n, h, Added(h, wallet[n], c, n), pool)
  BY DEF LedgerMine
<1>4. h \in Seq(ToSet(h)) /\ \A t \in Payments(h) : t \in Payments(tx)
  <2>1. CoinbaseTx({n}).coinbase
    BY DEF CoinbaseTx
  <2> QED BY <2>1, <1>1, AppendedTransaction DEF LedgerShape
<1>5. mempool[n] \subseteq pool
  OBVIOUS
<1> HIDE DEF h, c, pool
<1>6. Moved(n, h, PoolAfter(pool, old \ new, new \ old))
  BY <1>1, <1>3, <1>4, FollowMoves
<1>7. DOMAIN txn' = Block /\ \A b \in 0 .. mined : txn'[b] = txn[b]
  <2>1. DOMAIN txn = Block /\ \A b \in 0 .. mined : b # mined' /\ b \in Block
    BY <1>1, <1>2, InvariantOfTree DEF LedgerShape, IInv
  <2> QED BY <2>1, <1>3
<1>8. LedgerShape' /\ NoPaymentLost'
  BY <1>1, <1>4, <1>5, <1>6, <1>7, MovingKeepsPayments
<1> QED BY <1>2, <1>8 DEF LedgerInv

(* A received block may swap the main branch of one node. *)
LEMMA LedgerReceiveKeepsInv ==
    ASSUME LedgerInv, NEW n \in Node, NEW b \in Block, LedgerReceive(n, b)
    PROVE  LedgerInv'
<1>1. IInv /\ LedgerShape /\ NoPaymentLost /\ Receive(n, b)
  BY DEF LedgerInv, LedgerReceive
<1>2. IInv'
  BY <1>1, ReceiveKeepsIInv
<1> DEFINE old == block'[mainBranch[n]].chain
           new == block'[mainBranch'[n]].chain
<1>3. txn' = txn /\ Follow(n, tx, wallet[n], mempool[n])
  BY DEF LedgerReceive
<1>4. tx \in Seq(ToSet(tx)) /\ DOMAIN txn = Block
  BY <1>1 DEF LedgerShape
<1>5. Moved(n, tx, PoolAfter(mempool[n], old \ new, new \ old))
  BY <1>1, <1>3, <1>4, FollowMoves
<1>6. LedgerShape' /\ NoPaymentLost'
  BY <1>1, <1>3, <1>4, <1>5, MovingKeepsPayments
<1> QED BY <1>2, <1>6 DEF LedgerInv

(* The steps that leave the blocks alone. *)
LEMMA SameBlocks ==
    ASSUME LedgerInv, UNCHANGED <<vars, txn>>
    PROVE  IInv' /\ DOMAIN txn' = Block /\ \A m \in Node : OnChain(m)' = OnChain(m)
<1>1. IInv'
  BY NextKeepsIInv DEF LedgerInv
<1>2. txn' = txn /\ block' = block /\ mainBranch' = mainBranch
  BY DEF vars
<1>3. \A m \in Node : OnChain(m)' = OnChain(m)
  BY <1>2 DEF OnChain, ToSet
<1> QED BY <1>1, <1>2, <1>3 DEF LedgerInv, LedgerShape

(* A generator's timer leaves the blocks alone and may make a payment. *)
LEMMA GenerateKeepsInv ==
    ASSUME LedgerInv, NEW n \in Node, Generate(n)
    PROVE  LedgerInv'
<1>1. /\ IInv' /\ DOMAIN txn' = Block
      /\ \A m \in Node : OnChain(m)' = OnChain(m)
  BY SameBlocks DEF Generate
<1>2. /\ LedgerShape /\ tx \in Seq(ToSet(tx)) /\ NoPaymentLost
      /\ DOMAIN mempool = Node /\ DOMAIN txInFlight = Node
  BY DEF LedgerInv, LedgerShape
<1>3. Moved(n, tx, mempool[n])
  <2>1. CASE UNCHANGED <<tx, mempool, wallet, txInFlight>>
    BY <2>1, <1>2 DEF Moved
  <2>2. CASE CreateTransaction(n, tx, wallet[n], mempool[n], <<>>)
    BY <2>2, <1>2, CreateMoves
  <2> QED BY <2>1, <2>2 DEF Generate
<1>4. LedgerShape'
  BY <1>1, <1>3 DEF Moved, LedgerShape
<1>5. NoPaymentLost'
  <2>1. ASSUME NEW m \in Node, NEW t \in Payments(tx')
        PROVE  t \in txInFlight'[m] \cup mempool'[m] \cup OnChain(m)'
    <3>1. CASE t \in Payments(tx)
      <4>1. t \in txInFlight[m] \cup mempool[m] \cup OnChain(m)
        BY <3>1, <1>2 DEF NoPaymentLost
      <4>2. mempool[m] \subseteq mempool'[m] /\ txInFlight[m] \subseteq txInFlight'[m]
        BY <1>3 DEF Moved
      <4> QED BY <4>1, <4>2, <1>1
    <3>2. CASE t \notin Payments(tx)
      BY <3>2, <1>3 DEF Moved
    <3> QED BY <3>1, <3>2
  <2>2. Payments(tx)' = Payments(tx')
    BY DEF Payments
  <2> QED BY <2>1, <2>2 DEF NoPaymentLost
<1> QED BY <1>1, <1>4, <1>5 DEF LedgerInv

(* A received payment goes from the link into the mempool. *)
LEMMA ReceiveTxKeepsInv ==
    ASSUME LedgerInv, NEW n \in Node, NEW t, ReceiveTx(n, t)
    PROVE  LedgerInv'
<1>1. /\ IInv' /\ DOMAIN txn' = Block
      /\ \A m \in Node : OnChain(m)' = OnChain(m)
  BY SameBlocks DEF ReceiveTx
<1>2. /\ tx \in Seq(ToSet(tx)) /\ NoPaymentLost
      /\ DOMAIN mempool = Node /\ DOMAIN txInFlight = Node
  BY DEF LedgerInv, LedgerShape
<1>3. /\ txInFlight' = [txInFlight EXCEPT ![n] = @ \ {t}]
      /\ mempool' = [mempool EXCEPT ![n] = @ \cup {t}]
      /\ tx' = tx
  BY DEF ReceiveTx
<1>4. LedgerShape'
  BY <1>1, <1>2, <1>3 DEF LedgerShape
<1>5. \A m \in Node : txInFlight[m] \cup mempool[m] \subseteq
                         txInFlight'[m] \cup mempool'[m]
  BY <1>2, <1>3
<1>6. NoPaymentLost'
  BY <1>1, <1>2, <1>3, <1>5 DEF NoPaymentLost, Payments
<1> QED BY <1>1, <1>4, <1>6 DEF LedgerInv

(* There are no payments at first. *)
LEMMA InitEstablishesLedgerInv == LedgerInit => LedgerInv
<1> SUFFICES ASSUME LedgerInit PROVE LedgerInv
  OBVIOUS
<1>1. IInv
  BY InitEstablishesIInv DEF LedgerInit
<1>2. tx = <<CoinbaseTx(Funded)>> /\ CoinbaseTx(Funded).coinbase
  BY DEF LedgerInit, CoinbaseTx
<1>3. LedgerShape
  <2>1. tx \in Seq(ToSet(tx))
    BY <1>2 DEF ToSet
  <2> QED BY <2>1 DEF LedgerInit, LedgerShape
<1>4. NoPaymentLost
  BY <1>2 DEF NoPaymentLost, Payments
<1> QED BY <1>1, <1>3, <1>4 DEF LedgerInv

(* Every step of the ledger keeps the invariant. *)
LEMMA StepKeepsLedgerInv == LedgerInv /\ [LedgerNext]_ledgerVars => LedgerInv'
<1> SUFFICES ASSUME LedgerInv, [LedgerNext]_ledgerVars PROVE LedgerInv'
  OBVIOUS
<1>1. ASSUME NEW n \in Miner, LedgerMine(n) PROVE LedgerInv'
  BY <1>1, NodeAssumption, LedgerMineKeepsInv
<1>2. ASSUME NEW n \in Node, NEW b \in Block, LedgerReceive(n, b)
      PROVE  LedgerInv'
  BY <1>2, LedgerReceiveKeepsInv
<1>3. ASSUME NEW n \in Generator, Generate(n) PROVE LedgerInv'
  BY <1>3, GeneratorAssumption, GenerateKeepsInv
<1>4. ASSUME NEW n \in Node, NEW t \in DOMAIN tx, ReceiveTx(n, t)
      PROVE  LedgerInv'
  BY <1>4, ReceiveTxKeepsInv
<1>5. CASE UNCHANGED ledgerVars
  <2>1. /\ IInv' /\ DOMAIN txn' = Block
        /\ \A m \in Node : OnChain(m)' = OnChain(m)
    BY <1>5, SameBlocks DEF ledgerVars
  <2>2. UNCHANGED <<tx, mempool, txInFlight>>
    BY <1>5 DEF ledgerVars, moneyVars
  <2> QED
    BY <2>1, <2>2 DEF LedgerInv, LedgerShape, NoPaymentLost, Payments
<1> QED
  BY <1>1, <1>2, <1>3, <1>4, <1>5 DEF LedgerNext, LedgerTimeLimit

-----------------------------------------------------------------------------
(* At every node a payment is on its way, in the mempool, or in a block of *)
(* the main branch, for any network and however main branches are swapped  *)
(* and generators are called back in the middle of it.                     *)
THEOREM PaymentsAreNeverLost == LedgerSpec => []NoPaymentLost
<1>1. LedgerInv => NoPaymentLost
  BY DEF LedgerInv
<1> QED
  BY <1>1, InitEstablishesLedgerInv, StepKeepsLedgerInv, PTL DEF LedgerSpec

-----------------------------------------------------------------------------
(* Wallets of outputs in X: a number of confirmations for some of them. *)
Wallets(X) == UNION {[D -> Nat] : D \in SUBSET X}

(* What such a wallet is. *)
LEMMA WalletIs ==
    ASSUME NEW X, NEW w
    PROVE  w \in Wallets(X) <=> /\ DOMAIN w \subseteq X
                                /\ w = [t \in DOMAIN w |-> w[t]]
                                /\ \A t \in DOMAIN w : w[t] \in Nat
  BY DEF Wallets

(* confirmUtxo() counts one more for one output. *)
LEMMA ConfirmedWallet ==
    ASSUME NEW X, NEW w \in Wallets(X), NEW t \in X
    PROVE  /\ Confirmed(w, t) \in Wallets(X)
           /\ \A u : u \in DOMAIN Confirmed(w, t) <=> u \in DOMAIN w \cup {t}
           /\ \A u : /\ Count(w, u) \in Nat
                     /\ Count(Confirmed(w, t), u) =
                           IF u = t THEN Count(w, u) + 1 ELSE Count(w, u)
<1> DEFINE v == Confirmed(w, t)
<1>1. /\ DOMAIN w \subseteq X
      /\ \A u \in DOMAIN w : w[u] \in Nat
  BY WalletIs
<1>2. \A u : Count(w, u) \in Nat
  BY <1>1 DEF Count
<1>3. DOMAIN v = DOMAIN w \cup {t} /\ v = [u \in DOMAIN v |-> v[u]]
  BY DEF Confirmed
<1>4. \A u \in DOMAIN v : v[u] = IF u = t THEN Count(w, t) + 1 ELSE w[u]
  BY DEF Confirmed
<1> HIDE DEF v
<1>5. PICK k \in Nat : k = Count(w, t)
  BY <1>2
<1>6. \A u \in DOMAIN v : v[u] \in Nat
  BY <1>1, <1>3, <1>4, <1>5
<1>7. v \in Wallets(X)
  BY <1>1, <1>3, <1>6, WalletIs
<1>8. \A u : Count(v, u) = IF u = t THEN Count(w, u) + 1 ELSE Count(w, u)
  BY <1>3, <1>4 DEF Count
<1> QED BY <1>2, <1>3, <1>7, <1>8 DEF v

(* appendTransaction() starts the outputs of t and drops its inputs. *)
LEMMA AddedWallet ==
    ASSUME NEW X, NEW w \in Wallets(X), NEW h, NEW t \in X, NEW n
    PROVE  /\ Added(h, w, t, n) \in Wallets(X)
           /\ \A u : u \in DOMAIN Added(h, w, t, n) <=>
                        /\ u \in DOMAIN w \cup Paid(h, t, n)
                        /\ u \notin h[t].spends[n]
           /\ \A u : Count(Added(h, w, t, n), u) \in {0, Count(w, u)}
<1> DEFINE v == Added(h, w, t, n)
<1>1. /\ DOMAIN w \subseteq X
      /\ \A u \in DOMAIN w : w[u] \in Nat
  BY WalletIs
<1>2. Paid(h, t, n) \subseteq X
  BY DEF Paid
<1>3. /\ DOMAIN v = (DOMAIN w \cup Paid(h, t, n)) \ h[t].spends[n]
      /\ v = [u \in DOMAIN v |-> v[u]]
  BY DEF Added
<1>4. \A u \in DOMAIN v : v[u] = IF u \in Paid(h, t, n) THEN 0 ELSE w[u]
  BY DEF Added
<1> HIDE DEF v
<1>5. v \in Wallets(X)
  BY <1>1, <1>2, <1>3, <1>4, WalletIs
<1>6. \A u : Count(v, u) \in {0, Count(w, u)}
  BY <1>3, <1>4 DEF Count
<1> QED BY <1>3, <1>5, <1>6 DEF v

(* unconfirmWalletUtxos() takes one confirmation from the outputs in U. *)
LEMMA UnconfirmedWallet ==
    ASSUME NEW X, NEW w \in Wallets(X), NEW U
    PROVE  /\ Unconfirmed(w, U) \in Wallets(X)
           /\ DOMAIN Unconfirmed(w, U) \subseteq DOMAIN w
           /\ \A u \in DOMAIN w \ U : u \in DOMAIN Unconfirmed(w, U)
           /\ \A u : /\ Count(w, u) \in Nat
                     /\ Count(Unconfirmed(w, U), u) =
                           IF u \notin U THEN Count(w, u)
                           ELSE IF Count(w, u) = 0 THEN 0 ELSE Count(w, u) - 1
<1> DEFINE v == Unconfirmed(w, U)
<1>1. /\ DOMAIN w \subseteq X
      /\ \A u \in DOMAIN w : w[u] \in Nat
  BY WalletIs
<1>2. /\ DOMAIN v = {u \in DOMAIN w : u \in U => w[u] > 1}
      /\ v = [u \in DOMAIN v |-> v[u]]
  BY DEF Unconfirmed
<1>3. \A u \in DOMAIN v : v[u] = IF u \in U THEN w[u] - 1 ELSE w[u]
  BY DEF Unconfirmed
<1> HIDE DEF v
<1>4. \A u \in DOMAIN v : v[u] \in Nat
  BY <1>1, <1>2, <1>3
<1>5. v \in Wallets(X)
  BY <1>1, <1>2, <1>4, WalletIs
<1>6. ASSUME NEW u
      PROVE  /\ Count(w, u) \in Nat
             /\ Count(v, u) = IF u \notin U THEN Count(w, u)
                              ELSE IF Count(w, u) = 0 THEN 0 ELSE Count(w, u) - 1
  <2>1. CASE u \in DOMAIN w
    <3>1. PICK k \in Nat : k = w[u]
      BY <1>1, <2>1
    <3>2. Count(w, u) = k
      BY <2>1, <3>1 DEF Count
    <3>3. CASE u \in DOMAIN v
      <4>1. Count(v, u) = v[u]
        BY <3>3 DEF Count
      <4> QED BY <4>1, <1>2, <1>3, <3>1, <3>2, <3>3
    <3>4. CASE u \notin DOMAIN v
      <4>1. u \in U /\ k <= 1 /\ Count(v, u) = 0
        BY <3>1, <3>4, <2>1, <1>2 DEF Count
      <4> QED BY <4>1, <3>2
    <3> QED BY <3>3, <3>4
  <2>2. CASE u \notin DOMAIN w
    BY <2>2, <1>2 DEF Count
  <2> QED BY <2>1, <2>2
<1> QED BY <1>2, <1>5, <1>6 DEF v

-----------------------------------------------------------------------------
(* The wallets on the way when the outputs in s are confirmed from w on. *)
Confirms(f, w, s) ==
    /\ f[0] = w
    /\ \A i \in 1 .. Len(s) : f[i] = Confirmed(f[i - 1], s[i])

(* The same when transactions are added. *)
Adds(f, h, w, s, n) ==
    /\ f[0] = w
    /\ \A i \in 1 .. Len(s) : f[i] = Added(h, f[i - 1], s[i], n)

(* The same when blocks are reverted. *)
Reverts(f, h, w, s, n) ==
    /\ f[0] = w
    /\ \A i \in 1 .. Len(s) : f[i] = Reverted(h, f[i - 1], s[i], n)

(* The indices on the way over the transactions of a block. *)
Updates(f, h, w, s) ==
    /\ f[0] = w
    /\ \A i \in 1 .. Len(s) : f[i] = UpdateUtxos(h, f[i - 1], s[i])

(* The folds of the ledger go that way.  A lemma cannot be instantiated    *)
(* with the operator of a fold: each has its own.                          *)
LEMMA FoldConfirmed ==
    ASSUME NEW V, NEW X, NEW w \in V, NEW s \in Seq(X),
           \A v \in V : \A t \in X : Confirmed(v, t) \in V
    PROVE  \E f \in [0 .. Len(s) -> V] :
              /\ Confirms(f, w, s)
              /\ f[Len(s)] = AllConfirmed(w, s)
<1> DEFINE N == Len(s)
           G == [i \in 1 .. N |-> [v \in V |-> Confirmed(v, s[i])]]
           Val(c, S) == IF S = {} THEN w ELSE Confirmed(c[S \ {Max(S)}], s[Max(S)])
           D == SUBSET DOMAIN s
           c == CHOOSE c : c = [S \in D |-> Val(c, S)]
<1>1. N \in Nat /\ DOMAIN s = 1 .. N
  OBVIOUS
<1>2. G \in [1 .. N -> [V -> V]]
  OBVIOUS
<1>3. PICK it \in [SUBSET (1 .. N) -> V] : Iterates(it, N, w, G)
  <2> HIDE DEF G, N
  <2> QED BY <1>1, <1>2, Iteration
<1>4. ASSUME NEW S \in SUBSET (1 .. N) PROVE it[S] = Val(it, S)
  <2>1. CASE S = {}
    BY <1>3, <2>1 DEF Iterates
  <2>2. CASE S # {}
    <3>1. Max(S) \in 1 .. N /\ S \ {Max(S)} \in SUBSET (1 .. N)
      BY <1>1, <2>2, MaxExists
    <3>2. it[S] = G[Max(S)][it[S \ {Max(S)}]]
      BY <1>3, <2>2 DEF Iterates
    <3>3. it[S \ {Max(S)}] \in V
      BY <3>1
    <3> QED BY <3>1, <3>2, <3>3, <2>2
  <2> QED BY <2>1, <2>2
<1>5. it = [S \in D |-> Val(it, S)]
  <2> HIDE DEF Val
  <2> QED BY <1>1, <1>4
<1>6. c = [S \in D |-> Val(c, S)]
  <2> HIDE DEF Val, D
  <2> QED BY <1>5
<1>7. AllConfirmed(w, s) = c[DOMAIN s]
  BY DEF AllConfirmed, FoldLeft, MapThenFoldSet
<1> HIDE DEF c
<1> DEFINE f == [i \in 0 .. N |-> c[1 .. i]]
<1>8. f[0] = w
  <2>1. 1 .. 0 \in D /\ 1 .. 0 = {} /\ 0 \in 0 .. N
    BY <1>1
  <2> QED BY <2>1, <1>6
<1>9. ASSUME NEW i \in 1 .. N PROVE f[i] = Confirmed(f[i - 1], s[i])
  <2>1. /\ 1 .. i \in D /\ i - 1 \in 0 .. N /\ i \in Nat \ {0}
        /\ i \in 0 .. N
    BY <1>1
  <2>2. c[1 .. i] = Val(c, 1 .. i)
    <3> HIDE DEF Val, D
    <3> QED BY <2>1, <1>6
  <2>3. c[1 .. i] = Confirmed(c[1 .. (i - 1)], s[i])
    BY <2>1, <2>2, IterationStep
  <2> QED BY <2>1, <2>3
<1> DEFINE T == {i \in 0 .. N : f[i] \in V}
<1>10. \A i \in 0 .. N : i \in T
  <2>1. 0 \in T
    BY <1>1, <1>8
  <2>2. ASSUME NEW i \in Nat, i < N, i \in T PROVE i + 1 \in T
    <3>1. i + 1 \in 1 .. N /\ (i + 1) - 1 = i /\ f[i] \in V /\ s[i + 1] \in X
      BY <2>2, <1>1
    <3>2. f[i + 1] = Confirmed(f[i], s[i + 1])
      BY <3>1, <1>9
    <3> QED BY <3>1, <3>2
  <2> HIDE DEF T
  <2> QED BY <1>1, <2>1, <2>2, InductionUpTo
<1>11. f \in [0 .. N -> V]
  BY <1>10
<1>12. f[N] = AllConfirmed(w, s)
  BY <1>1, <1>7
<1> HIDE DEF f
<1> QED BY <1>8, <1>9, <1>11, <1>12 DEF Confirms

(* The same for transactions that are added. *)
LEMMA FoldAdded ==
    ASSUME NEW h, NEW n, NEW V, NEW X, NEW w \in V, NEW s \in Seq(X),
           \A v \in V : \A t \in X : Added(h, v, t, n) \in V
    PROVE  \E f \in [0 .. Len(s) -> V] :
              /\ Adds(f, h, w, s, n)
              /\ f[Len(s)] = AllAdded(h, w, s, n)
<1> DEFINE N == Len(s)
           G == [i \in 1 .. N |-> [v \in V |-> Added(h, v, s[i], n)]]
           Val(c, S) == IF S = {} THEN w ELSE Added(h, c[S \ {Max(S)}], s[Max(S)], n)
           D == SUBSET DOMAIN s
           c == CHOOSE c : c = [S \in D |-> Val(c, S)]
<1>1. N \in Nat /\ DOMAIN s = 1 .. N
  OBVIOUS
<1>2. G \in [1 .. N -> [V -> V]]
  OBVIOUS
<1>3. PICK it \in [SUBSET (1 .. N) -> V] : Iterates(it, N, w, G)
  <2> HIDE DEF G, N
  <2> QED BY <1>1, <1>2, Iteration
<1>4. ASSUME NEW S \in SUBSET (1 .. N) PROVE it[S] = Val(it, S)
  <2>1. CASE S = {}
    BY <1>3, <2>1 DEF Iterates
  <2>2. CASE S # {}
    <3>1. Max(S) \in 1 .. N /\ S \ {Max(S)} \in SUBSET (1 .. N)
      BY <1>1, <2>2, MaxExists
    <3>2. it[S] = G[Max(S)][it[S \ {Max(S)}]]
      BY <1>3, <2>2 DEF Iterates
    <3>3. it[S \ {Max(S)}] \in V
      BY <3>1
    <3> QED BY <3>1, <3>2, <3>3, <2>2
  <2> QED BY <2>1, <2>2
<1>5. it = [S \in D |-> Val(it, S)]
  <2> HIDE DEF Val
  <2> QED BY <1>1, <1>4
<1>6. c = [S \in D |-> Val(c, S)]
  <2> HIDE DEF Val, D
  <2> QED BY <1>5
<1>7. AllAdded(h, w, s, n) = c[DOMAIN s]
  BY DEF AllAdded, FoldLeft, MapThenFoldSet
<1> HIDE DEF c
<1> DEFINE f == [i \in 0 .. N |-> c[1 .. i]]
<1>8. f[0] = w
  <2>1. 1 .. 0 \in D /\ 1 .. 0 = {} /\ 0 \in 0 .. N
    BY <1>1
  <2> QED BY <2>1, <1>6
<1>9. ASSUME NEW i \in 1 .. N PROVE f[i] = Added(h, f[i - 1], s[i], n)
  <2>1. /\ 1 .. i \in D /\ i - 1 \in 0 .. N /\ i \in Nat \ {0}
        /\ i \in 0 .. N
    BY <1>1
  <2>2. c[1 .. i] = Val(c, 1 .. i)
    <3> HIDE DEF Val, D
    <3> QED BY <2>1, <1>6
  <2>3. c[1 .. i] = Added(h, c[1 .. (i - 1)], s[i], n)
    BY <2>1, <2>2, IterationStep
  <2> QED BY <2>1, <2>3
<1> DEFINE T == {i \in 0 .. N : f[i] \in V}
<1>10. \A i \in 0 .. N : i \in T
  <2>1. 0 \in T
    BY <1>1, <1>8
  <2>2. ASSUME NEW i \in Nat, i < N, i \in T PROVE i + 1 \in T
    <3>1. i + 1 \in 1 .. N /\ (i + 1) - 1 = i /\ f[i] \in V /\ s[i + 1] \in X
      BY <2>2, <1>1
    <3>2. f[i + 1] = Added(h, f[i], s[i + 1], n)
      BY <3>1, <1>9
    <3> QED BY <3>1, <3>2
  <2> HIDE DEF T
  <2> QED BY <1>1, <2>1, <2>2, InductionUpTo
<1>11. f \in [0 .. N -> V]
  BY <1>10
<1>12. f[N] = AllAdded(h, w, s, n)
  BY <1>1, <1>7
<1> HIDE DEF f
<1> QED BY <1>8, <1>9, <1>11, <1>12 DEF Adds

(* The same for blocks that are reverted. *)
LEMMA FoldReverted ==
    ASSUME NEW h, NEW n, NEW V, NEW X, NEW w \in V, NEW s \in Seq(X),
           \A v \in V : \A t \in X : Reverted(h, v, t, n) \in V
    PROVE  \E f \in [0 .. Len(s) -> V] :
              /\ Reverts(f, h, w, s, n)
              /\ f[Len(s)] = AllReverted(h, w, s, n)
<1> DEFINE N == Len(s)
           G == [i \in 1 .. N |-> [v \in V |-> Reverted(h, v, s[i], n)]]
           Val(c, S) == IF S = {} THEN w ELSE Reverted(h, c[S \ {Max(S)}], s[Max(S)], n)
           D == SUBSET DOMAIN s
           c == CHOOSE c : c = [S \in D |-> Val(c, S)]
<1>1. N \in Nat /\ DOMAIN s = 1 .. N
  OBVIOUS
<1>2. G \in [1 .. N -> [V -> V]]
  OBVIOUS
<1>3. PICK it \in [SUBSET (1 .. N) -> V] : Iterates(it, N, w, G)
  <2> HIDE DEF G, N
  <2> QED BY <1>1, <1>2, Iteration
<1>4. ASSUME NEW S \in SUBSET (1 .. N) PROVE it[S] = Val(it, S)
  <2>1. CASE S = {}
    BY <1>3, <2>1 DEF Iterates
  <2>2. CASE S # {}
    <3>1. Max(S) \in 1 .. N /\ S \ {Max(S)} \in SUBSET (1 .. N)
      BY <1>1, <2>2, MaxExists
    <3>2. it[S] = G[Max(S)][it[S \ {Max(S)}]]
      BY <1>3, <2>2 DEF Iterates
    <3>3. it[S \ {Max(S)}] \in V
      BY <3>1
    <3> QED BY <3>1, <3>2, <3>3, <2>2
  <2> QED BY <2>1, <2>2
<1>5. it = [S \in D |-> Val(it, S)]
  <2> HIDE DEF Val
  <2> QED BY <1>1, <1>4
<1>6. c = [S \in D |-> Val(c, S)]
  <2> HIDE DEF Val, D
  <2> QED BY <1>5
<1>7. AllReverted(h, w, s, n) = c[DOMAIN s]
  BY DEF AllReverted, FoldLeft, MapThenFoldSet
<1> HIDE DEF c
<1> DEFINE f == [i \in 0 .. N |-> c[1 .. i]]
<1>8. f[0] = w
  <2>1. 1 .. 0 \in D /\ 1 .. 0 = {} /\ 0 \in 0 .. N
    BY <1>1
  <2> QED BY <2>1, <1>6
<1>9. ASSUME NEW i \in 1 .. N PROVE f[i] = Reverted(h, f[i - 1], s[i], n)
  <2>1. /\ 1 .. i \in D /\ i - 1 \in 0 .. N /\ i \in Nat \ {0}
        /\ i \in 0 .. N
    BY <1>1
  <2>2. c[1 .. i] = Val(c, 1 .. i)
    <3> HIDE DEF Val, D
    <3> QED BY <2>1, <1>6
  <2>3. c[1 .. i] = Reverted(h, c[1 .. (i - 1)], s[i], n)
    BY <2>1, <2>2, IterationStep
  <2> QED BY <2>1, <2>3
<1> DEFINE T == {i \in 0 .. N : f[i] \in V}
<1>10. \A i \in 0 .. N : i \in T
  <2>1. 0 \in T
    BY <1>1, <1>8
  <2>2. ASSUME NEW i \in Nat, i < N, i \in T PROVE i + 1 \in T
    <3>1. i + 1 \in 1 .. N /\ (i + 1) - 1 = i /\ f[i] \in V /\ s[i + 1] \in X
      BY <2>2, <1>1
    <3>2. f[i + 1] = Reverted(h, f[i], s[i + 1], n)
      BY <3>1, <1>9
    <3> QED BY <3>1, <3>2
  <2> HIDE DEF T
  <2> QED BY <1>1, <2>1, <2>2, InductionUpTo
<1>11. f \in [0 .. N -> V]
  BY <1>10
<1>12. f[N] = AllReverted(h, w, s, n)
  BY <1>1, <1>7
<1> HIDE DEF f
<1> QED BY <1>8, <1>9, <1>11, <1>12 DEF Reverts

(* The same for the index of a block. *)
LEMMA FoldUpdates ==
    ASSUME NEW h, NEW V, NEW X, NEW w \in V, NEW s \in Seq(X),
           \A v \in V : \A t \in X : UpdateUtxos(h, v, t) \in V
    PROVE  \E f \in [0 .. Len(s) -> V] :
              /\ Updates(f, h, w, s)
              /\ f[Len(s)] = UpdatedUtxos(h, w, s)
<1> DEFINE N == Len(s)
           G == [i \in 1 .. N |-> [v \in V |-> UpdateUtxos(h, v, s[i])]]
           Val(c, S) == IF S = {} THEN w ELSE UpdateUtxos(h, c[S \ {Max(S)}], s[Max(S)])
           D == SUBSET DOMAIN s
           c == CHOOSE c : c = [S \in D |-> Val(c, S)]
<1>1. N \in Nat /\ DOMAIN s = 1 .. N
  OBVIOUS
<1>2. G \in [1 .. N -> [V -> V]]
  OBVIOUS
<1>3. PICK it \in [SUBSET (1 .. N) -> V] : Iterates(it, N, w, G)
  <2> HIDE DEF G, N
  <2> QED BY <1>1, <1>2, Iteration
<1>4. ASSUME NEW S \in SUBSET (1 .. N) PROVE it[S] = Val(it, S)
  <2>1. CASE S = {}
    BY <1>3, <2>1 DEF Iterates
  <2>2. CASE S # {}
    <3>1. Max(S) \in 1 .. N /\ S \ {Max(S)} \in SUBSET (1 .. N)
      BY <1>1, <2>2, MaxExists
    <3>2. it[S] = G[Max(S)][it[S \ {Max(S)}]]
      BY <1>3, <2>2 DEF Iterates
    <3>3. it[S \ {Max(S)}] \in V
      BY <3>1
    <3> QED BY <3>1, <3>2, <3>3, <2>2
  <2> QED BY <2>1, <2>2
<1>5. it = [S \in D |-> Val(it, S)]
  <2> HIDE DEF Val
  <2> QED BY <1>1, <1>4
<1>6. c = [S \in D |-> Val(c, S)]
  <2> HIDE DEF Val, D
  <2> QED BY <1>5
<1>7. UpdatedUtxos(h, w, s) = c[DOMAIN s]
  BY DEF UpdatedUtxos, FoldLeft, MapThenFoldSet
<1> HIDE DEF c
<1> DEFINE f == [i \in 0 .. N |-> c[1 .. i]]
<1>8. f[0] = w
  <2>1. 1 .. 0 \in D /\ 1 .. 0 = {} /\ 0 \in 0 .. N
    BY <1>1
  <2> QED BY <2>1, <1>6
<1>9. ASSUME NEW i \in 1 .. N PROVE f[i] = UpdateUtxos(h, f[i - 1], s[i])
  <2>1. /\ 1 .. i \in D /\ i - 1 \in 0 .. N /\ i \in Nat \ {0}
        /\ i \in 0 .. N
    BY <1>1
  <2>2. c[1 .. i] = Val(c, 1 .. i)
    <3> HIDE DEF Val, D
    <3> QED BY <2>1, <1>6
  <2>3. c[1 .. i] = UpdateUtxos(h, c[1 .. (i - 1)], s[i])
    BY <2>1, <2>2, IterationStep
  <2> QED BY <2>1, <2>3
<1> DEFINE T == {i \in 0 .. N : f[i] \in V}
<1>10. \A i \in 0 .. N : i \in T
  <2>1. 0 \in T
    BY <1>1, <1>8
  <2>2. ASSUME NEW i \in Nat, i < N, i \in T PROVE i + 1 \in T
    <3>1. i + 1 \in 1 .. N /\ (i + 1) - 1 = i /\ f[i] \in V /\ s[i + 1] \in X
      BY <2>2, <1>1
    <3>2. f[i + 1] = UpdateUtxos(h, f[i], s[i + 1])
      BY <3>1, <1>9
    <3> QED BY <3>1, <3>2
  <2> HIDE DEF T
  <2> QED BY <1>1, <2>1, <2>2, InductionUpTo
<1>11. f \in [0 .. N -> V]
  BY <1>10
<1>12. f[N] = UpdatedUtxos(h, w, s)
  BY <1>1, <1>7
<1> HIDE DEF f
<1> QED BY <1>8, <1>9, <1>11, <1>12 DEF Updates

(* Node n still has the output u in v, or one of the transactions ts spends it. *)
KeptOrSpent(u, v, h, ts, n) ==
    u \in DOMAIN v \/ \E t \in ts : u \in h[t].spends[n]

(* What the wallet v is after the transactions ts were added to w. *)
AfterAdding(v, w, h, ts, n) ==
    /\ \A u : Count(v, u) \in {0, Count(w, u)}
    /\ \A u : (u \in DOMAIN w \/ (u \in ts /\ u \in Paid(h, u, n)))
              => KeptOrSpent(u, v, h, ts, n)

(* What it is after a block was reverted, whose index has the outputs U. *)
AfterReverting(v, w, h, U, ts, n) ==
    /\ \A u : /\ Count(w, u) \in Nat /\ Count(v, u) \in Nat
              /\ Count(v, u) <= Count(w, u)
              /\ u \in U => Count(v, u) = 0 \/ Count(v, u) + 1 <= Count(w, u)
    /\ \A u : (u \in DOMAIN w \ U \/ (u \in ts /\ u \in Paid(h, u, n)))
              => KeptOrSpent(u, v, h, ts, n)

(* Transactions that are added start no output above the confirmations it  *)
(* had, and an output is gone only if one of them spends it.               *)
LEMMA AllAddedWallet ==
    ASSUME NEW X, NEW h, NEW n, NEW w \in Wallets(X), NEW s \in Seq(X),
           NEW v, v = AllAdded(h, w, s, n)
    PROVE  v \in Wallets(X) /\ AfterAdding(v, w, h, ToSet(s), n)
<1> DEFINE N == Len(s)
<1>1. N \in Nat /\ \A i \in 1 .. N : s[i] \in X
  OBVIOUS
<1>2. \A y \in Wallets(X) : \A t \in X : Added(h, y, t, n) \in Wallets(X)
  BY AddedWallet
<1>3. PICK f \in [0 .. N -> Wallets(X)] :
          Adds(f, h, w, s, n) /\ f[N] = v
  BY <1>2, FoldAdded
<1> DEFINE Counts(i) == \A u : Count(f[i], u) \in {0, Count(w, u)}
           Heard(i, u) == \/ u \in DOMAIN w
                          \/ \E j \in 1 .. i : s[j] = u /\ u \in Paid(h, u, n)
           Kept(i) == \A u : Heard(i, u) =>
                         \/ u \in DOMAIN f[i]
                         \/ \E j \in 1 .. i : u \in h[s[j]].spends[n]
           T == {i \in 0 .. N : Counts(i) /\ Kept(i)}
<1> HIDE DEF N
<1>4. 0 \in T
  <2>1. Counts(0)
    BY <1>3 DEF Adds
  <2>2. Kept(0)
    BY <1>3 DEF Adds
  <2> QED BY <1>1, <2>1, <2>2
<1>5. ASSUME NEW i \in Nat, i < N, i \in T PROVE i + 1 \in T
  <2>1. /\ i \in 0 .. N /\ i + 1 \in 0 .. N /\ i + 1 \in 1 .. N
        /\ (i + 1) - 1 = i
        /\ \A j \in 1 .. i : j \in 1 .. i + 1
        /\ \A j \in 1 .. i + 1 : j \in 1 .. i \/ j = i + 1
        /\ i + 1 \in 1 .. i + 1
    BY <1>1, <1>5
  <2>2. Counts(i) /\ Kept(i)
    BY <1>5
  <2>3. PICK k : k = i + 1
    OBVIOUS
  <2>4. PICK t \in X : t = s[k]
    BY <1>1, <2>1, <2>3
  <2>5. f[i] \in Wallets(X) /\ f[k] = Added(h, f[i], t, n)
    BY <1>3, <2>1, <2>3, <2>4 DEF Adds, N
  <2>6. /\ DOMAIN f[k] = (DOMAIN f[i] \cup Paid(h, t, n)) \ h[t].spends[n]
        /\ \A u : Count(f[k], u) \in {0, Count(f[i], u)}
    <3>1. PICK y \in Wallets(X) : y = f[i] /\ f[k] = Added(h, y, t, n)
      BY <2>5
    <3>2. /\ \A u : u \in DOMAIN Added(h, y, t, n) <=>
                       /\ u \in DOMAIN y \cup Paid(h, t, n)
                       /\ u \notin h[t].spends[n]
          /\ \A u : Count(Added(h, y, t, n), u) \in {0, Count(y, u)}
      BY AddedWallet
    <3> QED BY <3>1, <3>2
  <2>7. Counts(k)
    BY <2>2, <2>6
  <2>8. Kept(k)
    <3>1. SUFFICES ASSUME NEW u, Heard(k, u), u \notin DOMAIN f[k]
                   PROVE  \E j \in 1 .. k : u \in h[s[j]].spends[n]
      OBVIOUS
    <3>2. CASE u \in DOMAIN f[i] \cup Paid(h, t, n)
      BY <3>1, <3>2, <2>1, <2>3, <2>4, <2>6
    <3>3. CASE u \notin DOMAIN f[i] \cup Paid(h, t, n)
      <4>1. Heard(i, u)
        BY <3>1, <3>3, <2>1, <2>3, <2>4 DEF Paid
      <4> QED BY <3>3, <4>1, <2>1, <2>2, <2>3
    <3> QED BY <3>2, <3>3
  <2> QED BY <2>1, <2>3, <2>7, <2>8
<1>6. N \in T
  <2> HIDE DEF T
  <2>1. \A i \in 0 .. N : i \in T
    BY <1>1, <1>4, <1>5, InductionUpTo
  <2> QED BY <1>1, <2>1
<1>7. DOMAIN s = 1 .. N
  BY DEF N
<1>8. v \in Wallets(X)
  BY <1>1, <1>3
<1> QED BY <1>3, <1>6, <1>7, <1>8 DEF ToSet, KeptOrSpent, AfterAdding

(* Reverting a block takes a confirmation from the outputs of its index,   *)
(* and an output is gone only if it had no other, or is spent in the block. *)
LEMMA RevertedWallet ==
    ASSUME NEW X, NEW h, NEW n, NEW w \in Wallets(X), NEW b, txn'[b] \in Seq(X),
           NEW v, v = Reverted(h, w, b, n)
    PROVE  /\ v \in Wallets(X)
           /\ AfterReverting(v, w, h, utxos'[b][n], ToSet(txn'[b]), n)
<1>1. PICK U, s : U = utxos'[b][n] /\ s = txn'[b] /\ s \in Seq(X)
  OBVIOUS
<1>2. PICK y : y = Unconfirmed(w, U) /\ v = AllAdded(h, y, s, n)
  BY <1>1 DEF Reverted
<1>3. /\ y \in Wallets(X)
      /\ \A u \in DOMAIN w \ U : u \in DOMAIN y
      /\ \A u : /\ Count(w, u) \in Nat
                /\ Count(y, u) =
                      IF u \notin U THEN Count(w, u)
                      ELSE IF Count(w, u) = 0 THEN 0 ELSE Count(w, u) - 1
  BY <1>2, UnconfirmedWallet
<1>4. v \in Wallets(X) /\ AfterAdding(v, y, h, ToSet(s), n)
  BY <1>1, <1>2, <1>3, AllAddedWallet
<1>5. ASSUME NEW u
      PROVE  /\ Count(w, u) \in Nat /\ Count(v, u) \in Nat
             /\ Count(v, u) <= Count(w, u)
             /\ u \in U => Count(v, u) = 0 \/ Count(v, u) + 1 <= Count(w, u)
  <2>1. PICK k \in Nat : k = Count(w, u)
    BY <1>3
  <2>2. PICK l, m : l = Count(y, u) /\ m = Count(v, u)
    OBVIOUS
  <2>3. /\ l = IF u \notin U THEN k ELSE IF k = 0 THEN 0 ELSE k - 1
        /\ m \in {0, l}
    BY <1>3, <1>4, <2>1, <2>2 DEF AfterAdding
  <2>4. l \in Nat /\ m \in Nat /\ m <= l /\ l <= k
    BY <2>1, <2>3
  <2>5. u \in U => m = 0 \/ m + 1 <= k
    BY <2>1, <2>3
  <2> QED BY <2>1, <2>2, <2>4, <2>5
<1>6. AfterReverting(v, w, h, U, ToSet(s), n)
  BY <1>3, <1>4, <1>5 DEF AfterAdding, AfterReverting
<1> QED BY <1>1, <1>4, <1>6

(* A confirmed output stays, and gets into the wallet. *)
LEMMA AllConfirmedWallet ==
    ASSUME NEW X, NEW w \in Wallets(X), NEW s \in Seq(X)
    PROVE  /\ AllConfirmed(w, s) \in Wallets(X)
           /\ DOMAIN AllConfirmed(w, s) = DOMAIN w \cup ToSet(s)
<1> DEFINE N == Len(s)
<1>1. /\ N \in Nat /\ \A i \in 1 .. N : s[i] \in X
      /\ ToSet(s) = {s[i] : i \in 1 .. N}
  BY DEF ToSet
<1>2. \A y \in Wallets(X) : \A t \in X : Confirmed(y, t) \in Wallets(X)
  BY ConfirmedWallet
<1>3. PICK f \in [0 .. N -> Wallets(X)] :
          Confirms(f, w, s) /\ f[N] = AllConfirmed(w, s)
  BY <1>2, FoldConfirmed
<1> DEFINE T == {i \in 0 .. N : DOMAIN f[i] = DOMAIN w \cup {s[j] : j \in 1 .. i}}
<1> HIDE DEF N
<1>4. 0 \in T
  BY <1>1, <1>3 DEF Confirms
<1>5. ASSUME NEW i \in Nat, i < N, i \in T PROVE i + 1 \in T
  <2>1. /\ i \in 0 .. N /\ i + 1 \in 0 .. N /\ i + 1 \in 1 .. N
        /\ (i + 1) - 1 = i
        /\ \A j \in 1 .. i : j \in 1 .. i + 1
        /\ \A j \in 1 .. i + 1 : j \in 1 .. i \/ j = i + 1
        /\ i + 1 \in 1 .. i + 1
    BY <1>1, <1>5
  <2>2. PICK k : k = i + 1
    OBVIOUS
  <2>3. s[k] \in X /\ f[i] \in Wallets(X) /\ f[k] = Confirmed(f[i], s[k])
    BY <1>1, <1>3, <2>1, <2>2 DEF Confirms, N
  <2>4. DOMAIN f[k] = DOMAIN f[i] \cup {s[k]}
    <3>1. PICK y \in Wallets(X), t \in X : y = f[i] /\ t = s[k]
      BY <2>3
    <3>2. \A u : u \in DOMAIN Confirmed(y, t) <=> u \in DOMAIN y \cup {t}
      BY ConfirmedWallet
    <3> QED BY <2>3, <3>1, <3>2
  <2>5. DOMAIN f[k] = DOMAIN w \cup {s[j] : j \in 1 .. k}
    BY <1>5, <2>1, <2>2, <2>4
  <2> QED BY <2>1, <2>2, <2>5
<1>6. N \in T
  <2> HIDE DEF T
  <2>1. \A i \in 0 .. N : i \in T
    BY <1>1, <1>4, <1>5, InductionUpTo
  <2> QED BY <1>1, <2>1
<1> QED BY <1>1, <1>3, <1>6

(* Blocks leave from the tip down. *)
LEMMA SortedDown ==
    ASSUME NEW S \in SUBSET Nat, IsFiniteSet(S)
    PROVE  /\ Lists(Sorted(S, >), S)
           /\ \A i, j \in 1 .. Len(Sorted(S, >)) :
                 i < j => Sorted(S, >)[i] > Sorted(S, >)[j]
<1>0. PICK s : s = Sorted(S, >)
  OBVIOUS
<1>2. PICK R : \A t, u \in S : <<t, u>> \in R <=> t > u
  <2>1. \A t, u \in S : <<t, u>> \in {p \in S \X S : p[1] > p[2]} <=> t > u
    OBVIOUS
  <2> QED BY <2>1
<1> DEFINE Item(i) == CHOOSE t \in S : Cardinality({u \in S : u > t}) = i - 1
<1>1. PICK n \in Nat : n = Cardinality(S)
  BY FS_CardinalityType
<1>3. s = [i \in 1 .. n |-> Item(i)]
  BY <1>0, <1>1 DEF Sorted
<1>4. \A t \in S : Rank(S, R)[t] = Cardinality({u \in S : u > t})
  <2>1. \A t \in S : {u \in S : u > t} = {u \in S : <<u, t>> \in R}
    BY <1>2
  <2> QED BY <2>1 DEF Rank
<1>5. Orders(R, S)
  BY <1>2 DEF Orders
<1>6. ASSUME NEW i \in 1 .. n PROVE Item(i) \in S /\ Rank(S, R)[Item(i)] = i - 1
  <2>1. i - 1 \in 0 .. n - 1
    BY <1>1
  <2>2. \E t \in S : Rank(S, R)[t] = i - 1
    <3>1. RanksReach(S, R, n)
      BY <1>1, <1>5, RankIsBijective
    <3> QED BY <2>1, <3>1 DEF RanksReach
  <2> QED BY <1>4, <2>2
<1> HIDE DEF Item
<1>7. s \in [1 .. n -> S] /\ \A i \in 1 .. n : Rank(S, R)[s[i]] = i - 1
  BY <1>3, <1>6
<1>8. Lists(s, S) /\ Len(s) = n /\ InOrder(s, R)
  BY <1>1, <1>5, <1>7, Ranks
<1>9. \A i, j \in 1 .. Len(s) : i < j => s[i] > s[j]
  BY <1>2, <1>7, <1>8 DEF InOrder
<1> QED BY <1>0, <1>8, <1>9

(* Others join from the fork up. *)
LEMMA SortedUp ==
    ASSUME NEW S \in SUBSET Nat, IsFiniteSet(S)
    PROVE  Lists(Sorted(S, <), S)
<1>0. PICK s : s = Sorted(S, <)
  OBVIOUS
<1>2. PICK R : \A t, u \in S : <<t, u>> \in R <=> t < u
  <2>1. \A t, u \in S : <<t, u>> \in {p \in S \X S : p[1] < p[2]} <=> t < u
    OBVIOUS
  <2> QED BY <2>1
<1> DEFINE Item(i) == CHOOSE t \in S : Cardinality({u \in S : u < t}) = i - 1
<1>1. PICK n \in Nat : n = Cardinality(S)
  BY FS_CardinalityType
<1>3. s = [i \in 1 .. n |-> Item(i)]
  BY <1>0, <1>1 DEF Sorted
<1>4. \A t \in S : Rank(S, R)[t] = Cardinality({u \in S : u < t})
  <2>1. \A t \in S : {u \in S : u < t} = {u \in S : <<u, t>> \in R}
    BY <1>2
  <2> QED BY <2>1 DEF Rank
<1>5. Orders(R, S)
  BY <1>2 DEF Orders
<1>6. ASSUME NEW i \in 1 .. n PROVE Item(i) \in S /\ Rank(S, R)[Item(i)] = i - 1
  <2>1. i - 1 \in 0 .. n - 1
    BY <1>1
  <2>2. \E t \in S : Rank(S, R)[t] = i - 1
    <3>1. RanksReach(S, R, n)
      BY <1>1, <1>5, RankIsBijective
    <3> QED BY <2>1, <3>1 DEF RanksReach
  <2> QED BY <1>4, <2>2
<1> HIDE DEF Item
<1>7. s \in [1 .. n -> S] /\ \A i \in 1 .. n : Rank(S, R)[s[i]] = i - 1
  BY <1>3, <1>6
<1>8. Lists(s, S)
  BY <1>1, <1>5, <1>7, Ranks
<1> QED BY <1>0, <1>8

(* The transactions S offer fees. *)
HaveRates(h, S) == \A t \in S : h[t].feeRate \in Nat

(* The transactions of a mined block: the coinbase, then those it takes. *)
LEMMA OrderedTransactions ==
    ASSUME NEW S \in SUBSET Nat, IsFiniteSet(S), NEW h,
           HaveRates(h, S), NEW c
    PROVE  /\ Ordered(h, c, S) \in Seq(S \cup {c})
           /\ ToSet(Ordered(h, c, S)) = S \cup {c}
           /\ Ordered(h, c, S) # <<>> /\ Head(Ordered(h, c, S)) = c
<1>0. PICK s : s = Ordered(h, c, S)
  OBVIOUS
<1>2. PICK R : \A t, u \in S : <<t, u>> \in R <=> Precedes(h, t, u)
  <2>1. \A t, u \in S : <<t, u>> \in {p \in S \X S : Precedes(h, p[1], p[2])} <=> Precedes(h, t, u)
    OBVIOUS
  <2> QED BY <2>1
<1> DEFINE Item(i) == CHOOSE t \in S :
                         Cardinality({u \in S : Precedes(h, u, t)}) = i - 1
           q == [i \in 1 .. Cardinality(S) |-> Item(i)]
<1>1. PICK n \in Nat : n = Cardinality(S)
  BY FS_CardinalityType
<1>3. s = <<c>> \o q
  BY <1>0 DEF Ordered, Sorted
<1>4. \A t \in S : Rank(S, R)[t] = Cardinality({u \in S : Precedes(h, u, t)})
  <2>1. \A t \in S : {u \in S : Precedes(h, u, t)} = {u \in S : <<u, t>> \in R}
    BY <1>2
  <2> QED BY <2>1 DEF Rank
<1>11. PICK fee : fee = [t \in S |-> h[t].feeRate]
  OBVIOUS
<1>12. \A t, u \in S : Precedes(h, t, u) <=>
          fee[t] > fee[u] \/ (fee[t] = fee[u] /\ t < u)
  <2>1. SUFFICES ASSUME NEW t \in S, NEW u \in S
                 PROVE  Precedes(h, t, u) <=>
                           fee[t] > fee[u] \/ (fee[t] = fee[u] /\ t < u)
    OBVIOUS
  <2>2. fee[t] \in Nat /\ fee[u] \in Nat
    BY <1>11 DEF HaveRates
  <2>3. Precedes(h, t, u) <=>
           IF fee[t] = fee[u] THEN t < u ELSE fee[t] > fee[u]
    BY <1>11 DEF Precedes
  <2> QED BY <2>2, <2>3
<1>13. fee \in [S -> Nat]
  BY <1>11 DEF HaveRates
<1>5. Orders(R, S)
  BY <1>2, <1>12, <1>13 DEF Orders
<1>6. ASSUME NEW i \in 1 .. n PROVE Item(i) \in S /\ Rank(S, R)[Item(i)] = i - 1
  <2>1. i - 1 \in 0 .. n - 1
    BY <1>1
  <2>2. \E t \in S : Rank(S, R)[t] = i - 1
    <3>1. RanksReach(S, R, n)
      BY <1>1, <1>5, RankIsBijective
    <3> QED BY <2>1, <3>1 DEF RanksReach
  <2> QED BY <1>4, <2>2
<1> HIDE DEF Item
<1>7. q \in [1 .. n -> S] /\ \A i \in 1 .. n : Rank(S, R)[q[i]] = i - 1
  BY <1>1, <1>6
<1> HIDE DEF q
<1>8. Lists(q, S) /\ Len(q) = n
  BY <1>1, <1>5, <1>7, Ranks
<1>9. q \in Seq(S) /\ \A t \in S : \E i \in 1 .. n : q[i] = t
  BY <1>8 DEF Lists
<1>10. /\ s \in Seq(S \cup {c}) /\ Len(s) = n + 1
       /\ s[1] = c /\ \A i \in 1 .. n : s[i + 1] = q[i]
  <2>1. q \in Seq(S \cup {c}) /\ <<c>> \in Seq(S \cup {c})
    BY <1>9
  <2> QED BY <1>3, <1>8, <2>1
<1>14. ToSet(s) = S \cup {c}
  <2>1. \A i \in 1 .. n + 1 : i = 1 \/ i - 1 \in 1 .. n
    OBVIOUS
  <2>2. \A i \in 1 .. n : i + 1 \in 1 .. n + 1
    OBVIOUS
  <2>3. DOMAIN s = 1 .. n + 1 /\ 1 \in 1 .. n + 1
    BY <1>10
  <2>4. \A i \in DOMAIN s : s[i] \in S \cup {c}
    BY <1>10, <2>3
  <2>5. \A t \in S : \E i \in DOMAIN s : s[i] = t
    BY <1>9, <1>10, <2>2, <2>3
  <2>6. \A t : t \in ToSet(s) <=> \E i \in DOMAIN s : s[i] = t
    BY DEF ToSet
  <2> QED BY <1>10, <2>3, <2>4, <2>5, <2>6
<1>15. s # <<>> /\ Head(s) = c
  BY <1>10
<1> QED BY <1>0, <1>10, <1>14, <1>15

(* Each output in the queue q is in the index of one of the blocks D that  *)
(* join, and is there once for each of them.                               *)
ComesFrom(q, blk, D, n) ==
    /\ \A j \in 1 .. Len(q) : blk[j] \in D /\ q[j] \in utxos'[blk[j]][n]
    /\ \A i, j \in 1 .. Len(q) : q[i] = q[j] /\ blk[i] = blk[j] => i = j
    /\ \A b \in D : \A t \in utxos'[b][n] : \E j \in 1 .. Len(q) : q[j] = t

(* The indices of the blocks on, each in order. *)
IndicesOf(ss, on, n) == ss = [i \in DOMAIN on |-> Sorted(utxos'[on[i]][n], <)]

(* The outputs that a node confirms one by one when blocks join. *)
LEMMA QueueOfBlocks ==
    ASSUME NEW X \in SUBSET Nat, IsFiniteSet(X), NEW n, NEW D, NEW on,
           Lists(on, D), \A b \in D : utxos'[b][n] \in SUBSET X,
           NEW ss, IndicesOf(ss, on, n)
    PROVE  FlattenSeq(ss) \in Seq(X) /\ \E blk : ComesFrom(FlattenSeq(ss), blk, D, n)
<1>1. PICK N \in Nat : N = Len(on) /\ DOMAIN on = 1 .. N
  BY DEF Lists
<1>2. /\ \A i \in 1 .. N : on[i] \in D
      /\ \A i, j \in 1 .. N : on[i] = on[j] => i = j
      /\ \A b \in D : \E i \in 1 .. N : on[i] = b
  BY <1>1 DEF Lists
<1>3. ASSUME NEW i \in 1 .. N
      PROVE  Lists(ss[i], utxos'[on[i]][n]) /\ ss[i] \in Seq(X)
  <2>1. PICK U \in SUBSET X : U = utxos'[on[i]][n]
    BY <1>2
  <2>2. ss[i] = Sorted(U, <)
    BY <1>1, <2>1 DEF IndicesOf
  <2>3. IsFiniteSet(U) /\ U \in SUBSET Nat
    BY FS_Subset
  <2>4. Lists(ss[i], U)
    BY <2>2, <2>3, SortedUp
  <2>5. ss[i] \in Seq(U)
    BY <2>4 DEF Lists
  <2>6. ss[i] \in Seq(X)
    BY <2>5, SeqOfMore
  <2> QED BY <2>1, <2>4, <2>6
<1>4. ss \in Seq(Seq(X)) /\ Len(ss) = N
  <2>1. DOMAIN ss = 1 .. N /\ ss = [i \in DOMAIN ss |-> ss[i]]
    BY <1>1 DEF IndicesOf
  <2>2. ss \in [1 .. N -> Seq(X)]
    BY <1>3, <2>1
  <2> QED BY <2>2, FunctionIsSeq
<1>5. PICK q, src, pos :
         q \in Seq(X) /\ q = FlattenSeq(ss) /\ Splices(q, ss, N, src, pos)
  BY <1>4, FlattenSeqPlaces DEF Flattens
<1> DEFINE blk == [j \in 1 .. Len(q) |-> on[src[j]]]
<1>6. \A j \in 1 .. Len(q) : /\ src[j] \in 1 .. N /\ pos[j] \in 1 .. Len(ss[src[j]])
                             /\ q[j] = ss[src[j]][pos[j]]
  BY <1>5 DEF Splices
<1>7. ASSUME NEW j \in 1 .. Len(q)
      PROVE  blk[j] \in D /\ q[j] \in utxos'[blk[j]][n]
  <2>1. PICK i \in 1 .. N : i = src[j] /\ pos[j] \in 1 .. Len(ss[i]) /\ q[j] = ss[i][pos[j]]
    BY <1>6
  <2>2. ss[i] \in Seq(utxos'[on[i]][n])
    BY <1>3 DEF Lists
  <2>3. q[j] \in utxos'[on[i]][n]
    BY <2>1, <2>2
  <2> QED BY <1>2, <2>1, <2>3
<1>8. ASSUME NEW i \in 1 .. Len(q), NEW j \in 1 .. Len(q), q[i] = q[j], blk[i] = blk[j]
      PROVE  i = j
  <2>1. src[i] \in 1 .. N /\ src[j] \in 1 .. N
    BY <1>6
  <2>2. PICK k \in 1 .. N : k = src[i] /\ k = src[j]
    BY <1>2, <1>8, <2>1
  <2>3. /\ pos[i] \in 1 .. Len(ss[k]) /\ pos[j] \in 1 .. Len(ss[k])
        /\ ss[k][pos[i]] = ss[k][pos[j]]
    BY <1>6, <1>8, <2>2
  <2>4. \A x, y \in 1 .. Len(ss[k]) : ss[k][x] = ss[k][y] => x = y
    BY <1>3 DEF Lists
  <2>5. pos[i] = pos[j]
    BY <2>3, <2>4
  <2>6. \A x, y \in 1 .. Len(q) : src[x] = src[y] /\ pos[x] = pos[y] => x = y
    BY <1>5 DEF Splices
  <2> QED BY <2>2, <2>5, <2>6
<1>9. ASSUME NEW b \in D, NEW t \in utxos'[b][n]
      PROVE  \E j \in 1 .. Len(q) : q[j] = t
  <2>1. PICK i \in 1 .. N : on[i] = b
    BY <1>2
  <2>2. PICK p \in 1 .. Len(ss[i]) : ss[i][p] = t
    BY <1>3, <2>1 DEF Lists
  <2>3. PICK j \in 1 .. Len(q) : src[j] = i /\ pos[j] = p
    BY <1>5 DEF Splices
  <2> QED BY <1>6, <2>2, <2>3
<1> HIDE DEF blk
<1>10. ComesFrom(q, blk, D, n)
  BY <1>7, <1>8, <1>9 DEF ComesFrom
<1> QED BY <1>5, <1>10

(* Confirming the first outputs of a sequence is going part of the way. *)
LEMMA PrefixConfirmed ==
    ASSUME NEW X, NEW w \in Wallets(X), NEW s \in Seq(X),
           NEW f \in [0 .. Len(s) -> Wallets(X)], Confirms(f, w, s),
           NEW i \in 0 .. Len(s)
    PROVE  AllConfirmed(w, SubSeq(s, 1, i)) = f[i]
<1>1. PICK p : p = SubSeq(s, 1, i)
  OBVIOUS
<1>2. /\ p \in Seq(X) /\ Len(p) = i /\ i \in Nat /\ Len(s) \in Nat /\ i <= Len(s)
      /\ \A j \in 1 .. i : p[j] = s[j]
  BY <1>1
<1>3. \A y \in Wallets(X) : \A t \in X : Confirmed(y, t) \in Wallets(X)
  BY ConfirmedWallet
<1>4. PICK g \in [0 .. Len(p) -> Wallets(X)] :
         Confirms(g, w, p) /\ g[Len(p)] = AllConfirmed(w, p)
  <2>1. PICK V : V = Wallets(X)
    OBVIOUS
  <2>2. w \in V /\ p \in Seq(X) /\ \A y \in V : \A t \in X : Confirmed(y, t) \in V
    BY <1>2, <1>3, <2>1
  <2>3. \E g \in [0 .. Len(p) -> V] :
           Confirms(g, w, p) /\ g[Len(p)] = AllConfirmed(w, p)
    BY <2>2, FoldConfirmed
  <2> QED BY <2>1, <2>3
<1> DEFINE T == {j \in 0 .. i : g[j] = f[j]}
<1>5. 0 \in T
  BY <1>2, <1>4 DEF Confirms
<1>6. ASSUME NEW j \in Nat, j < i, j \in T PROVE j + 1 \in T
  <2>1. /\ j + 1 \in 1 .. i /\ j + 1 \in 1 .. Len(s) /\ (j + 1) - 1 = j
        /\ j + 1 \in 0 .. i
    BY <1>2, <1>6
  <2>2. g[j + 1] = Confirmed(g[j], p[j + 1]) /\ f[j + 1] = Confirmed(f[j], s[j + 1])
    BY <1>2, <1>4, <2>1 DEF Confirms
  <2>3. g[j] = f[j] /\ p[j + 1] = s[j + 1]
    BY <1>2, <1>6, <2>1
  <2> QED BY <2>1, <2>2, <2>3
<1>7. i \in T
  <2> HIDE DEF T
  <2>1. \A j \in 0 .. i : j \in T
    BY <1>2, <1>5, <1>6, InductionUpTo
  <2> QED BY <1>2, <2>1
<1> QED BY <1>1, <1>2, <1>4, <1>7

-----------------------------------------------------------------------------
(* Following the main branch, step by step: the blocks off leave, with the *)
(* wallets r on the way, and the outputs of q are confirmed one by one,    *)
(* with the wallets u on the way.                                          *)
Leaving(n, h, w, old, new, off, r) ==
    /\ Lists(off, old \ new)
    /\ \A i, j \in 1 .. Len(off) : i < j => off[i] > off[j]
    /\ r \in [0 .. Len(off) -> Wallets(DOMAIN h)]
    /\ Reverts(r, h, w, off, n)

Joining(n, h, start, old, new, q, blk, u) ==
    /\ q \in Seq(DOMAIN h)
    /\ ComesFrom(q, blk, new \ old, n)
    /\ u \in [0 .. Len(q) -> Wallets(DOMAIN h)]
    /\ Confirms(u, start, q)

(* How it ends: the generator sleeps on, or it pays after the first output *)
(* that wakes it.                                                          *)
Wakes(n, h, q, u, i) ==
    n \in waiting /\ Ripe(h, u[i], q[i]) /\ Listed(h, u[i], MinConfirmations[n]) # {}

Ends(n, h, pool, old, new, q, u) ==
    \/ /\ \A i \in 1 .. Len(q) : ~Wakes(n, h, q, u, i)
       /\ tx' = h
       /\ wallet' = [wallet EXCEPT ![n] = u[Len(q)]]
       /\ mempool' = [mempool EXCEPT ![n] = PoolAfter(pool, old \ new, new \ old)]
       /\ UNCHANGED <<waiting, txInFlight>>
    \/ \E i \in 1 .. Len(q) :
          /\ Wakes(n, h, q, u, i)
          /\ CreateTransaction(n, h, u[i], PoolAfter(pool, old \ new, new \ old),
                               SubSeq(q, i + 1, Len(q)))

(* The blocks of the two branches are filled. *)
Filled(n, h, D) ==
    /\ IsFiniteSet(DOMAIN h) /\ DOMAIN h \in SUBSET Nat
    /\ IsFiniteSet(D) /\ D \in SUBSET Nat
    /\ \A b \in D : txn'[b] \in Seq(DOMAIN h) /\ utxos'[b][n] \in SUBSET DOMAIN h

(* Follow() goes that way. *)
LEMMA FollowUnfolds ==
    ASSUME NEW n, NEW h, NEW w \in Wallets(DOMAIN h), NEW pool,
           NEW old, old = block'[mainBranch[n]].chain,
           NEW new, new = block'[mainBranch'[n]].chain,
           Filled(n, h, old \cup new), Follow(n, h, w, pool)
    PROVE  \E off, r, q, blk, u :
              /\ Leaving(n, h, w, old, new, off, r)
              /\ Joining(n, h, r[Len(off)], old, new, q, blk, u)
              /\ Ends(n, h, pool, old, new, q, u)
<1>1. PICK X : X = DOMAIN h
  OBVIOUS
<1>2. /\ IsFiniteSet(X) /\ X \in SUBSET Nat
      /\ IsFiniteSet(old \ new) /\ (old \ new) \in SUBSET Nat
      /\ IsFiniteSet(new \ old) /\ (new \ old) \in SUBSET Nat
      /\ \A b \in old \ new : txn'[b] \in Seq(X)
      /\ \A b \in new \ old : utxos'[b][n] \in SUBSET X
  BY <1>1, FS_Subset DEF Filled
<1>3. PICK off, on : off = Sorted(old \ new, >) /\ on = Sorted(new \ old, <)
  OBVIOUS
<1>4. PICK ss : IndicesOf(ss, on, n)
  BY DEF IndicesOf
<1>5. PICK q, start : q = FlattenSeq(ss) /\ start = AllReverted(h, w, off, n)
  OBVIOUS
<1>6. /\ Lists(off, old \ new)
      /\ \A i, j \in 1 .. Len(off) : i < j => off[i] > off[j]
  BY <1>2, <1>3, SortedDown
<1>7. Lists(on, new \ old)
  BY <1>2, <1>3, SortedUp
<1>8. PICK blk : q \in Seq(X) /\ ComesFrom(q, blk, new \ old, n)
  BY <1>2, <1>4, <1>5, <1>7, QueueOfBlocks
<1>9. PICK r \in [0 .. Len(off) -> Wallets(X)] :
         Reverts(r, h, w, off, n) /\ r[Len(off)] = start
  <2>1. \A y \in Wallets(X) : \A b \in old \ new : Reverted(h, y, b, n) \in Wallets(X)
    BY <1>2, RevertedWallet
  <2>2. off \in Seq(old \ new) /\ w \in Wallets(X)
    BY <1>1, <1>6 DEF Lists
  <2> QED BY <1>5, <2>1, <2>2, FoldReverted
<1>10. start \in Wallets(X)
  <2>1. Len(off) \in Nat
    BY <1>6 DEF Lists
  <2> QED BY <1>9, <2>1
<1>11. PICK u \in [0 .. Len(q) -> Wallets(X)] : Confirms(u, start, q)
  <2>1. \A y \in Wallets(X) : \A t \in X : Confirmed(y, t) \in Wallets(X)
    BY ConfirmedWallet
  <2> QED BY <1>8, <1>10, <2>1, FoldConfirmed
<1>12. /\ Len(q) \in Nat /\ DOMAIN q = 1 .. Len(q)
       /\ \A i \in 0 .. Len(q) : AllConfirmed(start, SubSeq(q, 1, i)) = u[i]
  BY <1>8, <1>10, <1>11, PrefixConfirmed
<1>13. Ends(n, h, pool, old, new, q, u)
  <2> DEFINE left == PoolAfter(pool, old \ new, new \ old)
             Upto(i) == AllConfirmed(start, SubSeq(q, 1, i))
             wakes == {i \in DOMAIN q :
                         /\ n \in waiting
                         /\ Ripe(h, Upto(i), q[i])
                         /\ Listed(h, Upto(i), MinConfirmations[n]) # {}}
  <2>1. \/ /\ wakes = {}
           /\ tx' = h
           /\ wallet' = [wallet EXCEPT ![n] = Upto(Len(q))]
           /\ mempool' = [mempool EXCEPT ![n] = left]
           /\ UNCHANGED <<waiting, txInFlight>>
        \/ \E i \in wakes :
              CreateTransaction(n, h, Upto(i), left, SubSeq(q, i + 1, Len(q)))
    BY <1>3, <1>4, <1>5 DEF Follow, IndicesOf
  <2>2. \A i \in 1 .. Len(q) : i \in wakes <=> Wakes(n, h, q, u, i)
    BY <1>12 DEF Wakes
  <2>3. /\ Upto(Len(q)) = u[Len(q)]
        /\ \A i \in wakes : i \in 1 .. Len(q) /\ Upto(i) = u[i]
    BY <1>12
  <2> HIDE DEF wakes, Upto, left
  <2>4. CASE /\ wakes = {}
             /\ tx' = h
             /\ wallet' = [wallet EXCEPT ![n] = Upto(Len(q))]
             /\ mempool' = [mempool EXCEPT ![n] = left]
             /\ UNCHANGED <<waiting, txInFlight>>
    BY <2>2, <2>3, <2>4 DEF Ends, left
  <2>5. CASE \E i \in wakes :
              CreateTransaction(n, h, Upto(i), left, SubSeq(q, i + 1, Len(q)))
    BY <2>2, <2>3, <2>5 DEF Ends, left
  <2> QED BY <2>1, <2>4, <2>5
<1>14. Leaving(n, h, w, old, new, off, r)
  BY <1>1, <1>6, <1>9 DEF Leaving
<1>15. Joining(n, h, r[Len(off)], old, new, q, blk, u)
  BY <1>1, <1>8, <1>9, <1>11 DEF Joining
<1> QED BY <1>13, <1>14, <1>15

(* Confirming the other outputs of a sequence is going the rest of the way. *)
LEMMA SuffixConfirmed ==
    ASSUME NEW X, NEW s \in Seq(X),
           NEW f \in [0 .. Len(s) -> Wallets(X)], NEW w, Confirms(f, w, s),
           NEW i \in 1 .. Len(s)
    PROVE  /\ SubSeq(s, i + 1, Len(s)) \in Seq(X)
           /\ AllConfirmed(f[i], SubSeq(s, i + 1, Len(s))) = f[Len(s)]
<1>1. PICK N, p : N \in Nat /\ N = Len(s) /\ p = SubSeq(s, i + 1, N)
  OBVIOUS
<1>2. /\ p \in Seq(X) /\ i \in Nat /\ i <= N /\ N - i \in Nat /\ Len(p) = N - i
      /\ \A j \in 1 .. N - i : p[j] = s[i + j]
  <2>1. p \in Seq(X)
    BY <1>1
  <2>2. i \in Nat /\ i <= N /\ N - i \in Nat
    BY <1>1
  <2>3. Len(p) = N - i /\ \A j \in 1 .. N - i : p[j] = s[i + j]
    BY <1>1, <2>2
  <2> QED BY <2>1, <2>2, <2>3
<1>3. f[i] \in Wallets(X)
  BY <1>1, <1>2
<1>4. PICK g \in [0 .. Len(p) -> Wallets(X)] :
         Confirms(g, f[i], p) /\ g[Len(p)] = AllConfirmed(f[i], p)
  <2>1. PICK V, y : V = Wallets(X) /\ y = f[i]
    OBVIOUS
  <2>2. y \in V /\ p \in Seq(X) /\ \A v \in V : \A t \in X : Confirmed(v, t) \in V
    BY <1>2, <1>3, <2>1, ConfirmedWallet
  <2>3. \E g \in [0 .. Len(p) -> V] :
           Confirms(g, y, p) /\ g[Len(p)] = AllConfirmed(y, p)
    BY <2>2, FoldConfirmed
  <2> QED BY <2>1, <2>3
<1> DEFINE T == {j \in 0 .. N - i : g[j] = f[i + j]}
<1>5. 0 \in T
  <2>1. g[0] = f[i] /\ i + 0 = i /\ 0 \in 0 .. N - i
    BY <1>2, <1>4 DEF Confirms
  <2> QED BY <2>1
<1>6. ASSUME NEW j \in Nat, j < N - i, j \in T PROVE j + 1 \in T
  <2>1. /\ j + 1 \in 1 .. Len(p) /\ j + 1 \in 1 .. N - i /\ (j + 1) - 1 = j
        /\ j + 1 \in 0 .. N - i
        /\ i + (j + 1) \in 1 .. Len(s) /\ (i + (j + 1)) - 1 = i + j
    <3>1. i \in Nat /\ N \in Nat /\ N = Len(s) /\ i <= N /\ j \in Nat /\ j < N - i
      BY <1>1, <1>2, <1>6
    <3>2. j + 1 \in 1 .. N - i
      BY <3>1
    <3>3. i + (j + 1) \in 1 .. N
      BY <3>1
    <3> HIDE DEF T
    <3> QED BY <1>2, <3>1, <3>2, <3>3
  <2>2. g[j + 1] = Confirmed(g[j], p[j + 1])
    BY <1>4, <2>1 DEF Confirms
  <2>3. f[i + (j + 1)] = Confirmed(f[i + j], s[i + (j + 1)])
    BY <2>1 DEF Confirms
  <2>4. g[j] = f[i + j] /\ p[j + 1] = s[i + (j + 1)]
    BY <1>2, <1>6, <2>1
  <2> QED BY <2>1, <2>2, <2>3, <2>4
<1>7. N - i \in T
  <2> HIDE DEF T
  <2>1. \A j \in 0 .. N - i : j \in T
    BY <1>2, <1>5, <1>6, InductionUpTo
  <2> QED BY <1>2, <2>1
<1>8. i + (N - i) = N
  BY <1>1, <1>2
<1> QED BY <1>1, <1>2, <1>4, <1>7, <1>8

(* v counts no output higher than w. *)
Under(v, w) == \A t : /\ Count(v, t) \in Nat /\ Count(w, t) \in Nat
                      /\ Count(v, t) <= Count(w, t)

(* Confirming one output keeps that order. *)
LEMMA ConfirmedUnder ==
    ASSUME NEW X, NEW v \in Wallets(X), NEW w \in Wallets(X), Under(v, w), NEW t \in X
    PROVE  Under(Confirmed(v, t), Confirmed(w, t)) /\ Under(v, Confirmed(v, t))
<1>1. PICK y, z : y = Confirmed(v, t) /\ z = Confirmed(w, t)
  OBVIOUS
<1>2. \A u : /\ Count(y, u) = IF u = t THEN Count(v, u) + 1 ELSE Count(v, u)
             /\ Count(z, u) = IF u = t THEN Count(w, u) + 1 ELSE Count(w, u)
  BY <1>1, ConfirmedWallet
<1>3. ASSUME NEW u
      PROVE  /\ Count(y, u) \in Nat /\ Count(z, u) \in Nat
             /\ Count(v, u) \in Nat
             /\ Count(y, u) <= Count(z, u) /\ Count(v, u) <= Count(y, u)
  <2>1. PICK a \in Nat, b \in Nat : a = Count(v, u) /\ b = Count(w, u) /\ a <= b
    BY DEF Under
  <2> QED BY <1>2, <2>1
<1> QED BY <1>1, <1>3 DEF Under

(* Confirming keeps that order, and never lowers a count. *)
LEMMA AllConfirmedUnder ==
    ASSUME NEW X, NEW v \in Wallets(X), NEW w \in Wallets(X), Under(v, w), NEW s \in Seq(X)
    PROVE  /\ Under(AllConfirmed(v, s), AllConfirmed(w, s))
           /\ Under(v, AllConfirmed(w, s))
<1> DEFINE N == Len(s)
<1>1. N \in Nat /\ \A i \in 1 .. N : s[i] \in X
  OBVIOUS
<1>2. PICK V : V = Wallets(X)
  OBVIOUS
<1>3. v \in V /\ w \in V /\ \A y \in V : \A t \in X : Confirmed(y, t) \in V
  BY <1>2, ConfirmedWallet
<1>4. PICK f \in [0 .. Len(s) -> V] : Confirms(f, v, s) /\ f[Len(s)] = AllConfirmed(v, s)
  BY <1>3, FoldConfirmed
<1>5. PICK g \in [0 .. Len(s) -> V] : Confirms(g, w, s) /\ g[Len(s)] = AllConfirmed(w, s)
  BY <1>3, FoldConfirmed
<1> DEFINE T == {i \in 0 .. N : Under(f[i], g[i]) /\ Under(v, g[i])}
<1> HIDE DEF N
<1>6. 0 \in T
  BY <1>1, <1>4, <1>5 DEF Confirms
<1>7. ASSUME NEW i \in Nat, i < N, i \in T PROVE i + 1 \in T
  <2>1. /\ i \in 0 .. N /\ i + 1 \in 0 .. N /\ i + 1 \in 1 .. N
        /\ (i + 1) - 1 = i
    BY <1>1, <1>7
  <2>2. PICK y \in V, z \in V, t \in X : y = f[i] /\ z = g[i] /\ t = s[i + 1]
    BY <1>1, <2>1 DEF N
  <2>3. f[i + 1] = Confirmed(y, t) /\ g[i + 1] = Confirmed(z, t)
    BY <1>4, <1>5, <2>1, <2>2 DEF Confirms, N
  <2>4. Under(y, z) /\ Under(v, z)
    BY <1>7, <2>2
  <2>5. Under(Confirmed(y, t), Confirmed(z, t)) /\ Under(z, Confirmed(z, t))
    <3>1. Under(z, z)
      BY <2>4 DEF Under
    <3> QED BY <1>2, <2>2, <2>4, <3>1, ConfirmedUnder
  <2>6. Under(v, Confirmed(z, t))
    BY <2>4, <2>5 DEF Under
  <2> QED BY <2>1, <2>3, <2>5, <2>6
<1>8. N \in T
  <2> HIDE DEF T
  <2>1. \A i \in 0 .. N : i \in T
    BY <1>1, <1>6, <1>7, InductionUpTo
  <2> QED BY <1>1, <2>1
<1> QED BY <1>4, <1>5, <1>8 DEF N

(* The transactions h of a run spend and pay, and offer fees. *)
History(h) ==
    /\ h \in Seq(ToSet(h))
    /\ \A t \in DOMAIN h : /\ h[t].spends \in [Node -> SUBSET DOMAIN h]
                           /\ h[t].pays \subseteq Node
                           /\ h[t].feeRate \in Nat

(* g has the transactions of h, and perhaps more. *)
Extends(g, h) ==
    /\ DOMAIN h \subseteq DOMAIN g
    /\ \A t \in DOMAIN h : g[t] = h[t]

(* The transactions of a run are numbered from 1 up. *)
LEMMA HistoryIsFinite ==
    ASSUME NEW h, History(h)
    PROVE  /\ IsFiniteSet(DOMAIN h) /\ DOMAIN h \in SUBSET Nat
           /\ Len(h) \in Nat /\ DOMAIN h = 1 .. Len(h)
<1>1. Len(h) \in Nat /\ DOMAIN h = 1 .. Len(h)
  BY DEF History
<1>2. IsFiniteSet(1 .. Len(h))
  BY <1>1, FS_Interval
<1> QED BY <1>1, <1>2

(* A transaction that spends earlier outputs is added at the end. *)
LEMMA HistoryGrows ==
    ASSUME NEW h, History(h), NEW e, e.spends \in [Node -> SUBSET DOMAIN h],
           e.pays \subseteq Node, e.feeRate \in Nat
    PROVE  /\ History(Append(h, e)) /\ Extends(Append(h, e), h)
           /\ \A t : t \in DOMAIN Append(h, e) <=> t \in DOMAIN h \/ t = Len(h) + 1
           /\ Append(h, e)[Len(h) + 1] = e
           /\ Len(h) + 1 \notin DOMAIN h
<1>1. PICK g : g = Append(h, e)
  OBVIOUS
<1>2. PICK k \in Nat : k = Len(h) /\ DOMAIN h = 1 .. k
  BY HistoryIsFinite
<1>3. h \in Seq(ToSet(h))
  BY DEF History
<1>4. /\ DOMAIN g = 1 .. k + 1 /\ g[k + 1] = e
      /\ \A i \in 1 .. k : g[i] = h[i]
  BY <1>1, <1>2, <1>3
<1>5. g \in Seq(ToSet(g))
  BY <1>1, <1>3, AppendedTransaction
<1>6. \A t \in DOMAIN g : t \in DOMAIN h \/ t = k + 1
  BY <1>2, <1>4
<1>7. DOMAIN h \subseteq DOMAIN g /\ k + 1 \in DOMAIN g /\ k + 1 \notin DOMAIN h
  BY <1>2, <1>4
<1>8. ASSUME NEW t \in DOMAIN g
      PROVE  /\ g[t].spends \in [Node -> SUBSET DOMAIN g]
             /\ g[t].pays \subseteq Node /\ g[t].feeRate \in Nat
  <2>1. CASE t \in DOMAIN h
    <3>1. g[t] = h[t] /\ h[t].spends \in [Node -> SUBSET DOMAIN h]
      BY <2>1, <1>2, <1>4 DEF History
    <3>2. h[t].pays \subseteq Node /\ h[t].feeRate \in Nat
      BY <2>1 DEF History
    <3>3. \A f \in [Node -> SUBSET DOMAIN h] : f \in [Node -> SUBSET DOMAIN g]
      BY <1>7
    <3> QED BY <3>1, <3>2, <3>3
  <2>2. CASE t = k + 1
    <3>1. g[t] = e
      BY <2>2, <1>4
    <3>2. \A f \in [Node -> SUBSET DOMAIN h] : f \in [Node -> SUBSET DOMAIN g]
      BY <1>7
    <3> QED BY <3>1, <3>2
  <2> QED BY <1>6, <2>1, <2>2
<1>9. History(g)
  BY <1>5, <1>8 DEF History
<1>10. Extends(g, h)
  BY <1>2, <1>4, <1>7 DEF Extends
<1> QED BY <1>1, <1>2, <1>4, <1>6, <1>7, <1>9, <1>10

-----------------------------------------------------------------------------
(* A function of the nodes. *)
PerNode(f) == f = [m \in Node |-> f[m]]

(* What of the state of the nodes such a step needs. *)
NodesHold == PerNode(mempool) /\ PerNode(wallet) /\ PerNode(txInFlight)

(* What a step at node n leaves when it starts from the transactions h and *)
(* the wallet z: perhaps a payment, which spends what z has.               *)
NewPayment(u, n, h, z) ==
    /\ \A m \in Node \ {n} : tx'[u].spends[m] = {}
    /\ \A t \in tx'[u].spends[n] :
          t \in DOMAIN h /\ (h[t].coinbase => Count(z, t) >= CoinbaseMaturity)
    /\ u \in DOMAIN wallet'[n]

Settled(n, h, left, z) ==
    /\ History(tx') /\ Extends(tx', h)
    /\ \A u \in DOMAIN tx' \ DOMAIN h : NewPayment(u, n, h, z)
    /\ PerNode(mempool')
    /\ \A u : u \in mempool'[n] <=> u \in left \/ u \in DOMAIN tx' \ DOMAIN h
    /\ \A m \in Node \ {n} : mempool'[m] = mempool[m]
    /\ PerNode(wallet') /\ wallet'[n] \in Wallets(DOMAIN tx')
    /\ \A m \in Node \ {n} : wallet'[m] = wallet[m]
    /\ \A t \in DOMAIN z :
          \/ t \in DOMAIN wallet'[n]
          \/ \E u \in DOMAIN tx' \ DOMAIN h : t \in tx'[u].spends[n]
    /\ Under(wallet'[n], z)
    /\ PerNode(txInFlight')
    /\ \A m \in Node : \A u \in txInFlight'[m] :
          u \in txInFlight[m] \/ u \in Payments(tx') \ DOMAIN h

(* More transactions, as many wallets. *)
LEMMA WalletsOfMore ==
    ASSUME NEW X, NEW Y, X \subseteq Y, NEW w \in Wallets(X)
    PROVE  w \in Wallets(Y)
<1>1. /\ DOMAIN w \subseteq X /\ w = [t \in DOMAIN w |-> w[t]]
      /\ \A t \in DOMAIN w : w[t] \in Nat
  BY WalletIs
<1> QED BY <1>1, WalletIs

(* A wallet counts no higher than itself. *)
LEMMA UnderItself ==
    ASSUME NEW X, NEW w \in Wallets(X)
    PROVE  Under(w, w) /\ \A t : Count(w, t) \in Nat
<1>1. \A t \in DOMAIN w : w[t] \in Nat
  BY WalletIs
<1>2. \A t : Count(w, t) \in Nat
  BY <1>1 DEF Count
<1> QED BY <1>2 DEF Under

(* Nothing new is paid. *)
LEMMA SettlesWithoutPayment ==
    ASSUME NodesHold, NEW n \in Node, NEW h, History(h), NEW left,
           NEW z \in Wallets(DOMAIN h), tx' = h,
           wallet' = [wallet EXCEPT ![n] = z],
           mempool' = [mempool EXCEPT ![n] = left], UNCHANGED txInFlight
    PROVE  Settled(n, h, left, z)
<1>1. Extends(tx', h) /\ History(tx')
  BY DEF Extends
<1>2. Under(z, z)
  BY UnderItself
<1>3. wallet'[n] = z /\ mempool'[n] = left
  BY DEF NodesHold, PerNode
<1> QED BY <1>1, <1>2, <1>3 DEF Settled, NodesHold, PerNode

(* createTransaction(), and the confirmations that it interrupted. *)
LEMMA CreateSettles ==
    ASSUME NodesHold, NEW n \in Node, NEW h, History(h), NEW pool,
           NEW w \in Wallets(DOMAIN h), NEW rest \in Seq(DOMAIN h),
           CreateTransaction(n, h, w, pool, rest)
    PROVE  Settled(n, h, pool, AllConfirmed(w, rest))
<1>1. PICK z \in Wallets(DOMAIN h) :
         z = AllConfirmed(w, rest) /\ DOMAIN z = DOMAIN w \cup ToSet(rest)
  BY AllConfirmedWallet
<1>2. CASE /\ tx' = h
           /\ wallet' = [wallet EXCEPT ![n] = AllConfirmed(w, rest)]
           /\ mempool' = [mempool EXCEPT ![n] = pool]
           /\ UNCHANGED txInFlight
  BY <1>1, <1>2, SettlesWithoutPayment
<1>3. ASSUME NEW inputs \in SUBSET Listed(h, w, MinConfirmations[n]) \ {{}},
             NEW payees \in SUBSET (Node \ {n}), NEW rate \in FeeRate,
             tx' = Append(h, Payment(n, inputs, payees, rate)),
             NEW t, t = Len(h) + 1,
             wallet' = [wallet EXCEPT ![n] = AllConfirmed(Added(tx', w, t, n), rest)],
             mempool' = [mempool EXCEPT ![n] = pool \cup {t}],
             txInFlight' = [m \in Node |->
                       IF m = n THEN txInFlight[m] ELSE txInFlight[m] \cup {t}]
      PROVE  Settled(n, h, pool, z)
  <2>1. PICK e : e = Payment(n, inputs, payees, rate)
    OBVIOUS
  <2>2. inputs \subseteq DOMAIN w /\ inputs \subseteq DOMAIN h
    BY WalletIs DEF Listed
  <2>3. /\ e.spends = [m \in Node |-> IF m = n THEN inputs ELSE {}]
        /\ e.pays = payees \cup {n} /\ e.feeRate = rate /\ ~e.coinbase
    BY <2>1 DEF Payment
  <2>4. /\ e.spends \in [Node -> SUBSET DOMAIN h]
        /\ e.pays \subseteq Node /\ e.feeRate \in Nat
    BY <2>2, <2>3, FeeRateAssumption
  <2>5. PICK g : g = Append(h, e) /\ tx' = g
    BY <1>3, <2>1
  <2>6. /\ History(g) /\ Extends(g, h)
        /\ \A u : u \in DOMAIN g <=> u \in DOMAIN h \/ u = t
        /\ g[t] = e /\ t \notin DOMAIN h
    BY <1>3, <2>4, <2>5, HistoryGrows
  <2>7. /\ DOMAIN h \subseteq DOMAIN g /\ t \in DOMAIN g
        /\ DOMAIN g \ DOMAIN h = {t}
        /\ Payments(tx') \ DOMAIN h = {t}
    BY <2>3, <2>5, <2>6 DEF Payments
  <2>8. /\ Paid(g, t, n) = {t} /\ g[t].spends[n] = inputs
        /\ \A m \in Node \ {n} : g[t].spends[m] = {}
    BY <2>3, <2>6 DEF Paid
  <2>9. PICK v : v = Added(g, w, t, n)
    OBVIOUS
  <2>10. w \in Wallets(DOMAIN g) /\ rest \in Seq(DOMAIN g)
    BY <2>7, WalletsOfMore, SeqOfMore
  <2>11. /\ v \in Wallets(DOMAIN g)
         /\ \A u : u \in DOMAIN v <=> u \in DOMAIN w \cup {t} /\ u \notin inputs
         /\ \A u : Count(v, u) \in {0, Count(w, u)}
    BY <2>7, <2>8, <2>9, <2>10, AddedWallet
  <2>12. Under(v, w) /\ Under(w, w)
    <3>1. \A u : Count(w, u) \in Nat /\ Count(v, u) \in Nat
      BY <2>10, <2>11, UnderItself
    <3>2. ASSUME NEW u PROVE Count(v, u) <= Count(w, u)
      <4>1. PICK a \in Nat, b \in Nat : a = Count(v, u) /\ b = Count(w, u)
        BY <3>1
      <4>2. a \in {0, b}
        BY <2>11, <4>1
      <4>3. a <= b
        BY <4>2
      <4> QED BY <4>1, <4>3
    <3> QED BY <3>1, <3>2, UnderItself, <2>10 DEF Under
  <2>13. PICK y : y = AllConfirmed(v, rest)
    OBVIOUS
  <2>14. /\ y \in Wallets(DOMAIN g) /\ DOMAIN y = DOMAIN v \cup ToSet(rest)
         /\ Under(y, z) /\ Under(w, z)
    <3>1. y \in Wallets(DOMAIN g) /\ DOMAIN y = DOMAIN v \cup ToSet(rest)
      BY <2>10, <2>11, <2>13, AllConfirmedWallet
    <3>2. Under(y, z)
      BY <1>1, <2>10, <2>11, <2>12, <2>13, AllConfirmedUnder
    <3>3. Under(w, z)
      BY <1>1, <2>10, <2>12, AllConfirmedUnder
    <3> QED BY <3>1, <3>2, <3>3
  <2>15. wallet'[n] = y /\ PerNode(wallet')
         /\ \A m \in Node \ {n} : wallet'[m] = wallet[m]
    BY <1>3, <2>5, <2>9, <2>13 DEF NodesHold, PerNode
  <2>16. t \in DOMAIN y
    BY <2>2, <2>6, <2>11, <2>14
  <2>17. ASSUME NEW i \in inputs, h[i].coinbase PROVE Count(z, i) >= CoinbaseMaturity
    <3>1. i \in DOMAIN w /\ w[i] >= CoinbaseMaturity
      BY <2>17 DEF Listed
    <3>2. PICK a \in Nat, b \in Nat : a = Count(w, i) /\ b = Count(z, i) /\ a <= b
      BY <2>14 DEF Under
    <3>3. a >= CoinbaseMaturity
      BY <3>1, <3>2 DEF Count
    <3>4. b >= CoinbaseMaturity
      BY <3>2, <3>3, MaturityAssumption
    <3> QED BY <3>2, <3>4
  <2>18. \A u \in DOMAIN tx' \ DOMAIN h : NewPayment(u, n, h, z)
    BY <2>2, <2>5, <2>7, <2>8, <2>15, <2>16, <2>17 DEF NewPayment
  <2>19. \A u \in DOMAIN z :
            \/ u \in DOMAIN wallet'[n]
            \/ \E x \in DOMAIN tx' \ DOMAIN h : u \in tx'[x].spends[n]
    BY <1>1, <2>5, <2>7, <2>8, <2>11, <2>14, <2>15
  <2>20. /\ mempool'[n] = pool \cup {t} /\ PerNode(mempool')
         /\ \A m \in Node \ {n} : mempool'[m] = mempool[m]
    BY <1>3 DEF NodesHold, PerNode
  <2>21. /\ PerNode(txInFlight')
         /\ \A m \in Node : \A u \in txInFlight'[m] :
               u \in txInFlight[m] \/ u \in Payments(tx') \ DOMAIN h
    BY <1>3, <2>7 DEF PerNode
  <2> QED
    BY <2>5, <2>6, <2>7, <2>14, <2>15, <2>18, <2>19, <2>20, <2>21 DEF Settled
<1>4. \/ /\ tx' = h
         /\ wallet' = [wallet EXCEPT ![n] = AllConfirmed(w, rest)]
         /\ mempool' = [mempool EXCEPT ![n] = pool]
         /\ UNCHANGED txInFlight
      \/ \E inputs \in SUBSET Listed(h, w, MinConfirmations[n]) \ {{}},
            payees \in SUBSET (Node \ {n}), rate \in FeeRate :
            /\ tx' = Append(h, Payment(n, inputs, payees, rate))
            /\ \E t : /\ t = Len(h) + 1
                      /\ wallet' = [wallet EXCEPT ![n] =
                                       AllConfirmed(Added(tx', w, t, n), rest)]
                      /\ mempool' = [mempool EXCEPT ![n] = pool \cup {t}]
                      /\ txInFlight' = [m \in Node |->
                            IF m = n THEN txInFlight[m] ELSE txInFlight[m] \cup {t}]
  BY DEF CreateTransaction
<1>5. Settled(n, h, pool, z)
  BY <1>2, <1>3, <1>4, <1>1
<1> QED BY <1>1, <1>5

(* Whenever the generator is woken, the step ends the same way. *)
LEMMA FollowSettles ==
    ASSUME NodesHold, NEW n \in Node, NEW h, History(h), NEW pool, NEW start,
           NEW old, NEW new, NEW q, NEW blk, NEW u,
           Joining(n, h, start, old, new, q, blk, u),
           Ends(n, h, pool, old, new, q, u)
    PROVE  Settled(n, h, PoolAfter(pool, old \ new, new \ old), u[Len(q)])
<1>1. PICK left : left = PoolAfter(pool, old \ new, new \ old)
  OBVIOUS
<1>2. PICK X : X = DOMAIN h
  OBVIOUS
<1>3. /\ q \in Seq(X) /\ u \in [0 .. Len(q) -> Wallets(X)] /\ Confirms(u, start, q)
      /\ Len(q) \in Nat
  BY <1>2 DEF Joining
<1>4. PICK z \in Wallets(X) : z = u[Len(q)]
  BY <1>3
<1>5. CASE /\ tx' = h
           /\ wallet' = [wallet EXCEPT ![n] = u[Len(q)]]
           /\ mempool' = [mempool EXCEPT ![n] = left]
           /\ UNCHANGED <<waiting, txInFlight>>
  BY <1>1, <1>2, <1>4, <1>5, SettlesWithoutPayment
<1>6. ASSUME NEW i \in 1 .. Len(q),
             CreateTransaction(n, h, u[i], left, SubSeq(q, i + 1, Len(q)))
      PROVE  Settled(n, h, left, z)
  <2>1. PICK y, rest : y = u[i] /\ rest = SubSeq(q, i + 1, Len(q))
    OBVIOUS
  <2>2. rest \in Seq(X) /\ AllConfirmed(y, rest) = z
    BY <1>3, <1>4, <2>1, SuffixConfirmed
  <2>3. y \in Wallets(X)
    BY <1>3, <2>1
  <2>4. Settled(n, h, left, AllConfirmed(y, rest))
    BY <1>2, <1>6, <2>1, <2>2, <2>3, CreateSettles
  <2> QED BY <2>2, <2>4
<1>7. Settled(n, h, left, z)
  BY <1>1, <1>4, <1>5, <1>6 DEF Ends
<1> QED BY <1>1, <1>4, <1>7

(* The first k blocks are filled with the transactions h. *)
TypedBlocks(in, index, k, h) ==
    /\ in \in [Block -> Seq(DOMAIN h)]
    /\ index \in [Block -> [Node -> SUBSET DOMAIN h]]
    /\ \A b \in 0 .. k : in[b] # <<>> /\ h[Head(in[b])].coinbase

Typed ==
    /\ History(tx)
    /\ NodesHold
    /\ TypedBlocks(txn, utxos, mined, tx)
    /\ \A n \in Node : /\ wallet[n] \in Wallets(DOMAIN tx)
                       /\ mempool[n] \subseteq DOMAIN tx
                       /\ txInFlight[n] \subseteq Payments(tx)
    /\ waiting \subseteq Generator

TypedInv == LedgerInv /\ Typed

(* A node follows its main branch, step by step to the end. *)
Follows(n, h, w, pool, old, new, off, r, q, blk, u) ==
    /\ Leaving(n, h, w, old, new, off, r)
    /\ Joining(n, h, r[Len(off)], old, new, q, blk, u)
    /\ Ends(n, h, pool, old, new, q, u)
    /\ Settled(n, h, PoolAfter(pool, old \ new, new \ old), u[Len(q)])

(* The blocks of the model are finitely many. *)
LEMMA BlocksAreFinite == IsFiniteSet(Block) /\ Block \in SUBSET Nat
<1>1. Block = 0 .. MaxBlock /\ MaxBlock \in Nat
  BY MaxBlockAssumption DEF Block, Genesis
<1> QED BY <1>1, FS_Interval

(* Following the main branch goes step by step, and settles. *)
LEMMA FollowSteps ==
    ASSUME NodesHold, TypeOK, TypeOK', NEW n \in Node, NEW h, History(h),
           txn' \in [Block -> Seq(DOMAIN h)],
           utxos' \in [Block -> [Node -> SUBSET DOMAIN h]],
           NEW w \in Wallets(DOMAIN h), NEW pool, Follow(n, h, w, pool),
           NEW old, old = block'[mainBranch[n]].chain,
           NEW new, new = block'[mainBranch'[n]].chain
    PROVE  /\ old \subseteq Block /\ new \subseteq Block
           /\ \E off, r, q, blk, u :
                 Follows(n, h, w, pool, old, new, off, r, q, blk, u)
<1>1. old \subseteq Block /\ new \subseteq Block
  BY DEF TypeOK
<1>2. IsFiniteSet(DOMAIN h) /\ DOMAIN h \in SUBSET Nat
  BY HistoryIsFinite
<1>3. IsFiniteSet(old \cup new) /\ (old \cup new) \in SUBSET Nat
  BY <1>1, BlocksAreFinite, FS_Subset
<1>4. Filled(n, h, old \cup new)
  BY <1>1, <1>2, <1>3 DEF Filled
<1>5. PICK off, r, q, blk, u :
         /\ Leaving(n, h, w, old, new, off, r)
         /\ Joining(n, h, r[Len(off)], old, new, q, blk, u)
         /\ Ends(n, h, pool, old, new, q, u)
  BY <1>4, FollowUnfolds
<1>6. Settled(n, h, PoolAfter(pool, old \ new, new \ old), u[Len(q)])
  BY <1>5, FollowSettles
<1> QED BY <1>1, <1>5, <1>6 DEF Follows

-----------------------------------------------------------------------------
(* What a mined block is made of: the coinbase c, and what was taken from  *)
(* the mempool of n.                                                       *)
MinedOf(n, h, c, taken, s) ==
    /\ History(h) /\ Extends(h, tx)
    /\ c = Len(tx) + 1 /\ c \notin DOMAIN tx /\ h[c] = CoinbaseTx({n})
    /\ \A t : t \in DOMAIN h <=> t \in DOMAIN tx \/ t = c
    /\ taken \subseteq mempool[n]
    /\ s \in Seq(DOMAIN h) /\ ToSet(s) = taken \cup {c} /\ s # <<>> /\ Head(s) = c
    /\ txn' = [txn EXCEPT ![mined'] = s]
    /\ utxos' = [utxos EXCEPT ![mined'] = UpdatedUtxos(h, utxos[mainBranch[n]], s)]
    /\ Added(h, wallet[n], c, n) \in Wallets(DOMAIN h)
    /\ Follow(n, h, Added(h, wallet[n], c, n), mempool[n] \cup {c})

(* A block that is mined is made that way. *)
LEMMA MinedIs ==
    ASSUME Typed, NEW n \in Node, LedgerMine(n)
    PROVE  \E h, c, taken, s : MinedOf(n, h, c, taken, s)
<1>1. PICK e : e = CoinbaseTx({n})
  OBVIOUS
<1>2. PICK h, c : h = Append(tx, e) /\ c = Len(h)
  OBVIOUS
<1>3. PICK taken, s :
         /\ taken \in SUBSET mempool[n]
         /\ s = Ordered(h, c, taken)
         /\ txn' = [txn EXCEPT ![mined'] = s]
         /\ utxos' = [utxos EXCEPT ![mined'] =
                         UpdatedUtxos(h, utxos[mainBranch[n]], s)]
         /\ Follow(n, h, Added(h, wallet[n], c, n), mempool[n] \cup {c})
  BY <1>1, <1>2 DEF LedgerMine
<1>4. History(tx) /\ mempool[n] \subseteq DOMAIN tx /\ wallet[n] \in Wallets(DOMAIN tx)
  BY DEF Typed
<1>5. /\ e.spends \in [Node -> SUBSET DOMAIN tx]
      /\ e.pays \subseteq Node /\ e.feeRate \in Nat
  BY <1>1 DEF CoinbaseTx
<1>6. c = Len(tx) + 1
  <2>1. tx \in Seq(ToSet(tx))
    BY <1>4 DEF History
  <2> QED BY <1>2, <2>1
<1>7. /\ History(h) /\ Extends(h, tx) /\ h[c] = e /\ c \notin DOMAIN tx
      /\ \A t : t \in DOMAIN h <=> t \in DOMAIN tx \/ t = c
  BY <1>2, <1>4, <1>5, <1>6, HistoryGrows
<1>8. /\ taken \in SUBSET Nat /\ IsFiniteSet(taken) /\ taken \cup {c} \subseteq DOMAIN h
  <2>1. IsFiniteSet(DOMAIN h) /\ DOMAIN h \in SUBSET Nat
    BY <1>7, HistoryIsFinite
  <2>2. taken \subseteq DOMAIN h
    BY <1>3, <1>4, <1>7
  <2> QED BY <1>7, <2>1, <2>2, FS_Subset
<1>9. HaveRates(h, taken)
  BY <1>7, <1>8 DEF History, HaveRates
<1>10. /\ s \in Seq(taken \cup {c}) /\ ToSet(s) = taken \cup {c}
       /\ s # <<>> /\ Head(s) = c
  BY <1>3, <1>8, <1>9, OrderedTransactions
<1>11. s \in Seq(DOMAIN h)
  BY <1>8, <1>10, SeqOfMore
<1>12. Added(h, wallet[n], c, n) \in Wallets(DOMAIN h)
  <2>1. PICK X : X = DOMAIN h
    OBVIOUS
  <2>2. wallet[n] \in Wallets(X) /\ c \in X
    BY <1>4, <1>7, <2>1, WalletsOfMore
  <2> QED BY <2>1, <2>2, AddedWallet
<1>13. MinedOf(n, h, c, taken, s)
  BY <1>1, <1>3, <1>6, <1>7, <1>10, <1>11, <1>12 DEF MinedOf
<1> QED BY <1>13

(* The index of a block is one of outputs. *)
LEMMA UpdatedIsIndex ==
    ASSUME NEW h, NEW index \in [Node -> SUBSET DOMAIN h], NEW s \in Seq(DOMAIN h)
    PROVE  UpdatedUtxos(h, index, s) \in [Node -> SUBSET DOMAIN h]
<1>1. PICK X, V : X = DOMAIN h /\ V = [Node -> SUBSET X]
  OBVIOUS
<1>2. \A v \in V : \A t \in X : UpdateUtxos(h, v, t) \in V
  <2>1. SUFFICES ASSUME NEW v \in V, NEW t \in X PROVE UpdateUtxos(h, v, t) \in V
    OBVIOUS
  <2>2. \A m \in Node : v[m] \subseteq X /\ Paid(h, t, m) \subseteq X
    BY <1>1 DEF Paid
  <2> QED BY <1>1, <2>2 DEF UpdateUtxos
<1>3. PICK f \in [0 .. Len(s) -> V] : f[Len(s)] = UpdatedUtxos(h, index, s)
  <2>1. index \in V /\ s \in Seq(X)
    BY <1>1
  <2>2. \E f \in [0 .. Len(s) -> V] : /\ Updates(f, h, index, s)
                                      /\ f[Len(s)] = UpdatedUtxos(h, index, s)
    BY <1>2, <2>1, FoldUpdates
  <2> QED BY <2>2
<1>4. Len(s) \in Nat
  OBVIOUS
<1> QED BY <1>1, <1>3, <1>4

(* With more transactions, blocks are what they were. *)
LEMMA BlocksOfMore ==
    ASSUME NEW in, NEW index, NEW k \in Nat, NEW h, 0 .. k \subseteq Block,
           TypedBlocks(in, index, k, h), NEW g, Extends(g, h)
    PROVE  TypedBlocks(in, index, k, g)
<1>1. PICK X, Y : X = DOMAIN h /\ Y = DOMAIN g /\ X \subseteq Y
  BY DEF Extends
<1>2. \A s \in Seq(X) : s \in Seq(Y)
  BY <1>1, SeqOfMore
<1>3. in \in [Block -> Seq(Y)] /\ index \in [Block -> [Node -> SUBSET Y]]
  <2>1. in \in [Block -> Seq(X)] /\ index \in [Block -> [Node -> SUBSET X]]
    BY <1>1 DEF TypedBlocks
  <2>2. \A f \in [Node -> SUBSET X] : f \in [Node -> SUBSET Y]
    BY <1>1
  <2> QED BY <1>2, <2>1, <2>2
<1>4. ASSUME NEW b \in 0 .. k PROVE in[b] # <<>> /\ g[Head(in[b])].coinbase
  <2>1. PICK s \in Seq(X) : s = in[b] /\ s # <<>> /\ h[Head(s)].coinbase
    BY <1>1 DEF TypedBlocks
  <2>2. Head(s) \in X
    BY <2>1
  <2>3. g[Head(s)] = h[Head(s)]
    BY <1>1, <2>2 DEF Extends
  <2> QED BY <2>1, <2>3
<1> QED BY <1>1, <1>3, <1>4 DEF TypedBlocks

(* The step of a node leaves everything typed. *)
LEMMA SettledIsTyped ==
    ASSUME Typed, TypeOK', NEW n \in Node, NEW h, History(h), Extends(h, tx),
           TypedBlocks(txn', utxos', mined', h),
           NEW left, left \subseteq DOMAIN h, NEW z, Settled(n, h, left, z),
           waiting' \subseteq waiting
    PROVE  Typed'
<1>1. History(tx') /\ Extends(tx', h) /\ DOMAIN h \subseteq DOMAIN tx'
  BY DEF Settled, Extends
<1>2. TypedBlocks(txn', utxos', mined', tx')
  <2>1. mined' \in Nat /\ 0 .. mined' \subseteq Block
    BY MaxBlockAssumption DEF TypeOK, Block, Genesis
  <2> QED BY <1>1, <2>1, BlocksOfMore
<1>3. DOMAIN tx \subseteq DOMAIN h /\ \A t \in DOMAIN tx : tx'[t] = tx[t]
  BY <1>1 DEF Extends, Settled
<1>4. PerNode(mempool') /\ PerNode(wallet') /\ PerNode(txInFlight')
  BY DEF Settled
<1>5. ASSUME NEW m \in Node
      PROVE  /\ wallet'[m] \in Wallets(DOMAIN tx')
             /\ mempool'[m] \subseteq DOMAIN tx'
             /\ txInFlight'[m] \subseteq Payments(tx')
  <2>1. /\ wallet[m] \in Wallets(DOMAIN tx) /\ mempool[m] \subseteq DOMAIN tx
        /\ txInFlight[m] \subseteq Payments(tx)
    BY DEF Typed
  <2>2. wallet[m] \in Wallets(DOMAIN tx')
    BY <1>1, <1>3, <2>1, WalletsOfMore
  <2>3. wallet'[m] \in Wallets(DOMAIN tx')
    BY <2>2 DEF Settled
  <2>4. mempool'[m] \subseteq DOMAIN tx'
    BY <1>1, <1>3, <2>1 DEF Settled
  <2>5. \A u \in Payments(tx) : u \in Payments(tx')
    BY <1>1, <1>3 DEF Payments
  <2>6. txInFlight'[m] \subseteq Payments(tx')
    BY <2>1, <2>5 DEF Settled
  <2> QED BY <2>3, <2>4, <2>6
<1>6. waiting' \subseteq Generator
  BY DEF Typed
<1>7. NodesHold'
  BY <1>4 DEF NodesHold, PerNode
<1>8. TypedBlocks(txn, utxos, mined, tx)'
  BY <1>2 DEF TypedBlocks
<1>9. \A m \in Node : Payments(tx)' = Payments(tx') /\ Wallets(DOMAIN tx)' = Wallets(DOMAIN tx')
  BY DEF Payments, Wallets
<1>10. History(tx)'
  BY <1>1 DEF History, ToSet
<1> QED BY <1>5, <1>6, <1>7, <1>8, <1>9, <1>10 DEF Typed

(* No step but a new wait makes a generator wait. *)
LEMMA EndsWaiting ==
    ASSUME NEW n, NEW h, NEW pool, NEW old, NEW new, NEW q, NEW u,
           Ends(n, h, pool, old, new, q, u)
    PROVE  waiting' \subseteq waiting
  BY DEF Ends, CreateTransaction

(* What the mempool of a node is left with are transactions. *)
LEMMA PoolOfTransactions ==
    ASSUME NEW h, txn' \in [Block -> Seq(DOMAIN h)],
           NEW pool, pool \subseteq DOMAIN h,
           NEW old, old \subseteq Block, NEW new
    PROVE  PoolAfter(pool, old \ new, new \ old) \subseteq DOMAIN h
<1>1. ASSUME NEW b \in Block PROVE ToSet(txn'[b]) \subseteq DOMAIN h
  <2>1. PICK s \in Seq(DOMAIN h) : s = txn'[b]
    OBVIOUS
  <2>2. ToSet(s) \subseteq DOMAIN h
    BY DEF ToSet
  <2> QED BY <2>1, <2>2
<1> QED BY <1>1 DEF PoolAfter, Txns

(* A block is mined. *)
LEMMA MineKeepsTyped ==
    ASSUME TypedInv, NEW n \in Node, LedgerMine(n), NEW h, NEW c, NEW taken, NEW s,
           MinedOf(n, h, c, taken, s)
    PROVE  /\ IInv' /\ mined' = mined + 1
           /\ TypedBlocks(txn', utxos', mined', h)
           /\ Typed'
           /\ \E off, r, q, blk, u :
                 Follows(n, h, Added(h, wallet[n], c, n), mempool[n] \cup {c},
                         block'[mainBranch[n]].chain, block'[mainBranch'[n]].chain,
                         off, r, q, blk, u)
<1>1. IInv /\ Typed /\ Mine(n) /\ IInv' /\ TypeOK /\ TypeOK'
  BY MineKeepsIInv DEF LedgerMine, TypedInv, LedgerInv, IInv, TreeInv
<1>2. mined \in Nat /\ mined' = mined + 1 /\ mined' \in Block
  BY <1>1 DEF Mine, TypeOK, Block, Genesis
<1>3. TypedBlocks(txn, utxos, mined, h)
  <2>1. mined \in Nat /\ 0 .. mined \subseteq Block
    BY <1>1, MaxBlockAssumption DEF TypeOK, Block, Genesis
  <2>2. TypedBlocks(txn, utxos, mined, tx) /\ Extends(h, tx)
    BY <1>1 DEF Typed, MinedOf
  <2> QED BY <2>1, <2>2, BlocksOfMore
<1>4. PICK index : index = UpdatedUtxos(h, utxos[mainBranch[n]], s)
  OBVIOUS
<1>5. index \in [Node -> SUBSET DOMAIN h]
  <2>1. mainBranch[n] \in Block
    BY <1>1 DEF TypeOK
  <2>2. utxos[mainBranch[n]] \in [Node -> SUBSET DOMAIN h] /\ s \in Seq(DOMAIN h)
    BY <1>3, <2>1 DEF TypedBlocks, MinedOf
  <2> QED BY <1>4, <2>2, UpdatedIsIndex
<1>6. TypedBlocks(txn', utxos', mined', h)
  <2>1. /\ txn' = [txn EXCEPT ![mined'] = s]
        /\ utxos' = [utxos EXCEPT ![mined'] = index]
        /\ s \in Seq(DOMAIN h) /\ s # <<>> /\ Head(s) = c /\ h[c] = CoinbaseTx({n})
    BY <1>4 DEF MinedOf
  <2>2. \A b \in 0 .. mined' : b = mined' \/ b \in 0 .. mined
    BY <1>2
  <2>3. 0 .. mined' \subseteq Block
    BY <1>2, MaxBlockAssumption DEF Block, Genesis
  <2>4. /\ txn' \in [Block -> Seq(DOMAIN h)]
        /\ utxos' \in [Block -> [Node -> SUBSET DOMAIN h]]
    BY <1>3, <1>5, <2>1 DEF TypedBlocks
  <2>5. CoinbaseTx({n}).coinbase
    BY DEF CoinbaseTx
  <2>6. ASSUME NEW b \in 0 .. mined' PROVE txn'[b] # <<>> /\ h[Head(txn'[b])].coinbase
    <3>1. CASE b = mined'
      <4>1. txn'[b] = s
        BY <1>2, <1>3, <2>1, <3>1 DEF TypedBlocks
      <4> QED BY <2>1, <2>5, <4>1
    <3>2. CASE b # mined'
      <4>1. txn'[b] = txn[b] /\ b \in 0 .. mined
        BY <1>3, <2>1, <2>2, <2>3, <3>2 DEF TypedBlocks
      <4> QED BY <1>3, <4>1 DEF TypedBlocks
    <3> QED BY <3>1, <3>2
  <2> QED BY <2>4, <2>6 DEF TypedBlocks
<1>7. PICK w, pool, old, new :
         /\ w = Added(h, wallet[n], c, n) /\ pool = mempool[n] \cup {c}
         /\ old = block'[mainBranch[n]].chain /\ new = block'[mainBranch'[n]].chain
  OBVIOUS
<1>8. old \subseteq Block /\ \E off, r, q, blk, u :
            Follows(n, h, w, pool, old, new, off, r, q, blk, u)
  <2>1. NodesHold /\ History(h) /\ w \in Wallets(DOMAIN h) /\ Follow(n, h, w, pool)
    BY <1>1, <1>7 DEF Typed, MinedOf
  <2>2. /\ txn' \in [Block -> Seq(DOMAIN h)]
        /\ utxos' \in [Block -> [Node -> SUBSET DOMAIN h]]
    BY <1>6 DEF TypedBlocks
  <2> QED BY <1>1, <1>7, <2>1, <2>2, FollowSteps
<1>9. Typed'
  <2>1. PICK off, r, q, blk, u : Follows(n, h, w, pool, old, new, off, r, q, blk, u)
    BY <1>8
  <2>2. Settled(n, h, PoolAfter(pool, old \ new, new \ old), u[Len(q)])
    BY <2>1 DEF Follows
  <2>3. waiting' \subseteq waiting
    BY <2>1, EndsWaiting DEF Follows
  <2>4. pool \subseteq DOMAIN h
    BY <1>1, <1>7 DEF Typed, MinedOf
  <2>5. PoolAfter(pool, old \ new, new \ old) \subseteq DOMAIN h
    BY <1>6, <1>8, <2>4, PoolOfTransactions DEF TypedBlocks
  <2>6. History(h) /\ Extends(h, tx)
    BY DEF MinedOf
  <2> QED BY <1>1, <1>6, <2>2, <2>3, <2>5, <2>6, SettledIsTyped
<1> QED BY <1>1, <1>2, <1>6, <1>7, <1>8, <1>9

(* Nothing has to be added. *)
LEMMA ExtendsItself == \A h : Extends(h, h)
  BY DEF Extends

(* A block is received. *)
LEMMA ReceiveKeepsTyped ==
    ASSUME TypedInv, NEW n \in Node, NEW b \in Block, LedgerReceive(n, b)
    PROVE  /\ IInv' /\ UNCHANGED <<mined, block, txn, utxos>>
           /\ Typed'
           /\ \E off, r, q, blk, u :
                 Follows(n, tx, wallet[n], mempool[n],
                         block'[mainBranch[n]].chain, block'[mainBranch'[n]].chain,
                         off, r, q, blk, u)
<1>1. /\ IInv /\ Typed /\ Receive(n, b) /\ IInv' /\ TypeOK /\ TypeOK'
      /\ UNCHANGED <<mined, block, txn, utxos>>
  BY ReceiveKeepsIInv DEF LedgerReceive, Receive, TypedInv, LedgerInv, IInv, TreeInv
<1>2. PICK h, w, pool, old, new :
         /\ h = tx /\ w = wallet[n] /\ pool = mempool[n]
         /\ old = block'[mainBranch[n]].chain /\ new = block'[mainBranch'[n]].chain
  OBVIOUS
<1>3. /\ History(h) /\ Extends(h, tx) /\ TypedBlocks(txn', utxos', mined', h)
      /\ w \in Wallets(DOMAIN h) /\ pool \subseteq DOMAIN h
      /\ Follow(n, h, w, pool)
  BY <1>1, <1>2, ExtendsItself DEF Typed, LedgerReceive
<1>4. old \subseteq Block /\ \E off, r, q, blk, u :
            Follows(n, h, w, pool, old, new, off, r, q, blk, u)
  <2>1. /\ txn' \in [Block -> Seq(DOMAIN h)]
        /\ utxos' \in [Block -> [Node -> SUBSET DOMAIN h]]
    BY <1>3 DEF TypedBlocks
  <2>2. NodesHold
    BY <1>1 DEF Typed
  <2> QED BY <1>1, <1>2, <1>3, <2>1, <2>2, FollowSteps
<1>5. Typed'
  <2>1. PICK off, r, q, blk, u : Follows(n, h, w, pool, old, new, off, r, q, blk, u)
    BY <1>4
  <2>2. Settled(n, h, PoolAfter(pool, old \ new, new \ old), u[Len(q)])
    BY <2>1 DEF Follows
  <2>3. waiting' \subseteq waiting
    BY <2>1, EndsWaiting DEF Follows
  <2>4. PoolAfter(pool, old \ new, new \ old) \subseteq DOMAIN h
    BY <1>3, <1>4, PoolOfTransactions DEF TypedBlocks
  <2> QED BY <1>1, <1>3, <2>2, <2>3, <2>4, SettledIsTyped
<1> QED BY <1>1, <1>2, <1>4, <1>5

(* A generator's timer goes off: either it waits, or it may pay. *)
Sleeps(n) ==
    /\ Listed(tx, wallet[n], MinConfirmations[n]) = {}
    /\ waiting' = waiting \cup {n}
    /\ UNCHANGED <<tx, mempool, wallet, txInFlight>>

(* The generator's timer leaves the mempool and the wallet as they were,  *)
(* but for a payment.                                                      *)
LEMMA GenerateSettles ==
    ASSUME Typed, NEW n \in Node, Generate(n)
    PROVE  /\ Settled(n, tx, mempool[n], wallet[n])
           /\ Sleeps(n) \/ waiting' \subseteq waiting
<1>1. PICK h, pool, w : h = tx /\ pool = mempool[n] /\ w = wallet[n]
  OBVIOUS
<1>2. NodesHold /\ History(h) /\ w \in Wallets(DOMAIN h)
  BY <1>1 DEF Typed
<1>3. CASE Sleeps(n)
  <2>1. /\ tx' = h /\ wallet' = [wallet EXCEPT ![n] = w]
        /\ mempool' = [mempool EXCEPT ![n] = pool] /\ UNCHANGED txInFlight
    BY <1>1, <1>2, <1>3 DEF Sleeps, NodesHold, PerNode
  <2>2. Settled(n, h, pool, w)
    BY <1>2, <2>1, SettlesWithoutPayment
  <2> QED BY <1>1, <1>3, <2>2
<1>4. CASE CreateTransaction(n, tx, wallet[n], mempool[n], <<>>)
  <2>1. CreateTransaction(n, h, w, pool, <<>>) /\ <<>> \in Seq(DOMAIN h)
    BY <1>1, <1>4
  <2>2. Settled(n, h, pool, AllConfirmed(w, <<>>))
    BY <1>2, <2>1, CreateSettles
  <2>3. AllConfirmed(w, <<>>) = w
    <3> DEFINE X == DOMAIN h
    <3>1. PICK V, s : V = Wallets(X) /\ s = <<>>
      OBVIOUS
    <3>4. s \in Seq(X)
      BY <3>1
    <3> HIDE DEF X
    <3>2. w \in V /\ \A v \in V : \A t \in X : Confirmed(v, t) \in V
      BY <1>2, <3>1, ConfirmedWallet DEF X
    <3>3. PICK f \in [0 .. Len(s) -> V] :
             Confirms(f, w, s) /\ f[Len(s)] = AllConfirmed(w, s)
      BY <3>2, <3>4, FoldConfirmed
    <3>5. Len(s) = 0
      BY <3>1
    <3> QED BY <3>1, <3>3, <3>5 DEF Confirms
  <2>4. waiting' \subseteq waiting
    BY <1>4 DEF CreateTransaction
  <2> QED BY <1>1, <2>2, <2>3, <2>4
<1> QED BY <1>3, <1>4 DEF Generate, Sleeps

(* After the timer everything is typed. *)
LEMMA GenerateKeepsTyped ==
    ASSUME TypedInv, NEW n \in Generator, Generate(n)
    PROVE  Typed'
<1>1. n \in Node /\ Typed /\ UNCHANGED <<vars, txn, utxos>> /\ TypeOK
  BY GeneratorAssumption DEF TypedInv, LedgerInv, IInv, TreeInv, Generate
<1>2. TypeOK'
  BY <1>1, SameBlocks DEF TypedInv, IInv, TreeInv
<1>3. PICK h, left, z : h = tx /\ left = mempool[n] /\ z = wallet[n]
  OBVIOUS
<1>4. /\ History(h) /\ Extends(h, tx) /\ left \subseteq DOMAIN h
      /\ TypedBlocks(txn', utxos', mined', h)
  BY <1>1, <1>3, ExtendsItself DEF Typed, vars
<1>5. Settled(n, h, left, z)
  BY <1>1, <1>3, GenerateSettles
<1>6. Sleeps(n) \/ waiting' \subseteq waiting
  BY <1>1, GenerateSettles
<1>7. CASE waiting' \subseteq waiting
  BY <1>1, <1>2, <1>4, <1>5, <1>7, SettledIsTyped
<1>8. CASE Sleeps(n)
  <2>1. waiting' \subseteq Generator /\ UNCHANGED <<tx, mempool, wallet, txInFlight>>
    BY <1>1, <1>8 DEF Sleeps, Typed
  <2>2. History(tx)' /\ Payments(tx)' = Payments(tx)
    BY <1>1, <2>1 DEF Typed, History, ToSet, Payments
  <2>3. NodesHold'
    BY <1>1, <2>1 DEF Typed, NodesHold, PerNode
  <2>4. TypedBlocks(txn, utxos, mined, tx)'
    BY <1>1, <2>1 DEF Typed, vars, TypedBlocks
  <2>5. Wallets(DOMAIN tx)' = Wallets(DOMAIN tx)
    BY <2>1 DEF Wallets
  <2> QED BY <1>1, <2>1, <2>2, <2>3, <2>4, <2>5 DEF Typed
<1> QED BY <1>6, <1>7, <1>8

(* A transaction is received. *)
LEMMA ReceiveTxKeepsTyped ==
    ASSUME TypedInv, NEW n \in Node, NEW t, ReceiveTx(n, t)
    PROVE  Typed'
<1>1. /\ Typed /\ UNCHANGED <<vars, txn, utxos, tx, waiting>>
      /\ t \in txInFlight[n]
      /\ txInFlight' = [txInFlight EXCEPT ![n] = @ \ {t}]
      /\ mempool' = [mempool EXCEPT ![n] = @ \cup {t}]
      /\ wallet' = [wallet EXCEPT ![n] = Added(tx, @, t, n)]
  BY DEF TypedInv, ReceiveTx
<1>2. t \in DOMAIN tx
  BY <1>1 DEF Typed, Payments
<1>3. Added(tx, wallet[n], t, n) \in Wallets(DOMAIN tx)
  <2>1. PICK h, X, w : h = tx /\ X = DOMAIN tx /\ w = wallet[n]
    OBVIOUS
  <2>2. w \in Wallets(X) /\ t \in X
    BY <1>1, <1>2, <2>1 DEF Typed
  <2>3. Added(h, w, t, n) \in Wallets(X)
    BY <2>2, AddedWallet
  <2> QED BY <2>1, <2>3
<1>4. NodesHold'
  BY <1>1 DEF Typed, NodesHold, PerNode
<1>5. History(tx)' /\ Payments(tx)' = Payments(tx) /\ Wallets(DOMAIN tx)' = Wallets(DOMAIN tx)
  BY <1>1 DEF Typed, History, ToSet, Payments, Wallets
<1>6. TypedBlocks(txn, utxos, mined, tx)'
  BY <1>1 DEF Typed, vars, TypedBlocks
<1>7. \A m \in Node : /\ wallet'[m] \in Wallets(DOMAIN tx)
                      /\ mempool'[m] \subseteq DOMAIN tx
                      /\ txInFlight'[m] \subseteq Payments(tx)
  BY <1>1, <1>2, <1>3 DEF Typed, NodesHold, PerNode
<1> QED BY <1>1, <1>4, <1>5, <1>6, <1>7 DEF Typed

(* The genesis block and the starting balances are typed. *)
LEMMA InitIsTyped == LedgerInit => TypedInv
<1> SUFFICES ASSUME LedgerInit PROVE TypedInv
  OBVIOUS
<1>1. LedgerInv /\ mined = 0 /\ 0 \in Block /\ Block = 0 .. MaxBlock
  BY InitEstablishesLedgerInv, MaxBlockAssumption DEF LedgerInit, Init, Genesis, Block
<1>2. PICK e : e = CoinbaseTx(Funded)
  OBVIOUS
<1>3. tx = <<e>> /\ DOMAIN tx = {1} /\ tx[1] = e
  BY <1>2 DEF LedgerInit
<1>4. /\ e.coinbase /\ e.feeRate = 0 /\ e.pays = Funded
      /\ e.spends = [n \in Node |-> {}]
  BY <1>2 DEF CoinbaseTx
<1>5. History(tx)
  <2>1. tx \in Seq(ToSet(tx))
    BY <1>3 DEF ToSet
  <2> QED BY <1>3, <1>4, <2>1, FundedAssumption DEF History
<1>6. \A n \in Node : Paid(tx, 1, n) \subseteq {1}
  BY DEF Paid
<1>7. NodesHold
  BY DEF LedgerInit, NodesHold, PerNode
<1>8. TypedBlocks(txn, utxos, mined, tx)
  <2>1. txn = [b \in Block |-> IF b = 0 THEN <<1>> ELSE <<>>]
    BY DEF LedgerInit, Genesis
  <2>2. txn \in [Block -> Seq(DOMAIN tx)]
    BY <1>3, <2>1
  <2>3. utxos \in [Block -> [Node -> SUBSET DOMAIN tx]]
    BY <1>3, <1>6 DEF LedgerInit
  <2>4. \A b \in 0 .. mined : txn[b] = <<1>>
    BY <1>1, <2>1
  <2> QED BY <1>3, <1>4, <2>2, <2>3, <2>4 DEF TypedBlocks
<1>9. ASSUME NEW n \in Node PROVE wallet[n] \in Wallets(DOMAIN tx)
  <2>1. wallet[n] = [t \in Paid(tx, 1, n) |-> CoinbaseMaturity]
    BY DEF LedgerInit
  <2>2. PICK X, D, w : X = DOMAIN tx /\ D = Paid(tx, 1, n) /\ w = wallet[n]
    OBVIOUS
  <2>3. w = [t \in D |-> CoinbaseMaturity] /\ D \subseteq X
    BY <1>3, <1>6, <2>1, <2>2
  <2>4. /\ DOMAIN w \subseteq X /\ w = [t \in DOMAIN w |-> w[t]]
        /\ \A t \in DOMAIN w : w[t] \in Nat
    BY <2>3, MaturityAssumption
  <2>5. w \in Wallets(X)
    BY <2>4, WalletIs
  <2> QED BY <2>2, <2>5
<1>10. /\ waiting = {} /\ \A n \in Node : mempool[n] = {} /\ txInFlight[n] = {}
  BY DEF LedgerInit
<1>11. Typed
  BY <1>5, <1>7, <1>8, <1>9, <1>10 DEF Typed
<1> QED BY <1>1, <1>11 DEF TypedInv

(* Every step keeps everything typed. *)
LEMMA StepKeepsTyped == TypedInv /\ [LedgerNext]_ledgerVars => TypedInv'
<1> SUFFICES ASSUME TypedInv, [LedgerNext]_ledgerVars PROVE TypedInv'
  OBVIOUS
<1>1. LedgerInv'
  BY StepKeepsLedgerInv DEF TypedInv
<1>2. ASSUME NEW n \in Miner, LedgerMine(n) PROVE Typed'
  <2>1. n \in Node
    BY NodeAssumption
  <2>2. PICK h, c, taken, s : MinedOf(n, h, c, taken, s)
    BY <1>2, <2>1, MinedIs DEF TypedInv
  <2> QED BY <1>2, <2>1, <2>2, MineKeepsTyped
<1>3. ASSUME NEW n \in Node, NEW b \in Block, LedgerReceive(n, b)
      PROVE  Typed'
  BY <1>3, ReceiveKeepsTyped
<1>4. ASSUME NEW n \in Generator, Generate(n) PROVE Typed'
  BY <1>4, GenerateKeepsTyped
<1>5. ASSUME NEW n \in Node, NEW t \in DOMAIN tx, ReceiveTx(n, t)
      PROVE  Typed'
  BY <1>5, ReceiveTxKeepsTyped
<1>6. CASE UNCHANGED ledgerVars
  <2>1. UNCHANGED <<vars, txn, utxos, tx, mempool, wallet, waiting, txInFlight>>
    BY <1>6 DEF ledgerVars, moneyVars
  <2>2. History(tx)' /\ Payments(tx)' = Payments(tx) /\ Wallets(DOMAIN tx)' = Wallets(DOMAIN tx)
    BY <2>1 DEF Typed, TypedInv, History, ToSet, Payments, Wallets
  <2>3. TypedBlocks(txn, utxos, mined, tx)'
    BY <2>1 DEF Typed, TypedInv, vars, TypedBlocks
  <2>4. NodesHold'
    BY <2>1 DEF Typed, TypedInv, NodesHold, PerNode
  <2>5. \A m \in Node : /\ wallet'[m] \in Wallets(DOMAIN tx)
                        /\ mempool'[m] \subseteq DOMAIN tx
                        /\ txInFlight'[m] \subseteq Payments(tx)
    BY <2>1 DEF Typed, TypedInv
  <2>6. waiting' \subseteq Generator
    BY <2>1 DEF Typed, TypedInv
  <2> QED BY <1>1, <2>1, <2>2, <2>3, <2>4, <2>5, <2>6 DEF Typed, TypedInv
<1> QED
  BY <1>1, <1>2, <1>3, <1>4, <1>5, <1>6 DEF LedgerNext, LedgerTimeLimit, TypedInv

(* So everything is typed in every state. *)
LEMMA TypedInvariance == LedgerSpec => []TypedInv
  BY InitIsTyped, StepKeepsTyped, PTL DEF LedgerSpec

(* Every transaction, block, index, mempool and wallet holds what it is    *)
(* declared to hold, every block begins with a coinbase, and only payments *)
(* are sent, for any network and however main branches are swapped.        *)
THEOREM LedgerTypes == LedgerSpec => []LedgerTypeOK
<1>1. ASSUME TypedInv PROVE LedgerTypeOK
  <2>1. Typed
    BY <1>1 DEF TypedInv
  <2>2. \A t \in DOMAIN tx : tx[t].spends \in [Node -> SUBSET DOMAIN tx] /\ tx[t].pays \subseteq Node
    BY <2>1 DEF Typed, History
  <2>3. /\ txn \in [Block -> Seq(DOMAIN tx)]
        /\ utxos \in [Block -> [Node -> SUBSET DOMAIN tx]]
        /\ \A b \in Genesis .. mined : tx[Head(txn[b])].coinbase
    BY <2>1 DEF Typed, TypedBlocks, Genesis
  <2>4. /\ mempool \in [Node -> SUBSET DOMAIN tx]
        /\ txInFlight \in [Node -> SUBSET Payments(tx)]
    BY <2>1 DEF Typed, NodesHold, PerNode
  <2>5. \A n \in Node : /\ DOMAIN wallet[n] \subseteq DOMAIN tx
                        /\ \A t \in DOMAIN wallet[n] : wallet[n][t] \in Nat
    BY <2>1, WalletIs DEF Typed
  <2> QED BY <2>1, <2>2, <2>3, <2>4, <2>5 DEF LedgerTypeOK, Typed
<1>2. TypedInv => LedgerTypeOK
  BY <1>1
<1> QED BY <1>2, TypedInvariance, PTL

(* A wallet with nothing confirmed that may be spent. *)
Spendable(h, w, t) ==
    Count(w, t) >= 1 /\ (h[t].coinbase => Count(w, t) >= CoinbaseMaturity)
Poor(h, w) == \A t : ~Spendable(h, w, t)

(* A wallet is poor iff unspentOutputs() lists nothing of it. *)
LEMMA PoorIs ==
    ASSUME NEW h, NEW X, NEW w \in Wallets(X)
    PROVE  /\ \A t : t \in Listed(h, w, 1) <=> Spendable(h, w, t)
           /\ Poor(h, w) <=> Listed(h, w, 1) = {}
<1>1. \A t \in DOMAIN w : w[t] \in Nat
  BY WalletIs
<1>2. \A t : t \in Listed(h, w, 1) <=> Spendable(h, w, t)
  BY <1>1 DEF Listed, Spendable, Count
<1> QED BY <1>2 DEF Poor

(* Lower counts make no wallet richer, nor do more transactions. *)
LEMMA PoorUnder ==
    ASSUME NEW h, NEW w, NEW v, Poor(h, w), Under(v, w)
    PROVE  Poor(h, v)
<1>1. SUFFICES ASSUME NEW t, Spendable(h, v, t) PROVE FALSE
  BY DEF Poor
<1>2. PICK a \in Nat, b \in Nat : a = Count(v, t) /\ b = Count(w, t) /\ a <= b
  BY DEF Under
<1>3. Spendable(h, w, t)
  BY <1>1, <1>2, MaturityAssumption DEF Spendable
<1> QED BY <1>3 DEF Poor

(* With more transactions a wallet is as poor as before. *)
LEMMA PoorOfMore ==
    ASSUME NEW h, NEW g, Extends(g, h), NEW w \in Wallets(DOMAIN h), Poor(h, w)
    PROVE  Poor(g, w)
<1>1. SUFFICES ASSUME NEW t, Spendable(g, w, t) PROVE FALSE
  BY DEF Poor
<1>2. t \in DOMAIN w
  BY <1>1 DEF Spendable, Count
<1>3. g[t] = h[t]
  BY <1>2, WalletIs DEF Extends
<1>4. Spendable(h, w, t)
  BY <1>1, <1>3 DEF Spendable
<1> QED BY <1>4 DEF Poor

(* Added transactions and reverted blocks only lower counts. *)
LEMMA AddedUnder ==
    ASSUME NEW X, NEW w \in Wallets(X), NEW h, NEW t \in X, NEW n
    PROVE  Under(Added(h, w, t, n), w)
<1>1. PICK v \in Wallets(X) : v = Added(h, w, t, n) /\ \A u : Count(v, u) \in {0, Count(w, u)}
  BY AddedWallet
<1>2. \A u : Count(v, u) \in Nat /\ Count(w, u) \in Nat
  BY UnderItself
<1>3. ASSUME NEW u PROVE Count(v, u) <= Count(w, u)
  <2>1. PICK a \in Nat, b \in Nat : a = Count(v, u) /\ b = Count(w, u)
    BY <1>2
  <2>2. a \in {0, b}
    BY <1>1, <2>1
  <2>3. a <= b
    BY <2>2
  <2> QED BY <2>1, <2>3
<1> QED BY <1>1, <1>2, <1>3 DEF Under

(* Counting no higher is transitive. *)
LEMMA UnderTransitive ==
    ASSUME NEW u, NEW v, NEW w, Under(u, v), Under(v, w)
    PROVE  Under(u, w)
<1>1. ASSUME NEW t PROVE Count(u, t) <= Count(w, t)
  <2>1. PICK a \in Nat, b \in Nat, c \in Nat :
           a = Count(u, t) /\ b = Count(v, t) /\ c = Count(w, t) /\ a <= b /\ b <= c
    BY DEF Under
  <2> QED BY <2>1
<1> QED BY <1>1 DEF Under

(* Blocks that leave raise no count. *)
LEMMA LeavingUnder ==
    ASSUME NEW n, NEW h, NEW w \in Wallets(DOMAIN h), NEW old, NEW new, NEW off, NEW r,
           \A b \in old \ new : txn'[b] \in Seq(DOMAIN h),
           Leaving(n, h, w, old, new, off, r)
    PROVE  /\ \A i \in 0 .. Len(off) : Under(r[i], w)
           /\ r[Len(off)] \in Wallets(DOMAIN h)
<1>1. PICK X : X = DOMAIN h
  OBVIOUS
<1>2. PICK N \in Nat : N = Len(off) /\ off \in Seq(old \ new)
  BY DEF Leaving, Lists
<1>3. /\ r \in [0 .. N -> Wallets(X)] /\ Reverts(r, h, w, off, n)
      /\ \A i \in 1 .. N : off[i] \in old \ new
  BY <1>1, <1>2 DEF Leaving
<1> DEFINE T == {i \in 0 .. N : Under(r[i], w)}
<1>4. 0 \in T
  <2>1. r[0] = w /\ Under(w, w)
    BY <1>1, <1>2, <1>3, UnderItself DEF Reverts
  <2> QED BY <2>1
<1>5. ASSUME NEW i \in Nat, i < N, i \in T PROVE i + 1 \in T
  <2>1. i \in 0 .. N /\ i + 1 \in 0 .. N /\ i + 1 \in 1 .. N /\ (i + 1) - 1 = i
    BY <1>5
  <2>2. PICK y, v, b : y = r[i] /\ v = r[i + 1] /\ b = off[i + 1]
    OBVIOUS
  <2>3. y \in Wallets(X) /\ b \in old \ new /\ v = Reverted(h, y, b, n) /\ Under(y, w)
    BY <1>2, <1>3, <1>5, <2>1, <2>2 DEF Reverts
  <2>4. AfterReverting(v, y, h, utxos'[b][n], ToSet(txn'[b]), n)
    BY <1>1, <2>3, RevertedWallet
  <2>5. Under(v, y)
    BY <2>4 DEF AfterReverting, Under
  <2>6. Under(v, w)
    BY <2>3, <2>5, UnderTransitive
  <2> QED BY <2>1, <2>2, <2>6
<1>6. \A i \in 0 .. N : i \in T
  <2> HIDE DEF T
  <2> QED BY <1>2, <1>4, <1>5, InductionUpTo
<1> QED BY <1>1, <1>2, <1>3, <1>6

(* A confirmation that leaves something to spend where there was nothing   *)
(* runs the callback.                                                      *)
LEMMA ConfirmationWakes ==
    ASSUME NEW h, NEW X, NEW w \in Wallets(X), NEW t \in X, Poor(h, w),
           NEW v, v = Confirmed(w, t), ~Poor(h, v),
           NEW least \in Nat, least <= 1
    PROVE  Ripe(h, v, t) /\ Listed(h, v, least) # {}
<1>1. /\ v \in Wallets(X) /\ t \in DOMAIN v
      /\ \A u : Count(v, u) = IF u = t THEN Count(w, u) + 1 ELSE Count(w, u)
  BY ConfirmedWallet
<1>2. PICK u : Spendable(h, v, u) /\ ~Spendable(h, w, u)
  BY DEF Poor
<1>3. u = t
  BY <1>1, <1>2 DEF Spendable
<1>4. PICK k \in Nat, m \in Nat \ {0}, l \in Nat :
         /\ k = Count(w, t) /\ m = CoinbaseMaturity /\ l = v[t]
  BY <1>1, UnderItself, MaturityAssumption, WalletIs
<1>5. l = k + 1
  BY <1>1, <1>4 DEF Count
<1>6. CASE h[t].coinbase
  <2>1. k + 1 >= m /\ ~(k >= 1 /\ k >= m)
    BY <1>1, <1>2, <1>3, <1>4, <1>6 DEF Spendable
  <2>2. l = m /\ l >= least /\ l >= m
    BY <1>5, <2>1
  <2> QED BY <1>1, <1>4, <1>6, <2>2 DEF Ripe, Listed
<1>7. CASE ~h[t].coinbase
  <2>1. ~(k >= 1)
    BY <1>2, <1>3, <1>4, <1>7 DEF Spendable
  <2>2. l = 1 /\ l >= least
    BY <1>5, <2>1
  <2> QED BY <1>1, <1>4, <1>7, <2>2 DEF Ripe, Listed
<1> QED BY <1>6, <1>7

(* A generator that waits on has stayed poor all along. *)
LEMMA JoiningPoor ==
    ASSUME NEW n, NEW h, NEW start, Poor(h, start), NEW old, NEW new,
           NEW q, NEW blk, NEW u, Joining(n, h, start, old, new, q, blk, u),
           \A i \in 1 .. Len(q) : ~Wakes(n, h, q, u, i),
           n \in waiting, MinConfirmations[n] \in Nat, MinConfirmations[n] <= 1
    PROVE  Poor(h, u[Len(q)])
<1>1. PICK X, N : X = DOMAIN h /\ N = Len(q)
  OBVIOUS
<1>2. /\ N \in Nat /\ \A i \in 1 .. N : q[i] \in X
      /\ u \in [0 .. N -> Wallets(X)] /\ Confirms(u, start, q)
  BY <1>1 DEF Joining
<1> DEFINE T == {i \in 0 .. N : Poor(h, u[i])}
<1>3. 0 \in T
  BY <1>2 DEF Confirms
<1>4. ASSUME NEW i \in Nat, i < N, i \in T PROVE i + 1 \in T
  <2>1. i \in 0 .. N /\ i + 1 \in 0 .. N /\ i + 1 \in 1 .. N /\ (i + 1) - 1 = i
    BY <1>2, <1>4
  <2>2. PICK w, v, t : w = u[i] /\ v = u[i + 1] /\ t = q[i + 1]
    OBVIOUS
  <2>3. w \in Wallets(X) /\ t \in X /\ v = Confirmed(w, t) /\ Poor(h, w)
    BY <1>1, <1>2, <1>4, <2>1, <2>2 DEF Confirms
  <2>4. ~(Ripe(h, v, t) /\ Listed(h, v, MinConfirmations[n]) # {})
    BY <1>1, <2>1, <2>2 DEF Wakes
  <2>5. Poor(h, v)
    BY <2>3, <2>4, ConfirmationWakes
  <2> QED BY <2>1, <2>2, <2>5
<1>5. N \in T
  <2> HIDE DEF T
  <2>1. \A i \in 0 .. N : i \in T
    BY <1>2, <1>3, <1>4, InductionUpTo
  <2> QED BY <1>2, <2>1
<1> QED BY <1>1, <1>5

PoorInv == TypedInv /\ ConfirmationsWake

(* The generator of n asks for at most one confirmation: the default is    *)
(* none, and no configuration of the repository sets another value.        *)
AsksForOne(n) == MinConfirmations[n] <= 1

(* A node that follows its main branch with its generator still waiting is *)
(* as poor as before.                                                      *)
LEMMA FollowingPoor ==
    ASSUME NEW n \in Generator, AsksForOne(n), NEW h, NEW w \in Wallets(DOMAIN h),
           Poor(h, w), NEW pool, NEW old, NEW new, NEW off, NEW r, NEW q, NEW blk, NEW u,
           \A b \in old \ new : txn'[b] \in Seq(DOMAIN h),
           Follows(n, h, w, pool, old, new, off, r, q, blk, u),
           n \in waiting'
    PROVE  Poor(tx', wallet'[n])
<1>1. MinConfirmations[n] \in Nat /\ MinConfirmations[n] <= 1
  BY ConfirmationsAssumption DEF AsksForOne
<1>2. /\ Leaving(n, h, w, old, new, off, r)
      /\ Joining(n, h, r[Len(off)], old, new, q, blk, u)
      /\ Ends(n, h, pool, old, new, q, u)
      /\ Settled(n, h, PoolAfter(pool, old \ new, new \ old), u[Len(q)])
  BY DEF Follows
<1>3. PICK start : start = r[Len(off)]
  OBVIOUS
<1>4. Poor(h, start)
  <2>1. Len(off) \in Nat
    BY <1>2 DEF Leaving, Lists
  <2>2. \A i \in 0 .. Len(off) : Under(r[i], w)
    BY <1>2, LeavingUnder
  <2>3. Under(start, w)
    BY <1>3, <2>1, <2>2
  <2> QED BY <2>3, PoorUnder
<1>5. /\ \A i \in 1 .. Len(q) : ~Wakes(n, h, q, u, i)
      /\ n \in waiting /\ tx' = h
  BY <1>2 DEF Ends, CreateTransaction
<1>6. PICK z : z = u[Len(q)]
  OBVIOUS
<1>7. Poor(h, z)
  BY <1>1, <1>2, <1>3, <1>4, <1>5, <1>6, JoiningPoor
<1>8. Under(wallet'[n], z)
  BY <1>2, <1>6 DEF Settled
<1>9. Poor(h, wallet'[n])
  BY <1>7, <1>8, PoorUnder
<1> QED BY <1>5, <1>9

(* A step at node n leaves the others as they wait. *)
LEMMA OthersStayPoor ==
    ASSUME PoorInv, NEW n \in Node, NEW m \in Node \ {n}, Extends(tx', tx),
           wallet'[m] = wallet[m], m \in waiting, AsksForOne(m)
    PROVE  Poor(tx', wallet'[m])
<1>1. PICK w : w = wallet[m] /\ w \in Wallets(DOMAIN tx)
  BY DEF PoorInv, TypedInv, Typed
<1>2. PICK h, g, X : h = tx /\ g = tx' /\ X = DOMAIN h
  OBVIOUS
<1>3. Poor(h, w)
  BY <1>1, <1>2, PoorIs DEF PoorInv, ConfirmationsWake, AsksForOne
<1>4. Poor(g, w)
  BY <1>1, <1>2, <1>3, PoorOfMore
<1> QED BY <1>1, <1>2, <1>4

(* It is enough that the wallets of those who wait are poor. *)
LEMMA PoorIsEnough ==
    ASSUME TypedInv', \A m \in waiting' : AsksForOne(m) => Poor(tx', wallet'[m])
    PROVE  ConfirmationsWake'
<1>1. SUFFICES ASSUME NEW m \in waiting', AsksForOne(m)
               PROVE  Listed(tx', wallet'[m], 1) = {}
  BY DEF ConfirmationsWake, Listed, AsksForOne
<1>2. PICK h, w, X : h = tx' /\ w = wallet'[m] /\ X = DOMAIN tx'
  OBVIOUS
<1>3. w \in Wallets(X)
  BY <1>1, <1>2, GeneratorAssumption DEF TypedInv, Typed, Wallets
<1>4. Poor(h, w)
  BY <1>1, <1>2
<1> QED BY <1>2, <1>3, <1>4, PoorIs

(* The old main branch is made of blocks. *)
LEMMA OldIsBlocks ==
    ASSUME TypedInv, TypeOK', NEW n \in Node
    PROVE  block'[mainBranch[n]].chain \subseteq Block
  BY DEF TypedInv, LedgerInv, IInv, TreeInv, TypeOK

(* Every step leaves the generators that wait poor. *)
LEMMA StepKeepsPoor == PoorInv /\ [LedgerNext]_ledgerVars => PoorInv'
<1> SUFFICES ASSUME PoorInv, [LedgerNext]_ledgerVars PROVE PoorInv'
  OBVIOUS
<1>1. TypedInv /\ Typed /\ TypedInv' /\ Typed' /\ TypeOK'
  BY StepKeepsTyped DEF PoorInv, TypedInv, LedgerInv, IInv, TreeInv
<1>2. waiting \subseteq Generator /\ waiting' \subseteq Generator /\ Generator \subseteq Node
  BY <1>1, GeneratorAssumption DEF Typed
<1>3. ASSUME NEW n \in Node, NEW h, Extends(h, tx), NEW left, NEW z,
             Settled(n, h, left, z), waiting' \subseteq waiting \cup {n},
             n \in waiting' /\ AsksForOne(n) => Poor(tx', wallet'[n])
      PROVE  PoorInv'
  <2>1. Extends(tx', tx)
    BY <1>3 DEF Settled, Extends
  <2>2. \A m \in Node \ {n} : wallet'[m] = wallet[m]
    BY <1>3 DEF Settled
  <2>3. ASSUME NEW m \in waiting', AsksForOne(m) PROVE Poor(tx', wallet'[m])
    BY <1>2, <1>3, <2>1, <2>2, <2>3, OthersStayPoor
  <2> QED BY <1>1, <2>3, PoorIsEnough DEF PoorInv
<1>4. ASSUME NEW n \in Node, n \in waiting, AsksForOne(n), NEW h, Extends(h, tx)
      PROVE  wallet[n] \in Wallets(DOMAIN tx) /\ Poor(h, wallet[n])
  <2>1. PICK w, g, X : w = wallet[n] /\ g = tx /\ X = DOMAIN g /\ w \in Wallets(X)
    BY <1>1 DEF Typed
  <2>2. Listed(g, w, 1) = {}
    BY <1>4, <2>1 DEF PoorInv, ConfirmationsWake, AsksForOne
  <2>3. Poor(g, w)
    BY <2>1, <2>2, PoorIs
  <2>4. Poor(h, w)
    BY <1>4, <2>1, <2>3, PoorOfMore
  <2> QED BY <2>1, <2>4
<1>5. ASSUME NEW n \in Miner, LedgerMine(n) PROVE PoorInv'
  <2>1. n \in Node
    BY NodeAssumption
  <2>2. PICK h, c, taken, s : MinedOf(n, h, c, taken, s)
    BY <1>1, <1>5, <2>1, MinedIs
  <2>3. PICK w, pool, old, new :
           /\ w = Added(h, wallet[n], c, n) /\ pool = mempool[n] \cup {c}
           /\ old = block'[mainBranch[n]].chain /\ new = block'[mainBranch'[n]].chain
    OBVIOUS
  <2>4. /\ TypedBlocks(txn', utxos', mined', h)
        /\ \E off, r, q, blk, u : Follows(n, h, w, pool, old, new, off, r, q, blk, u)
    BY <1>1, <1>5, <2>1, <2>2, <2>3, MineKeepsTyped
  <2>5. PICK off, r, q, blk, u : Follows(n, h, w, pool, old, new, off, r, q, blk, u)
    BY <2>4
  <2>6. Settled(n, h, PoolAfter(pool, old \ new, new \ old), u[Len(q)])
        /\ waiting' \subseteq waiting
    BY <2>5, EndsWaiting DEF Follows
  <2>7. ASSUME n \in waiting', AsksForOne(n) PROVE Poor(tx', wallet'[n])
    <3>1. n \in waiting /\ n \in Generator /\ Extends(h, tx) /\ w \in Wallets(DOMAIN h)
      BY <1>2, <2>2, <2>3, <2>6, <2>7 DEF MinedOf
    <3>2. PICK y : y = wallet[n] /\ y \in Wallets(DOMAIN h) /\ Poor(h, y)
      BY <1>4, <2>1, <2>7, <3>1, WalletsOfMore DEF Extends
    <3>3. Under(w, y)
      <4>1. c \in DOMAIN h
        BY <2>2 DEF MinedOf
      <4> QED BY <2>3, <3>2, <4>1, AddedUnder
    <3>4. Poor(h, w)
      BY <3>2, <3>3, PoorUnder
    <3>5. \A b \in old \ new : txn'[b] \in Seq(DOMAIN h)
      <4>1. old \subseteq Block
        BY <1>1, <2>1, <2>3, OldIsBlocks
      <4> QED BY <2>4, <4>1 DEF TypedBlocks
    <3> QED BY <2>5, <2>7, <3>1, <3>4, <3>5, FollowingPoor
  <2>8. Extends(h, tx)
    BY <2>2 DEF MinedOf
  <2> QED BY <1>3, <2>1, <2>6, <2>7, <2>8
<1>6. ASSUME NEW n \in Node, NEW b \in Block, LedgerReceive(n, b) PROVE PoorInv'
  <2>1. PICK h, w, pool, old, new :
           /\ h = tx /\ w = wallet[n] /\ pool = mempool[n]
           /\ old = block'[mainBranch[n]].chain /\ new = block'[mainBranch'[n]].chain
    OBVIOUS
  <2>2. \E off, r, q, blk, u : Follows(n, h, w, pool, old, new, off, r, q, blk, u)
    BY <1>1, <1>6, <2>1, ReceiveKeepsTyped
  <2>3. PICK off, r, q, blk, u : Follows(n, h, w, pool, old, new, off, r, q, blk, u)
    BY <2>2
  <2>4. Settled(n, h, PoolAfter(pool, old \ new, new \ old), u[Len(q)])
        /\ waiting' \subseteq waiting
    BY <2>3, EndsWaiting DEF Follows
  <2>5. Extends(h, tx)
    BY <2>1, ExtendsItself
  <2>6. ASSUME n \in waiting', AsksForOne(n) PROVE Poor(tx', wallet'[n])
    <3>1. n \in waiting /\ n \in Generator
      BY <1>2, <2>4, <2>6
    <3>2. w \in Wallets(DOMAIN h) /\ Poor(h, w)
      BY <1>4, <2>1, <2>5, <2>6, <3>1
    <3>3. \A x \in old \ new : txn'[x] \in Seq(DOMAIN h)
      <4>1. old \subseteq Block /\ txn' = txn
        BY <1>1, <1>6, <2>1, OldIsBlocks DEF LedgerReceive
      <4> QED BY <1>1, <2>1, <4>1 DEF Typed, TypedBlocks
    <3> QED BY <2>3, <2>6, <3>1, <3>2, <3>3, FollowingPoor
  <2> QED BY <1>3, <2>4, <2>5, <2>6
<1>7. ASSUME NEW n \in Generator, Generate(n) PROVE PoorInv'
  <2>1. PICK h, w, pool : h = tx /\ w = wallet[n] /\ pool = mempool[n]
    OBVIOUS
  <2>2. Settled(n, h, pool, w) /\ n \in Node
    BY <1>1, <1>2, <1>7, <2>1, GenerateSettles
  <2>3. waiting' \subseteq waiting \cup {n} /\ n \notin waiting
    BY <1>7 DEF Generate, CreateTransaction
  <2>4. ASSUME n \in waiting', AsksForOne(n) PROVE Poor(tx', wallet'[n])
    <3>1. Sleeps(n)
      BY <1>1, <2>2, <1>7, <2>3, <2>4, GenerateSettles
    <3>2. Listed(h, w, MinConfirmations[n]) = {} /\ tx' = h /\ wallet'[n] = w
      BY <2>1, <3>1 DEF Sleeps
    <3>3. PICK least \in Nat : least = MinConfirmations[n] /\ least <= 1
      BY <2>4, ConfirmationsAssumption DEF AsksForOne
    <3>4. w \in Wallets(DOMAIN h)
      BY <1>1, <2>1, <2>2 DEF Typed
    <3>5. Listed(h, w, 1) = {}
      <4>1. \A t \in DOMAIN w : w[t] \in Nat
        BY <3>4, WalletIs
      <4> QED BY <3>2, <3>3, <4>1 DEF Listed
    <3> QED BY <3>2, <3>4, <3>5, PoorIs
  <2> QED BY <1>3, <2>1, <2>2, <2>3, <2>4, ExtendsItself
<1>8. ASSUME NEW n \in Node, NEW t \in DOMAIN tx, ReceiveTx(n, t) PROVE PoorInv'
  <2>1. /\ tx' = tx /\ waiting' = waiting
        /\ wallet' = [wallet EXCEPT ![n] = Added(tx, @, t, n)]
    BY <1>8 DEF ReceiveTx
  <2>2. ASSUME NEW m \in waiting', AsksForOne(m) PROVE Poor(tx', wallet'[m])
    <3>1. PICK h, w : h = tx /\ w = wallet[m] /\ w \in Wallets(DOMAIN h)
                      /\ Poor(h, w) /\ m \in Node
      BY <1>2, <1>4, <2>1, <2>2, ExtendsItself
    <3>2. CASE m # n
      BY <1>1, <2>1, <3>1, <3>2 DEF Typed, NodesHold, PerNode
    <3>3. CASE m = n
      <4>1. wallet'[m] = Added(h, w, t, n)
        BY <1>1, <2>1, <3>1, <3>3 DEF Typed, NodesHold, PerNode
      <4>2. Under(Added(h, w, t, n), w)
        BY <3>1, AddedUnder
      <4>3. Poor(h, Added(h, w, t, n))
        BY <3>1, <4>2, PoorUnder
      <4> QED BY <2>1, <3>1, <4>1, <4>3
    <3> QED BY <3>2, <3>3
  <2> QED BY <1>1, <2>2, PoorIsEnough DEF PoorInv
<1>9. CASE UNCHANGED ledgerVars
  BY <1>1, <1>9 DEF PoorInv, ConfirmationsWake, ledgerVars, moneyVars, Listed
<1> QED
  BY <1>5, <1>6, <1>7, <1>8, <1>9 DEF LedgerNext, LedgerTimeLimit

(* The invariant, with the wallets of those who wait. *)
LEMMA WaitersStayPoor == LedgerSpec => []PoorInv
<1>1. LedgerInit => PoorInv
  <2>1. LedgerInit => ConfirmationsWake
    BY DEF LedgerInit, ConfirmationsWake
  <2> QED BY <2>1, InitIsTyped DEF PoorInv
<1>2. PoorInv /\ [LedgerNext]_ledgerVars => PoorInv'
  BY StepKeepsPoor
<1> QED BY <1>1, <1>2, PTL DEF LedgerSpec

(* For any network: a generator that asks for at most one confirmation and *)
(* waits has nothing that is confirmed and mature, however reorganisations *)
(* and the callback interleave (Wallet.cc, confirmUtxo()).  It may well    *)
(* have unconfirmed outputs.                                               *)
THEOREM NoConfirmationIsLost == LedgerSpec => []ConfirmationsWake
<1>1. PoorInv => ConfirmationsWake
  BY DEF PoorInv
<1> QED BY <1>1, WaitersStayPoor, PTL

(* What the documentation says of all generators is true of those that ask *)
(* for one confirmation: while one waits, it has nothing that it may spend *)
(* (TransactionGenerator.cc).  At the default of zero it is false.         *)
THEOREM OneConfirmationWakes ==
    ASSUME \A n \in Generator : MinConfirmations[n] = 1
    PROVE  LedgerSpec => []WaitingMeansPoor
<1>1. PoorInv => WaitingMeansPoor
  <2> SUFFICES ASSUME PoorInv, NEW n \in waiting
               PROVE  Listed(tx, wallet[n], MinConfirmations[n]) = {}
    BY DEF WaitingMeansPoor
  <2>1. n \in Generator
    BY DEF PoorInv, TypedInv, Typed
  <2>2. MinConfirmations[n] = 1
    BY <2>1
  <2> QED BY <2>2 DEF PoorInv, ConfirmationsWake
<1> QED BY <1>1, WaitersStayPoor, PTL

-----------------------------------------------------------------------------
(* What the index v is after the transactions ts were added to index. *)
AfterIndexing(v, index, h, ts) ==
    \A n \in Node : \A t :
        /\ t \in v[n] => t \in index[n] \/ t \in ts
        /\ (t \in index[n] \/ (t \in ts /\ n \in h[t].pays)) =>
              t \in v[n] \/ \E u \in ts : t \in h[u].spends[n]

(* An index has what was in it and what the transactions of the block pay, *)
(* but for what they spend.                                                *)
LEMMA UpdatedIndex ==
    ASSUME NEW X, NEW h, NEW index \in [Node -> SUBSET X], NEW s \in Seq(X),
           NEW v, v = UpdatedUtxos(h, index, s)
    PROVE  AfterIndexing(v, index, h, ToSet(s))
<1> DEFINE V == [Node -> SUBSET X]
<1>1. PICK N \in Nat : N = Len(s)
  OBVIOUS
<1>2. \A i \in 1 .. N : s[i] \in X
  BY <1>1
<1>3. index \in V /\ \A y \in V : \A t \in X : UpdateUtxos(h, y, t) \in V
  <2>1. SUFFICES ASSUME NEW y \in V, NEW t \in X PROVE UpdateUtxos(h, y, t) \in V
    BY <1>1
  <2>2. \A m \in Node : y[m] \subseteq X /\ Paid(h, t, m) \subseteq X
    BY <1>1 DEF Paid
  <2> QED BY <1>1, <2>2 DEF UpdateUtxos
<1> HIDE DEF V
<1>4. PICK f \in [0 .. Len(s) -> V] : Updates(f, h, index, s) /\ f[Len(s)] = v
  BY <1>3, FoldUpdates
<1> DEFINE Old(i) == \A n \in Node : \A t :
                        t \in f[i][n] => t \in index[n] \/ \E j \in 1 .. i : s[j] = t
           Has(i, t, n) == \/ t \in index[n]
                           \/ \E j \in 1 .. i : s[j] = t /\ n \in h[t].pays
           Kept(i) == \A n \in Node : \A t : Has(i, t, n) =>
                         t \in f[i][n] \/ \E j \in 1 .. i : t \in h[s[j]].spends[n]
           T == {i \in 0 .. N : Old(i) /\ Kept(i)}
<1>5. 0 \in T
  <2>1. f[0] = index /\ 0 \in 0 .. N
    BY <1>4 DEF Updates
  <2>2. Old(0) /\ Kept(0)
    BY <2>1
  <2> QED BY <2>1, <2>2
<1>6. ASSUME NEW i \in Nat, i < N, i \in T PROVE i + 1 \in T
  <2>1. /\ i \in 0 .. N /\ i + 1 \in 0 .. N /\ i + 1 \in 1 .. N
        /\ (i + 1) - 1 = i
        /\ \A j \in 1 .. i : j \in 1 .. i + 1
        /\ \A j \in 1 .. i + 1 : j \in 1 .. i \/ j = i + 1
        /\ i + 1 \in 1 .. i + 1
    BY <1>1, <1>6
  <2>2. Old(i) /\ Kept(i)
    BY <1>6
  <2>3. PICK k : k = i + 1
    OBVIOUS
  <2>4. PICK t \in X : t = s[k]
    BY <1>2, <2>1, <2>3
  <2>5. f[k] = UpdateUtxos(h, f[i], t)
    BY <1>1, <1>4, <2>1, <2>3, <2>4 DEF Updates
  <2>6. \A n \in Node : f[k][n] = (f[i][n] \ h[t].spends[n]) \cup Paid(h, t, n)
    BY <2>5 DEF UpdateUtxos
  <2>7. Old(k)
    BY <2>1, <2>2, <2>3, <2>4, <2>6 DEF Paid
  <2>8. Kept(k)
    <3>1. SUFFICES ASSUME NEW n \in Node, NEW u, Has(k, u, n), u \notin f[k][n]
                   PROVE  \E j \in 1 .. k : u \in h[s[j]].spends[n]
      OBVIOUS
    <3>2. CASE u \in f[i][n]
      BY <3>1, <3>2, <2>1, <2>3, <2>4, <2>6
    <3>3. CASE u \notin f[i][n]
      <4>1. Has(i, u, n)
        BY <3>1, <3>3, <2>1, <2>3, <2>4, <2>6 DEF Paid
      <4> QED BY <3>1, <3>3, <4>1, <2>1, <2>2, <2>3
    <3> QED BY <3>2, <3>3
  <2> QED BY <2>1, <2>3, <2>7, <2>8
<1>7. N \in T
  <2> HIDE DEF T
  <2>1. \A i \in 0 .. N : i \in T
    BY <1>1, <1>5, <1>6, InductionUpTo
  <2> QED BY <1>1, <2>1
<1>8. DOMAIN s = 1 .. N /\ f[N] = v
  BY <1>1, <1>4
<1> QED BY <1>7, <1>8 DEF ToSet, AfterIndexing

-----------------------------------------------------------------------------
(* Transaction t is in one of the blocks C. *)
InBlocks(t, C, in) == \E a \in C : t \in ToSet(in[a])

(* The index of block b has the outputs of the blocks under it, but for    *)
(* those spent there, and these blocks were mined before it.               *)
Indexed(b, h, B, in, index) ==
    /\ \A a \in B[b].chain : a <= b
    /\ \A n \in Node : \A t \in index[b][n] : InBlocks(t, B[b].chain, in)
    /\ \A n \in Node : \A t :
          InBlocks(t, B[b].chain, in) /\ n \in h[t].pays =>
             \/ t \in index[b][n]
             \/ \E u : InBlocks(u, B[b].chain, in) /\ t \in h[u].spends[n]

IndexInv == \A b \in 0 .. mined : Indexed(b, tx, block, txn, utxos)

(* More transactions leave an index as it is. *)
LEMMA IndexedOfMore ==
    ASSUME NEW h, NEW g, Extends(g, h), NEW b, NEW B, NEW in, NEW index,
           NEW C, NEW jn, NEW jndex, C[b] = B[b], jndex[b] = index[b],
           \A a \in B[b].chain : jn[a] = in[a] /\ ToSet(in[a]) \subseteq DOMAIN h,
           Indexed(b, h, B, in, index)
    PROVE  Indexed(b, g, C, jn, jndex)
<1>1. \A t : InBlocks(t, C[b].chain, jn) <=> InBlocks(t, B[b].chain, in)
  BY DEF InBlocks
<1>2. \A t : InBlocks(t, B[b].chain, in) => g[t] = h[t]
  BY DEF InBlocks, Extends
<1>3. \A a \in C[b].chain : a <= b
  BY DEF Indexed
<1>4. \A n \in Node : \A t \in jndex[b][n] : InBlocks(t, C[b].chain, jn)
  BY <1>1 DEF Indexed
<1>5. ASSUME NEW n \in Node, NEW t, InBlocks(t, C[b].chain, jn), n \in g[t].pays
      PROVE  \/ t \in jndex[b][n]
             \/ \E u : InBlocks(u, C[b].chain, jn) /\ t \in g[u].spends[n]
  <2>1. InBlocks(t, B[b].chain, in) /\ n \in h[t].pays
    BY <1>1, <1>2, <1>5
  <2>2. t \in index[b][n] \/ \E u : InBlocks(u, B[b].chain, in) /\ t \in h[u].spends[n]
    BY <2>1 DEF Indexed
  <2> QED BY <1>1, <1>2, <2>2
<1> QED BY <1>3, <1>4, <1>5 DEF Indexed

(* The index of a mined block k on top of block m. *)
LEMMA MinedIsIndexed ==
    ASSUME NEW h, NEW m \in Nat, NEW k \in Nat, NEW B, NEW in, NEW index,
           Indexed(m, h, B, in, index), m <= k,
           NEW C, C[k].chain = B[m].chain \cup {k},
           B[m].chain \subseteq Nat,
           NEW X, index[m] \in [Node -> SUBSET X], NEW s \in Seq(X),
           NEW jn, jn[k] = s, \A a \in B[m].chain : jn[a] = in[a],
           NEW jndex, jndex[k] = UpdatedUtxos(h, index[m], s)
    PROVE  Indexed(k, h, C, jn, jndex)
<1>1. PICK v, y : /\ v = jndex[k] /\ y = index[m]
                  /\ AfterIndexing(v, y, h, ToSet(s))
  <2>1. PICK v, y : v = jndex[k] /\ y = index[m]
    OBVIOUS
  <2>2. AfterIndexing(v, y, h, ToSet(s))
    BY <2>1, UpdatedIndex
  <2> QED BY <2>1, <2>2
<1>2. \A t : InBlocks(t, C[k].chain, jn) <=> InBlocks(t, B[m].chain, in) \/ t \in ToSet(s)
  BY DEF InBlocks
<1>3. \A a \in C[k].chain : a <= k
  <2>1. \A a \in B[m].chain : a \in Nat /\ a <= m
    BY DEF Indexed
  <2> QED BY <2>1
<1>4. \A n \in Node : \A t \in v[n] : InBlocks(t, C[k].chain, jn)
  BY <1>1, <1>2 DEF Indexed, AfterIndexing
<1>5. ASSUME NEW n \in Node, NEW t, InBlocks(t, C[k].chain, jn), n \in h[t].pays
      PROVE  \/ t \in v[n]
             \/ \E u : InBlocks(u, C[k].chain, jn) /\ t \in h[u].spends[n]
  <2>1. CASE t \in ToSet(s)
    BY <1>1, <1>2, <1>5, <2>1 DEF AfterIndexing
  <2>2. CASE InBlocks(t, B[m].chain, in)
    <3>1. t \in index[m][n] \/ \E u : InBlocks(u, B[m].chain, in) /\ t \in h[u].spends[n]
      BY <1>5, <2>2 DEF Indexed
    <3>2. CASE t \in index[m][n]
      <4>1. t \in v[n] \/ \E u \in ToSet(s) : t \in h[u].spends[n]
        <5>1. t \in y[n]
          BY <1>1, <3>2
        <5> QED BY <1>1, <5>1 DEF AfterIndexing
      <4> QED BY <1>2, <4>1
    <3>3. CASE \E u : InBlocks(u, B[m].chain, in) /\ t \in h[u].spends[n]
      BY <1>2, <3>3
    <3> QED BY <3>1, <3>2, <3>3
  <2> QED BY <1>2, <1>5, <2>1, <2>2
<1> QED BY <1>1, <1>3, <1>4, <1>5 DEF Indexed

-----------------------------------------------------------------------------
(* Node n has its money, of the transactions heard, in the wallet w. *)
HasFunds(n, h, w, heard) ==
    \A t \in heard : n \in h[t].pays =>
        t \in DOMAIN w \/ \E u \in heard : t \in h[u].spends[n]

(* How the main branch of a node moves, from old to new with its head tip. *)
MovesTo(old, new, tip, B) ==
    /\ tip \in new /\ new = B[tip].chain
    /\ tip \in old => new = old
    /\ \A b \in old : B[b].chain \subseteq old
    /\ \A b \in new : B[b].chain \subseteq new

(* What a node hears of: its mempool and the blocks of its main branch. *)
Heard(pool, C, in) == pool \cup UNION {ToSet(in[a]) : a \in C}

(* Every output that a step confirms gets into the wallet. *)
LEMMA JoinedWallet ==
    ASSUME NEW n, NEW h, NEW start, NEW old, NEW new,
           NEW q, NEW blk, NEW u, Joining(n, h, start, old, new, q, blk, u)
    PROVE  /\ \A t : t \in DOMAIN u[Len(q)] <=> t \in DOMAIN start \/ \E j \in 1 .. Len(q) : q[j] = t
           /\ u[Len(q)] \in Wallets(DOMAIN h) /\ start \in Wallets(DOMAIN h)
<1>1. PICK X, N : X = DOMAIN h /\ N = Len(q)
  OBVIOUS
<1>2. /\ N \in Nat /\ \A i \in 1 .. N : q[i] \in X
      /\ u \in [0 .. N -> Wallets(X)] /\ Confirms(u, start, q)
  BY <1>1 DEF Joining
<1> DEFINE T == {i \in 0 .. N : \A t : t \in DOMAIN u[i] <=>
                    t \in DOMAIN start \/ \E j \in 1 .. i : q[j] = t}
<1>3. 0 \in T
  BY <1>2 DEF Confirms
<1>4. ASSUME NEW i \in Nat, i < N, i \in T PROVE i + 1 \in T
  <2>1. /\ i \in 0 .. N /\ i + 1 \in 0 .. N /\ i + 1 \in 1 .. N
        /\ (i + 1) - 1 = i
        /\ \A j \in 1 .. i : j \in 1 .. i + 1
        /\ \A j \in 1 .. i + 1 : j \in 1 .. i \/ j = i + 1
        /\ i + 1 \in 1 .. i + 1
    BY <1>2, <1>4
  <2>2. PICK w, v, x, k : w = u[i] /\ k = i + 1 /\ v = u[k] /\ x = q[k]
    OBVIOUS
  <2>3. w \in Wallets(X) /\ x \in X /\ v = Confirmed(w, x)
    BY <1>1, <1>2, <2>1, <2>2 DEF Confirms
  <2>4. \A t : t \in DOMAIN v <=> t \in DOMAIN w \/ t = x
    BY <2>3, ConfirmedWallet
  <2>5. \A t : t \in DOMAIN w <=> t \in DOMAIN start \/ \E j \in 1 .. i : q[j] = t
    BY <1>4, <2>2
  <2>6. \A t : t \in DOMAIN v <=> t \in DOMAIN start \/ \E j \in 1 .. k : q[j] = t
    BY <2>1, <2>2, <2>4, <2>5
  <2> QED BY <2>1, <2>2, <2>6
<1>5. N \in T
  <2> HIDE DEF T
  <2>1. \A i \in 0 .. N : i \in T
    BY <1>2, <1>3, <1>4, InductionUpTo
  <2> QED BY <1>2, <2>1
<1>6. u[N] \in Wallets(X) /\ u[0] \in Wallets(X) /\ u[0] = start
  BY <1>2 DEF Confirms
<1> QED BY <1>1, <1>5, <1>6

(* An output that was in the wallet when the blocks off began to leave is  *)
(* there when they have left, unless one of their transactions spends it:  *)
(* when its last confirmation was taken, the block that contains it was    *)
(* still to leave.                                                         *)
LEMMA LeavingKeepsFunds ==
    ASSUME NEW n \in Node, NEW h, NEW w \in Wallets(DOMAIN h),
           NEW old, NEW new, NEW off, NEW r, Leaving(n, h, w, old, new, off, r),
           old \subseteq Nat,
           \A b \in old \ new : txn'[b] \in Seq(DOMAIN h),
           \A b \in old \ new : Indexed(b, h, block', txn', utxos') /\ block'[b].chain \subseteq old,
           NEW t \in DOMAIN w, n \in h[t].pays,
           ~InBlocks(t, new, txn')
    PROVE  \/ t \in DOMAIN r[Len(off)]
           \/ \E u : InBlocks(u, old \ new, txn') /\ t \in h[u].spends[n]
<1>1. PICK X, D : X = DOMAIN h /\ D = old \ new
  OBVIOUS
<1>2. PICK N \in Nat : N = Len(off) /\ off \in Seq(D)
  BY <1>1 DEF Leaving, Lists
<1>3. /\ r \in [0 .. N -> Wallets(X)] /\ Reverts(r, h, w, off, n)
      /\ \A i \in 1 .. N : off[i] \in D /\ off[i] \in Nat
      /\ \A b \in D : \E i \in 1 .. N : off[i] = b
      /\ \A i, j \in 1 .. N : i < j => off[i] > off[j]
  <2>1. /\ r \in [0 .. N -> Wallets(X)] /\ Reverts(r, h, w, off, n)
        /\ \A i, j \in 1 .. N : i < j => off[i] > off[j]
    BY <1>1, <1>2 DEF Leaving
  <2>2. \A b \in D : \E i \in 1 .. N : off[i] = b
    BY <1>1, <1>2 DEF Leaving, Lists
  <2>3. \A i \in 1 .. N : off[i] \in D
    BY <1>2
  <2>4. \A b \in D : b \in Nat
    BY <1>1
  <2> QED BY <2>1, <2>2, <2>3, <2>4
<1>4. Paid(h, t, n) = {t}
  BY DEF Paid
<1> DEFINE Spent == \E u : InBlocks(u, D, txn') /\ t \in h[u].spends[n]
           ToReturn(i) == \E j \in 1 .. N : j > i /\ t \in ToSet(txn'[off[j]])
           T == {i \in 0 .. N : t \in DOMAIN r[i] \/ Spent \/ ToReturn(i)}
<1>5. 0 \in T
  BY <1>2, <1>3 DEF Reverts
<1>6. ASSUME NEW i \in Nat, i < N, i \in T PROVE i + 1 \in T
  <2>1. /\ i \in 0 .. N /\ i + 1 \in 0 .. N /\ i + 1 \in 1 .. N
        /\ (i + 1) - 1 = i
        /\ \A j \in 1 .. N : j > i => j = i + 1 \/ j > i + 1
    BY <1>6
  <2>2. PICK k \in 1 .. N : k = i + 1
    BY <2>1
  <2>3. PICK y, v, b : y = r[i] /\ v = r[k] /\ b = off[k]
    OBVIOUS
  <2>4. y \in Wallets(X) /\ b \in D /\ v = Reverted(h, y, b, n)
    BY <1>2, <1>3, <2>1, <2>2, <2>3 DEF Reverts
  <2>5. AfterReverting(v, y, h, utxos'[b][n], ToSet(txn'[b]), n)
    BY <1>1, <2>4, RevertedWallet
  <2>6. ASSUME t \in ToSet(txn'[b]) \/ t \in DOMAIN y \ utxos'[b][n]
        PROVE  t \in DOMAIN v \/ Spent
    <3>1. KeptOrSpent(t, v, h, ToSet(txn'[b]), n)
      BY <1>4, <2>5, <2>6 DEF AfterReverting
    <3>2. \A u \in ToSet(txn'[b]) : InBlocks(u, D, txn')
      BY <2>4 DEF InBlocks
    <3> QED BY <3>1, <3>2 DEF KeptOrSpent
  <2>7. CASE Spent
    BY <2>1, <2>7
  <2>8. CASE ToReturn(i)
    <3>1. PICK j \in 1 .. N : j > i /\ t \in ToSet(txn'[off[j]])
      BY <2>8
    <3>2. CASE j = k
      BY <2>1, <2>2, <2>3, <2>6, <3>1, <3>2
    <3>3. CASE j > k
      BY <2>1, <2>2, <3>1, <3>3
    <3> QED BY <2>1, <2>2, <3>1, <3>2, <3>3
  <2>9. CASE t \in DOMAIN y /\ t \in utxos'[b][n]
    <3>1. Indexed(b, h, block', txn', utxos') /\ block'[b].chain \subseteq old
      BY <1>1, <2>4
    <3>2. PICK a \in block'[b].chain : t \in ToSet(txn'[a]) /\ a <= b
      BY <2>9, <3>1 DEF Indexed, InBlocks
    <3>3. a \in D
      BY <1>1, <3>1, <3>2 DEF InBlocks
    <3>4. PICK j \in 1 .. N : off[j] = a
      BY <1>3, <3>3
    <3>5. j >= k
      <4>1. CASE j < k
        <5>1. off[j] > off[k] /\ off[j] \in Nat /\ off[k] \in Nat
          BY <1>3, <4>1
        <5> QED BY <2>3, <3>2, <3>4, <5>1
      <4> QED BY <4>1
    <3>6. CASE j = k
      BY <2>1, <2>2, <2>3, <2>6, <3>2, <3>4, <3>6
    <3>7. CASE j > k
      BY <2>1, <2>2, <3>2, <3>4, <3>7
    <3> QED BY <3>5, <3>6, <3>7
  <2>10. CASE t \in DOMAIN y /\ t \notin utxos'[b][n]
    BY <2>1, <2>2, <2>3, <2>6, <2>10
  <2>11. t \in DOMAIN y \/ Spent \/ ToReturn(i)
    BY <1>6, <2>3
  <2> HIDE DEF T, Spent, ToReturn
  <2> QED BY <2>7, <2>8, <2>9, <2>10, <2>11
<1>7. N \in T
  <2> HIDE DEF T
  <2>1. \A i \in 0 .. N : i \in T
    BY <1>2, <1>5, <1>6, InductionUpTo
  <2> QED BY <1>2, <2>1
<1>8. ~ToReturn(N)
  BY <1>2
<1> QED BY <1>1, <1>2, <1>7, <1>8

(* Whatever a node heard of before or after its main branch has moved, it  *)
(* has heard of when the step is over.                                     *)
LEMMA HeardAfter ==
    ASSUME NEW n \in Node, NEW h, NEW pool, NEW old, NEW new, NEW z,
           Settled(n, h, PoolAfter(pool, old \ new, new \ old), z)
    PROVE  \A t : t \in Heard(mempool'[n], new, txn') <=>
              \/ t \in pool \/ InBlocks(t, old, txn') \/ InBlocks(t, new, txn')
              \/ t \in DOMAIN tx' \ DOMAIN h
<1>1. PICK left : left = PoolAfter(pool, old \ new, new \ old)
  OBVIOUS
<1>2. \A t : t \in mempool'[n] <=> t \in left \/ t \in DOMAIN tx' \ DOMAIN h
  BY <1>1 DEF Settled
<1>3. \A t : t \in left <=> /\ t \in pool \/ InBlocks(t, old \ new, txn')
                            /\ ~InBlocks(t, new \ old, txn')
  BY <1>1 DEF PoolAfter, Txns, InBlocks
<1>4. \A t : t \in Heard(mempool'[n], new, txn') <=>
                t \in mempool'[n] \/ InBlocks(t, new, txn')
  BY DEF Heard, InBlocks
<1>5. \A t : InBlocks(t, old, txn') =>
                InBlocks(t, old \ new, txn') \/ InBlocks(t, new, txn')
  BY DEF InBlocks
<1>6. \A t : /\ InBlocks(t, new \ old, txn') => InBlocks(t, new, txn')
             /\ InBlocks(t, old \ new, txn') => InBlocks(t, old, txn')
  BY DEF InBlocks
<1> QED BY <1>2, <1>3, <1>4, <1>5, <1>6

(* No money is lost when the main branch moves. *)
LEMMA FollowKeepsFunds ==
    ASSUME NEW n \in Node, NEW h, NEW w \in Wallets(DOMAIN h),
           NEW pool, pool \subseteq DOMAIN h,
           NEW old, NEW new, NEW tip, MovesTo(old, new, tip, block'),
           old \cup new \subseteq Nat,
           \A b \in old \cup new : txn'[b] \in Seq(DOMAIN h),
           \A b \in old \cup new : Indexed(b, h, block', txn', utxos'),
           NEW off, NEW r, NEW q, NEW blk, NEW u,
           Follows(n, h, w, pool, old, new, off, r, q, blk, u),
           HasFunds(n, h, w, Heard(pool, old, txn'))
    PROVE  HasFunds(n, tx', wallet'[n], Heard(mempool'[n], new, txn'))
<1>1. /\ Leaving(n, h, w, old, new, off, r)
      /\ Joining(n, h, r[Len(off)], old, new, q, blk, u)
      /\ Settled(n, h, PoolAfter(pool, old \ new, new \ old), u[Len(q)])
  BY DEF Follows
<1>2. PICK start, z : start = r[Len(off)] /\ z = u[Len(q)]
  OBVIOUS
<1> DEFINE In(t) == t \in pool \/ InBlocks(t, old, txn') \/ InBlocks(t, new, txn')
           Known1(t) == t \in pool \/ InBlocks(t, old, txn')
<1>3. \A t : In(t) => t \in DOMAIN h
  <2>1. ASSUME NEW b \in old \cup new PROVE ToSet(txn'[b]) \subseteq DOMAIN h
    <3>1. PICK s : s = txn'[b] /\ s \in Seq(DOMAIN h)
      OBVIOUS
    <3>2. ToSet(s) \subseteq DOMAIN h
      BY <3>1 DEF ToSet
    <3> QED BY <3>1, <3>2
  <2> QED BY <2>1 DEF InBlocks
<1>4. \A t : t \in Heard(mempool'[n], new, txn') <=> In(t) \/ t \in DOMAIN tx' \ DOMAIN h
  BY <1>1, <1>2, HeardAfter
<1>5. \A t : Known1(t) /\ n \in h[t].pays =>
                t \in DOMAIN w \/ \E x : Known1(x) /\ t \in h[x].spends[n]
  BY DEF HasFunds, Heard, InBlocks
<1>6. /\ \A t : t \in DOMAIN z <=> t \in DOMAIN start \/ \E j \in 1 .. Len(q) : q[j] = t
      /\ ComesFrom(q, blk, new \ old, n)
  BY <1>1, <1>2, JoinedWallet DEF Joining
<1>7. ASSUME NEW t, In(t), n \in h[t].pays
      PROVE  t \in DOMAIN z \/ \E x : In(x) /\ t \in h[x].spends[n]
  <2>1. CASE tip \in old
    <3>1. new = old /\ old \ new = {}
      BY <2>1 DEF MovesTo
    <3>2. Len(off) = 0
      BY <1>1, <3>1 DEF Leaving, Lists
    <3>3. start = w
      BY <1>1, <1>2, <3>2 DEF Leaving, Reverts
    <3> QED BY <1>5, <1>6, <1>7, <3>1, <3>3
  <2>2. CASE tip \notin old /\ InBlocks(t, new, txn')
    <3>1. tip \in new \ old /\ new = block'[tip].chain
      BY <2>2 DEF MovesTo
    <3>2. \/ t \in utxos'[tip][n]
          \/ \E x : InBlocks(x, new, txn') /\ t \in h[x].spends[n]
      BY <1>7, <2>2, <3>1 DEF Indexed
    <3>3. t \in utxos'[tip][n] => t \in DOMAIN z
      BY <1>6, <3>1 DEF ComesFrom
    <3> QED BY <3>2, <3>3
  <2>3. CASE ~InBlocks(t, new, txn')
    <3>1. Known1(t)
      BY <1>7, <2>3
    <3>2. CASE t \in DOMAIN w
      <4>1. \A b \in old \ new : /\ txn'[b] \in Seq(DOMAIN h)
                                 /\ Indexed(b, h, block', txn', utxos')
                                 /\ block'[b].chain \subseteq old
        BY DEF MovesTo
      <4>2. \/ t \in DOMAIN start
            \/ \E x : InBlocks(x, old \ new, txn') /\ t \in h[x].spends[n]
        BY <1>1, <1>2, <1>7, <2>3, <3>2, <4>1, LeavingKeepsFunds
      <4>3. \A x : InBlocks(x, old \ new, txn') => InBlocks(x, old, txn')
        BY DEF InBlocks
      <4> QED BY <1>6, <4>2, <4>3
    <3> QED BY <1>5, <1>7, <3>1, <3>2
  <2> QED BY <2>1, <2>2, <2>3
<1>8. \A t : In(t) => tx'[t] = h[t]
  BY <1>1, <1>3 DEF Settled, Extends
<1>9. ASSUME NEW t \in Heard(mempool'[n], new, txn'), n \in tx'[t].pays
      PROVE  \/ t \in DOMAIN wallet'[n]
             \/ \E x \in Heard(mempool'[n], new, txn') : t \in tx'[x].spends[n]
  <2>1. CASE t \in DOMAIN tx' \ DOMAIN h
    BY <1>1, <2>1 DEF Settled, NewPayment
  <2>2. CASE In(t)
    <3>1. CASE \E x : In(x) /\ t \in h[x].spends[n]
      BY <1>4, <1>8, <3>1
    <3>2. CASE t \in DOMAIN z
      <4>1. \/ t \in DOMAIN wallet'[n]
            \/ \E x \in DOMAIN tx' \ DOMAIN h : t \in tx'[x].spends[n]
        BY <1>1, <1>2, <3>2 DEF Settled
      <4> QED BY <1>4, <4>1
    <3> HIDE DEF In
    <3> QED BY <1>7, <1>8, <1>9, <2>2, <3>1, <3>2
  <2> HIDE DEF In
  <2> QED BY <1>4, <1>9, <2>1, <2>2
<1> QED BY <1>9 DEF HasFunds

(* The tree of blocks that have been mined, before and after a step. *)
LEMMA MinedTreeIs ==
    IInv => /\ block \in Heap /\ mined \in Nat /\ 0 .. mined \subseteq Block
            /\ TreeOK(block, mined)
            /\ \A n \in Node : mainBranch[n] \in 0 .. mined
            /\ \A b \in 0 .. mined : block[b].chain \subseteq 0 .. mined
<1> SUFFICES ASSUME IInv
             PROVE  /\ block \in Heap /\ mined \in Nat /\ 0 .. mined \subseteq Block
                    /\ TreeOK(block, mined)
                    /\ \A n \in Node : mainBranch[n] \in 0 .. mined
                    /\ \A b \in 0 .. mined : block[b].chain \subseteq 0 .. mined
  OBVIOUS
<1>1. TypeOK /\ TreeOK(block, mined) /\ References /\ MainBranchIsHighest
  BY DEF IInv, TreeInv
<1>2. /\ block \in Heap /\ mined \in Nat /\ 0 .. mined \subseteq Block
  BY <1>1, MaxBlockAssumption DEF TypeOK, Heap, Block, Genesis
<1>3. \A n \in Node : mainBranch[n] \in 0 .. mined
  BY <1>1 DEF References, MainBranchIsHighest
<1>4. \A b \in 0 .. mined : block[b].chain \subseteq 0 .. mined
  BY <1>1 DEF TreeOK
<1> QED BY <1>1, <1>2, <1>3, <1>4

(* The same in the next state. *)
LEMMA MinedTreeWillBe ==
    (IInv => /\ block \in Heap /\ mined \in Nat /\ 0 .. mined \subseteq Block
             /\ TreeOK(block, mined)
             /\ \A n \in Node : mainBranch[n] \in 0 .. mined
             /\ \A b \in 0 .. mined : block[b].chain \subseteq 0 .. mined)'
  BY MinedTreeIs, PTL

(* A step of BlockchainManager moves the main branch of its node. *)
LEMMA MainBranchMoves ==
    ASSUME IInv, IInv', NEW n \in Node, Mine(n) \/ \E b \in Block : Receive(n, b),
           NEW old, old = block'[mainBranch[n]].chain,
           NEW new, new = block'[mainBranch'[n]].chain
    PROVE  /\ MovesTo(old, new, mainBranch'[n], block')
           /\ old = block[mainBranch[n]].chain
           /\ old \subseteq 0 .. mined /\ old \cup new \subseteq 0 .. mined'
<1>1. /\ mined \in Nat /\ mainBranch[n] \in 0 .. mined /\ block \in Heap
      /\ block[mainBranch[n]].chain \subseteq 0 .. mined
  BY InvariantOfTree DEF IInv, TreeInv, TreeOK
<1>2. /\ \A x \in 0 .. mined : block'[x] = block[x]
      /\ mainBranch'[n] # mainBranch[n] =>
            block'[mainBranch'[n]].height > block[mainBranch[n]].height
  BY StepOfOneNode
<1>3. PICK B, k, m, tip :
         B = block' /\ k = mined' /\ m = mainBranch[n] /\ tip = mainBranch'[n]
  OBVIOUS
<1>4. k \in Nat /\ 0 .. mined \subseteq 0 .. k
  <2>1. mined' = mined \/ mined' = mined + 1
    BY DEF Mine, Receive
  <2> QED BY <1>1, <1>3, <2>1
<1>5. TreeOK(B, k) /\ tip \in 0 .. k /\ B \in Heap /\ 0 .. k \subseteq Block
  <2>1. block' \in Heap /\ TreeOK(block, mined)' /\ 0 .. mined' \subseteq Block
        /\ mainBranch'[n] \in 0 .. mined'
    BY MinedTreeWillBe DEF Heap, Block
  <2>2. TreeOK(block', mined')
    BY <2>1 DEF TreeOK
  <2> QED BY <1>3, <2>1, <2>2
<1>6. m \in 0 .. k /\ B[m] = block[m] /\ old = B[m].chain /\ new = B[tip].chain
  BY <1>1, <1>2, <1>3, <1>4
<1>7. /\ old \subseteq 0 .. k /\ new \subseteq 0 .. k /\ m \in old /\ tip \in new
      /\ \A b \in old : B[b].chain \subseteq old /\ (b # m => B[b].height < B[m].height)
      /\ \A b \in new : B[b].chain \subseteq new
  BY <1>5, <1>6 DEF TreeOK
<1>8. ASSUME tip \in old PROVE new = old
  <2>1. tip # m => B[tip].height > B[m].height
    BY <1>2, <1>3, <1>6
  <2>2. B[tip].height \in Nat /\ B[m].height \in Nat
    BY <1>5, <1>6 DEF Heap
  <2>3. tip = m
    BY <1>7, <1>8, <2>1, <2>2
  <2> QED BY <1>6, <2>3
<1> QED BY <1>1, <1>3, <1>6, <1>7, <1>8 DEF MovesTo

(* The transactions of blocks are transactions. *)
LEMMA BlocksHoldTransactions ==
    ASSUME NEW in, NEW index, NEW k, NEW h, TypedBlocks(in, index, k, h), NEW b \in Block
    PROVE  in[b] \in Seq(DOMAIN h) /\ ToSet(in[b]) \subseteq DOMAIN h
<1>1. PICK s : s = in[b] /\ s \in Seq(DOMAIN h)
  BY DEF TypedBlocks
<1>2. ToSet(s) \subseteq DOMAIN h
  BY <1>1 DEF ToSet
<1> QED BY <1>1, <1>2

(* The tree of blocks that have been mined. *)
LEMMA ChainsAreMined ==
    ASSUME IInv, NEW b \in 0 .. mined
    PROVE  /\ block[b].chain \subseteq 0 .. mined
           /\ \A a \in block[b].chain : a \in Block /\ a \in Nat
<1>1. mined \in Nat /\ 0 .. mined \subseteq Block
  BY MaxBlockAssumption DEF IInv, TreeInv, TypeOK, Block, Genesis
<1>2. block[b].chain \subseteq 0 .. mined
  BY DEF IInv, TreeInv, TreeOK
<1> QED BY <1>1, <1>2

(* Mining gives the new block the index of its chain. *)
LEMMA MineIndexes ==
    ASSUME TypedInv, IndexInv, NEW n \in Node, LedgerMine(n), NEW h, NEW c,
           NEW taken, NEW s, MinedOf(n, h, c, taken, s)
    PROVE  \A b \in 0 .. mined' : Indexed(b, h, block', txn', utxos')
<1>1. IInv /\ Typed /\ Mine(n) /\ Extends(h, tx) /\ s \in Seq(DOMAIN h)
  BY DEF TypedInv, LedgerInv, LedgerMine, MinedOf
<1>2. PICK m, k : m = mainBranch[n] /\ k = mined'
  OBVIOUS
<1>3. /\ mined \in Nat /\ k = mined + 1 /\ k \in Block /\ 0 .. mined \subseteq Block
      /\ m \in 0 .. mined
  <2>1. mined \in Nat /\ 0 .. mined \subseteq Block /\ m \in 0 .. mined
    BY <1>1, <1>2, MinedTreeIs
  <2>2. k = mined + 1 /\ mined < MaxBlock
    BY <1>1, <1>2 DEF Mine
  <2>3. k \in Block
    BY <2>1, <2>2, MaxBlockAssumption DEF Block, Genesis
  <2> QED BY <2>1, <2>2, <2>3
<1>4. /\ block' = [block EXCEPT ![k] = NewBlock(n)]
      /\ txn' = [txn EXCEPT ![k] = s]
      /\ utxos' = [utxos EXCEPT ![k] = UpdatedUtxos(h, utxos[m], s)]
  BY <1>1, <1>2, <1>3 DEF Mine, MinedOf
<1>5. /\ DOMAIN block = Block /\ DOMAIN txn = Block /\ DOMAIN utxos = Block
      /\ TypedBlocks(txn, utxos, mined, tx)
  BY <1>1 DEF IInv, TreeInv, TypeOK, Typed, TypedBlocks
<1>6. \A a \in 0 .. mined : block'[a] = block[a] /\ txn'[a] = txn[a] /\ utxos'[a] = utxos[a]
  BY <1>3, <1>4, <1>5
<1>7. ASSUME NEW b \in 0 .. mined PROVE Indexed(b, h, block', txn', utxos')
  <2>1. Indexed(b, tx, block, txn, utxos)
    BY DEF IndexInv
  <2>2. \A a \in block[b].chain : txn'[a] = txn[a] /\ ToSet(txn[a]) \subseteq DOMAIN tx
    BY <1>1, <1>5, <1>6, ChainsAreMined, BlocksHoldTransactions
  <2>3. block'[b] = block[b] /\ utxos'[b] = utxos[b]
    BY <1>6
  <2>4. PICK g, B, C, in, jn, index, jndex :
           /\ g = tx /\ B = block /\ C = block' /\ in = txn /\ jn = txn'
           /\ index = utxos /\ jndex = utxos'
    OBVIOUS
  <2>5. Indexed(b, h, C, jn, jndex)
    BY <1>1, <2>1, <2>2, <2>3, <2>4, IndexedOfMore
  <2> QED BY <2>4, <2>5
<1>8. Indexed(k, h, block', txn', utxos')
  <2>1. Indexed(m, h, block', txn', utxos')
    BY <1>3, <1>7
  <2>2. PICK B, in, index, X :
           /\ B = block' /\ in = txn' /\ index = utxos' /\ X = DOMAIN h
    OBVIOUS
  <2>3. B[k].chain = B[m].chain \cup {k} /\ B[m].chain \subseteq 0 .. mined
    <3>1. block'[k] = NewBlock(n) /\ block'[m] = block[m]
      BY <1>3, <1>4, <1>5, <1>6
    <3>2. NewBlock(n).chain = block[m].chain \cup {k}
      BY <1>2, <1>3 DEF NewBlock
    <3>3. block[m].chain \subseteq 0 .. mined
      BY <1>1, <1>3, ChainsAreMined
    <3> QED BY <2>2, <3>1, <3>2, <3>3
  <2>4. index[m] \in [Node -> SUBSET X]
    <3>1. utxos[m] \in [Node -> SUBSET DOMAIN tx] /\ index[m] = utxos[m]
      BY <1>3, <1>5, <1>6, <2>2 DEF TypedBlocks
    <3>2. DOMAIN tx \subseteq X
      BY <1>1, <2>2 DEF Extends
    <3> QED BY <3>1, <3>2
  <2>5. in[k] = s /\ index[k] = UpdatedUtxos(h, index[m], s)
    BY <1>3, <1>4, <1>5, <1>6, <2>2
  <2>6. m \in Nat /\ k \in Nat /\ m <= k /\ B[m].chain \subseteq Nat
    BY <1>3, <2>3
  <2>7. Indexed(k, h, B, in, index)
    BY <1>1, <2>1, <2>2, <2>3, <2>4, <2>5, <2>6, MinedIsIndexed
  <2> QED BY <2>2, <2>7
<1>9. \A b \in 0 .. mined' : b = k \/ b \in 0 .. mined
  BY <1>2, <1>3
<1> QED BY <1>7, <1>8, <1>9

(* It is enough that the blocks are indexed with the transactions before. *)
LEMMA IndexIsEnough ==
    ASSUME TypedInv', NEW h, Extends(tx', h), TypedBlocks(txn', utxos', mined', h),
           \A b \in 0 .. mined' : Indexed(b, h, block', txn', utxos')
    PROVE  IndexInv'
<1>1. ASSUME NEW b \in 0 .. mined' PROVE Indexed(b, tx', block', txn', utxos')
  <2>1. PICK g, B, in, index, k :
           g = tx' /\ B = block' /\ in = txn' /\ index = utxos' /\ k = mined'
    OBVIOUS
  <2>2. \A a \in block'[b].chain : a \in Block
    <3>1. IInv'
      BY DEF TypedInv, LedgerInv
    <3>2. 0 .. mined' \subseteq Block /\ block'[b].chain \subseteq 0 .. mined'
      BY <3>1, MinedTreeWillBe DEF Block
    <3> QED BY <3>2
  <2>3. \A a \in B[b].chain : in[a] = in[a] /\ ToSet(in[a]) \subseteq DOMAIN h
    BY <2>1, <2>2, BlocksHoldTransactions
  <2>4. Indexed(b, g, B, in, index)
    BY <2>1, <2>3, IndexedOfMore
  <2> QED BY <2>1, <2>4
<1> QED BY <1>1 DEF IndexInv, Indexed, InBlocks, ToSet

FundsInv == TypedInv /\ IndexInv /\ NoFundsLost

(* What a node hears of is a set of transactions. *)
LEMMA HeardIsKnown ==
    ASSUME TypedInv, NEW n \in Node
    PROVE  /\ Heard(mempool[n], block[mainBranch[n]].chain, txn) \subseteq DOMAIN tx
           /\ block[mainBranch[n]].chain \subseteq 0 .. mined
<1>1. IInv /\ Typed /\ TypedBlocks(txn, utxos, mined, tx)
  BY DEF TypedInv, LedgerInv, Typed
<1>2. PICK m, C : m = mainBranch[n] /\ C = block[m].chain
  OBVIOUS
<1>3. m \in 0 .. mined /\ C \subseteq 0 .. mined /\ \A b \in C : b \in Block
  BY <1>1, <1>2, MinedTreeIs, ChainsAreMined
<1>4. \A b \in C : ToSet(txn[b]) \subseteq DOMAIN tx
  BY <1>1, <1>3, BlocksHoldTransactions
<1>5. mempool[n] \subseteq DOMAIN tx
  BY <1>1 DEF Typed
<1> QED BY <1>2, <1>3, <1>4, <1>5 DEF Heard

(* With more transactions a node has its money as before. *)
LEMMA FundsOfMore ==
    ASSUME NEW n, NEW h, NEW w, NEW heard, heard \subseteq DOMAIN h,
           NEW g, Extends(g, h), HasFunds(n, h, w, heard)
    PROVE  HasFunds(n, g, w, heard)
  BY DEF HasFunds, Extends

(* A step at another node leaves the money of node m. *)
LEMMA OthersKeepFunds ==
    ASSUME FundsInv, NEW m \in Node, Extends(tx', tx), wallet'[m] = wallet[m],
           mempool'[m] = mempool[m], mainBranch'[m] = mainBranch[m],
           \A b \in 0 .. mined : block'[b] = block[b] /\ txn'[b] = txn[b]
    PROVE  HasFunds(m, tx', wallet'[m],
                    Heard(mempool'[m], block'[mainBranch'[m]].chain, txn'))
<1>1. TypedInv /\ IInv /\ NoFundsLost
  BY DEF FundsInv, TypedInv, LedgerInv
<1>2. mainBranch[m] \in 0 .. mined
  BY <1>1, MinedTreeIs
<1>3. PICK heard : heard = Heard(mempool[m], block[mainBranch[m]].chain, txn)
  OBVIOUS
<1>4. heard \subseteq DOMAIN tx /\ block[mainBranch[m]].chain \subseteq 0 .. mined
  BY <1>1, <1>3, HeardIsKnown
<1>5. Heard(mempool'[m], block'[mainBranch'[m]].chain, txn') = heard
  <2>1. \A t : t \in Heard(mempool'[m], block'[mainBranch'[m]].chain, txn') <=> t \in heard
    BY <1>2, <1>3, <1>4 DEF Heard
  <2> QED BY <2>1
<1>6. HasFunds(m, tx, wallet[m], heard)
  BY <1>1, <1>3 DEF NoFundsLost, HasFunds, Heard, OnChain
<1>7. PICK h, g, w : h = tx /\ g = tx' /\ w = wallet[m]
  OBVIOUS
<1>8. HasFunds(m, g, w, heard)
  BY <1>4, <1>6, <1>7, FundsOfMore
<1> QED BY <1>5, <1>7, <1>8

(* It is enough that every node has its money. *)
LEMMA FundsAreEnough ==
    ASSUME \A m \in Node : HasFunds(m, tx', wallet'[m],
                    Heard(mempool'[m], block'[mainBranch'[m]].chain, txn'))
    PROVE  NoFundsLost'
  BY DEF NoFundsLost, HasFunds, Heard, OnChain

(* A node that mines has its money, the coinbase with it. *)
LEMMA MineKeepsFunds ==
    ASSUME FundsInv, NEW n \in Miner, n \in Node, LedgerMine(n)
    PROVE  /\ IndexInv' /\ Extends(tx', tx)
           /\ \A m \in Node \ {n} : wallet'[m] = wallet[m] /\ mempool'[m] = mempool[m]
           /\ \A b \in 0 .. mined : txn'[b] = txn[b]
           /\ HasFunds(n, tx', wallet'[n],
                       Heard(mempool'[n], block'[mainBranch'[n]].chain, txn'))
<1>1. TypedInv /\ Typed /\ IInv /\ IndexInv /\ NoFundsLost /\ Mine(n)
  BY DEF FundsInv, TypedInv, LedgerInv, LedgerMine
<1>2. PICK h, c, taken, s : MinedOf(n, h, c, taken, s)
  BY <1>1, MinedIs
<1>3. PICK w, pool, old, new :
         /\ w = Added(h, wallet[n], c, n) /\ pool = mempool[n] \cup {c}
         /\ old = block'[mainBranch[n]].chain /\ new = block'[mainBranch'[n]].chain
  OBVIOUS
<1>4. /\ IInv' /\ mined' = mined + 1 /\ TypedBlocks(txn', utxos', mined', h) /\ Typed'
      /\ \E off, r, q, blk, u : Follows(n, h, w, pool, old, new, off, r, q, blk, u)
  BY <1>1, <1>2, <1>3, MineKeepsTyped
<1>5. PICK off, r, q, blk, u : Follows(n, h, w, pool, old, new, off, r, q, blk, u)
  BY <1>4
<1>6. Settled(n, h, PoolAfter(pool, old \ new, new \ old), u[Len(q)])
  BY <1>5 DEF Follows
<1>7. \A b \in 0 .. mined' : Indexed(b, h, block', txn', utxos')
  BY <1>1, <1>2, MineIndexes
<1>8. /\ History(h) /\ Extends(h, tx) /\ Extends(tx', h) /\ Extends(tx', tx)
      /\ c \in DOMAIN h /\ c \notin DOMAIN tx /\ h[c] = CoinbaseTx({n})
      /\ w \in Wallets(DOMAIN h)
      /\ txn' = [txn EXCEPT ![mined'] = s]
  BY <1>2, <1>3, <1>6 DEF MinedOf, Settled, Extends
<1>9. TypedInv'
  BY <1>1, StepKeepsTyped DEF LedgerNext
<1>10. \A b \in 0 .. mined : txn'[b] = txn[b]
  <2>1. mined \in Nat /\ DOMAIN txn = Block
    BY <1>1, MinedTreeIs DEF Typed, TypedBlocks
  <2> QED BY <1>1, <1>4, <1>8, <2>1, MinedTreeIs
<1>11. IndexInv'
  BY <1>4, <1>7, <1>8, <1>9, IndexIsEnough
<1>12. /\ MovesTo(old, new, mainBranch'[n], block')
       /\ old = block[mainBranch[n]].chain
       /\ old \subseteq 0 .. mined /\ old \cup new \subseteq 0 .. mined'
  BY <1>1, <1>3, <1>4, MainBranchMoves
<1>13. PICK tip, k, before : tip = mainBranch'[n] /\ k = mined' /\ before = wallet[n]
  OBVIOUS
<1>14. k \in Nat /\ 0 .. k \subseteq Block
  BY <1>4, <1>13, MinedTreeWillBe
<1>15. pool \subseteq DOMAIN h
  BY <1>1, <1>3, <1>8 DEF Typed, Extends
<1>16. HasFunds(n, h, w, Heard(pool, old, txn'))
  <2>1. HasFunds(n, tx, before, Heard(mempool[n], old, txn))
    BY <1>1, <1>12, <1>13 DEF NoFundsLost, HasFunds, Heard, OnChain
  <2>2. Heard(mempool[n], old, txn) \subseteq DOMAIN tx
    BY <1>1, <1>12, HeardIsKnown
  <2>3. \A t : t \in Heard(pool, old, txn') <=> t \in Heard(mempool[n], old, txn) \/ t = c
    BY <1>3, <1>10, <1>12 DEF Heard
  <2>4. Paid(h, c, n) = {c} /\ h[c].spends[n] = {}
    BY <1>8 DEF Paid, CoinbaseTx
  <2>5. \A t : t \in DOMAIN w <=> t \in DOMAIN before \/ t = c
    BY <1>3, <1>13, <2>4 DEF Added
  <2>6. PICK g, heard : g = tx /\ heard = Heard(mempool[n], old, txn)
    OBVIOUS
  <2>7. HasFunds(n, h, before, heard)
    BY <1>8, <2>1, <2>2, <2>6, FundsOfMore
  <2> QED BY <2>3, <2>5, <2>6, <2>7 DEF HasFunds
<1>17. HasFunds(n, tx', wallet'[n], Heard(mempool'[n], new, txn'))
  <2>1. old \cup new \subseteq Nat /\ \A b \in old \cup new : b \in 0 .. k /\ b \in Block
    BY <1>12, <1>13, <1>14
  <2>2. \A b \in old \cup new : txn'[b] \in Seq(DOMAIN h)
    BY <1>4, <2>1, BlocksHoldTransactions
  <2>3. \A b \in old \cup new : Indexed(b, h, block', txn', utxos')
    BY <1>7, <1>13, <2>1
  <2>4. MovesTo(old, new, tip, block')
    BY <1>12, <1>13
  <2> QED BY <1>5, <1>8, <1>15, <1>16, <2>1, <2>2, <2>3, <2>4, FollowKeepsFunds
<1>18. \A m \in Node \ {n} : wallet'[m] = wallet[m] /\ mempool'[m] = mempool[m]
  BY <1>6 DEF Settled
<1> QED BY <1>3, <1>8, <1>10, <1>11, <1>17, <1>18

(* A node that receives a block has its money. *)
LEMMA ReceiveKeepsFunds ==
    ASSUME FundsInv, NEW n \in Node, NEW x \in Block, LedgerReceive(n, x)
    PROVE  /\ IndexInv' /\ Extends(tx', tx)
           /\ \A m \in Node \ {n} : wallet'[m] = wallet[m] /\ mempool'[m] = mempool[m]
           /\ \A b \in 0 .. mined : txn'[b] = txn[b]
           /\ HasFunds(n, tx', wallet'[n],
                       Heard(mempool'[n], block'[mainBranch'[n]].chain, txn'))
<1>1. TypedInv /\ Typed /\ IInv /\ IndexInv /\ NoFundsLost /\ Receive(n, x)
  BY DEF FundsInv, TypedInv, LedgerInv, LedgerReceive
<1>2. PICK h, w, pool, old, new :
         /\ h = tx /\ w = wallet[n] /\ pool = mempool[n]
         /\ old = block'[mainBranch[n]].chain /\ new = block'[mainBranch'[n]].chain
  OBVIOUS
<1>3. /\ IInv' /\ UNCHANGED <<mined, block, txn, utxos>>
      /\ \E off, r, q, blk, u : Follows(n, h, w, pool, old, new, off, r, q, blk, u)
  BY <1>1, <1>2, ReceiveKeepsTyped
<1>4. PICK off, r, q, blk, u : Follows(n, h, w, pool, old, new, off, r, q, blk, u)
  BY <1>3
<1>5. Settled(n, h, PoolAfter(pool, old \ new, new \ old), u[Len(q)])
  BY <1>4 DEF Follows
<1>6. /\ History(h) /\ Extends(tx', h) /\ w \in Wallets(DOMAIN h) /\ pool \subseteq DOMAIN h
      /\ TypedBlocks(txn', utxos', mined', h)
  BY <1>1, <1>2, <1>3, <1>5 DEF Typed, Settled
<1>7. \A b \in 0 .. mined' : Indexed(b, h, block', txn', utxos')
  BY <1>1, <1>2, <1>3 DEF IndexInv
<1>8. TypedInv'
  BY <1>1, StepKeepsTyped DEF LedgerNext
<1>9. IndexInv'
  BY <1>6, <1>7, <1>8, IndexIsEnough
<1>10. /\ MovesTo(old, new, mainBranch'[n], block')
       /\ old = block[mainBranch[n]].chain
       /\ old \subseteq 0 .. mined /\ old \cup new \subseteq 0 .. mined'
  BY <1>1, <1>2, <1>3, MainBranchMoves
<1>11. PICK tip, k : tip = mainBranch'[n] /\ k = mined'
  OBVIOUS
<1>12. k \in Nat /\ 0 .. k \subseteq Block
  BY <1>3, <1>11, MinedTreeWillBe
<1>13. HasFunds(n, h, w, Heard(pool, old, txn'))
  BY <1>1, <1>2, <1>3, <1>10 DEF NoFundsLost, HasFunds, Heard, OnChain
<1>14. HasFunds(n, tx', wallet'[n], Heard(mempool'[n], new, txn'))
  <2>1. old \cup new \subseteq Nat /\ \A b \in old \cup new : b \in 0 .. k /\ b \in Block
    BY <1>10, <1>11, <1>12
  <2>2. \A b \in old \cup new : txn'[b] \in Seq(DOMAIN h)
    BY <1>6, <2>1, BlocksHoldTransactions
  <2>3. \A b \in old \cup new : Indexed(b, h, block', txn', utxos')
    BY <1>7, <1>11, <2>1
  <2>4. MovesTo(old, new, tip, block')
    BY <1>10, <1>11
  <2> QED BY <1>4, <1>6, <1>13, <2>1, <2>2, <2>3, <2>4, FollowKeepsFunds
<1>15. \A m \in Node \ {n} : wallet'[m] = wallet[m] /\ mempool'[m] = mempool[m]
  BY <1>5 DEF Settled
<1> QED BY <1>2, <1>3, <1>6, <1>9, <1>14, <1>15

(* A node that only makes a payment, or hears of one, has its money. *)
LEMMA GenerateKeepsFunds ==
    ASSUME FundsInv, NEW n \in Node, Generate(n)
    PROVE  /\ Extends(tx', tx)
           /\ \A m \in Node \ {n} : wallet'[m] = wallet[m] /\ mempool'[m] = mempool[m]
           /\ HasFunds(n, tx', wallet'[n],
                       Heard(mempool'[n], block'[mainBranch'[n]].chain, txn'))
<1>1. TypedInv /\ Typed /\ NoFundsLost /\ UNCHANGED <<vars, txn, utxos>>
  BY DEF FundsInv, TypedInv, Generate
<1>2. PICK h, left, z, C : /\ h = tx /\ left = mempool[n] /\ z = wallet[n]
                           /\ C = block[mainBranch[n]].chain
  OBVIOUS
<1>3. Settled(n, h, left, z)
  BY <1>1, <1>2, GenerateSettles
<1>4. PICK heard, next : heard = Heard(left, C, txn) /\ next = Heard(mempool'[n], C, txn)
  OBVIOUS
<1>5. HasFunds(n, h, z, heard) /\ heard \subseteq DOMAIN h
  BY <1>1, <1>2, <1>4, HeardIsKnown DEF NoFundsLost, HasFunds, Heard, OnChain
<1>6. \A t : t \in next <=> t \in heard \/ t \in DOMAIN tx' \ DOMAIN h
  BY <1>3, <1>4 DEF Settled, Heard
<1>7. Extends(tx', h)
  BY <1>3 DEF Settled
<1>8. ASSUME NEW t \in next, n \in tx'[t].pays
      PROVE  t \in DOMAIN wallet'[n] \/ \E u \in next : t \in tx'[u].spends[n]
  <2>1. CASE t \in DOMAIN tx' \ DOMAIN h
    BY <1>3, <2>1 DEF Settled, NewPayment
  <2>2. CASE t \in heard
    <3>1. t \in DOMAIN z \/ \E u \in heard : t \in tx'[u].spends[n]
      BY <1>5, <1>7, <1>8, <2>2 DEF HasFunds, Extends
    <3>2. CASE t \in DOMAIN z
      BY <1>3, <1>6, <3>2 DEF Settled
    <3> QED BY <1>6, <3>1, <3>2
  <2> QED BY <1>6, <1>8, <2>1, <2>2
<1>9. HasFunds(n, tx', wallet'[n], next)
  BY <1>8 DEF HasFunds
<1>10. next = Heard(mempool'[n], block'[mainBranch'[n]].chain, txn')
  BY <1>1, <1>2, <1>4 DEF vars
<1>11. \A m \in Node \ {n} : wallet'[m] = wallet[m] /\ mempool'[m] = mempool[m]
  BY <1>3 DEF Settled
<1> QED BY <1>2, <1>7, <1>9, <1>10, <1>11

(* The same for a transaction that it receives. *)
LEMMA ReceiveTxKeepsFunds ==
    ASSUME FundsInv, NEW n \in Node, NEW t \in DOMAIN tx, ReceiveTx(n, t)
    PROVE  /\ \A m \in Node \ {n} : wallet'[m] = wallet[m] /\ mempool'[m] = mempool[m]
           /\ HasFunds(n, tx', wallet'[n],
                       Heard(mempool'[n], block'[mainBranch'[n]].chain, txn'))
<1>1. /\ TypedInv /\ Typed /\ NodesHold /\ NoFundsLost
      /\ UNCHANGED <<vars, txn, utxos, tx>>
      /\ mempool' = [mempool EXCEPT ![n] = @ \cup {t}]
      /\ wallet' = [wallet EXCEPT ![n] = Added(tx, @, t, n)]
  BY DEF FundsInv, TypedInv, Typed, ReceiveTx
<1>2. PICK h, z, C : h = tx /\ z = wallet[n] /\ C = block[mainBranch[n]].chain
  OBVIOUS
<1>3. /\ mempool'[n] = mempool[n] \cup {t} /\ wallet'[n] = Added(h, z, t, n)
      /\ \A m \in Node \ {n} : wallet'[m] = wallet[m] /\ mempool'[m] = mempool[m]
  BY <1>1, <1>2 DEF NodesHold, PerNode
<1>4. PICK heard, next : heard = Heard(mempool[n], C, txn) /\ next = Heard(mempool'[n], C, txn)
  OBVIOUS
<1>5. HasFunds(n, h, z, heard)
  BY <1>1, <1>2, <1>4 DEF NoFundsLost, HasFunds, Heard, OnChain
<1>6. \A u : u \in next <=> u \in heard \/ u = t
  BY <1>3, <1>4 DEF Heard
<1>7. PICK v : v = wallet'[n] /\ DOMAIN v = (DOMAIN z \cup Paid(h, t, n)) \ h[t].spends[n]
  BY <1>3 DEF Added
<1>8. HasFunds(n, h, v, next)
  BY <1>5, <1>6, <1>7 DEF HasFunds, Paid
<1>9. next = Heard(mempool'[n], block'[mainBranch'[n]].chain, txn')
  BY <1>1, <1>2, <1>4 DEF vars
<1> QED BY <1>1, <1>2, <1>3, <1>7, <1>8, <1>9

(* With the genesis block, the wallets have the starting balances. *)
LEMMA InitHasFunds == LedgerInit => FundsInv
<1> SUFFICES ASSUME LedgerInit PROVE FundsInv
  OBVIOUS
<1>1. TypedInv /\ mined = 0 /\ 0 \in Block
  BY InitIsTyped, MaxBlockAssumption DEF LedgerInit, Init, Genesis, Block
<1>2. /\ block[0].chain = {0} /\ \A n \in Node : mainBranch[n] = 0
  BY <1>1 DEF LedgerInit, Init, Genesis
<1>3. txn[0] = <<1>> /\ ToSet(txn[0]) = {1}
  BY <1>1 DEF LedgerInit, Genesis, ToSet
<1>4. \A n \in Node : /\ utxos[0][n] = Paid(tx, 1, n) /\ mempool[n] = {}
                      /\ DOMAIN wallet[n] = Paid(tx, 1, n)
  BY <1>1 DEF LedgerInit, Genesis
<1>5. \A t : InBlocks(t, block[0].chain, txn) <=> t = 1
  BY <1>2, <1>3 DEF InBlocks
<1>6. Indexed(0, tx, block, txn, utxos)
  BY <1>2, <1>4, <1>5 DEF Indexed, Paid
<1>7. IndexInv
  BY <1>1, <1>6 DEF IndexInv
<1>8. \A n \in Node : \A t : t \in mempool[n] \cup OnChain(n) <=> t = 1
  BY <1>2, <1>3, <1>4 DEF OnChain
<1>9. NoFundsLost
  BY <1>4, <1>8 DEF NoFundsLost, Paid
<1> QED BY <1>1, <1>7, <1>9 DEF FundsInv

(* Every step leaves every node its money. *)
LEMMA StepKeepsFunds == FundsInv /\ [LedgerNext]_ledgerVars => FundsInv'
<1> SUFFICES ASSUME FundsInv, [LedgerNext]_ledgerVars PROVE FundsInv'
  OBVIOUS
<1>1. TypedInv /\ TypedInv' /\ IInv
  BY StepKeepsTyped DEF FundsInv, TypedInv, LedgerInv
<1>2. ASSUME NEW n \in Node, Mine(n) \/ \E b \in Block : Receive(n, b),
             Extends(tx', tx),
             \A m \in Node \ {n} : wallet'[m] = wallet[m] /\ mempool'[m] = mempool[m],
             \A b \in 0 .. mined : txn'[b] = txn[b],
             HasFunds(n, tx', wallet'[n],
                      Heard(mempool'[n], block'[mainBranch'[n]].chain, txn'))
      PROVE  NoFundsLost'
  <2>1. /\ \A b \in 0 .. mined : block'[b] = block[b]
        /\ \A m \in Node \ {n} : mainBranch'[m] = mainBranch[m]
    BY <1>1, <1>2, StepOfOneNode
  <2>2. ASSUME NEW m \in Node
        PROVE  HasFunds(m, tx', wallet'[m],
                        Heard(mempool'[m], block'[mainBranch'[m]].chain, txn'))
    <3>1. CASE m # n
      BY <1>2, <2>1, <3>1, OthersKeepFunds
    <3> QED BY <1>2, <3>1
  <2> QED BY <2>2, FundsAreEnough
<1>3. ASSUME NEW n \in Node, UNCHANGED <<vars, txn, utxos>>, Extends(tx', tx),
             \A m \in Node \ {n} : wallet'[m] = wallet[m] /\ mempool'[m] = mempool[m],
             HasFunds(n, tx', wallet'[n],
                      Heard(mempool'[n], block'[mainBranch'[n]].chain, txn'))
      PROVE  NoFundsLost'
  <2>1. ASSUME NEW m \in Node
        PROVE  HasFunds(m, tx', wallet'[m],
                        Heard(mempool'[m], block'[mainBranch'[m]].chain, txn'))
    <3>1. CASE m # n
      BY <1>3, <3>1, OthersKeepFunds DEF vars
    <3> QED BY <1>3, <3>1
  <2> QED BY <2>1, FundsAreEnough
<1>4. ASSUME UNCHANGED <<vars, txn, utxos>>, Extends(tx', tx) PROVE IndexInv'
  <2>1. PICK B, in, index, g, k :
           B = block /\ in = txn /\ index = utxos /\ g = tx' /\ k = mined
    OBVIOUS
  <2>2. /\ block' = B /\ txn' = in /\ utxos' = index /\ mined' = k
        /\ TypedBlocks(in, index, k, tx)
    BY <1>1, <1>4, <2>1 DEF vars, TypedInv, Typed
  <2>3. ASSUME NEW b \in 0 .. k PROVE Indexed(b, g, B, in, index)
    <3>1. \A a \in B[b].chain : ToSet(in[a]) \subseteq DOMAIN tx
      BY <1>1, <2>1, <2>2, <2>3, ChainsAreMined, BlocksHoldTransactions
    <3>2. PICK h : h = tx
      OBVIOUS
    <3>3. Indexed(b, h, B, in, index)
      BY <2>1, <2>3, <3>2 DEF FundsInv, IndexInv
    <3> QED BY <1>4, <2>1, <3>1, <3>2, <3>3, IndexedOfMore
  <2> QED BY <2>1, <2>2, <2>3 DEF IndexInv, Indexed, InBlocks, ToSet
<1>5. ASSUME NEW n \in Miner, LedgerMine(n) PROVE FundsInv'
  <2>1. n \in Node /\ Mine(n)
    BY <1>5, NodeAssumption DEF LedgerMine
  <2> QED BY <1>1, <1>2, <1>5, <2>1, MineKeepsFunds DEF FundsInv
<1>6. ASSUME NEW n \in Node, NEW b \in Block, LedgerReceive(n, b) PROVE FundsInv'
  <2>1. Receive(n, b)
    BY <1>6 DEF LedgerReceive
  <2> QED BY <1>1, <1>2, <1>6, <2>1, ReceiveKeepsFunds DEF FundsInv
<1>7. ASSUME NEW n \in Generator, Generate(n) PROVE FundsInv'
  <2>1. n \in Node /\ UNCHANGED <<vars, txn, utxos>>
    BY <1>7, GeneratorAssumption DEF Generate
  <2> QED BY <1>1, <1>3, <1>4, <1>7, <2>1, GenerateKeepsFunds DEF FundsInv
<1>8. ASSUME NEW n \in Node, NEW t \in DOMAIN tx, ReceiveTx(n, t) PROVE FundsInv'
  <2>1. UNCHANGED <<vars, txn, utxos>> /\ Extends(tx', tx)
    BY <1>8, ExtendsItself DEF ReceiveTx
  <2> QED BY <1>1, <1>3, <1>4, <1>8, <2>1, ReceiveTxKeepsFunds DEF FundsInv
<1>9. CASE UNCHANGED ledgerVars
  <2>1. UNCHANGED <<vars, txn, utxos, tx, mempool, wallet>> /\ Extends(tx', tx)
    BY <1>9, ExtendsItself DEF ledgerVars, moneyVars
  <2>2. NoFundsLost'
    BY <2>1 DEF FundsInv, NoFundsLost, OnChain, vars, ToSet
  <2> QED BY <1>1, <1>4, <2>1, <2>2 DEF FundsInv
<1> QED
  BY <1>5, <1>6, <1>7, <1>8, <1>9 DEF LedgerNext, LedgerTimeLimit

(* No money is lost, for any network: what a node was paid by any          *)
(* transaction it has heard of is in its wallet, or spent by another,      *)
(* however main branches are swapped and the callback interleaves.         *)
THEOREM FundsAreNeverLost == LedgerSpec => []NoFundsLost
<1>1. LedgerInit => FundsInv
  BY InitHasFunds
<1>2. FundsInv /\ [LedgerNext]_ledgerVars => FundsInv'
  BY StepKeepsFunds
<1>3. FundsInv => NoFundsLost
  BY DEF FundsInv
<1> QED BY <1>1, <1>2, <1>3, PTL DEF LedgerSpec

-----------------------------------------------------------------------------
(* The blocks of C that confirm the output t of node n. *)
Confirming(t, C, index, n) == {b \in C : t \in index[b][n]}

(* The outputs of the genesis block start with those of maturity. *)
Bonus(t) == IF t = 1 THEN CoinbaseMaturity - 1 ELSE 0

(* w counts at most one confirmation for each of the blocks C. *)
Bounded(n, w, C, index) ==
    \A t : /\ Count(w, t) \in Nat
           /\ Count(w, t) <= Cardinality(Confirming(t, C, index, n)) + Bonus(t)

(* Only the genesis block gives a bonus. *)
LEMMA BonusIs == \A t : Bonus(t) \in Nat /\ (t # 1 => Bonus(t) = 0)
  BY MaturityAssumption DEF Bonus

(* A wallet that counts no more is as bounded. *)
LEMMA UnderBounded ==
    ASSUME NEW n, NEW w, NEW v, Under(v, w), NEW C, IsFiniteSet(C), NEW index,
           Bounded(n, w, C, index)
    PROVE  Bounded(n, v, C, index)
<1>1. ASSUME NEW t
      PROVE  /\ Count(v, t) \in Nat
             /\ Count(v, t) <= Cardinality(Confirming(t, C, index, n)) + Bonus(t)
  <2>1. PICK a \in Nat, b \in Nat : a = Count(v, t) /\ b = Count(w, t) /\ a <= b
    BY DEF Under
  <2>2. IsFiniteSet(Confirming(t, C, index, n))
    BY FS_Subset DEF Confirming
  <2>3. PICK c \in Nat, d \in Nat : c = Cardinality(Confirming(t, C, index, n)) /\ d = Bonus(t)
    BY <2>2, BonusIs, FS_CardinalityType
  <2>4. b <= c + d
    BY <2>1, <2>3 DEF Bounded
  <2> QED BY <2>1, <2>3, <2>4
<1> QED BY <1>1 DEF Bounded

(* A block that leaves the main branch takes back the confirmations that   *)
(* it gave.                                                                *)
LEMMA LeavingBounded ==
    ASSUME NEW n, NEW h, NEW w \in Wallets(DOMAIN h), NEW old, NEW new,
           NEW off, NEW r, Leaving(n, h, w, old, new, off, r),
           IsFiniteSet(old), old \subseteq Nat,
           \A b \in old \ new : txn'[b] \in Seq(DOMAIN h),
           Bounded(n, w, old, utxos')
    PROVE  Bounded(n, r[Len(off)], old \cap new, utxos')
<1>1. PICK X, D : X = DOMAIN h /\ D = old \ new
  OBVIOUS
<1>2. PICK N \in Nat : N = Len(off) /\ off \in Seq(D)
  BY <1>1 DEF Leaving, Lists
<1>3. /\ r \in [0 .. N -> Wallets(X)] /\ Reverts(r, h, w, off, n)
      /\ \A i \in 1 .. N : off[i] \in D /\ off[i] \in Nat
      /\ \A b \in D : \E i \in 1 .. N : off[i] = b
      /\ \A i, j \in 1 .. N : i < j => off[i] > off[j]
  <2>1. /\ r \in [0 .. N -> Wallets(X)] /\ Reverts(r, h, w, off, n)
        /\ \A i, j \in 1 .. N : i < j => off[i] > off[j]
    BY <1>1, <1>2 DEF Leaving
  <2>2. \A b \in D : \E i \in 1 .. N : off[i] = b
    BY <1>1, <1>2 DEF Leaving, Lists
  <2>3. \A i \in 1 .. N : off[i] \in D
    BY <1>2
  <2>4. \A b \in D : b \in Nat
    BY <1>1
  <2> QED BY <2>1, <2>2, <2>3, <2>4
<1>4. ASSUME NEW t
      PROVE  /\ Count(r[N], t) \in Nat
             /\ Count(r[N], t) <=
                   Cardinality(Confirming(t, old \cap new, utxos', n)) + Bonus(t)
  <2> DEFINE S(i) == {b \in old : t \in utxos'[b][n] /\ \A j \in 1 .. i : off[j] # b}
             T == {i \in 0 .. N : /\ Count(r[i], t) \in Nat
                                  /\ Count(r[i], t) <= Cardinality(S(i)) + Bonus(t)}
  <2>1. \A i : IsFiniteSet(S(i)) /\ Cardinality(S(i)) \in Nat
    <3>1. \A i : S(i) \in SUBSET old
      OBVIOUS
    <3> HIDE DEF S
    <3> QED BY <3>1, FS_Subset, FS_CardinalityType
  <2>2. 0 \in T
    <3>1. S(0) = Confirming(t, old, utxos', n) /\ r[0] = w
      BY <1>3 DEF Confirming, Reverts
    <3> HIDE DEF S
    <3> QED BY <1>2, <3>1 DEF Bounded
  <2>3. ASSUME NEW i \in Nat, i < N, i \in T PROVE i + 1 \in T
    <3>1. /\ i \in 0 .. N /\ i + 1 \in 0 .. N /\ i + 1 \in 1 .. N
          /\ (i + 1) - 1 = i
          /\ \A j \in 1 .. i : j \in 1 .. N /\ j < i + 1
          /\ \A j : j \in 1 .. i + 1 <=> j \in 1 .. i \/ j = i + 1
      BY <2>3
    <3>2. PICK k \in 1 .. N : k = i + 1
      BY <3>1
    <3>3. PICK y, v, b : y = r[i] /\ v = r[k] /\ b = off[k]
      OBVIOUS
    <3>4. y \in Wallets(X) /\ b \in D /\ b \in Nat /\ v = Reverted(h, y, b, n)
      BY <1>2, <1>3, <3>1, <3>2, <3>3 DEF Reverts
    <3>5. AfterReverting(v, y, h, utxos'[b][n], ToSet(txn'[b]), n)
      BY <1>1, <3>4, RevertedWallet
    <3>6. PICK A, B : A = S(i) /\ B = S(k)
      OBVIOUS
    <3>7. B = A \ {b}
      BY <3>1, <3>2, <3>3, <3>6
    <3>8. t \in utxos'[b][n] => b \in A
      <4>1. \A j \in 1 .. i : off[j] # b
        BY <1>3, <3>1, <3>2, <3>3
      <4>2. b \in old
        BY <1>1, <3>4
      <4> QED BY <3>6, <4>1, <4>2
    <3>9. t \notin utxos'[b][n] => b \notin A
      BY <3>6
    <3>10. PICK a \in Nat, c \in Nat, d \in Nat :
              a = Cardinality(A) /\ c = Cardinality(B) /\ d = Bonus(t)
      BY <2>1, <3>6, BonusIs
    <3>11. c = IF b \in A THEN a - 1 ELSE a
      <4>1. IsFiniteSet(A)
        BY <2>1, <3>6
      <4> QED BY <3>7, <3>10, <4>1, FS_RemoveElement
    <3>12. PICK e \in Nat, f \in Nat : e = Count(y, t) /\ f = Count(v, t)
      BY <3>5 DEF AfterReverting
    <3>13. /\ f <= e /\ (t \in utxos'[b][n] => f = 0 \/ f + 1 <= e)
           /\ e <= a + d
      BY <2>3, <3>3, <3>5, <3>6, <3>10, <3>12 DEF AfterReverting
    <3>14. f <= c + d
      <4>1. CASE b \in A
        BY <3>9, <3>10, <3>11, <3>12, <3>13, <4>1
      <4>2. CASE b \notin A
        BY <3>10, <3>11, <3>12, <3>13, <4>2
      <4> QED BY <4>1, <4>2
    <3>15. Count(r[k], t) \in Nat /\ Count(r[k], t) <= Cardinality(S(k)) + Bonus(t)
      <4> HIDE DEF S
      <4> QED BY <3>3, <3>6, <3>10, <3>12, <3>14
    <3> HIDE DEF S
    <3> QED BY <3>1, <3>2, <3>15
  <2>4. N \in T
    <3> HIDE DEF T
    <3>1. \A i \in 0 .. N : i \in T
      BY <1>2, <2>2, <2>3, InductionUpTo
    <3> QED BY <1>2, <3>1
  <2>5. S(N) = Confirming(t, old \cap new, utxos', n)
    BY <1>1, <1>3 DEF Confirming
  <2> HIDE DEF S
  <2> QED BY <2>4, <2>5
<1> QED BY <1>2, <1>4 DEF Bounded

(* A block that joins confirms an output once. *)
LEMMA JoiningBounded ==
    ASSUME NEW n, NEW h, NEW start, NEW old, NEW new, NEW q, NEW blk, NEW u,
           Joining(n, h, start, old, new, q, blk, u), IsFiniteSet(new),
           Bounded(n, start, old \cap new, utxos')
    PROVE  Bounded(n, u[Len(q)], new, utxos')
<1>1. PICK X, N : X = DOMAIN h /\ N = Len(q)
  OBVIOUS
<1>2. /\ N \in Nat /\ \A i \in 1 .. N : q[i] \in X
      /\ u \in [0 .. N -> Wallets(X)] /\ Confirms(u, start, q)
      /\ \A j \in 1 .. N : blk[j] \in new \ old /\ q[j] \in utxos'[blk[j]][n]
      /\ \A i, j \in 1 .. N : q[i] = q[j] /\ blk[i] = blk[j] => i = j
  BY <1>1 DEF Joining, ComesFrom
<1>3. ASSUME NEW t
      PROVE  /\ Count(u[N], t) \in Nat
             /\ Count(u[N], t) <= Cardinality(Confirming(t, new, utxos', n)) + Bonus(t)
  <2> DEFINE S(i) == {b \in new : \/ b \in old /\ t \in utxos'[b][n]
                                  \/ \E j \in 1 .. i : q[j] = t /\ blk[j] = b}
             T == {i \in 0 .. N : /\ Count(u[i], t) \in Nat
                                  /\ Count(u[i], t) <= Cardinality(S(i)) + Bonus(t)}
  <2>1. \A i : IsFiniteSet(S(i)) /\ Cardinality(S(i)) \in Nat
    <3>1. \A i : S(i) \in SUBSET new
      OBVIOUS
    <3> HIDE DEF S
    <3> QED BY <3>1, FS_Subset, FS_CardinalityType
  <2>2. 0 \in T
    <3>1. S(0) = Confirming(t, old \cap new, utxos', n) /\ u[0] = start
      BY <1>2 DEF Confirming, Confirms
    <3> HIDE DEF S
    <3> QED BY <1>2, <3>1 DEF Bounded
  <2>3. ASSUME NEW i \in Nat, i < N, i \in T PROVE i + 1 \in T
    <3>1. /\ i \in 0 .. N /\ i + 1 \in 0 .. N /\ i + 1 \in 1 .. N
          /\ (i + 1) - 1 = i
          /\ \A j \in 1 .. i : j \in 1 .. N /\ j # i + 1
          /\ \A j : j \in 1 .. i + 1 <=> j \in 1 .. i \/ j = i + 1
      BY <1>2, <2>3
    <3>2. PICK k \in 1 .. N : k = i + 1
      BY <3>1
    <3>3. PICK y, v, x, b : y = u[i] /\ v = u[k] /\ x = q[k] /\ b = blk[k]
      OBVIOUS
    <3>4. /\ y \in Wallets(X) /\ x \in X /\ v = Confirmed(y, x)
          /\ b \in new \ old
      BY <1>1, <1>2, <3>1, <3>2, <3>3 DEF Confirms
    <3>5. PICK e \in Nat : e = Count(y, t) /\ Count(v, t) = IF t = x THEN e + 1 ELSE e
      BY <3>4, ConfirmedWallet
    <3>6. PICK A, B : A = S(i) /\ B = S(k)
      OBVIOUS
    <3>7. B = IF t = x THEN A \cup {b} ELSE A
      <4>1. \A z : z \in B <=> z \in A \/ (t = x /\ z = b)
        BY <3>1, <3>2, <3>3, <3>4, <3>6
      <4> QED BY <4>1
    <3>8. t = x => b \notin A
      <4>1. \A j \in 1 .. i : ~(q[j] = x /\ blk[j] = b)
        BY <1>2, <3>1, <3>2, <3>3
      <4> QED BY <3>4, <3>6, <4>1
    <3>9. PICK a \in Nat, c \in Nat, d \in Nat :
              a = Cardinality(A) /\ c = Cardinality(B) /\ d = Bonus(t)
      BY <2>1, <3>6, BonusIs
    <3>10. c = IF t = x THEN a + 1 ELSE a
      <4>1. IsFiniteSet(A)
        BY <2>1, <3>6
      <4> QED BY <3>7, <3>8, <3>9, <4>1, FS_AddElement
    <3>11. e <= a + d
      BY <2>3, <3>3, <3>5, <3>6, <3>9
    <3>12. Count(u[k], t) \in Nat /\ Count(u[k], t) <= Cardinality(S(k)) + Bonus(t)
      <4>1. PICK f : f = Count(v, t)
        OBVIOUS
      <4>2. f \in Nat /\ f <= c + d
        BY <3>5, <3>10, <3>11, <4>1
      <4> HIDE DEF S
      <4> QED BY <3>3, <3>6, <3>9, <4>1, <4>2
    <3> HIDE DEF S
    <3> QED BY <3>1, <3>2, <3>12
  <2>4. N \in T
    <3> HIDE DEF T
    <3>1. \A i \in 0 .. N : i \in T
      BY <1>2, <2>2, <2>3, InductionUpTo
    <3> QED BY <1>2, <3>1
  <2>5. S(N) \in SUBSET Confirming(t, new, utxos', n)
    BY <1>2 DEF Confirming
  <2>6. IsFiniteSet(Confirming(t, new, utxos', n))
    BY FS_Subset DEF Confirming
  <2>7. PICK a \in Nat, c \in Nat, d \in Nat :
           /\ a = Cardinality(S(N)) /\ d = Bonus(t)
           /\ c = Cardinality(Confirming(t, new, utxos', n)) /\ a <= c
    <3> HIDE DEF S
    <3> QED BY <2>1, <2>5, <2>6, BonusIs, FS_CardinalityType, FS_Subset
  <2>8. PICK f \in Nat : f = Count(u[N], t) /\ f <= a + d
    <3> HIDE DEF S
    <3> QED BY <2>4, <2>7
  <2> QED BY <2>7, <2>8
<1> QED BY <1>1, <1>3 DEF Bounded

(* The blocks of C from the first one up that contains t. *)
DepthIn(t, C, in) ==
    Cardinality({b \in C : \E a \in C : t \in ToSet(in[a]) /\ a <= b})

(* A block confirms an output only if the block that contains it lies      *)
(* below it.                                                               *)
LEMMA ConfirmedByDepth ==
    ASSUME NEW n \in Node, NEW C, IsFiniteSet(C), NEW h, NEW B, NEW in, NEW index,
           \A b \in C : Indexed(b, h, B, in, index) /\ B[b].chain \subseteq C, NEW t
    PROVE  /\ Cardinality(Confirming(t, C, index, n)) \in Nat
           /\ DepthIn(t, C, in) \in Nat
           /\ Cardinality(Confirming(t, C, index, n)) <= DepthIn(t, C, in)
<1>1. PICK S, D : /\ S = Confirming(t, C, index, n)
                  /\ D = {b \in C : \E a \in C : t \in ToSet(in[a]) /\ a <= b}
  OBVIOUS
<1>2. S \in SUBSET D
  <2>1. SUFFICES ASSUME NEW b \in S PROVE b \in D
    OBVIOUS
  <2>2. b \in C /\ t \in index[b][n]
    BY <1>1, <2>1 DEF Confirming
  <2>3. PICK a \in B[b].chain : t \in ToSet(in[a]) /\ a <= b
    BY <2>2 DEF Indexed, InBlocks
  <2> QED BY <1>1, <2>2, <2>3
<1>3. IsFiniteSet(D) /\ D \in SUBSET C
  BY <1>1, FS_Subset
<1> QED BY <1>1, <1>2, <1>3, FS_Subset, FS_CardinalityType DEF DepthIn

(* The main branch of a node. *)
LEMMA MainBranchIs ==
    IInv => \A n \in Node :
               /\ IsFiniteSet(block[mainBranch[n]].chain)
               /\ block[mainBranch[n]].chain \subseteq 0 .. mined
               /\ \A b \in block[mainBranch[n]].chain :
                     block[b].chain \subseteq block[mainBranch[n]].chain
<1> SUFFICES ASSUME IInv, NEW n \in Node
             PROVE  /\ IsFiniteSet(block[mainBranch[n]].chain)
                    /\ block[mainBranch[n]].chain \subseteq 0 .. mined
                    /\ \A b \in block[mainBranch[n]].chain :
                          block[b].chain \subseteq block[mainBranch[n]].chain
  OBVIOUS
<1>1. mined \in Nat /\ mainBranch[n] \in 0 .. mined /\ TreeOK(block, mined)
  BY MinedTreeIs
<1>2. PICK C, k : C = block[mainBranch[n]].chain /\ k = mined
  OBVIOUS
<1>3. C \subseteq 0 .. k /\ \A b \in C : block[b].chain \subseteq C
  BY <1>1, <1>2 DEF TreeOK
<1>4. IsFiniteSet(C)
  <2>1. IsFiniteSet(0 .. k)
    BY <1>1, <1>2, FS_Interval
  <2> QED BY <1>3, <2>1, FS_Subset
<1> QED BY <1>2, <1>3, <1>4

(* The same in the next state. *)
LEMMA MainBranchWillBe ==
    (IInv => \A n \in Node :
               /\ IsFiniteSet(block[mainBranch[n]].chain)
               /\ block[mainBranch[n]].chain \subseteq 0 .. mined
               /\ \A b \in block[mainBranch[n]].chain :
                     block[b].chain \subseteq block[mainBranch[n]].chain)'
  BY MainBranchIs, PTL

-----------------------------------------------------------------------------
Counted == \A n \in Node : Bounded(n, wallet[n], block[mainBranch[n]].chain, utxos)

CountedInv == FundsInv /\ Counted

(* What a step of node n counts: it goes by the wallet z, and only a       *)
(* coinbase is added to the transactions before it may pay.                *)
CountedStep(n, h, left, z) ==
    /\ Settled(n, h, left, z)
    /\ Extends(h, tx) /\ \A t \in DOMAIN h \ DOMAIN tx : h[t].coinbase
    /\ Bounded(n, z, block'[mainBranch'[n]].chain, utxos')
    /\ \A b \in 0 .. mined : block'[b] = block[b] /\ utxos'[b] = utxos[b]
    /\ \A m \in Node \ {n} : mainBranch'[m] = mainBranch[m]

(* The payments that a step makes spend no young coinbase. *)
PaysMature ==
    \A u \in Payments(tx') \ Payments(tx) : \A n \in Node :
        \A t \in tx'[u].spends[n] \ {1} :
            tx'[t].coinbase => Depth(n, t)' >= CoinbaseMaturity

(* Following the main branch, a node counts as many as its blocks give. *)
LEMMA FollowBounded ==
    ASSUME NEW n \in Node, NEW h, NEW w \in Wallets(DOMAIN h), NEW pool,
           NEW old, NEW new, IsFiniteSet(old), IsFiniteSet(new), old \subseteq Nat,
           \A b \in old \ new : txn'[b] \in Seq(DOMAIN h),
           NEW off, NEW r, NEW q, NEW blk, NEW u,
           Follows(n, h, w, pool, old, new, off, r, q, blk, u),
           Bounded(n, w, old, utxos')
    PROVE  Bounded(n, u[Len(q)], new, utxos')
<1>1. PICK start : start = r[Len(off)]
  OBVIOUS
<1>2. Leaving(n, h, w, old, new, off, r) /\ Joining(n, h, start, old, new, q, blk, u)
  BY <1>1 DEF Follows
<1>3. Bounded(n, start, old \cap new, utxos')
  BY <1>1, <1>2, LeavingBounded
<1> QED BY <1>2, <1>3, JoiningBounded

(* A step that goes by such a wallet leaves the counts bounded, and pays   *)
(* with what is deep enough.                                               *)
LEMMA CountedStepKeeps ==
    ASSUME CountedInv, FundsInv', NEW n \in Node, NEW h, NEW left, NEW z,
           CountedStep(n, h, left, z)
    PROVE  Counted' /\ PaysMature
<1>1. IInv /\ IInv' /\ IndexInv'
  BY DEF CountedInv, FundsInv, TypedInv, LedgerInv
<1>2. PICK C : C = block'[mainBranch'[n]].chain
  OBVIOUS
<1>3. /\ IsFiniteSet(C) /\ C \subseteq 0 .. mined'
      /\ \A b \in C : block'[b].chain \subseteq C
  BY <1>1, <1>2, MainBranchWillBe
<1>4. Settled(n, h, left, z) /\ Bounded(n, z, C, utxos')
  BY <1>2 DEF CountedStep
<1>5. Counted'
  <2>1. ASSUME NEW m \in Node \ {n}
        PROVE  Bounded(m, wallet'[m], block'[mainBranch'[m]].chain, utxos')
    <3>1. PICK D : D = block[mainBranch[m]].chain
      OBVIOUS
    <3>2. mainBranch[m] \in 0 .. mined /\ D \subseteq 0 .. mined
      BY <1>1, <3>1, MinedTreeIs, MainBranchIs
    <3>3. block'[mainBranch'[m]].chain = D /\ wallet'[m] = wallet[m]
      BY <3>1, <3>2 DEF CountedStep, Settled
    <3>4. \A t : Confirming(t, D, utxos', m) = Confirming(t, D, utxos, m)
      BY <3>2 DEF CountedStep, Confirming
    <3>5. Bounded(m, wallet[m], D, utxos)
      BY <3>1 DEF CountedInv, Counted
    <3> QED BY <3>3, <3>4, <3>5 DEF Bounded
  <2>2. Bounded(n, wallet'[n], C, utxos')
    <3>1. Under(wallet'[n], z)
      BY <1>4 DEF Settled
    <3> QED BY <1>3, <1>4, <3>1, UnderBounded
  <2>3. \A m \in Node : Bounded(m, wallet'[m], block'[mainBranch'[m]].chain, utxos')
    BY <1>2, <2>1, <2>2
  <2> QED BY <2>3 DEF Counted, Bounded, Confirming, Bonus, Count
<1>6. PaysMature
  <2>1. SUFFICES ASSUME NEW u \in Payments(tx') \ Payments(tx), NEW m \in Node,
                        NEW t \in tx'[u].spends[m] \ {1}, tx'[t].coinbase
                 PROVE  Depth(m, t)' >= CoinbaseMaturity
    BY DEF PaysMature
  <2>2. u \in DOMAIN tx' \ DOMAIN h
    BY <1>4, <2>1 DEF Settled, CountedStep, Extends, Payments
  <2>3. /\ m = n /\ t \in DOMAIN h
        /\ h[t].coinbase => Count(z, t) >= CoinbaseMaturity
    BY <1>4, <2>1, <2>2 DEF Settled, NewPayment
  <2>4. Count(z, t) >= CoinbaseMaturity
    BY <1>4, <2>1, <2>3 DEF Settled, Extends
  <2>5. PICK g, B, in, index : g = tx' /\ B = block' /\ in = txn' /\ index = utxos'
    OBVIOUS
  <2>6. \A b \in C : Indexed(b, g, B, in, index) /\ B[b].chain \subseteq C
    BY <1>1, <1>3, <2>5 DEF IndexInv, Indexed, InBlocks, ToSet
  <2>7. PICK a \in Nat, d \in Nat :
           /\ a = Cardinality(Confirming(t, C, index, n)) /\ d = DepthIn(t, C, in)
           /\ a <= d
    BY <1>3, <2>6, ConfirmedByDepth
  <2>8. PICK c \in Nat : c = Count(z, t) /\ c <= a
    <3>1. Count(z, t) \in Nat /\ Count(z, t) <= a + Bonus(t)
      BY <1>4, <2>5, <2>7 DEF Bounded
    <3>2. Bonus(t) = 0
      BY <2>1, BonusIs
    <3> QED BY <2>7, <3>1, <3>2
  <2>9. Depth(m, t)' = d
    BY <1>2, <2>3, <2>5, <2>7 DEF Depth, DepthIn, ToSet
  <2> QED BY <2>4, <2>7, <2>8, <2>9, MaturityAssumption
<1> QED BY <1>5, <1>6

(* A node that mines goes by a bounded wallet. *)
LEMMA MineCounts ==
    ASSUME CountedInv, NEW n \in Miner, n \in Node, LedgerMine(n)
    PROVE  \E h, left, z : CountedStep(n, h, left, z)
<1>1. TypedInv /\ Typed /\ IInv /\ Mine(n)
  BY DEF CountedInv, FundsInv, TypedInv, LedgerInv, LedgerMine
<1>2. PICK h, c, taken, s : MinedOf(n, h, c, taken, s)
  BY <1>1, MinedIs
<1>3. PICK before, w, pool, old, new :
         /\ before = wallet[n] /\ w = Added(h, before, c, n)
         /\ pool = mempool[n] \cup {c}
         /\ old = block'[mainBranch[n]].chain /\ new = block'[mainBranch'[n]].chain
  OBVIOUS
<1>4. /\ IInv' /\ mined' = mined + 1 /\ TypedBlocks(txn', utxos', mined', h)
      /\ \E off, r, q, blk, u : Follows(n, h, w, pool, old, new, off, r, q, blk, u)
  BY <1>1, <1>2, <1>3, MineKeepsTyped
<1>5. PICK off, r, q, blk, u : Follows(n, h, w, pool, old, new, off, r, q, blk, u)
  BY <1>4
<1>6. PICK left, z : /\ left = PoolAfter(pool, old \ new, new \ old) /\ z = u[Len(q)]
                     /\ Settled(n, h, left, z)
  BY <1>5 DEF Follows
<1>7. /\ Extends(h, tx) /\ \A t \in DOMAIN h \ DOMAIN tx : h[t].coinbase
      /\ c \in DOMAIN h /\ w \in Wallets(DOMAIN h) /\ before \in Wallets(DOMAIN h)
  <2>1. /\ Extends(h, tx) /\ h[c] = CoinbaseTx({n})
        /\ \A t : t \in DOMAIN h <=> t \in DOMAIN tx \/ t = c
        /\ w \in Wallets(DOMAIN h)
    BY <1>2, <1>3 DEF MinedOf
  <2>2. h[c].coinbase
    BY <2>1 DEF CoinbaseTx
  <2>3. PICK X, Y : X = DOMAIN tx /\ Y = DOMAIN h
    OBVIOUS
  <2>4. before \in Wallets(X) /\ X \subseteq Y
    BY <1>1, <1>3, <2>1, <2>3 DEF Typed
  <2>5. before \in Wallets(Y)
    BY <2>4, WalletsOfMore
  <2> QED BY <2>1, <2>2, <2>3, <2>5
<1>8. /\ \A b \in 0 .. mined : block'[b] = block[b] /\ utxos'[b] = utxos[b]
      /\ \A m \in Node \ {n} : mainBranch'[m] = mainBranch[m]
  <2>1. utxos' = [utxos EXCEPT ![mined'] = UpdatedUtxos(h, utxos[mainBranch[n]], s)]
    BY <1>2 DEF MinedOf
  <2>2. mined \in Nat /\ 0 .. mined \subseteq Block /\ DOMAIN utxos = Block
    BY <1>1, MinedTreeIs DEF Typed, TypedBlocks
  <2>3. \A b \in 0 .. mined : utxos'[b] = utxos[b]
    BY <1>4, <2>1, <2>2
  <2> QED BY <1>1, <2>3, StepOfOneNode
<1>9. /\ old = block[mainBranch[n]].chain
      /\ old \subseteq 0 .. mined /\ IsFiniteSet(old) /\ IsFiniteSet(new)
  <2>1. old = block[mainBranch[n]].chain /\ old \subseteq 0 .. mined
    BY <1>1, <1>3, <1>4, MainBranchMoves
  <2> QED BY <1>1, <1>3, <1>4, <2>1, MainBranchIs, MainBranchWillBe
<1>10. Bounded(n, w, old, utxos')
  <2>1. \A t : Confirming(t, old, utxos', n) = Confirming(t, old, utxos, n)
    BY <1>8, <1>9 DEF Confirming
  <2>2. Bounded(n, before, old, utxos)
    BY <1>3, <1>9 DEF CountedInv, Counted
  <2>3. Bounded(n, before, old, utxos')
    BY <2>1, <2>2 DEF Bounded
  <2>4. Under(w, before)
    BY <1>3, <1>7, AddedUnder
  <2>5. PICK index : index = utxos'
    OBVIOUS
  <2>6. Bounded(n, w, old, index)
    BY <1>9, <2>3, <2>4, <2>5, UnderBounded
  <2> QED BY <2>5, <2>6
<1>11. \A b \in old \ new : txn'[b] \in Seq(DOMAIN h)
  <2>1. \A b \in old : b \in Block
    BY <1>1, <1>9, MinedTreeIs
  <2> QED BY <1>4, <2>1, BlocksHoldTransactions
<1>12. Bounded(n, z, new, utxos')
  <2>1. old \subseteq Nat
    BY <1>9
  <2>2. Bounded(n, u[Len(q)], new, utxos')
    BY <1>5, <1>7, <1>9, <1>10, <1>11, <2>1, FollowBounded
  <2> QED BY <1>6, <2>2
<1> QED BY <1>3, <1>6, <1>7, <1>8, <1>12 DEF CountedStep

(* So does one that receives a block. *)
LEMMA ReceiveCounts ==
    ASSUME CountedInv, NEW n \in Node, NEW x \in Block, LedgerReceive(n, x)
    PROVE  \E h, left, z : CountedStep(n, h, left, z)
<1>1. TypedInv /\ Typed /\ IInv /\ Receive(n, x)
  BY DEF CountedInv, FundsInv, TypedInv, LedgerInv, LedgerReceive
<1>2. PICK h, w, pool, old, new :
         /\ h = tx /\ w = wallet[n] /\ pool = mempool[n]
         /\ old = block'[mainBranch[n]].chain /\ new = block'[mainBranch'[n]].chain
  OBVIOUS
<1>3. /\ IInv' /\ UNCHANGED <<mined, block, txn, utxos>>
      /\ \E off, r, q, blk, u : Follows(n, h, w, pool, old, new, off, r, q, blk, u)
  BY <1>1, <1>2, ReceiveKeepsTyped
<1>4. PICK off, r, q, blk, u : Follows(n, h, w, pool, old, new, off, r, q, blk, u)
  BY <1>3
<1>5. PICK left, z : /\ left = PoolAfter(pool, old \ new, new \ old) /\ z = u[Len(q)]
                     /\ Settled(n, h, left, z)
  BY <1>4 DEF Follows
<1>6. /\ Extends(h, tx) /\ \A t \in DOMAIN h \ DOMAIN tx : h[t].coinbase
      /\ w \in Wallets(DOMAIN h) /\ TypedBlocks(txn', utxos', mined', h)
  BY <1>1, <1>2, <1>3, ExtendsItself DEF Typed
<1>7. /\ \A b \in 0 .. mined : block'[b] = block[b] /\ utxos'[b] = utxos[b]
      /\ \A m \in Node \ {n} : mainBranch'[m] = mainBranch[m]
  BY <1>1, <1>3, StepOfOneNode
<1>8. /\ old = block[mainBranch[n]].chain
      /\ old \subseteq 0 .. mined /\ IsFiniteSet(old) /\ IsFiniteSet(new)
  <2>1. old = block[mainBranch[n]].chain /\ old \subseteq 0 .. mined
    BY <1>1, <1>2, <1>3, MainBranchMoves
  <2> QED BY <1>1, <1>2, <1>3, <2>1, MainBranchIs, MainBranchWillBe
<1>9. Bounded(n, w, old, utxos')
  BY <1>2, <1>3, <1>8 DEF CountedInv, Counted
<1>10. \A b \in old \ new : txn'[b] \in Seq(DOMAIN h)
  <2>1. \A b \in old : b \in Block
    BY <1>1, <1>8, MinedTreeIs
  <2> QED BY <1>6, <2>1, BlocksHoldTransactions
<1>11. Bounded(n, z, new, utxos')
  <2>1. old \subseteq Nat
    BY <1>8
  <2>2. Bounded(n, u[Len(q)], new, utxos')
    BY <1>4, <1>6, <1>8, <1>9, <1>10, <2>1, FollowBounded
  <2> QED BY <1>5, <2>2
<1> QED BY <1>2, <1>5, <1>6, <1>7, <1>11 DEF CountedStep

(* So does one whose timer goes off. *)
LEMMA GenerateCounts ==
    ASSUME CountedInv, NEW n \in Node, Generate(n)
    PROVE  CountedStep(n, tx, mempool[n], wallet[n])
<1>1. Typed /\ UNCHANGED <<vars, txn, utxos>>
  BY DEF CountedInv, FundsInv, TypedInv, Generate
<1>2. Settled(n, tx, mempool[n], wallet[n])
  BY <1>1, GenerateSettles
<1>3. UNCHANGED <<block, mainBranch, utxos>>
  BY <1>1 DEF vars
<1>4. Bounded(n, wallet[n], block'[mainBranch'[n]].chain, utxos')
  BY <1>3 DEF CountedInv, Counted
<1> QED BY <1>2, <1>3, <1>4, ExtendsItself DEF CountedStep

(* A transaction that a node hears of raises no count. *)
LEMMA ReceiveTxCounts ==
    ASSUME CountedInv, NEW n \in Node, NEW t \in DOMAIN tx, ReceiveTx(n, t)
    PROVE  Counted'
<1>1. /\ TypedInv /\ Typed /\ NodesHold /\ IInv /\ UNCHANGED <<vars, txn, utxos, tx>>
      /\ wallet' = [wallet EXCEPT ![n] = Added(tx, @, t, n)]
  BY DEF CountedInv, FundsInv, TypedInv, LedgerInv, Typed, ReceiveTx
<1>2. ASSUME NEW m \in Node
      PROVE  Bounded(m, wallet'[m], block[mainBranch[m]].chain, utxos)
  <2>1. PICK h, w, v, C : /\ h = tx /\ w = wallet[m] /\ v = wallet'[m]
                          /\ C = block[mainBranch[m]].chain
    OBVIOUS
  <2>2. w \in Wallets(DOMAIN h) /\ IsFiniteSet(C) /\ Bounded(m, w, C, utxos)
    BY <1>1, <2>1, MainBranchIs DEF Typed, CountedInv, Counted
  <2>3. v = w \/ v = Added(h, w, t, n)
    BY <1>1, <2>1 DEF NodesHold, PerNode
  <2>4. Under(w, w) /\ Under(Added(h, w, t, n), w)
    BY <2>1, <2>2, UnderItself, AddedUnder
  <2>5. Bounded(m, v, C, utxos)
    BY <2>2, <2>3, <2>4, UnderBounded
  <2> QED BY <2>1, <2>5
<1>3. UNCHANGED <<block, mainBranch, utxos>>
  BY <1>1 DEF vars
<1>4. \A m \in Node : Bounded(m, wallet'[m], block'[mainBranch'[m]].chain, utxos')
  BY <1>2, <1>3
<1> QED BY <1>4 DEF Counted, Bounded, Confirming, Bonus, Count

(* The starting balances are confirmed by the genesis block. *)
LEMMA InitIsCounted == LedgerInit => CountedInv
<1> SUFFICES ASSUME LedgerInit PROVE CountedInv
  OBVIOUS
<1>1. FundsInv /\ 0 \in Block
  BY InitHasFunds, MaxBlockAssumption DEF Block, Genesis
<1>2. ASSUME NEW n \in Node
      PROVE  Bounded(n, wallet[n], block[mainBranch[n]].chain, utxos)
  <2>1. PICK w, C : w = wallet[n] /\ C = block[mainBranch[n]].chain
    OBVIOUS
  <2>2. /\ C = {0} /\ utxos[0][n] = Paid(tx, 1, n)
        /\ w = [t \in Paid(tx, 1, n) |-> CoinbaseMaturity]
    BY <1>1, <2>1 DEF LedgerInit, Init, Genesis
  <2>3. ASSUME NEW t
        PROVE  /\ Count(w, t) \in Nat
               /\ Count(w, t) <= Cardinality(Confirming(t, C, utxos, n)) + Bonus(t)
    <3>1. PICK S : S = Confirming(t, C, utxos, n)
      OBVIOUS
    <3>2. CASE t \in Paid(tx, 1, n)
      <4>1. S = {0} /\ t = 1 /\ Count(w, t) = CoinbaseMaturity
        BY <2>2, <3>1, <3>2 DEF Confirming, Paid, Count
      <4>2. Cardinality(S) = 1 /\ Bonus(t) = CoinbaseMaturity - 1
        BY <4>1, FS_Singleton DEF Bonus
      <4> QED BY <3>1, <4>1, <4>2, MaturityAssumption
    <3>3. CASE t \notin Paid(tx, 1, n)
      <4>1. S = {} /\ Count(w, t) = 0
        BY <2>2, <3>1, <3>3 DEF Confirming, Count
      <4>2. Cardinality(S) = 0 /\ Bonus(t) \in Nat
        BY <4>1, FS_EmptySet, BonusIs
      <4> QED BY <3>1, <4>1, <4>2
    <3> QED BY <3>2, <3>3
  <2> QED BY <2>1, <2>3 DEF Bounded
<1> QED BY <1>1, <1>2 DEF CountedInv, Counted

(* Every step leaves the counts bounded, and pays with what is mature. *)
LEMMA StepKeepsCounted ==
    CountedInv /\ [LedgerNext]_ledgerVars =>
        CountedInv' /\ (PaysMature \/ UNCHANGED ledgerVars)
<1> SUFFICES ASSUME CountedInv, [LedgerNext]_ledgerVars
             PROVE  CountedInv' /\ (PaysMature \/ UNCHANGED ledgerVars)
  OBVIOUS
<1>1. FundsInv /\ FundsInv'
  BY StepKeepsFunds DEF CountedInv
<1>2. ASSUME NEW n \in Node, NEW h, NEW left, NEW z, CountedStep(n, h, left, z)
      PROVE  CountedInv' /\ PaysMature
  BY <1>1, <1>2, CountedStepKeeps DEF CountedInv
<1>3. ASSUME NEW n \in Miner, LedgerMine(n) PROVE CountedInv' /\ PaysMature
  <2>1. n \in Node
    BY NodeAssumption
  <2> QED BY <1>2, <1>3, <2>1, MineCounts
<1>4. ASSUME NEW n \in Node, NEW b \in Block, LedgerReceive(n, b)
      PROVE  CountedInv' /\ PaysMature
  BY <1>2, <1>4, ReceiveCounts
<1>5. ASSUME NEW n \in Generator, Generate(n) PROVE CountedInv' /\ PaysMature
  <2>1. n \in Node
    BY GeneratorAssumption
  <2> QED BY <1>2, <1>5, <2>1, GenerateCounts
<1>6. ASSUME NEW n \in Node, NEW t \in DOMAIN tx, ReceiveTx(n, t)
      PROVE  CountedInv' /\ PaysMature
  <2>1. Payments(tx') = Payments(tx)
    BY <1>6 DEF ReceiveTx
  <2> QED BY <1>1, <1>6, <2>1, ReceiveTxCounts DEF CountedInv, PaysMature
<1>7. CASE UNCHANGED ledgerVars
  <2>1. UNCHANGED <<wallet, block, mainBranch, utxos>>
    BY <1>7 DEF ledgerVars, moneyVars, vars
  <2>2. Counted'
    BY <2>1 DEF CountedInv, Counted, Bounded, Confirming, Bonus, Count
  <2> QED BY <1>1, <1>7, <2>2 DEF CountedInv
<1> QED
  BY <1>3, <1>4, <1>5, <1>6, <1>7 DEF LedgerNext, LedgerTimeLimit

(* So counts are bounded in every state. *)
LEMMA CountedInvariance == LedgerSpec => []CountedInv
  BY InitIsCounted, StepKeepsCounted, PTL DEF LedgerSpec

(* A wallet never counts more confirmations than the main branch gives,    *)
(* for any network: what a reorganisation takes back is taken in full, and *)
(* no block that returns is counted twice.                                 *)
THEOREM CountsAreCovered == LedgerSpec => []NeverOvercounts
<1>1. ASSUME CountedInv PROVE NeverOvercounts
  <2>1. IInv /\ IndexInv
    BY <1>1 DEF CountedInv, FundsInv, TypedInv, LedgerInv
  <2>2. ASSUME NEW n \in Node, NEW t \in DOMAIN wallet[n]
        PROVE  wallet[n][t] <= Depth(n, t) + Bonus(t)
    <3>1. PICK C, w : C = block[mainBranch[n]].chain /\ w = wallet[n]
      OBVIOUS
    <3>2. /\ IsFiniteSet(C) /\ C \subseteq 0 .. mined
          /\ \A b \in C : block[b].chain \subseteq C
      BY <2>1, <3>1, MainBranchIs
    <3>3. PICK h, B, in, index : h = tx /\ B = block /\ in = txn /\ index = utxos
      OBVIOUS
    <3>4. \A b \in C : Indexed(b, h, B, in, index) /\ B[b].chain \subseteq C
      BY <2>1, <3>2, <3>3 DEF IndexInv
    <3>5. PICK a \in Nat, d \in Nat, e \in Nat :
             /\ a = Cardinality(Confirming(t, C, index, n)) /\ d = DepthIn(t, C, in)
             /\ a <= d /\ e = Bonus(t)
      BY <3>2, <3>4, ConfirmedByDepth, BonusIs
    <3>6. PICK c \in Nat : c = Count(w, t) /\ c <= a + e
      BY <1>1, <3>1, <3>3, <3>5 DEF CountedInv, Counted, Bounded
    <3>7. w[t] = c /\ Depth(n, t) = d
      BY <2>2, <3>1, <3>3, <3>5, <3>6 DEF Count, Depth, DepthIn
    <3> QED BY <3>1, <3>5, <3>6, <3>7
  <2> QED BY <2>2 DEF NeverOvercounts, Bonus
<1>2. CountedInv => NeverOvercounts
  BY <1>1
<1> QED BY <1>2, CountedInvariance, PTL

(* No payment spends a coinbase before it is mature, for any network: it   *)
(* lies coinbaseMaturity deep in the main branch of the payer when the     *)
(* payment is made, even if it is made in the middle of a reorganisation.  *)
THEOREM CoinbasesMature == LedgerSpec => MaturityRespected
<1>1. CountedInv /\ [LedgerNext]_ledgerVars => [PaysMature]_ledgerVars
  BY StepKeepsCounted
<1>2. LedgerSpec => [][PaysMature]_ledgerVars
  BY <1>1, CountedInvariance, PTL DEF LedgerSpec
<1> QED BY <1>2 DEF MaturityRespected, PaysMature
=============================================================================
