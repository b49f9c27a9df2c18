---------------------- MODULE SelfishBCManager_proofs ----------------------
(***************************************************************************)
(* What holds of every network with selfish miners, whatever the number of *)
(* nodes and of blocks and the length at which private chains go out.  The *)
(* tree is kept as in BlockchainManager_proofs; blocks may now stay with   *)
(* the node that mined them, so BlockAccounting gives way to what is said  *)
(* here of the nodes that a block has reached.                             *)
(***************************************************************************)
EXTENDS SelfishBCManager, BlockchainManager_proofs, FiniteSetTheorems,
        WellFoundedInduction

(* A block that has left its miner has gone to all nodes. *)
SentToAll ==
    \A b \in 1 .. mined : \A n, m \in Node :
        (n # m /\ b \in Reached(n) /\ b \in Reached(m))
        => \A j \in Node : b \in Reached(j)

Undelivered == \A n \in Node : inFlight[n] \cap (Known(n) \cup orphans[n]) = {}

(* PrivateChainTopsMainBranch and DistanceIsLead of one node. *)
TopsMainBranch(n) ==
    \A x \in selfishChain[n] :
        /\ x \in block[mainBranch[n]].chain
        /\ \A y \in block[mainBranch[n]].chain :
              block[y].height >= block[x].height => y \in selfishChain[n]
        /\ \A m \in Node \ {n} : x \notin Reached(m)

Leads(n) ==
    IF selfishChain[n] = {}
    THEN selfishChainDistance[n] = 0
    ELSE /\ \A x \in Known(n) \ selfishChain[n] :
               block[x].height + selfishChainDistance[n]
                  <= block[mainBranch[n]].height
         /\ \E x \in Known(n) \ selfishChain[n] :
               block[x].height + selfishChainDistance[n]
                  = block[mainBranch[n]].height

PrivateTypeOK ==
    /\ selfishChain \in [Selfish -> SUBSET (1 .. mined)]
    /\ selfishChainDistance \in [Selfish -> Nat]

(* The inductive invariant. *)
SelfishInv ==
    /\ TreeInv
    /\ PrivateTypeOK
    /\ SentToAll
    /\ Undelivered
    /\ \A n \in Selfish : TopsMainBranch(n) /\ Leads(n)

-----------------------------------------------------------------------------
(* Facts about numbers and about the tree of a node.                       *)

(* Min() of FiniteSetsExt needs no finite set if there is nothing below 0. *)
LEMMA SmallestOfNats ==
    ASSUME NEW S, S \subseteq Nat, S # {}
    PROVE  Min(S) \in S /\ \A y \in S : Min(S) <= y
<1>1. PICK x \in S : \A y \in S : <<y, x>> \notin OpToRel(<, Nat)
  BY WFMin, NatLessThanWellFounded, Zenon
<1>2. \A y \in S : x <= y
  <2> SUFFICES ASSUME NEW y \in S PROVE ~(y < x)
    OBVIOUS
  <2>1. y < x => <<y, x>> \in OpToRel(<, Nat)
    BY Zenon DEF OpToRel
  <2> QED BY <1>1, <2>1, Zenon
<1> QED BY <1>1, <1>2 DEF Min

LEMMA SelfishAreNodes == Selfish \subseteq Node
  BY SelfishAssumption, NodeAssumption

(* No block is higher than the highest of the heads that lead to it. *)
LEMMA LinkedBelowHighest ==
    ASSUME NEW B \in Heap, NEW k \in Nat, 0 .. k \subseteq Block, TreeOK(B, k),
           NEW H \in SUBSET (0 .. k), NEW m, Highest(B, H, m),
           NEW x \in Linked(B, H)
    PROVE  B[x].height \in Nat /\ B[x].height <= B[m].height
<1>1. PICK h \in H : x \in B[h].chain
  BY DEF Linked
<1>2. h \in 0 .. k /\ m \in 0 .. k /\ x \in 0 .. k
  BY <1>1 DEF Highest, TreeOK
<1>3. \A y \in 0 .. k : B[y].height \in Nat
  BY DEF Heap
<1>4. B[x].height <= B[h].height
  BY <1>1, <1>2, <1>3 DEF TreeOK
<1>5. B[h].height <= B[m].height
  BY <1>1 DEF Highest
<1> QED BY <1>2, <1>3, <1>4, <1>5

(* What a node knows was mined, and its main branch is part of it. *)
LEMMA KnownTree ==
    ASSUME TreeInv, NEW n \in Node
    PROVE  /\ mined \in Nat
           /\ mainBranch[n] \in 0 .. mined
           /\ mainBranch[n] \in Known(n)
           /\ mainBranch[n] \in block[mainBranch[n]].chain
           /\ block[mainBranch[n]].height \in Nat
           /\ block[mainBranch[n]].chain \subseteq Known(n)
           /\ \A x \in Known(n) :
                 /\ x \in 0 .. mined
                 /\ block[x].height \in Nat
                 /\ block[x].height <= block[mainBranch[n]].height
           /\ \A x \in Known(n) : x # Genesis => block[x].prev \in Known(n)
           /\ Reached(n) \subseteq 0 .. mined
<1>1. /\ mined \in Nat /\ mainBranch[n] \in 0 .. mined
      /\ mainBranch[n] \in branches[n]
      /\ branches[n] \subseteq 0 .. mined
      /\ orphans[n] \subseteq 1 .. mined /\ inFlight[n] \subseteq 1 .. mined
      /\ TreeOK(block, mined)
  BY InvariantOfTree DEF TreeInv, References, MainBranchIsHighest
<1>2. mainBranch[n] \in block[mainBranch[n]].chain
  BY <1>1 DEF TreeOK
<1>3. block[mainBranch[n]].chain \subseteq Known(n)
  BY <1>1 DEF Known
<1>4. mainBranch[n] \in Known(n)
  BY <1>2, <1>3
<1>5. \A x \in Known(n) :
         /\ x \in 0 .. mined
         /\ block[x].height \in Nat
         /\ block[x].height <= block[mainBranch[n]].height
  BY KnownBelowMainBranch
<1>6. ASSUME NEW x \in Known(n), x # Genesis PROVE block[x].prev \in Known(n)
  <2>1. PICK h \in branches[n] : x \in block[h].chain
    BY DEF Known
  <2>2. x \in 1 .. mined
    BY <1>1, <1>5, <1>6 DEF Genesis
  <2>3. /\ block[x].chain = block[block[x].prev].chain \cup {x}
        /\ block[x].prev \in 0 .. mined
    BY <1>1, <2>2 DEF TreeOK
  <2>4. block[x].prev \in block[block[x].prev].chain
    BY <1>1, <2>3 DEF TreeOK
  <2>5. block[x].chain \subseteq block[h].chain
    BY <1>1, <2>1 DEF TreeOK
  <2> QED BY <2>1, <2>3, <2>4, <2>5 DEF Known
<1>7. Reached(n) \subseteq 0 .. mined
  BY <1>1, <1>5 DEF Reached
<1> QED BY <1>1, <1>2, <1>3, <1>4, <1>5, <1>6, <1>7
-----------------------------------------------------------------------------
(* A step of node n, which learns of the blocks in added and sends out     *)
(* those in sent, as the other nodes see it.                               *)
Sends(n, added, sent) ==
    /\ 1 .. mined' \subseteq 1 .. mined \cup added
    /\ \A x \in 0 .. mined : block'[x] = block[x]
    /\ Reached(n)' = Reached(n) \cup added
    /\ sent \subseteq Reached(n) \cup added
    /\ \A m \in Node : added \cap Reached(m) = {}
    /\ \A m \in Node \ {n} :
          /\ Reached(m)' = Reached(m) \cup sent
          /\ sent \cap Reached(m) = {}
          /\ Known(m)' = Known(m)
          /\ mainBranch'[m] = mainBranch[m]

(* Sending only what nobody else has keeps every block with its miner or   *)
(* with everybody, and takes no secret from another selfish node.          *)
LEMMA SendingKeepsSecrets ==
    ASSUME SelfishInv, NEW n \in Node, NEW added, NEW sent,
           Sends(n, added, sent)
    PROVE  /\ SentToAll'
           /\ \A m \in Selfish \ {n} :
                 (/\ selfishChain'[m] = selfishChain[m]
                  /\ selfishChainDistance'[m] = selfishChainDistance[m])
                 => TopsMainBranch(m)' /\ Leads(m)'
<1>1. /\ 1 .. mined' \subseteq 1 .. mined \cup added
      /\ \A x \in 0 .. mined : block'[x] = block[x]
      /\ Reached(n)' = Reached(n) \cup added
      /\ sent \subseteq Reached(n) \cup added
      /\ \A m \in Node : added \cap Reached(m) = {}
      /\ \A m \in Node \ {n} :
            /\ Reached(m)' = Reached(m) \cup sent
            /\ sent \cap Reached(m) = {}
            /\ Known(m)' = Known(m)
            /\ mainBranch'[m] = mainBranch[m]
  BY DEF Sends
<1>2. SentToAll'
  <2> SUFFICES ASSUME NEW b \in 1 .. mined', NEW i \in Node, NEW m \in Node,
                      i # m, b \in Reached(i)', b \in Reached(m)',
                      NEW j \in Node
               PROVE  b \in Reached(j)'
    BY DEF SentToAll
  <2>1. CASE b \in sent
    BY <1>1, <2>1
  <2>2. CASE b \in added \ sent
    <3>1. \A l \in Node \ {n} : b \notin Reached(l)'
      BY <1>1, <2>2
    <3> QED BY <3>1
  <2>3. CASE b \notin added \cup sent
    <3>1. b \in 1 .. mined /\ \A l \in Node : b \in Reached(l)' <=> b \in Reached(l)
      BY <1>1, <2>3
    <3> QED BY <3>1 DEF SelfishInv, SentToAll
  <2> QED BY <2>1, <2>2, <2>3
<1>3. ASSUME NEW m \in Selfish \ {n},
             selfishChain'[m] = selfishChain[m],
             selfishChainDistance'[m] = selfishChainDistance[m]
      PROVE  TopsMainBranch(m)' /\ Leads(m)'
  <2>1. /\ m \in Node /\ m # n
        /\ TopsMainBranch(m) /\ Leads(m) /\ TreeInv
    BY SelfishAreNodes DEF SelfishInv
  <2>2. /\ mainBranch[m] \in 0 .. mined
        /\ block[mainBranch[m]].chain \subseteq Known(m)
        /\ \A x \in Known(m) : x \in 0 .. mined
        /\ Known(m) \subseteq Reached(m)
    BY <2>1, KnownTree DEF Reached
  <2>3. /\ mainBranch'[m] = mainBranch[m]
        /\ block'[mainBranch[m]] = block[mainBranch[m]]
        /\ \A x \in Known(m) : block'[x] = block[x]
        /\ Known(m)' = Known(m)
    BY <1>1, <2>1, <2>2
  <2>4. \A x \in selfishChain[m] :
           /\ x \in block[mainBranch[m]].chain
           /\ \A y \in block[mainBranch[m]].chain :
                 block[y].height >= block[x].height => y \in selfishChain[m]
           /\ \A j \in Node \ {m} : x \notin Reached(j)
    BY <2>1 DEF TopsMainBranch
  <2>5. \A x \in selfishChain[m] : x \in Known(m)
    BY <2>2, <2>4
  <2>6. ASSUME NEW x \in selfishChain[m], NEW j \in Node \ {m}
        PROVE  x \notin Reached(j)'
    <3>1. x \in Reached(m) /\ x \notin Reached(n) /\ x \notin Reached(j)
      BY <2>1, <2>2, <2>4, <2>5
    <3>2. x \notin added /\ x \notin sent
      BY <3>1, <2>1, <1>1
    <3> QED BY <3>1, <3>2, <1>1
  <2>7. TopsMainBranch(m)'
    BY <1>3, <2>2, <2>3, <2>4, <2>5, <2>6 DEF TopsMainBranch
  <2>8. Leads(m)'
    BY <1>3, <2>1, <2>2, <2>3 DEF Leads
  <2> QED BY <2>7, <2>8
<1> QED BY <1>2, <1>3

(* appendBlock() of a received block b at n, which sends some blocks that  *)
(* it alone has.                                                           *)
LEMMA ReceivedSends ==
    ASSUME SelfishInv, NEW n \in Node, NEW b \in inFlight[n],
           AppendBlock(n, b, block), UNCHANGED <<mined, block>>,
           NEW sent, sent \subseteq Reached(n) \ {Genesis},
           \A m \in Node \ {n} : sent \cap Reached(m) = {},
           inFlight' = [m \in Node |-> IF m = n THEN inFlight[m] \ {b}
                                       ELSE inFlight[m] \cup sent]
    PROVE  /\ b \in 1 .. mined
           /\ b \notin Known(n)
           /\ TreeInv'
           /\ Undelivered'
           /\ Sends(n, {}, sent)
           /\ Known(n) \subseteq Known(n)'
           /\ \A x \in Known(n)' :
                 /\ block[x].height \in Nat
                 /\ block[x].height <= block[mainBranch'[n]].height
<1>1. /\ TreeInv /\ mined \in Nat
      /\ b \in 1 .. mined /\ b \notin Known(n) /\ b \notin orphans[n]
      /\ inFlight[n] \cap (Known(n) \cup orphans[n]) = {}
      /\ \A m \in Node : /\ inFlight[m] \subseteq 1 .. mined
                         /\ inFlight[m] \cap (Known(m) \cup orphans[m]) = {}
      /\ Reached(n) \subseteq 0 .. mined
  BY KnownTree DEF SelfishInv, Undelivered, TreeInv, References
<1>2. FiledReceived(n, b)
  BY <1>1, AppendFilesReceived
<1>3. sent \subseteq 1 .. mined
  BY <1>1 DEF Genesis
<1>4. /\ inFlight' \in [Node -> SUBSET (1 .. mined)]
      /\ inFlight'[n] = inFlight[n] \ {b}
      /\ \A m \in Node \ {n} : inFlight'[m] = inFlight[m] \cup sent
  BY <1>1, <1>3
<1>5. /\ TreeInv'
      /\ Known(n)' = Linked(block, branches'[n])
      /\ \A m \in Node \ {n} : /\ Known(m)' = Known(m)
                               /\ mainBranch'[m] = mainBranch[m]
                               /\ orphans'[m] = orphans[m]
  BY <1>1, <1>2, <1>4, ReceivedKeepsTree
<1>6. /\ orphans[n] \subseteq orphans'[n]
      /\ orphans'[n] \subseteq orphans[n] \cup {b}
      /\ Known(n) \subseteq Known(n)'
      /\ Known(n)' \subseteq Known(n) \cup {b} \cup orphans[n]
      /\ b \in Known(n)' \cup orphans'[n]
  BY <1>2, <1>5 DEF FiledReceived
<1>7. Reached(n)' = Reached(n)
  BY <1>4, <1>6 DEF Reached
<1>8. \A m \in Node \ {n} : Reached(m)' = Reached(m) \cup sent
  BY <1>4, <1>5 DEF Reached
<1>9. Undelivered'
  <2>1. inFlight'[n] \cap (Known(n)' \cup orphans'[n]) = {}
    BY <1>1, <1>4, <1>6
  <2>2. ASSUME NEW m \in Node \ {n}
        PROVE  inFlight'[m] \cap (Known(m)' \cup orphans'[m]) = {}
    <3>1. sent \cap (Known(m) \cup orphans[m]) = {}
      BY DEF Reached
    <3> QED BY <3>1, <1>1, <1>4, <1>5
  <2> QED BY <2>1, <2>2 DEF Undelivered
<1>10. Sends(n, {}, sent)
  BY <1>5, <1>7, <1>8 DEF Sends
<1>11. ASSUME NEW x \in Known(n)'
       PROVE  /\ block[x].height \in Nat
              /\ block[x].height <= block[mainBranch'[n]].height
  <2>1. /\ block \in Heap /\ 0 .. mined \subseteq Block
        /\ TreeOK(block, mined)
    BY <1>1, InvariantOfTree DEF TreeInv
  <2>2. /\ branches'[n] \subseteq 0 .. mined
        /\ Highest(block, branches'[n], mainBranch'[n])
    BY <1>2 DEF FiledReceived
  <2>3. x \in Linked(block, branches'[n])
    BY <1>5
  <2> QED BY <1>1, <2>1, <2>2, <2>3, LinkedBelowHighest
<1> QED BY <1>1, <1>5, <1>6, <1>9, <1>10, <1>11

(* The block k that n mines tops its main branch and is all that it links. *)
TopsTree(n, k) ==
    /\ mainBranch'[n] = k
    /\ block'[k] = NewBlock(n)
    /\ Known(n)' = Known(n) \cup {k}

(* appendBlock() of a mined block: it becomes the main branch of n, and no *)
(* orphan waits for it.                                                    *)
LEMMA MinedSends ==
    ASSUME SelfishInv, NEW n \in Node, NEW k, k = mined + 1, mined < MaxBlock,
           NEW C, C = [block EXCEPT ![k] = NewBlock(n)],
           mined' = k, block' = C, AppendBlock(n, k, C),
           NEW sent, sent \subseteq (Reached(n) \ {Genesis}) \cup {k},
           \A m \in Node \ {n} : sent \cap Reached(m) = {},
           inFlight' = [m \in Node |-> IF m = n THEN inFlight[m]
                                       ELSE inFlight[m] \cup sent]
    PROVE  /\ TreeInv'
           /\ Undelivered'
           /\ Sends(n, {k}, sent)
           /\ TopsTree(n, k)
<1>1. /\ TreeInv /\ mined \in Nat
      /\ \A m \in Node : /\ inFlight[m] \subseteq 1 .. mined
                         /\ orphans[m] \subseteq 1 .. mined
                         /\ branches[m] \subseteq 0 .. mined
                         /\ inFlight[m] \cap (Known(m) \cup orphans[m]) = {}
                         /\ Reached(m) \subseteq 0 .. mined
      /\ TreeOK(block, mined)
      /\ mainBranch[n] \in 0 .. mined
      /\ block[mainBranch[n]].height \in Nat
      /\ block[mainBranch[n]].chain \subseteq Known(n)
      /\ \A h \in branches[n] :
            /\ block[h].height \in Nat
            /\ block[h].height <= block[mainBranch[n]].height
  <2>1. TreeInv /\ Undelivered
    BY DEF SelfishInv
  <2>2. ASSUME NEW h \in branches[n]
        PROVE  /\ block[h].height \in Nat
               /\ block[h].height <= block[mainBranch[n]].height
    <3>1. h \in 0 .. mined
      BY <2>1 DEF TreeInv, References
    <3>2. h \in block[h].chain
      BY <2>1, <3>1 DEF TreeInv, TreeOK
    <3>3. h \in Known(n)
      BY <3>2 DEF Known
    <3> QED BY <2>1, <3>3, KnownTree
  <2> QED BY <2>1, <2>2, KnownTree DEF Undelivered, TreeInv, References
<1>2. FiledMined(n, k)
  BY <1>1, AppendFilesMined
<1>3. sent \subseteq 1 .. k /\ \A m \in Node : inFlight[m] \subseteq 1 .. k
  BY <1>1 DEF Genesis
<1>4. /\ inFlight' \in [Node -> SUBSET (1 .. k)]
      /\ inFlight'[n] = inFlight[n]
      /\ \A m \in Node \ {n} : inFlight'[m] = inFlight[m] \cup sent
  BY <1>3
<1>5. /\ TreeInv'
      /\ Known(n)' = Linked(block', branches'[n])
      /\ \A m \in Node \ {n} : /\ Known(m)' = Known(m)
                               /\ mainBranch'[m] = mainBranch[m]
                               /\ orphans'[m] = orphans[m]
  BY <1>1, <1>2, <1>4, MinedKeepsTree
<1>6. /\ mined' = k
      /\ branches'[n] \subseteq 0 .. k
      /\ \A x \in 0 .. mined : block'[x] = block[x]
      /\ block'[k] = NewBlock(n)
      /\ orphans[n] \subseteq orphans'[n]
      /\ orphans'[n] \subseteq orphans[n] \cup {k}
      /\ Known(n) \subseteq Known(n)'
      /\ k \in Known(n)'
      /\ \A g \in branches'[n] : g \in branches[n] \/ k \in block'[g].chain
      /\ mainBranch'[n] \in branches'[n]
      /\ \A h \in branches'[n] :
            block'[h].height <= block'[mainBranch'[n]].height
  BY <1>2, <1>5 DEF FiledMined, Highest
<1>7. /\ block'[k].height = block[mainBranch[n]].height + 1
      /\ block'[k].chain = block[mainBranch[n]].chain \cup {k}
  BY <1>6 DEF NewBlock
<1>8. ASSUME NEW g \in branches'[n] PROVE g \in branches[n] \/ g = k
  <2> SUFFICES ASSUME g # k, k \in block'[g].chain PROVE FALSE
    BY <1>6
  <2>1. g \in 0 .. mined
    BY <1>1, <1>6
  <2>2. block[g].chain \subseteq 0 .. mined
    BY <1>1, <2>1 DEF TreeOK
  <2> QED BY <1>1, <1>6, <2>1, <2>2
<1>9. Known(n)' = Known(n) \cup {k}
  <2> SUFFICES ASSUME NEW g \in branches'[n], NEW x \in block'[g].chain
               PROVE  x \in Known(n) \cup {k}
    BY <1>6 DEF Known
  <2>1. CASE g \in branches[n]
    BY <2>1, <1>1, <1>6 DEF Known
  <2>2. CASE g = k
    BY <2>2, <1>1, <1>7
  <2> QED BY <2>1, <2>2, <1>8
<1>10. mainBranch'[n] = k
  <2> SUFFICES ASSUME mainBranch'[n] # k PROVE FALSE
    OBVIOUS
  <2>1. mainBranch'[n] \in branches[n] /\ mainBranch'[n] \in 0 .. mined
    BY <1>1, <1>6, <1>8
  <2>2. /\ block'[mainBranch'[n]].height \in Nat
        /\ block'[mainBranch'[n]].height <= block[mainBranch[n]].height
    BY <1>1, <1>6, <2>1
  <2>3. PICK h \in branches'[n] : k \in block'[h].chain
    BY <1>6 DEF Known
  <2>4. h = k
    <3>1. CASE h \in branches[n]
      <4>1. h \in 0 .. mined
        BY <1>1, <3>1
      <4>2. block'[h].chain \subseteq 0 .. mined
        BY <1>1, <1>6, <4>1 DEF TreeOK
      <4> QED BY <1>1, <2>3, <4>2
    <3> QED BY <3>1, <1>8
  <2>5. block'[k].height <= block'[mainBranch'[n]].height
    BY <1>6, <2>3, <2>4
  <2> QED BY <1>1, <1>7, <2>2, <2>5
<1>11. Reached(n)' = Reached(n) \cup {k}
  BY <1>4, <1>6, <1>9 DEF Reached
<1>12. \A m \in Node \ {n} : Reached(m)' = Reached(m) \cup sent
  BY <1>4, <1>5 DEF Reached
<1>13. \A m \in Node : k \notin Reached(m)
  BY <1>1
<1>14. Undelivered'
  <2>1. k \notin inFlight[n]
    BY <1>1
  <2>2. inFlight'[n] \cap (Known(n)' \cup orphans'[n]) = {}
    BY <1>1, <1>4, <1>6, <1>9, <2>1
  <2>3. ASSUME NEW m \in Node \ {n}
        PROVE  inFlight'[m] \cap (Known(m)' \cup orphans'[m]) = {}
    <3>1. sent \cap (Known(m) \cup orphans[m]) = {}
      BY DEF Reached
    <3> QED BY <3>1, <1>1, <1>4, <1>5
  <2> QED BY <2>2, <2>3 DEF Undelivered
<1>15. 1 .. mined' \subseteq 1 .. mined \cup {k}
  BY <1>1, <1>6
<1>16. Sends(n, {k}, sent)
  BY <1>5, <1>6, <1>11, <1>12, <1>13, <1>15 DEF Sends
<1> QED BY <1>5, <1>6, <1>9, <1>10, <1>14, <1>16 DEF TopsTree
-----------------------------------------------------------------------------
(* The steps.                                                              *)

LEMMA SelfishInitEstablishesInv == SelfishInit => SelfishInv
<1> SUFFICES ASSUME SelfishInit PROVE SelfishInv
  OBVIOUS
<1>1. TreeInv
  BY InitEstablishesIInv DEF SelfishInit, IInv
<1>2. /\ mined = 0
      /\ \A n \in Selfish : selfishChain[n] = {} /\ selfishChainDistance[n] = 0
      /\ PrivateTypeOK
  BY DEF SelfishInit, Init, Genesis, PrivateTypeOK
<1>3. SentToAll
  BY <1>2 DEF SentToAll
<1>4. Undelivered
  BY DEF SelfishInit, Init, Undelivered
<1>5. \A n \in Selfish : TopsMainBranch(n) /\ Leads(n)
  BY <1>2 DEF TopsMainBranch, Leads
<1> QED BY <1>1, <1>2, <1>3, <1>4, <1>5 DEF SelfishInv

(* What the private chain of n tells of it and of the other nodes. *)
LEMMA PrivateFacts ==
    ASSUME SelfishInv, NEW n \in Selfish
    PROVE  /\ n \in Node
           /\ selfishChain[n] \subseteq Known(n)
           /\ selfishChain[n] \subseteq Reached(n) \ {Genesis}
           /\ \A m \in Node \ {n} : selfishChain[n] \cap Reached(m) = {}
           /\ selfishChain[n] # {} => mainBranch[n] \in selfishChain[n]
<1>1. n \in Node /\ TreeInv /\ TopsMainBranch(n)
      /\ selfishChain[n] \subseteq 1 .. mined
  BY SelfishAreNodes DEF SelfishInv, PrivateTypeOK
<1>2. \A x \in selfishChain[n] :
         /\ x \in block[mainBranch[n]].chain
         /\ \A y \in block[mainBranch[n]].chain :
               block[y].height >= block[x].height => y \in selfishChain[n]
         /\ \A m \in Node \ {n} : x \notin Reached(m)
  BY <1>1 DEF TopsMainBranch
<1>3. /\ block[mainBranch[n]].chain \subseteq Known(n)
      /\ mainBranch[n] \in block[mainBranch[n]].chain
      /\ \A x \in Known(n) : block[x].height <= block[mainBranch[n]].height
      /\ \A x \in Known(n) : block[x].height \in Nat
      /\ block[mainBranch[n]].height \in Nat
  BY <1>1, KnownTree
<1>4. selfishChain[n] \subseteq Known(n)
  BY <1>2, <1>3
<1>5. ASSUME NEW x \in selfishChain[n] PROVE mainBranch[n] \in selfishChain[n]
  BY <1>2, <1>3, <1>4
<1>6. Known(n) \subseteq Reached(n) /\ \A x \in selfishChain[n] : x # Genesis
  BY <1>1 DEF Reached, Genesis
<1> QED BY <1>1, <1>2, <1>4, <1>5, <1>6

(* A node that hides a chain receives no block on top of it, so a block it *)
(* receives moves its main branch only by a swap.                          *)
LEMMA SecretIsNotExtended ==
    ASSUME SelfishInv, NEW n \in Selfish, selfishChain[n] # {},
           NEW b \in 1 .. mined, b \notin Known(n)
    PROVE  block[b].prev # mainBranch[n]
<1>1. TreeInv /\ Retained /\ n \in Node
  BY SelfishAreNodes DEF SelfishInv, TreeInv
<1>2. PICK m \in Node : b \in Known(m)
  BY <1>1 DEF Retained
<1>3. m # n /\ b # Genesis
  BY <1>2 DEF Genesis
<1>4. block[b].prev \in Reached(m)
  BY <1>1, <1>2, <1>3, KnownTree DEF Reached
<1>5. mainBranch[n] \notin Reached(m)
  BY <1>2, <1>3, PrivateFacts
<1> QED BY <1>4, <1>5
(* The lead after blocks arrived beside the main branch.                   *)
LEMMA LeadIsPatched ==
    ASSUME SelfishInv, NEW n \in Selfish, selfishChain[n] # {},
           UNCHANGED block, mainBranch'[n] = mainBranch[n],
           Known(n) \subseteq Known(n)', selfishChain'[n] = selfishChain[n],
           \A x \in Known(n)' :
              /\ block[x].height \in Nat
              /\ block[x].height <= block[mainBranch[n]].height,
           NEW b, block[b].prev # mainBranch[n],
           NEW near, near = Approaches(n, b),
           selfishChainDistance'[n] =
              IF near = {} THEN selfishChainDistance[n] ELSE Min(near)
    PROVE  Leads(n)' /\ selfishChainDistance'[n] \in Nat
<1> DEFINE main == mainBranch[n]
           lead == selfishChainDistance[n]
           new == Known(n)' \ Known(n)
<1>1. /\ n \in Node /\ lead \in Nat /\ TreeInv
      /\ selfishChain[n] \subseteq Known(n)
      /\ \A x \in Known(n) \ selfishChain[n] :
            block[x].height + lead <= block[main].height
      /\ \E x \in Known(n) \ selfishChain[n] :
            block[x].height + lead = block[main].height
  BY PrivateFacts DEF SelfishInv, PrivateTypeOK, Leads
<1>2. /\ block[main].height \in Nat
      /\ \A x \in Known(n) : block[x].height \in Nat
  BY <1>1, KnownTree
<1>3. \A x \in new : /\ block[x].height \in Nat
                    /\ block[x].height <= block[main].height
  OBVIOUS
<1>4. near = {d \in {block[main].height - block[x].height : x \in new} : d < lead}
  <2>1. SideBlocks(n, b) = new
    BY <1>3 DEF SideBlocks
  <2> QED BY <2>1 DEF Approaches, Distances
<1>5. \A x \in new : x \notin selfishChain[n]
  BY <1>1
<1>6. CASE near = {}
  <2>1. \A x \in new : block[x].height + lead <= block[main].height
    <3> SUFFICES ASSUME NEW x \in new
                 PROVE  block[x].height + lead <= block[main].height
      OBVIOUS
    <3>1. ~(block[main].height - block[x].height < lead)
      BY <1>4, <1>6
    <3> QED BY <3>1, <1>1, <1>2, <1>3
  <2> QED BY <1>1, <1>6, <2>1 DEF Leads
<1>7. CASE near # {}
  <2> DEFINE least == Min(near)
  <2>1. near \subseteq Nat
    BY <1>2, <1>3, <1>4
  <2>2. least \in near /\ \A d \in near : least <= d
    BY <1>7, <2>1, SmallestOfNats
  <2> HIDE DEF least
  <2>3. least \in Nat /\ least < lead
    BY <2>1, <2>2, <1>4
  <2>4. \A x \in Known(n) \ selfishChain[n] :
           block[x].height + least <= block[main].height
    BY <1>1, <1>2, <2>3
  <2>5. ASSUME NEW x \in new
        PROVE  block[x].height + least <= block[main].height
    <3>1. block[x].height \in Nat /\ block[x].height <= block[main].height
      BY <1>3
    <3>2. CASE block[main].height - block[x].height < lead
      <4>1. block[main].height - block[x].height \in near
        BY <1>4, <3>2
      <4>2. least <= block[main].height - block[x].height
        BY <2>2, <4>1
      <4> QED BY <1>2, <2>3, <3>1, <4>2
    <3>3. CASE ~(block[main].height - block[x].height < lead)
      BY <1>1, <1>2, <2>3, <3>1, <3>3
    <3> QED BY <3>2, <3>3
  <2>6. PICK x \in new : least = block[main].height - block[x].height
    BY <2>2, <1>4
  <2>7. block[x].height + least = block[main].height
    BY <2>6, <1>2, <1>3
  <2>8. selfishChainDistance'[n] = least
    BY <1>7 DEF least
  <2>9. \A y \in Known(n)' \ selfishChain[n] :
           block[y].height + least <= block[main].height
    BY <2>4, <2>5
  <2>10. x \in Known(n)' \ selfishChain[n]
    BY <2>6, <1>5
  <2> HIDE DEF new
  <2> QED BY <2>3, <2>7, <2>8, <2>9, <2>10 DEF Leads
<1> QED BY <1>6, <1>7
LEMMA SelfishReceiveKeepsInv ==
    ASSUME SelfishInv, NEW n \in Selfish, NEW b \in Block, SelfishReceive(n, b)
    PROVE  SelfishInv'
<1> DEFINE swapped == /\ mainBranch'[n] # mainBranch[n]
                      /\ block[b].prev # mainBranch[n]
           near == Approaches(n, b)
           private == IF 1 \in near THEN selfishChain[n] ELSE {}
           chain == IF swapped THEN {} ELSE selfishChain[n] \ private
           lead == IF swapped \/ 1 \in near THEN 0
                   ELSE IF near = {} THEN selfishChainDistance[n] ELSE Min(near)
<1>1. /\ b \in inFlight[n] /\ AppendBlock(n, b, block)
      /\ mined' = mined /\ block' = block
      /\ inFlight' = [m \in Node |-> IF m = n THEN inFlight[m] \ {b}
                                     ELSE inFlight[m] \cup private]
      /\ selfishChain' = [selfishChain EXCEPT ![n] = chain]
      /\ selfishChainDistance' = [selfishChainDistance EXCEPT ![n] = lead]
  BY DEF SelfishReceive
<1>2. /\ selfishChain \in [Selfish -> SUBSET (1 .. mined)]
      /\ selfishChainDistance \in [Selfish -> Nat]
  BY DEF SelfishInv, PrivateTypeOK
<1>3. /\ selfishChain'[n] = chain /\ selfishChainDistance'[n] = lead
      /\ \A m \in Selfish \ {n} :
            /\ selfishChain'[m] = selfishChain[m]
            /\ selfishChainDistance'[m] = selfishChainDistance[m]
  BY <1>1, <1>2
<1>4. /\ n \in Node
      /\ private \subseteq Reached(n) \ {Genesis}
      /\ \A m \in Node \ {n} : private \cap Reached(m) = {}
      /\ selfishChain[n] \subseteq Known(n)
      /\ TreeInv /\ TopsMainBranch(n) /\ Leads(n)
  BY PrivateFacts DEF SelfishInv
<1> HIDE DEF near, private, chain, lead, swapped
<1>5. /\ b \in 1 .. mined
      /\ b \notin Known(n)
      /\ TreeInv'
      /\ Undelivered'
      /\ Sends(n, {}, private)
      /\ Known(n) \subseteq Known(n)'
      /\ \A x \in Known(n)' :
            /\ block[x].height \in Nat
            /\ block[x].height <= block[mainBranch'[n]].height
  BY <1>1, <1>4, ReceivedSends
<1>6. /\ SentToAll'
      /\ \A m \in Selfish \ {n} : TopsMainBranch(m)' /\ Leads(m)'
  BY <1>3, <1>4, <1>5, SendingKeepsSecrets
<1>7. /\ TopsMainBranch(n)' /\ Leads(n)'
      /\ chain \in SUBSET (1 .. mined) /\ lead \in Nat
  <2>1. CASE swapped \/ 1 \in near
    <3>1. chain = {} /\ lead = 0
      BY <2>1 DEF chain, lead, private
    <3> QED BY <3>1, <1>3 DEF TopsMainBranch, Leads
  <2>2. CASE ~swapped /\ 1 \notin near /\ selfishChain[n] = {}
    <3>1. selfishChainDistance[n] = 0
      BY <1>4, <2>2 DEF Leads
    <3>2. \A d \in Distances(n, b) : d >= 0
      <4> SUFFICES ASSUME NEW x \in SideBlocks(n, b)
                   PROVE  block[mainBranch[n]].height - block[x].height >= 0
        BY DEF Distances
      <4>1. x \in Known(n)' /\ block[x].height <= block[mainBranch[n]].height
        BY DEF SideBlocks
      <4>2. block[mainBranch[n]].height \in Nat
        BY <1>4, KnownTree
      <4> QED BY <4>1, <4>2, <1>5
    <3>3. near = {}
      <4>1. \A d \in Distances(n, b) : d \in Int
        <5> SUFFICES ASSUME NEW x \in SideBlocks(n, b)
                     PROVE  block[mainBranch[n]].height - block[x].height \in Int
          BY DEF Distances
        <5>1. block[x].height \in Nat
          BY <1>5 DEF SideBlocks
        <5>2. block[mainBranch[n]].height \in Nat
          BY <1>4, KnownTree
        <5> QED BY <5>1, <5>2
      <4> QED BY <3>1, <3>2, <4>1 DEF near, Approaches
    <3>4. chain = {} /\ lead = 0
      BY <2>2, <3>1, <3>3 DEF chain, lead
    <3> QED BY <3>4, <1>3 DEF TopsMainBranch, Leads
  <2>3. CASE ~swapped /\ 1 \notin near /\ selfishChain[n] # {}
    <3>1. block[b].prev # mainBranch[n]
      BY <2>3, <1>5, SecretIsNotExtended
    <3>2. mainBranch'[n] = mainBranch[n]
      BY <2>3, <3>1 DEF swapped
    <3>3. /\ chain = selfishChain[n]
          /\ lead = IF near = {} THEN selfishChainDistance[n] ELSE Min(near)
      BY <2>3 DEF chain, lead, private
    <3>4. Leads(n)' /\ selfishChainDistance'[n] \in Nat
      BY <2>3, <3>1, <3>2, <3>3, <1>1, <1>3, <1>5, LeadIsPatched DEF near
    <3>5. \A m \in Node \ {n} : Reached(m)' = Reached(m)
      <4>1. private = {}
        BY <2>3 DEF private
      <4> QED BY <4>1, <1>5 DEF Sends
    <3>6. TopsMainBranch(n)'
      BY <3>2, <3>3, <3>5, <1>1, <1>3, <1>4 DEF TopsMainBranch
    <3>7. chain \in SUBSET (1 .. mined)
      BY <3>3, <1>2
    <3> QED BY <3>4, <3>6, <3>7, <1>3
  <2> QED BY <2>1, <2>2, <2>3
<1>8. PrivateTypeOK'
  BY <1>1, <1>2, <1>7 DEF PrivateTypeOK
<1>9. \A m \in Selfish : TopsMainBranch(m)' /\ Leads(m)'
  BY <1>6, <1>7
<1> QED BY <1>5, <1>6, <1>8, <1>9 DEF SelfishInv

LEMMA SelfishMineKeepsInv ==
    ASSUME SelfishInv, NEW n \in Selfish, SelfishMine(n)
    PROVE  SelfishInv'
<1> DEFINE k == mined + 1
           private == selfishChain[n] \cup {k}
           hides == Cardinality(private) < MaxSelfishChainLength
           sent == IF hides THEN {} ELSE private
           chain == IF hides THEN private ELSE {}
           lead == IF hides THEN selfishChainDistance[n] + 1 ELSE 0
<1>1. /\ selfishChain \in [Selfish -> SUBSET (1 .. mined)]
      /\ selfishChainDistance \in [Selfish -> Nat]
      /\ inFlight \in [Node -> SUBSET Block]
      /\ mined \in Nat /\ n \in Node
      /\ TreeInv /\ TopsMainBranch(n) /\ Leads(n)
  BY SelfishAreNodes, KnownTree DEF SelfishInv, PrivateTypeOK, TreeInv, TypeOK
<1>2. /\ mined < MaxBlock /\ mined' = k
      /\ block' = [block EXCEPT ![k] = NewBlock(n)]
      /\ AppendBlock(n, k, [block EXCEPT ![k] = NewBlock(n)])
      /\ inFlight' = [m \in Node |-> IF m = n THEN inFlight[m]
                                     ELSE inFlight[m] \cup sent]
      /\ selfishChain' = [selfishChain EXCEPT ![n] = chain]
      /\ selfishChainDistance' = [selfishChainDistance EXCEPT ![n] = lead]
  BY <1>1 DEF SelfishMine, Relay, Broadcast
<1>3. /\ selfishChain'[n] = chain /\ selfishChainDistance'[n] = lead
      /\ \A m \in Selfish \ {n} :
            /\ selfishChain'[m] = selfishChain[m]
            /\ selfishChainDistance'[m] = selfishChainDistance[m]
  BY <1>1, <1>2
<1>4. \A m \in Node : k \notin Reached(m)
  BY <1>1, KnownTree
<1>5. /\ sent \subseteq (Reached(n) \ {Genesis}) \cup {k}
      /\ \A m \in Node \ {n} : sent \cap Reached(m) = {}
  BY <1>4, PrivateFacts
<1> HIDE DEF sent, chain, lead, hides
<1>6. /\ TreeInv'
      /\ Undelivered'
      /\ Sends(n, {k}, sent)
      /\ mainBranch'[n] = k
      /\ block'[k] = NewBlock(n)
      /\ Known(n)' = Known(n) \cup {k}
  <2> DEFINE C == [block EXCEPT ![k] = NewBlock(n)]
  <2>1. /\ k = mined + 1 /\ C = [block EXCEPT ![k] = NewBlock(n)]
        /\ mined < MaxBlock /\ mined' = k /\ block' = C
        /\ AppendBlock(n, k, C)
        /\ inFlight' = [m \in Node |-> IF m = n THEN inFlight[m]
                                       ELSE inFlight[m] \cup sent]
    BY <1>2
  <2>2. n \in Node
    BY <1>1
  <2>3. /\ sent \subseteq (Reached(n) \ {Genesis}) \cup {k}
        /\ \A m \in Node \ {n} : sent \cap Reached(m) = {}
    BY <1>5
  <2> HIDE DEF k, private, C
  <2>4. /\ TreeInv' /\ Undelivered'
        /\ Sends(n, {k}, sent) /\ TopsTree(n, k)
    BY <2>1, <2>2, <2>3, MinedSends
  <2> QED BY <2>4 DEF TopsTree
<1>7. /\ SentToAll'
      /\ \A m \in Selfish \ {n} : TopsMainBranch(m)' /\ Leads(m)'
  BY <1>1, <1>3, <1>6, SendingKeepsSecrets
<1>8. TopsMainBranch(n)' /\ Leads(n)'
  <2>1. CASE ~hides
    BY <2>1, <1>3 DEF chain, lead, TopsMainBranch, Leads
  <2>2. CASE hides
    <3>1. /\ chain = private /\ sent = {} /\ private # {}
          /\ lead = selfishChainDistance[n] + 1
      BY <2>2 DEF chain, sent, lead
    <3>2. /\ block'[k].height = block[mainBranch[n]].height + 1
          /\ block'[k].chain = block[mainBranch[n]].chain \cup {k}
      BY <1>6 DEF NewBlock
    <3>3. /\ \A x \in Known(n) :
                /\ block'[x] = block[x] /\ x # k
                /\ block[x].height \in Nat
                /\ block[x].height <= block[mainBranch[n]].height
          /\ block[mainBranch[n]].chain \subseteq Known(n)
          /\ mainBranch[n] \in Known(n)
          /\ block[mainBranch[n]].height \in Nat
          /\ selfishChain[n] \subseteq Known(n)
          /\ selfishChainDistance[n] \in Nat
      <4>1. \A x \in 0 .. mined : block'[x] = block[x] /\ x # k
        BY <1>1, <1>6 DEF Sends
      <4> QED BY <4>1, <1>1, KnownTree, PrivateFacts
    <3>4. \A m \in Node \ {n} : Reached(m)' = Reached(m)
      BY <3>1, <1>6 DEF Sends
    <3>5. TopsMainBranch(n)'
      <4> SUFFICES ASSUME NEW x \in private
                   PROVE  /\ x \in block'[k].chain
                          /\ \A y \in block'[k].chain :
                                block'[y].height >= block'[x].height => y \in private
                          /\ \A m \in Node \ {n} : x \notin Reached(m)'
        BY <1>3, <1>6, <3>1 DEF TopsMainBranch
      <4>1. CASE x = k
        BY <4>1, <1>4, <3>2, <3>3, <3>4
      <4>2. CASE x \in selfishChain[n]
        BY <4>2, <1>1, <3>2, <3>3, <3>4 DEF TopsMainBranch
      <4> QED BY <4>1, <4>2
    <3>6. Known(n)' \ private = Known(n) \ selfishChain[n]
      BY <1>6, <3>3
    <3>7. /\ \A x \in Known(n) \ selfishChain[n] :
                block[x].height + selfishChainDistance[n]
                   <= block[mainBranch[n]].height
          /\ \E x \in Known(n) \ selfishChain[n] :
                block[x].height + selfishChainDistance[n]
                   = block[mainBranch[n]].height
      <4>1. CASE selfishChain[n] = {}
        <5>1. selfishChainDistance[n] = 0
          BY <1>1, <4>1 DEF Leads
        <5> QED BY <5>1, <4>1, <3>3
      <4>2. CASE selfishChain[n] # {}
        BY <1>1, <4>2 DEF Leads
      <4> QED BY <4>1, <4>2
    <3>8. \A x \in Known(n) \ selfishChain[n] :
             block'[x].height + lead <= block'[k].height
      BY <3>1, <3>2, <3>3, <3>7
    <3>9. \E x \in Known(n) \ selfishChain[n] :
             block'[x].height + lead = block'[k].height
      BY <3>1, <3>2, <3>3, <3>7
    <3>10. Leads(n)'
      BY <1>3, <1>6, <3>1, <3>6, <3>8, <3>9 DEF Leads
    <3> QED BY <3>5, <3>10
  <2> QED BY <2>1, <2>2
<1>9. PrivateTypeOK'
  <2>1. chain \in SUBSET (1 .. k) /\ lead \in Nat
    BY <1>1 DEF chain, lead
  <2>2. \A m \in Selfish : selfishChain[m] \subseteq 1 .. k
    BY <1>1
  <2> QED BY <2>1, <2>2, <1>1, <1>2 DEF PrivateTypeOK
<1>10. \A m \in Selfish : TopsMainBranch(m)' /\ Leads(m)'
  BY <1>7, <1>8
<1> QED BY <1>6, <1>7, <1>9, <1>10 DEF SelfishInv
(* The nodes with a plain BlockchainManager send what they mine at once.   *)
LEMMA HonestStepKeepsInv ==
    ASSUME SelfishInv, NEW n \in Node \ Selfish,
           Mine(n) \/ \E b \in Block : Receive(n, b), UNCHANGED selfishVars
    PROVE  SelfishInv'
<1>1. /\ TreeInv /\ mined \in Nat /\ inFlight \in [Node -> SUBSET Block]
      /\ \A m \in Node : mined + 1 \notin Reached(m)
      /\ selfishChain' = selfishChain
      /\ selfishChainDistance' = selfishChainDistance
      /\ \A m \in Selfish : m \in Selfish \ {n}
      /\ PrivateTypeOK
  BY KnownTree DEF SelfishInv, TreeInv, TypeOK, selfishVars
<1>2. CASE Mine(n)
  <2> DEFINE k == mined + 1
  <2> DEFINE C == [block EXCEPT ![k] = NewBlock(n)]
             sent == {k}
  <2>1. /\ mined < MaxBlock /\ mined' = k
        /\ block' = C /\ AppendBlock(n, k, C)
        /\ inFlight' = [m \in Node |-> IF m = n THEN inFlight[m]
                                       ELSE inFlight[m] \cup sent]
    BY <1>2 DEF Mine, Broadcast
  <2>2. /\ k = mined + 1 /\ C = [block EXCEPT ![k] = NewBlock(n)]
        /\ sent \subseteq (Reached(n) \ {Genesis}) \cup {k}
        /\ \A m \in Node \ {n} : sent \cap Reached(m) = {}
    BY <1>1
  <2> HIDE DEF k, C, sent
  <2>3. TreeInv' /\ Undelivered' /\ Sends(n, {k}, sent)
    BY <2>1, <2>2, MinedSends
  <2>4. SentToAll' /\ \A m \in Selfish : TopsMainBranch(m)' /\ Leads(m)'
    BY <1>1, <2>3, SendingKeepsSecrets
  <2>5. PrivateTypeOK'
    <3>1. 1 .. mined \subseteq 1 .. mined'
      BY <1>1, <2>1, <2>2
    <3> QED BY <3>1, <1>1 DEF PrivateTypeOK
  <2> QED BY <2>3, <2>4, <2>5 DEF SelfishInv
<1>3. CASE \E b \in Block : Receive(n, b)
  <2>1. PICK b \in Block : Receive(n, b)
    BY <1>3
  <2>2. /\ b \in inFlight[n] /\ AppendBlock(n, b, block)
        /\ UNCHANGED <<mined, block>>
        /\ inFlight' = [inFlight EXCEPT ![n] = @ \ {b}]
    BY <2>1 DEF Receive
  <2> DEFINE sent == {}
  <2>3. /\ inFlight' = [m \in Node |-> IF m = n THEN inFlight[m] \ {b}
                                      ELSE inFlight[m] \cup sent]
        /\ sent \subseteq Reached(n) \ {Genesis}
        /\ \A m \in Node \ {n} : sent \cap Reached(m) = {}
        /\ b \in inFlight[n] /\ AppendBlock(n, b, block)
        /\ UNCHANGED <<mined, block>> /\ n \in Node
    BY <2>2, <1>1
  <2> HIDE DEF sent
  <2>4. TreeInv' /\ Undelivered' /\ Sends(n, {}, sent)
    BY <2>3, ReceivedSends
  <2>5. SentToAll' /\ \A m \in Selfish : TopsMainBranch(m)' /\ Leads(m)'
    BY <1>1, <2>4, SendingKeepsSecrets
  <2>6. PrivateTypeOK'
    BY <1>1, <2>2 DEF PrivateTypeOK
  <2> QED BY <2>4, <2>5, <2>6 DEF SelfishInv
<1> QED BY <1>2, <1>3

LEMMA SelfishNextKeepsInv == SelfishInv /\ [SelfishNext]_allVars => SelfishInv'
<1> SUFFICES ASSUME SelfishInv, [SelfishNext]_allVars PROVE SelfishInv'
  OBVIOUS
<1>1. CASE \E n \in Selfish : SelfishMine(n)
  BY <1>1, SelfishMineKeepsInv
<1>2. CASE \E n \in Selfish : \E b \in Block : SelfishReceive(n, b)
  BY <1>2, SelfishReceiveKeepsInv
<1>3. CASE \E n \in Miner \ Selfish : Mine(n) /\ UNCHANGED selfishVars
  BY <1>3, NodeAssumption, HonestStepKeepsInv
<1>4. CASE \E n \in Node \ Selfish : \E b \in Block :
              Receive(n, b) /\ UNCHANGED selfishVars
  BY <1>4, HonestStepKeepsInv
<1>5. CASE (TimeLimit /\ UNCHANGED selfishVars) \/ UNCHANGED allVars
  <2>1. UNCHANGED allVars
    BY <1>5 DEF TimeLimit, allVars
  <2>2. /\ UNCHANGED vars
        /\ selfishChain' = selfishChain
        /\ selfishChainDistance' = selfishChainDistance
    BY <2>1 DEF allVars, selfishVars
  <2>3. TreeInv'
    BY <2>2
       DEF vars, SelfishInv, TreeInv, TypeOK, References, Retained, Known,
           NeverAborts, MainBranchIsHighest, HeadsAreLeaves, TreeOK
  <2>4. /\ PrivateTypeOK /\ SentToAll /\ Undelivered
        /\ \A n \in Selfish : TopsMainBranch(n) /\ Leads(n)
    BY DEF SelfishInv
  <2>5. /\ mined' = mined /\ block' = block /\ branches' = branches
        /\ mainBranch' = mainBranch /\ orphans' = orphans
        /\ inFlight' = inFlight
    BY <2>2 DEF vars
  <2>6. (PrivateTypeOK /\ SentToAll /\ Undelivered)'
    BY <2>2, <2>4, <2>5 DEF PrivateTypeOK, SentToAll, Undelivered, Reached, Known
  <2>7. \A n \in Selfish : TopsMainBranch(n)' /\ Leads(n)'
    BY <2>2, <2>4, <2>5 DEF TopsMainBranch, Leads, Reached, Known
  <2> QED BY <2>3, <2>6, <2>7 DEF SelfishInv
<1> QED BY <1>1, <1>2, <1>3, <1>4, <1>5 DEF SelfishNext

LEMMA SelfishInvariance == SelfishSpec => []SelfishInv
  BY SelfishInitEstablishesInv, SelfishNextKeepsInv, PTL DEF SelfishSpec

-----------------------------------------------------------------------------
(* What follows from it.                                                   *)

(* With any number of selfish miners, every reachable state is well typed, *)
(* and the lead a selfish node counts never goes below zero.               *)
THEOREM SelfishTypeCorrectness == SelfishSpec => []SelfishTypeOK
<1>1. ASSUME SelfishInv PROVE SelfishTypeOK
  <2>1. TypeOK
    BY <1>1 DEF SelfishInv, TreeInv
  <2>2. 1 .. mined \subseteq Block
    BY <2>1, MaxBlockAssumption DEF TypeOK, Block
  <2> QED BY <1>1, <2>1, <2>2 DEF SelfishInv, PrivateTypeOK, SelfishTypeOK
<1> QED BY <1>1, SelfishInvariance, PTL

(* What a selfish node hides is the top of its own main branch, and no     *)
(* other node has been sent any of it.                                     *)
THEOREM SecretsTopTheMainBranch == SelfishSpec => []PrivateChainTopsMainBranch
<1>1. SelfishInv => PrivateChainTopsMainBranch
  BY DEF SelfishInv, TopsMainBranch, PrivateChainTopsMainBranch
<1> QED BY <1>1, SelfishInvariance, PTL

(* A block stays with the node that mined it or goes to every node, and is *)
(* not on its way to a node that has it.                                   *)
THEOREM BlocksGoToAllOrNone == SelfishSpec => []PublishedToAllOrNone
<1>1. ASSUME SelfishInv PROVE PublishedToAllOrNone
  <2>1. ASSUME NEW b \in 1 .. mined
        PROVE  Cardinality({n \in Node : b \in Reached(n)})
                  \in {1, Cardinality(Node)}
    <3> DEFINE R == {n \in Node : b \in Reached(n)}
    <3>1. PICK n \in Node : b \in Reached(n)
      BY <1>1 DEF SelfishInv, TreeInv, Retained, Reached
    <3>2. CASE \E m \in Node : m # n /\ b \in Reached(m)
      <4>1. R = Node
        BY <3>1, <3>2, <1>1 DEF SelfishInv, SentToAll
      <4> QED BY <4>1
    <3>3. CASE ~\E m \in Node : m # n /\ b \in Reached(m)
      <4>1. R = {n}
        BY <3>1, <3>3
      <4>2. Cardinality({n}) = 1
        BY FS_Singleton
      <4> QED BY <4>1, <4>2
    <3> QED BY <3>2, <3>3
  <2> QED BY <1>1, <2>1 DEF SelfishInv, Undelivered, PublishedToAllOrNone
<1> QED BY <1>1, SelfishInvariance, PTL

(* The distance that relaySelfishChainIfNeeded() patches block by block is *)
(* the lead of the private chain over every public block of the node's     *)
(* tree, and zero when it hides nothing.                                   *)
THEOREM DistanceIsAlwaysTheLead == SelfishSpec => []DistanceIsLead
<1>1. SelfishInv => DistanceIsLead
  BY DEF SelfishInv, Leads, DistanceIsLead
<1> QED BY <1>1, SelfishInvariance, PTL
=============================================================================
