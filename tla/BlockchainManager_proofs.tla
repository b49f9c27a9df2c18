---------------------- MODULE BlockchainManager_proofs ----------------------
(***************************************************************************)
(* What holds of BlockchainManager for every network and every number of   *)
(* blocks, with the inductive invariant it follows from.                   *)
(***************************************************************************)
EXTENDS BlockchainManager, TLAPS

(* The heap of a type-correct state. *)
Heap == [Block -> [prev   : Block \cup {Null},
                   height : Nat,
                   chain  : SUBSET Block]]

(* The first k blocks form a tree: a chain holds its block and genesis, is *)
(* closed under prev, is linearly ordered, and heights grow along it.      *)
TreeOK(B, k) ==
    /\ B[Genesis] = [prev |-> Null, height |-> 0, chain |-> {Genesis}]
    /\ \A b \in 1 .. k :
          /\ B[b].prev \in 0 .. k
          /\ B[b].height = B[B[b].prev].height + 1
          /\ B[b].chain = B[B[b].prev].chain \cup {b}
    /\ \A b \in 0 .. k :
          /\ B[b].chain \subseteq 0 .. k
          /\ b \in B[b].chain
          /\ Genesis \in B[b].chain
          /\ \A x \in B[b].chain :
                /\ B[x].chain \subseteq B[b].chain
                /\ x # b => B[x].height < B[b].height
          /\ \A x, y \in B[b].chain : x \in B[y].chain \/ y \in B[x].chain

(* The blocks that a set of heads leads to. *)
Linked(B, H) == UNION {B[h].chain : h \in H}

Highest(B, H, m) == m \in H /\ \A h \in H : B[h].height <= B[m].height

Leaves(B, H) == \A g, h \in H : g \in B[h].chain => g = h

(* What appendBlock() needs beyond the invariants of BlockchainManager: it *)
(* refers to blocks that were mined only, and every one of them is in the  *)
(* tree of some node, which keeps the weak references to it alive.         *)
References ==
    \A n \in Node :
        /\ branches[n] \subseteq 0 .. mined
        /\ orphans[n] \subseteq 1 .. mined
        /\ inFlight[n] \subseteq 1 .. mined

Retained == \A b \in 1 .. mined : \E n \in Node : b \in Known(n)

(* What appendBlock() keeps, whichever blocks it is called with. *)
TreeInv ==
    /\ TypeOK
    /\ TreeOK(block, mined)
    /\ References
    /\ Retained
    /\ MainBranchIsHighest
    /\ HeadsAreLeaves
    /\ NeverAborts

(* The inductive invariant. *)
IInv == TreeInv /\ BlockAccounting

-----------------------------------------------------------------------------
(* Facts about the tree.                                                   *)

(* Mining adds a leaf: the tree stays a tree and old blocks stay the same. *)
LEMMA TreeGrows ==
    ASSUME NEW B \in Heap, NEW k \in Nat, k + 1 \in Block, TreeOK(B, k),
           NEW p \in 0 .. k,
           NEW C \in Heap,
           C[k + 1] = [prev   |-> p,
                       height |-> B[p].height + 1,
                       chain  |-> B[p].chain \cup {k + 1}],
           \A b \in 0 .. k : C[b] = B[b]
    PROVE  TreeOK(C, k + 1)
<1> USE MaxBlockAssumption DEF Block, Genesis, Null
<1>1. 0 .. k \subseteq Block /\ k + 1 \notin 0 .. k /\ p \in Block
  OBVIOUS
<1>2. C[k + 1] = [prev   |-> p,
                  height |-> B[p].height + 1,
                  chain  |-> B[p].chain \cup {k + 1}]
  OBVIOUS
<1>3. \A b \in 0 .. k : C[b] = B[b]
  OBVIOUS
<1>4. B[p].height \in Nat /\ B[p].chain \subseteq 0 .. k
  BY <1>1 DEF Heap, TreeOK
<1>6. \A b \in 1 .. k + 1 : b \in 1 .. k \/ b = k + 1
  OBVIOUS
<1>7. \A b \in 0 .. k + 1 : b \in 0 .. k \/ b = k + 1
  OBVIOUS
<1>8. \A b \in 1 .. k + 1 :
         /\ C[b].prev \in 0 .. k + 1
         /\ C[b].height = C[C[b].prev].height + 1
         /\ C[b].chain = C[C[b].prev].chain \cup {b}
  BY <1>2, <1>3, <1>6 DEF TreeOK
<1>9. \A b \in 0 .. k : \A x \in B[b].chain :
         x \in 0 .. k /\ C[x] = B[x] /\ B[x].height \in Nat
  BY <1>1, <1>3 DEF TreeOK, Heap
<1>10. ASSUME NEW b \in 0 .. k + 1
       PROVE  /\ C[b].chain \subseteq 0 .. k + 1
              /\ b \in C[b].chain
              /\ Genesis \in C[b].chain
              /\ \A x \in C[b].chain :
                    /\ C[x].chain \subseteq C[b].chain
                    /\ x # b => C[x].height < C[b].height
              /\ \A x, y \in C[b].chain :
                    x \in C[y].chain \/ y \in C[x].chain
  <2>1. CASE b \in 0 .. k
    BY <2>1, <1>3, <1>9 DEF TreeOK
  <2>2. CASE b = k + 1
    <3>1. C[b].chain = B[p].chain \cup {b} /\ C[b].height = B[p].height + 1
      BY <2>2, <1>2
    <3>2. \A x \in B[p].chain :
             /\ C[x].chain = B[x].chain
             /\ B[x].chain \subseteq B[p].chain
             /\ C[x].height <= B[p].height
      BY <1>4, <1>9 DEF TreeOK
    <3>3. C[b].chain \subseteq 0 .. k + 1 /\ b \in C[b].chain
      BY <3>1, <1>4
    <3>4. Genesis \in C[b].chain
      BY <3>1 DEF TreeOK
    <3>5. \A x \in C[b].chain :
             /\ C[x].chain \subseteq C[b].chain
             /\ x # b => C[x].height < C[b].height
      BY <3>1, <3>2, <1>4, <1>9
    <3>6. \A x, y \in C[b].chain : x \in C[y].chain \/ y \in C[x].chain
      BY <3>1, <3>2 DEF TreeOK
    <3> QED BY <3>3, <3>4, <3>5, <3>6
  <2> QED BY <2>1, <2>2, <1>7
<1>11. C[Genesis] = [prev |-> Null, height |-> 0, chain |-> {Genesis}]
  BY <1>3 DEF TreeOK
<1> QED BY <1>8, <1>10, <1>11 DEF TreeOK

(* Replacing the head p by the tip t of a chain of new blocks on top of p  *)
(* keeps the heads leaves, keeps the main branch the highest if it moves   *)
(* to t exactly when t is higher, and links only blocks of that chain.     *)
LEMMA ExtendKeepsOrder ==
    ASSUME NEW B \in Heap, NEW k \in Nat, 0 .. k \subseteq Block, TreeOK(B, k),
           NEW H \in SUBSET (0 .. k), NEW m, Highest(B, H, m), Leaves(B, H),
           NEW b \in 1 .. k, B[b].prev \in H, b \notin Linked(B, H),
           NEW t \in 0 .. k, b \in B[t].chain,
           NEW G, G = (H \ {B[b].prev}) \cup {t},
           NEW w, w = IF B[t].height > B[m].height THEN t ELSE m
    PROVE  /\ G \subseteq 0 .. k
           /\ Highest(B, G, w)
           /\ Leaves(B, G)
           /\ Linked(B, H) \subseteq Linked(B, G)
           /\ Linked(B, G) \subseteq
                 Linked(B, H) \cup {b} \cup (B[t].chain \ B[b].chain)
           /\ b \in Linked(B, G)
<1> DEFINE p == B[b].prev
<1>1. /\ p \in 0 .. k
      /\ B[b].height = B[p].height + 1
      /\ B[b].chain = B[p].chain \cup {b}
  BY DEF TreeOK
<1>2. \A x \in 0 .. k : B[x].height \in Nat
  BY DEF Heap
<1>3. B[b].height <= B[t].height
  <2>1. b \in 0 .. k
    OBVIOUS
  <2> QED BY <1>2, <2>1 DEF TreeOK
<1>4. B[b].chain \subseteq B[t].chain
  BY DEF TreeOK
<1>5. G \subseteq 0 .. k
  OBVIOUS
<1>6. Highest(B, G, w)
  <2>1. m \in H /\ m \in 0 .. k /\ B[p].height <= B[m].height
    BY DEF Highest
  <2>2. CASE B[t].height > B[m].height
    BY <2>1, <2>2, <1>2 DEF Highest
  <2>3. CASE ~(B[t].height > B[m].height)
    <3>1. m # p
      BY <2>1, <2>3, <1>1, <1>2, <1>3
    <3>2. B[t].height <= B[m].height
      BY <2>1, <2>3, <1>2
    <3> QED BY <2>1, <2>3, <3>1, <3>2, <1>2 DEF Highest
  <2> QED BY <2>2, <2>3
<1>7. \A h \in H : b \notin B[h].chain
  BY DEF Linked
<1>8. \A h \in H : h \notin B[t].chain \/ h = p
  <2> SUFFICES ASSUME NEW h \in H, h \in B[t].chain PROVE h = p
    OBVIOUS
  <2>1. h \in B[h].chain
    BY DEF TreeOK
  <2>2. h \in B[b].chain \/ b \in B[h].chain
    BY DEF TreeOK
  <2>3. h # b
    BY <2>1, <1>7
  <2>4. h \in B[p].chain
    BY <2>2, <2>3, <1>1, <1>7
  <2> QED BY <2>4 DEF Leaves
<1>9. \A h \in H : t \notin B[h].chain
  <2> SUFFICES ASSUME NEW h \in H, t \in B[h].chain PROVE FALSE
    OBVIOUS
  <2>1. B[t].chain \subseteq B[h].chain
    BY DEF TreeOK
  <2> QED BY <2>1, <1>7
<1>10. Leaves(B, G)
  BY <1>8, <1>9 DEF Leaves
<1>11. B[p].chain \subseteq B[t].chain
  BY <1>1, <1>4
<1>12. Linked(B, H) \subseteq Linked(B, G)
  <2> SUFFICES ASSUME NEW h \in H, NEW x \in B[h].chain
               PROVE  \E g \in G : x \in B[g].chain
    BY DEF Linked
  <2>1. CASE h = p
    BY <2>1, <1>11
  <2>2. CASE h # p
    BY <2>2
  <2> QED BY <2>1, <2>2
<1>13. Linked(B, G) \subseteq
          Linked(B, H) \cup {b} \cup (B[t].chain \ B[b].chain)
  <2> SUFFICES ASSUME NEW g \in G, NEW x \in B[g].chain
               PROVE  \/ \E h \in H : x \in B[h].chain
                      \/ x = b
                      \/ x \in B[t].chain \ B[b].chain
    BY DEF Linked
  <2>1. CASE g \in H
    BY <2>1
  <2>2. CASE g = t
    BY <2>2, <1>1
  <2> QED BY <2>1, <2>2
<1>14. b \in Linked(B, G)
  BY DEF Linked
<1> QED BY <1>5, <1>6, <1>10, <1>12, <1>13, <1>14

(* Adding a head b beside a known sibling x of it, when its parent is no   *)
(* head, keeps the heads leaves and the main branch the highest.           *)
LEMMA ForkKeepsOrder ==
    ASSUME NEW B \in Heap, NEW k \in Nat, 0 .. k \subseteq Block, TreeOK(B, k),
           NEW H \in SUBSET (0 .. k), NEW m, Highest(B, H, m), Leaves(B, H),
           NEW b \in 1 .. k, B[b].prev \notin H, b \notin Linked(B, H),
           NEW g \in H, NEW x \in B[g].chain,
           B[x].height >= B[b].height, B[x].prev = B[b].prev,
           NEW G, G = H \cup {b}
    PROVE  /\ Highest(B, G, m)
           /\ Leaves(B, G)
           /\ Linked(B, G) = Linked(B, H) \cup {b}
<1> DEFINE p == B[b].prev
<1>1. /\ p \in 0 .. k
      /\ B[b].chain = B[p].chain \cup {b}
      /\ b \in 0 .. k
  BY DEF TreeOK
<1>2. \A y \in 0 .. k : B[y].height \in Nat
  BY DEF Heap
<1>3. B[x].height >= B[b].height /\ B[x].prev = p
  OBVIOUS
<1>4. x \in 0 .. k /\ x # Genesis /\ x \in 1 .. k
  <2>1. x \in 0 .. k
    BY DEF TreeOK
  <2>2. x # Genesis
    BY <1>1, <1>3 DEF TreeOK, Genesis, Null
  <2> QED BY <2>1, <2>2 DEF Genesis
<1>5. p \in B[g].chain /\ B[p].chain \subseteq B[g].chain
  <2>1. B[x].chain = B[p].chain \cup {x} /\ B[x].chain \subseteq B[g].chain
    BY <1>3, <1>4 DEF TreeOK
  <2>2. p \in B[p].chain
    BY <1>1 DEF TreeOK
  <2> QED BY <2>1, <2>2
<1>6. B[b].height <= B[m].height
  <2>1. g \in 0 .. k /\ m \in 0 .. k /\ B[g].height <= B[m].height
    BY DEF Highest
  <2>2. B[x].height <= B[g].height
    BY <2>1, <1>2, <1>3, <1>4 DEF TreeOK
  <2> QED BY <2>1, <2>2, <1>1, <1>2, <1>3, <1>4
<1>7. Highest(B, G, m)
  BY <1>6 DEF Highest
<1>8. \A h \in H : b \notin B[h].chain
  BY DEF Linked
<1>9. \A h \in H : h \notin B[b].chain
  <2> SUFFICES ASSUME NEW h \in H, h \in B[b].chain PROVE FALSE
    OBVIOUS
  <2>1. h # b
    <3>1. h \in B[h].chain
      BY DEF TreeOK
    <3> QED BY <3>1, <1>8
  <2>2. h \in B[p].chain
    BY <2>1, <1>1
  <2>3. h = g
    BY <2>2, <1>5 DEF Leaves
  <2>4. g \in 0 .. k /\ (B[g].height < B[p].height \/ g = p)
    BY <2>2, <2>3, <1>1 DEF TreeOK
  <2>5. B[p].height < B[g].height \/ g = p
    BY <1>5 DEF TreeOK
  <2>6. g = p
    BY <2>4, <2>5, <1>1, <1>2
  <2> QED BY <2>6
<1>10. Leaves(B, G)
  BY <1>8, <1>9 DEF Leaves
<1>11. Linked(B, G) = Linked(B, H) \cup {b}
  BY <1>1, <1>5 DEF Linked
<1> QED BY <1>7, <1>10, <1>11

-----------------------------------------------------------------------------
(* appendBlock() of a block that the node has not linked, over a heap with *)
(* no cut: it does not abort, changes only this node, keeps the order of   *)
(* its branches, forgets nothing, and files the block.                     *)
LEMMA AppendKeepsOrder ==
    ASSUME TypeOK, NEW B \in Heap, NEW k \in Nat, 0 .. k \subseteq Block,
           TreeOK(B, k), NEW n \in Node, NEW b \in 1 .. k,
           branches[n] \subseteq 0 .. k, orphans[n] \subseteq 1 .. k,
           orphans[n] \subseteq Resident(B),
           Highest(B, branches[n], mainBranch[n]), Leaves(B, branches[n]),
           gbmMainBranch[n] = mainBranch[n], b \notin Linked(B, branches[n]),
           AppendBlock(n, b, B)
    PROVE  /\ UNCHANGED aborted
           /\ branches' = [branches EXCEPT ![n] = branches'[n]]
           /\ mainBranch' = [mainBranch EXCEPT ![n] = mainBranch'[n]]
           /\ gbmMainBranch' = [gbmMainBranch EXCEPT ![n] = mainBranch'[n]]
           /\ orphans' = [orphans EXCEPT ![n] = orphans'[n]]
           /\ branches'[n] \subseteq 0 .. k
           /\ Highest(B, branches'[n], mainBranch'[n])
           /\ Leaves(B, branches'[n])
           /\ orphans[n] \subseteq orphans'[n]
           /\ orphans'[n] \subseteq orphans[n] \cup {b}
           /\ Linked(B, branches[n]) \subseteq Linked(B, branches'[n])
           /\ Linked(B, branches'[n]) \subseteq
                 Linked(B, branches[n]) \cup {b} \cup orphans[n]
           /\ b \in Linked(B, branches'[n]) \cup orphans'[n]
           /\ B[b].prev \in branches[n] => b \in Linked(B, branches'[n])
           /\ \A g \in branches'[n] : g \in branches[n] \/ b \in B[g].chain
           /\ mainBranch'[n] # mainBranch[n] =>
                 B[mainBranch'[n]].height > B[mainBranch[n]].height
<1> DEFINE H == branches[n]
           m == mainBranch[n]
<1>1. /\ B[b].prev \in 0 .. k
      /\ B[b].prev # Null
      /\ B[b].height = B[B[b].prev].height + 1
  BY DEF TreeOK, Null
<1>2. \A x \in 0 .. k : B[x].height \in Nat
  BY DEF Heap
<1>3. LiveOrphans(n, B) = orphans[n]
  BY DEF LiveOrphans
<1>4. \A x \in 0 .. k : Genesis \in B[x].chain
  BY DEF TreeOK
<1>5. H \in SUBSET (0 .. k) /\ m \in H /\ m \in 0 .. k /\ b \in 0 .. k
  BY DEF Highest
<1>6. CASE B[b].prev \in H
  <2>1. ExtendBranch(n, b, B)
    BY <1>1, <1>6 DEF AppendBlock
  <2>2. ~ForkLost(b, m, B)
    BY <1>4, <1>5 DEF ForkLost
  <2>3. PICK t \in AdoptionTips(n, b, B) :
           LET w == IF B[t].height > B[m].height THEN t ELSE m
           IN  /\ branches' = [branches EXCEPT ![n] =
                                  (H \ {B[b].prev}) \cup {t}]
               /\ mainBranch' = [mainBranch EXCEPT ![n] = w]
               /\ gbmMainBranch' = [gbmMainBranch EXCEPT ![n] =
                       IF B[t].height > B[m].height THEN t
                       ELSE gbmMainBranch[n]]
               /\ orphans' = [orphans EXCEPT ![n] = orphans[n]]
               /\ UNCHANGED aborted
    BY <2>1, <2>2, <1>3 DEF ExtendBranch, Wins
  <2> DEFINE w == IF B[t].height > B[m].height THEN t ELSE m
             G == (H \ {B[b].prev}) \cup {t}
  <2>4. /\ t \in 0 .. k
        /\ b \in B[t].chain
        /\ B[t].chain \ B[b].chain \subseteq orphans[n]
    BY <1>3, <1>5 DEF AdoptionTips
  <2>5. /\ branches' = [branches EXCEPT ![n] = G]
        /\ mainBranch' = [mainBranch EXCEPT ![n] = w]
        /\ gbmMainBranch' = [gbmMainBranch EXCEPT ![n] = w]
        /\ orphans' = [orphans EXCEPT ![n] = orphans[n]]
        /\ UNCHANGED aborted
    BY <2>3
  <2>6. /\ branches'[n] = G /\ mainBranch'[n] = w
        /\ gbmMainBranch'[n] = w /\ orphans'[n] = orphans[n]
    BY <2>5 DEF TypeOK
  <2>7. /\ G \subseteq 0 .. k
        /\ Highest(B, G, w)
        /\ Leaves(B, G)
        /\ Linked(B, H) \subseteq Linked(B, G)
        /\ Linked(B, G) \subseteq
              Linked(B, H) \cup {b} \cup (B[t].chain \ B[b].chain)
        /\ b \in Linked(B, G)
    BY <1>5, <1>6, <2>4, ExtendKeepsOrder
  <2>8. w # m => B[w].height > B[m].height
    OBVIOUS
  <2> QED BY <2>4, <2>5, <2>6, <2>7, <2>8
<1>7. CASE B[b].prev \notin H
  <2>1. FileBlock(n, b, B)
    BY <1>1, <1>7 DEF AppendBlock
  <2>2. \A h \in H : b \notin B[h].chain
    BY DEF Linked
  <2>3. \A h \in H : ~IsDuplicate(h, b, B)
    BY <2>2 DEF IsDuplicate, Walked
  <2>4. \A h \in H : ~RunsOffEnd(h, b, B)
    <3> SUFFICES ASSUME NEW h \in H PROVE Walked(h, b, B) # B[h].chain
      BY DEF RunsOffEnd
    <3>1. Genesis \in B[h].chain /\ B[Genesis].height = 0
      BY <1>4, <1>5 DEF TreeOK
    <3>2. Genesis \notin Walked(h, b, B)
      BY <3>1, <1>1, <1>2 DEF Walked
    <3> QED BY <3>1, <3>2
  <2>5. CASE \E h \in H : HasSibling(h, b, B)
    <3>1. /\ branches' = [branches EXCEPT ![n] = H \cup {b}]
          /\ UNCHANGED <<mainBranch, orphans, gbmMainBranch, aborted>>
      BY <2>1, <2>3, <2>4, <2>5 DEF FileBlock
    <3>2. branches'[n] = H \cup {b}
      BY <3>1 DEF TypeOK
    <3>3. /\ Highest(B, H \cup {b}, m)
          /\ Leaves(B, H \cup {b})
          /\ Linked(B, H \cup {b}) = Linked(B, H) \cup {b}
      <4>1. PICK g \in H : HasSibling(g, b, B)
        BY <2>5
      <4>3. PICK x \in B[g].chain :
               B[x].height >= B[b].height /\ B[x].prev = B[b].prev
        BY <4>1 DEF HasSibling, Walked
      <4> QED BY <4>3, <1>5, <1>7, ForkKeepsOrder
    <3>4. /\ mainBranch' = [mainBranch EXCEPT ![n] = mainBranch'[n]]
          /\ gbmMainBranch' = [gbmMainBranch EXCEPT ![n] = mainBranch'[n]]
          /\ orphans' = [orphans EXCEPT ![n] = orphans'[n]]
      BY <3>1 DEF TypeOK
    <3>5. \A g \in H \cup {b} : g \in H \/ b \in B[g].chain
      BY <1>5 DEF TreeOK
    <3> HIDE DEF H, m
    <3> QED
      BY <3>1, <3>2, <3>3, <3>4, <3>5, <1>5, <1>7 DEF H, m
  <2>6. CASE ~\E h \in H : HasSibling(h, b, B)
    <3>1. /\ orphans' = [orphans EXCEPT ![n] = orphans[n] \cup {b}]
          /\ UNCHANGED <<mainBranch, branches, gbmMainBranch, aborted>>
      BY <2>1, <2>3, <2>4, <2>6 DEF FileBlock, PutAside
    <3>2. orphans'[n] = orphans[n] \cup {b}
      BY <3>1 DEF TypeOK
    <3>3. /\ mainBranch' = [mainBranch EXCEPT ![n] = mainBranch'[n]]
          /\ gbmMainBranch' = [gbmMainBranch EXCEPT ![n] = mainBranch'[n]]
          /\ branches' = [branches EXCEPT ![n] = branches'[n]]
      BY <3>1 DEF TypeOK
    <3> QED BY <3>1, <3>2, <3>3, <1>7
  <2> QED BY <2>5, <2>6
<1> QED BY <1>6, <1>7

-----------------------------------------------------------------------------
(* The inductive invariant.                                                *)

(* A heap that differs only in blocks a node does not refer to is the same *)
(* to that node.                                                           *)
LEMMA SameOldBlocks ==
    ASSUME NEW B, NEW C, NEW k \in Nat, \A x \in 0 .. k : C[x] = B[x],
           NEW H \in SUBSET (0 .. k), NEW m \in H
    PROVE  /\ Linked(C, H) = Linked(B, H)
           /\ Highest(C, H, m) <=> Highest(B, H, m)
           /\ Leaves(C, H) <=> Leaves(B, H)
  BY DEF Linked, Highest, Leaves

(* The invariant in terms of the tree. *)
LEMMA InvariantOfTree ==
    ASSUME TreeInv, NEW n \in Node
    PROVE  /\ block \in Heap
           /\ mined \in Nat
           /\ 0 .. mined \subseteq Block
           /\ Highest(block, branches[n], mainBranch[n])
           /\ Leaves(block, branches[n])
           /\ gbmMainBranch[n] = mainBranch[n]
           /\ Known(n) = Linked(block, branches[n])
           /\ mainBranch[n] \in 0 .. mined
  BY MaxBlockAssumption
     DEF TreeInv, TypeOK, Heap, Block, Genesis, Highest, Leaves, Known, Linked,
         References, MainBranchIsHighest, HeadsAreLeaves

(* As long as every block is retained, no weak reference has expired. *)
LEMMA OrphansAreResident ==
    ASSUME TreeInv, NEW n \in Node, NEW B, \A x \in 0 .. mined : B[x] = block[x]
    PROVE  orphans[n] \subseteq Resident(B)
<1> SUFFICES ASSUME NEW o \in orphans[n] PROVE o \in Resident(B)
  OBVIOUS
<1>1. PICK m \in Node : o \in Known(m)
  BY DEF TreeInv, References, Retained
<1>2. PICK h \in branches[m] : o \in block[h].chain
  BY <1>1 DEF Known
<1>3. h \in 0 .. mined
  BY <1>2 DEF TreeInv, References
<1> QED BY <1>2, <1>3 DEF Resident

LEMMA InitEstablishesIInv == Init => IInv
<1> SUFFICES ASSUME Init PROVE IInv
  OBVIOUS
<1> USE MaxBlockAssumption DEF Init, Genesis, Null, Block
<1>1. TypeOK
  <2>1. block \in [Block -> [prev   : Block \cup {Null},
                             height : Nat,
                             chain  : SUBSET Block]]
    <3>1. \A b \in Block :
             (IF b = Genesis THEN {Genesis} ELSE {}) \in SUBSET Block
      OBVIOUS
    <3> QED BY <3>1
  <2>2. mined \in Block
    OBVIOUS
  <2>4. aborted \in BOOLEAN
    <3>1. aborted = FALSE
      OBVIOUS
    <3> QED BY <3>1
  <2>3. /\ branches \in [Node -> SUBSET Block]
        /\ mainBranch \in [Node -> Block]
        /\ orphans \in [Node -> SUBSET Block]
        /\ inFlight \in [Node -> SUBSET Block]
        /\ gbmMainBranch \in [Node -> Block]
    OBVIOUS
  <2> HIDE DEF Init, Genesis, Null, Block
  <2> QED BY <2>1, <2>2, <2>3, <2>4 DEF TypeOK
<1>2. TreeOK(block, mined)
  BY DEF TreeOK
<1>3. References /\ Retained /\ NeverAborts
  BY DEF References, Retained, NeverAborts
<1>4. MainBranchIsHighest
  BY DEF MainBranchIsHighest
<1>5. HeadsAreLeaves
  BY DEF HeadsAreLeaves
<1>6. BlockAccounting
  BY DEF BlockAccounting, Known
<1> QED BY <1>1, <1>2, <1>3, <1>4, <1>5, <1>6 DEF IInv, TreeInv

(* What n makes of a received block b, in terms of the tree, and what it   *)
(* makes of a mined one: the new block extends its main branch.  The other *)
(* nodes see the same tree as before.                                      *)
FiledReceived(n, b) ==
    /\ UNCHANGED <<mined, block, aborted>>
    /\ branches' = [branches EXCEPT ![n] = branches'[n]]
    /\ mainBranch' = [mainBranch EXCEPT ![n] = mainBranch'[n]]
    /\ gbmMainBranch' = [gbmMainBranch EXCEPT ![n] = mainBranch'[n]]
    /\ orphans' = [orphans EXCEPT ![n] = orphans'[n]]
    /\ branches'[n] \subseteq 0 .. mined
    /\ Highest(block, branches'[n], mainBranch'[n])
    /\ Leaves(block, branches'[n])
    /\ orphans[n] \subseteq orphans'[n]
    /\ orphans'[n] \subseteq orphans[n] \cup {b}
    /\ Known(n) \subseteq Linked(block, branches'[n])
    /\ Linked(block, branches'[n]) \subseteq Known(n) \cup {b} \cup orphans[n]
    /\ b \in Linked(block, branches'[n]) \cup orphans'[n]
    /\ \A g \in branches'[n] : g \in branches[n] \/ b \in block[g].chain
    /\ mainBranch'[n] # mainBranch[n] =>
          block[mainBranch'[n]].height > block[mainBranch[n]].height

FiledMined(n, k) ==
    /\ k \in Block /\ 0 .. k \subseteq Block
    /\ mined' = k
    /\ UNCHANGED aborted
    /\ block' \in Heap
    /\ TreeOK(block', k)
    /\ \A x \in 0 .. mined : block'[x] = block[x]
    /\ branches' = [branches EXCEPT ![n] = branches'[n]]
    /\ mainBranch' = [mainBranch EXCEPT ![n] = mainBranch'[n]]
    /\ gbmMainBranch' = [gbmMainBranch EXCEPT ![n] = mainBranch'[n]]
    /\ orphans' = [orphans EXCEPT ![n] = orphans'[n]]
    /\ branches'[n] \subseteq 0 .. k
    /\ Highest(block', branches'[n], mainBranch'[n])
    /\ Leaves(block', branches'[n])
    /\ orphans[n] \subseteq orphans'[n]
    /\ orphans'[n] \subseteq orphans[n] \cup {k}
    /\ Known(n) \subseteq Linked(block', branches'[n])
    /\ Linked(block', branches'[n]) \subseteq Known(n) \cup {k} \cup orphans[n]
    /\ k \in Linked(block', branches'[n])
    /\ \A g \in branches'[n] : g \in branches[n] \/ k \in block'[g].chain
    /\ block'[k] = NewBlock(n)
    /\ mainBranch'[n] # mainBranch[n] =>
          block'[mainBranch'[n]].height > block[mainBranch[n]].height

LEMMA AppendFilesReceived ==
    ASSUME TreeInv, NEW n \in Node, NEW b \in 1 .. mined, b \notin Known(n),
           AppendBlock(n, b, block), UNCHANGED <<mined, block>>
    PROVE  FiledReceived(n, b)
<1>1. orphans[n] \subseteq Resident(block)
  BY OrphansAreResident
<1>2. /\ block \in Heap /\ mined \in Nat /\ 0 .. mined \subseteq Block
      /\ TypeOK /\ TreeOK(block, mined)
      /\ Highest(block, branches[n], mainBranch[n])
      /\ Leaves(block, branches[n])
      /\ gbmMainBranch[n] = mainBranch[n]
      /\ Known(n) = Linked(block, branches[n])
      /\ branches[n] \subseteq 0 .. mined
      /\ orphans[n] \subseteq 1 .. mined
  BY InvariantOfTree DEF TreeInv, References
<1> QED BY <1>1, <1>2, AppendKeepsOrder DEF FiledReceived

(* The heap with the block that Miner::mineBlock() adds at node n. *)
LEMMA MinedTree ==
    ASSUME TreeInv, NEW n \in Node, mined < MaxBlock,
           NEW C, C = [block EXCEPT ![mined + 1] = NewBlock(n)]
    PROVE  /\ C \in Heap
           /\ TreeOK(C, mined + 1)
           /\ \A x \in 0 .. mined : C[x] = block[x]
<1> DEFINE p == mainBranch[n]
<1>1. /\ block \in Heap /\ mined \in Nat /\ TreeOK(block, mined)
      /\ p \in 0 .. mined
  BY InvariantOfTree DEF TreeInv
<1>2. mined + 1 \in Block
  BY <1>1, MaxBlockAssumption DEF Block
<1>3. NewBlock(n) = [prev   |-> p,
                     height |-> block[p].height + 1,
                     chain  |-> block[p].chain \cup {mined + 1}]
  BY DEF NewBlock
<1>4. /\ block[p].height + 1 \in Nat
      /\ block[p].chain \cup {mined + 1} \in SUBSET Block
      /\ p \in Block
  BY <1>1, <1>2, InvariantOfTree DEF Heap
<1>5. NewBlock(n) \in [prev   : Block \cup {Null},
                       height : Nat,
                       chain  : SUBSET Block]
  BY <1>3, <1>4
<1>6. C \in Heap /\ C[mined + 1] = NewBlock(n)
  BY <1>1, <1>2, <1>5 DEF Heap
<1>7. \A x \in 0 .. mined : C[x] = block[x]
  BY <1>1, InvariantOfTree DEF Heap
<1> HIDE DEF p
<1> QED BY <1>1, <1>2, <1>3, <1>6, <1>7, TreeGrows

LEMMA AppendFilesMined ==
    ASSUME TreeInv, NEW n \in Node, NEW k, k = mined + 1, mined < MaxBlock,
           mined' = k, block' = [block EXCEPT ![k] = NewBlock(n)],
           AppendBlock(n, k, [block EXCEPT ![k] = NewBlock(n)])
    PROVE  FiledMined(n, k)
<1> DEFINE C == [block EXCEPT ![k] = NewBlock(n)]
           p == mainBranch[n]
<1>1. mined < MaxBlock /\ mined' = k /\ block' = C /\ AppendBlock(n, k, C)
  OBVIOUS
<1>2. /\ block \in Heap /\ mined \in Nat
      /\ TypeOK /\ TreeOK(block, mined)
      /\ Highest(block, branches[n], p)
      /\ Leaves(block, branches[n])
      /\ gbmMainBranch[n] = p
      /\ Known(n) = Linked(block, branches[n])
      /\ p \in 0 .. mined /\ p \in branches[n]
      /\ branches[n] \subseteq 0 .. mined
      /\ orphans[n] \subseteq 1 .. mined
  BY InvariantOfTree DEF TreeInv, References, Highest
<1>3. k \in Block /\ 0 .. k \subseteq Block /\ k \in Nat /\ k \in 1 .. k
  BY <1>1, <1>2, MaxBlockAssumption DEF Block
<1>4. /\ C \in Heap
      /\ TreeOK(C, k)
      /\ \A x \in 0 .. mined : C[x] = block[x]
  BY MinedTree
<1>5. C[k] = NewBlock(n) /\ C[k].prev = p
  BY <1>2, <1>3 DEF NewBlock, Heap
<1>6. /\ Linked(C, branches[n]) = Known(n)
      /\ Highest(C, branches[n], p)
      /\ Leaves(C, branches[n])
      /\ C[p].height = block[p].height
  BY <1>2, <1>4, SameOldBlocks
<1>7. Known(n) \subseteq 0 .. mined
  BY <1>2 DEF Linked, TreeOK
<1>8. k \notin Linked(C, branches[n])
  BY <1>2, <1>6, <1>7
<1>9. orphans[n] \subseteq Resident(C)
  BY <1>4, OrphansAreResident
<1>10. branches[n] \subseteq 0 .. k /\ orphans[n] \subseteq 1 .. k
  BY <1>2
<1> HIDE DEF C, p
<1>11. /\ UNCHANGED aborted
       /\ branches' = [branches EXCEPT ![n] = branches'[n]]
       /\ mainBranch' = [mainBranch EXCEPT ![n] = mainBranch'[n]]
       /\ gbmMainBranch' = [gbmMainBranch EXCEPT ![n] = mainBranch'[n]]
       /\ orphans' = [orphans EXCEPT ![n] = orphans'[n]]
       /\ branches'[n] \subseteq 0 .. k
       /\ Highest(C, branches'[n], mainBranch'[n])
       /\ Leaves(C, branches'[n])
       /\ orphans[n] \subseteq orphans'[n]
       /\ orphans'[n] \subseteq orphans[n] \cup {k}
       /\ Linked(C, branches[n]) \subseteq Linked(C, branches'[n])
       /\ Linked(C, branches'[n]) \subseteq
             Linked(C, branches[n]) \cup {k} \cup orphans[n]
       /\ k \in Linked(C, branches'[n])
       /\ \A g \in branches'[n] : g \in branches[n] \/ k \in C[g].chain
       /\ mainBranch'[n] # mainBranch[n] =>
             C[mainBranch'[n]].height > C[mainBranch[n]].height
  BY <1>1, <1>2, <1>3, <1>4, <1>5, <1>6, <1>8, <1>9, <1>10,
     AppendKeepsOrder DEF p
<1> QED BY <1>1, <1>3, <1>4, <1>5, <1>6, <1>11 DEF p, FiledMined

(* Filing a block keeps the invariant, if what is sent exists. *)
LEMMA ReceivedKeepsTree ==
    ASSUME TreeInv, NEW n \in Node, NEW b \in 1 .. mined, FiledReceived(n, b),
           inFlight' \in [Node -> SUBSET (1 .. mined)]
    PROVE  /\ TreeInv'
           /\ Known(n)' = Linked(block, branches'[n])
           /\ \A m \in Node \ {n} : /\ Known(m)' = Known(m)
                                    /\ branches'[m] = branches[m]
                                    /\ mainBranch'[m] = mainBranch[m]
                                    /\ orphans'[m] = orphans[m]
<1>1. /\ block \in Heap /\ mined \in Nat /\ 0 .. mined \subseteq Block
      /\ TypeOK /\ TreeOK(block, mined) /\ References /\ Retained
      /\ MainBranchIsHighest /\ HeadsAreLeaves
  BY InvariantOfTree DEF TreeInv
<1>2. /\ mined' = mined /\ block' = block /\ aborted' = aborted
      /\ \A m \in Node \ {n} :
            /\ branches'[m] = branches[m]
            /\ mainBranch'[m] = mainBranch[m]
            /\ gbmMainBranch'[m] = gbmMainBranch[m]
            /\ orphans'[m] = orphans[m]
      /\ gbmMainBranch'[n] = mainBranch'[n]
  <2>1. /\ branches' = [branches EXCEPT ![n] = branches'[n]]
        /\ mainBranch' = [mainBranch EXCEPT ![n] = mainBranch'[n]]
        /\ gbmMainBranch' = [gbmMainBranch EXCEPT ![n] = mainBranch'[n]]
        /\ orphans' = [orphans EXCEPT ![n] = orphans'[n]]
        /\ UNCHANGED <<mined, block, aborted>>
    BY DEF FiledReceived
  <2> QED BY <1>1, <2>1 DEF TypeOK
<1>3. /\ branches'[n] \subseteq 0 .. mined
      /\ Highest(block, branches'[n], mainBranch'[n])
      /\ Leaves(block, branches'[n])
      /\ orphans[n] \subseteq orphans'[n]
      /\ orphans'[n] \subseteq orphans[n] \cup {b}
      /\ Known(n) \subseteq Linked(block, branches'[n])
      /\ Linked(block, branches'[n]) \subseteq
            Known(n) \cup {b} \cup orphans[n]
      /\ b \in Linked(block, branches'[n]) \cup orphans'[n]
  BY DEF FiledReceived
<1>4. /\ Known(n)' = Linked(block, branches'[n])
      /\ \A m \in Node \ {n} : Known(m)' = Known(m)
  BY <1>2 DEF Known, Linked
<1>5. TypeOK'
  <2>1. /\ branches'[n] \in SUBSET Block /\ orphans'[n] \in SUBSET Block
        /\ mainBranch'[n] \in Block
    BY <1>1, <1>2, <1>3 DEF Highest, References, TypeOK
  <2>2. /\ branches' = [branches EXCEPT ![n] = branches'[n]]
        /\ mainBranch' = [mainBranch EXCEPT ![n] = mainBranch'[n]]
        /\ gbmMainBranch' = [gbmMainBranch EXCEPT ![n] = mainBranch'[n]]
        /\ orphans' = [orphans EXCEPT ![n] = orphans'[n]]
    BY DEF FiledReceived
  <2>3. /\ branches' \in [Node -> SUBSET Block]
        /\ mainBranch' \in [Node -> Block]
        /\ gbmMainBranch' \in [Node -> Block]
        /\ orphans' \in [Node -> SUBSET Block]
    BY <1>1, <2>1, <2>2 DEF TypeOK
  <2>4. inFlight' \in [Node -> SUBSET Block]
    BY <1>1
  <2> QED BY <1>1, <1>2, <2>3, <2>4 DEF TypeOK
<1>6. TreeOK(block, mined)'
  BY <1>1, <1>2 DEF TreeOK
<1>7. References'
  BY <1>1, <1>2, <1>3 DEF References
<1>8. Retained'
  BY <1>1, <1>2, <1>3, <1>4 DEF Retained
<1>9. MainBranchIsHighest'
  BY <1>1, <1>2, <1>3 DEF MainBranchIsHighest, Highest
<1>10. HeadsAreLeaves'
  BY <1>1, <1>2, <1>3 DEF HeadsAreLeaves, Leaves
<1>11. NeverAborts'
  BY <1>2 DEF TreeInv, NeverAborts
<1> QED
  BY <1>2, <1>4, <1>5, <1>6, <1>7, <1>8, <1>9, <1>10, <1>11 DEF TreeInv

LEMMA MinedKeepsTree ==
    ASSUME TreeInv, NEW n \in Node, NEW k, k = mined + 1, FiledMined(n, k),
           inFlight' \in [Node -> SUBSET (1 .. k)]
    PROVE  /\ TreeInv'
           /\ Known(n)' = Linked(block', branches'[n])
           /\ \A m \in Node \ {n} : /\ Known(m)' = Known(m)
                                    /\ branches'[m] = branches[m]
                                    /\ mainBranch'[m] = mainBranch[m]
                                    /\ orphans'[m] = orphans[m]
<1>1. /\ block \in Heap /\ mined \in Nat /\ 0 .. mined \subseteq Block
      /\ TypeOK /\ TreeOK(block, mined) /\ References /\ Retained
      /\ MainBranchIsHighest /\ HeadsAreLeaves
  BY InvariantOfTree DEF TreeInv
<1>2. /\ k \in Block /\ 0 .. k \subseteq Block
      /\ mined' = k /\ aborted' = aborted
      /\ block' \in Heap
      /\ TreeOK(block', k)
      /\ \A x \in 0 .. mined : block'[x] = block[x]
      /\ \A m \in Node \ {n} :
            /\ branches'[m] = branches[m]
            /\ mainBranch'[m] = mainBranch[m]
            /\ gbmMainBranch'[m] = gbmMainBranch[m]
            /\ orphans'[m] = orphans[m]
      /\ gbmMainBranch'[n] = mainBranch'[n]
  BY <1>1 DEF TypeOK, FiledMined
<1>3. /\ branches'[n] \subseteq 0 .. k
      /\ Highest(block', branches'[n], mainBranch'[n])
      /\ Leaves(block', branches'[n])
      /\ orphans[n] \subseteq orphans'[n]
      /\ orphans'[n] \subseteq orphans[n] \cup {k}
      /\ Known(n) \subseteq Linked(block', branches'[n])
      /\ Linked(block', branches'[n]) \subseteq
            Known(n) \cup {k} \cup orphans[n]
      /\ k \in Linked(block', branches'[n])
  BY DEF FiledMined
<1>4. /\ Known(n)' = Linked(block', branches'[n])
      /\ \A m \in Node \ {n} :
            /\ Known(m)' = Known(m)
            /\ Highest(block', branches[m], mainBranch[m])
            /\ Leaves(block', branches[m])
  <2>1. ASSUME NEW m \in Node \ {n}
        PROVE  /\ Known(m)' = Known(m)
               /\ Highest(block', branches[m], mainBranch[m])
               /\ Leaves(block', branches[m])
    <3>1. /\ Highest(block, branches[m], mainBranch[m])
          /\ Leaves(block, branches[m])
          /\ Known(m) = Linked(block, branches[m])
          /\ branches[m] \subseteq 0 .. mined
          /\ mainBranch[m] \in branches[m]
      BY <1>1, InvariantOfTree DEF References, MainBranchIsHighest
    <3>2. /\ Highest(block', branches[m], mainBranch[m])
          /\ Leaves(block', branches[m])
          /\ Known(m) = Linked(block', branches[m])
      BY <1>2, <3>1 DEF Linked, Highest, Leaves
    <3> QED BY <1>2, <3>2 DEF Known, Linked
  <2> QED BY <2>1 DEF Known, Linked
<1>5. TypeOK'
  <2>1. /\ branches'[n] \in SUBSET Block /\ orphans'[n] \in SUBSET Block
        /\ mainBranch'[n] \in Block
    BY <1>1, <1>2, <1>3 DEF Highest, TypeOK
  <2>2. /\ branches' = [branches EXCEPT ![n] = branches'[n]]
        /\ mainBranch' = [mainBranch EXCEPT ![n] = mainBranch'[n]]
        /\ gbmMainBranch' = [gbmMainBranch EXCEPT ![n] = mainBranch'[n]]
        /\ orphans' = [orphans EXCEPT ![n] = orphans'[n]]
    BY DEF FiledMined
  <2>3. /\ branches' \in [Node -> SUBSET Block]
        /\ mainBranch' \in [Node -> Block]
        /\ gbmMainBranch' \in [Node -> Block]
        /\ orphans' \in [Node -> SUBSET Block]
    BY <1>1, <2>1, <2>2 DEF TypeOK
  <2>4. inFlight' \in [Node -> SUBSET Block]
    BY <1>2
  <2>5. block' \in [Block -> [prev   : Block \cup {Null},
                              height : Nat,
                              chain  : SUBSET Block]]
    BY <1>2 DEF Heap
  <2> QED BY <1>1, <1>2, <2>3, <2>4, <2>5 DEF TypeOK
<1>6. TreeOK(block, mined)'
  BY <1>2 DEF TreeOK
<1>7. References'
  BY <1>1, <1>2, <1>3 DEF References
<1>8. Retained'
  BY <1>1, <1>2, <1>3, <1>4 DEF Retained
<1>9. MainBranchIsHighest'
  <2>1. \A m \in Node : gbmMainBranch'[m] = mainBranch'[m]
    BY <1>1, <1>2 DEF MainBranchIsHighest
  <2>2. \A m \in Node : Highest(block', branches'[m], mainBranch'[m])
    BY <1>2, <1>3, <1>4
  <2> QED BY <2>1, <2>2 DEF MainBranchIsHighest, Highest
<1>10. HeadsAreLeaves'
  BY <1>2, <1>3, <1>4 DEF HeadsAreLeaves, Leaves
<1>11. NeverAborts'
  BY <1>2 DEF TreeInv, NeverAborts
<1> QED
  BY <1>2, <1>4, <1>5, <1>6, <1>7, <1>8, <1>9, <1>10, <1>11 DEF TreeInv

(* The steps of Receive(n, b) and of Mine(n). *)
LEMMA ReceiveFilesBlock ==
    ASSUME IInv, NEW n \in Node, NEW b \in Block, Receive(n, b)
    PROVE  /\ b \in 1 .. mined
           /\ inFlight' = [inFlight EXCEPT ![n] = @ \ {b}]
           /\ FiledReceived(n, b)
<1>1. b \in 1 .. mined /\ b \notin Known(n)
  BY DEF Receive, IInv, TreeInv, References, BlockAccounting
<1> QED BY <1>1, AppendFilesReceived DEF Receive, IInv

LEMMA MineFilesBlock ==
    ASSUME IInv, NEW n \in Node, Mine(n), NEW k, k = mined + 1
    PROVE  /\ inFlight' = [m \in Node |-> IF m = n THEN inFlight[m]
                                          ELSE inFlight[m] \cup {k}]
           /\ FiledMined(n, k)
  BY AppendFilesMined DEF Mine, Broadcast, IInv

LEMMA ReceiveKeepsIInv ==
    ASSUME IInv, NEW n \in Node, NEW b \in Block, Receive(n, b)
    PROVE  IInv'
<1>1. /\ b \in 1 .. mined /\ FiledReceived(n, b) /\ b \in inFlight[n]
      /\ inFlight' = [inFlight EXCEPT ![n] = @ \ {b}]
  BY ReceiveFilesBlock DEF Receive
<1>2. /\ inFlight \in [Node -> SUBSET (1 .. mined)]
      /\ inFlight'[n] = inFlight[n] \ {b}
      /\ \A m \in Node \ {n} : inFlight'[m] = inFlight[m]
      /\ inFlight' \in [Node -> SUBSET (1 .. mined)]
  <2>1. inFlight \in [Node -> SUBSET (1 .. mined)]
    BY DEF IInv, TreeInv, TypeOK, References
  <2> QED BY <1>1, <2>1
<1>3. /\ TreeInv'
      /\ Known(n)' = Linked(block, branches'[n])
      /\ \A m \in Node \ {n} : Known(m)' = Known(m) /\ orphans'[m] = orphans[m]
  BY <1>1, <1>2, ReceivedKeepsTree DEF IInv
<1>4. BlockAccounting'
  <2>1. \A m \in Node : /\ Genesis .. mined = inFlight[m] \cup Known(m) \cup orphans[m]
                       /\ inFlight[m] \cap (Known(m) \cup orphans[m]) = {}
    BY DEF IInv, BlockAccounting
  <2>2. /\ Genesis .. mined = inFlight'[n] \cup Known(n)' \cup orphans'[n]
        /\ inFlight'[n] \cap (Known(n)' \cup orphans'[n]) = {}
    BY <1>1, <1>2, <1>3, <2>1 DEF FiledReceived
  <2>3. mined' = mined
    BY <1>1 DEF FiledReceived
  <2> QED BY <1>2, <1>3, <2>1, <2>2, <2>3 DEF BlockAccounting
<1> QED BY <1>3, <1>4 DEF IInv

LEMMA MineKeepsIInv ==
    ASSUME IInv, NEW n \in Node, Mine(n)
    PROVE  IInv'
<1> DEFINE k == mined + 1
<1>1. /\ FiledMined(n, k) /\ mined \in Nat
      /\ inFlight' = [m \in Node |-> IF m = n THEN inFlight[m]
                                     ELSE inFlight[m] \cup {k}]
  BY MineFilesBlock, InvariantOfTree DEF IInv
<1>2. /\ inFlight \in [Node -> SUBSET (1 .. mined)]
      /\ inFlight'[n] = inFlight[n]
      /\ \A m \in Node \ {n} : inFlight'[m] = inFlight[m] \cup {k}
      /\ inFlight' \in [Node -> SUBSET (1 .. k)]
  <2>1. inFlight \in [Node -> SUBSET (1 .. mined)]
    BY DEF IInv, TreeInv, TypeOK, References
  <2> QED BY <1>1, <2>1
<1>3. /\ TreeInv'
      /\ Known(n)' = Linked(block', branches'[n])
      /\ \A m \in Node \ {n} : Known(m)' = Known(m) /\ orphans'[m] = orphans[m]
  BY <1>1, <1>2, MinedKeepsTree DEF IInv
<1>4. BlockAccounting'
  <2> USE DEF Genesis
  <2>1. ASSUME NEW m \in Node
        PROVE  /\ 0 .. mined = inFlight[m] \cup Known(m) \cup orphans[m]
               /\ inFlight[m] \cap (Known(m) \cup orphans[m]) = {}
    BY DEF IInv, BlockAccounting
  <2>2. 0 .. k = 0 .. mined \cup {k} /\ k \notin 0 .. mined
    BY <1>1
  <2>3. /\ 0 .. k = inFlight'[n] \cup Known(n)' \cup orphans'[n]
        /\ inFlight'[n] \cap (Known(n)' \cup orphans'[n]) = {}
    BY <1>1, <1>2, <1>3, <2>1, <2>2 DEF FiledMined
  <2>4. ASSUME NEW m \in Node \ {n}
        PROVE  /\ 0 .. k = inFlight'[m] \cup Known(m)' \cup orphans'[m]
               /\ inFlight'[m] \cap (Known(m)' \cup orphans'[m]) = {}
    <3>1. /\ inFlight'[m] = inFlight[m] \cup {k}
          /\ Known(m)' = Known(m) /\ orphans'[m] = orphans[m]
      BY <1>2, <1>3
    <3> QED BY <2>1, <2>2, <3>1
  <2>5. mined' = k
    BY <1>1 DEF FiledMined
  <2> QED BY <2>3, <2>4, <2>5 DEF BlockAccounting
<1> QED BY <1>3, <1>4 DEF IInv

LEMMA NextKeepsIInv == IInv /\ [Next]_vars => IInv'
<1> SUFFICES ASSUME IInv, [Next]_vars PROVE IInv'
  OBVIOUS
<1>1. CASE \E n \in Miner : Mine(n)
  BY <1>1, NodeAssumption, MineKeepsIInv
<1>2. CASE \E n \in Node : \E b \in Block : Receive(n, b)
  BY <1>2, ReceiveKeepsIInv
<1>3. CASE TimeLimit \/ UNCHANGED vars
  <2>1. UNCHANGED vars
    BY <1>3 DEF TimeLimit
  <2> QED
    BY <2>1
       DEF vars, IInv, TreeInv, TypeOK, References, Retained, Known, NeverAborts,
           MainBranchIsHighest, HeadsAreLeaves, BlockAccounting, TreeOK
<1> QED BY <1>1, <1>2, <1>3 DEF Next

(* The inductive invariant holds in every behaviour. *)
LEMMA Invariance == Spec => []IInv
  BY InitEstablishesIInv, NextKeepsIInv, PTL DEF Spec

-----------------------------------------------------------------------------
(* What follows from it.                                                   *)

(* Every reachable state of a network of any size is well typed: blocks    *)
(* refer to blocks, and nodes hold references to blocks that exist.        *)
THEOREM TypeCorrectness == Spec => []TypeOK
<1>1. IInv => TypeOK
  BY DEF IInv, TreeInv
<1> QED BY <1>1, Invariance, PTL

(* At every node, in every order of arrival, the main branch is a branch   *)
(* of maximal height and the GBM holds the same one.                       *)
THEOREM HighestMainBranch == Spec => []MainBranchIsHighest
<1>1. IInv => MainBranchIsHighest
  BY DEF IInv, TreeInv
<1> QED BY <1>1, Invariance, PTL

(* The heads of the branches of a node are the leaves of its tree. *)
THEOREM BranchHeadsAreLeaves == Spec => []HeadsAreLeaves
<1>1. IInv => HeadsAreLeaves
  BY DEF IInv, TreeInv
<1> QED BY <1>1, Invariance, PTL

(* No block is lost on its way into a node's tree or orphans, nor filed    *)
(* while it is still on its way.                                           *)
THEOREM BlocksAreAccountedFor == Spec => []BlockAccounting
<1>1. IInv => BlockAccounting
  BY DEF IInv, TreeInv
<1> QED BY <1>1, Invariance, PTL

(* appendBlock() and findForkBlock() never throw, and never follow a null  *)
(* pointer, in a network without cleanups.                                 *)
THEOREM NoAbort == Spec => []NeverAborts
<1>1. IInv => NeverAborts
  BY DEF IInv, TreeInv
<1> QED BY <1>1, Invariance, PTL

(* No block of a node's tree is higher than its main branch. *)
LEMMA KnownBelowMainBranch ==
    ASSUME TreeInv, NEW n \in Node, NEW x \in Known(n)
    PROVE  /\ x \in 0 .. mined
           /\ block[x].height \in Nat
           /\ block[x].height <= block[mainBranch[n]].height
<1>1. PICK h \in branches[n] : x \in block[h].chain
  BY DEF Known
<1>2. h \in 0 .. mined /\ mainBranch[n] \in 0 .. mined /\ x \in 0 .. mined
  BY <1>1, InvariantOfTree DEF TreeInv, References, TreeOK
<1>3. \A y \in 0 .. mined : block[y].height \in Nat
  BY InvariantOfTree DEF Heap
<1>4. block[x].height <= block[h].height
  BY <1>1, <1>2, <1>3 DEF TreeInv, TreeOK
<1>5. block[h].height <= block[mainBranch[n]].height
  BY <1>1 DEF TreeInv, MainBranchIsHighest
<1> QED BY <1>2, <1>3, <1>4, <1>5

(* Any two nodes with nothing on its way to them and no stranded orphan    *)
(* have the same tree and main branches of one height, whatever each of    *)
(* them received first.                                                    *)
THEOREM Agreement == Spec => []QuiescentAgreement
<1>1. ASSUME IInv PROVE QuiescentAgreement
  <2>1. ASSUME NEW n \in Node, inFlight[n] = {}, Stranded(n) = {}
        PROVE  Known(n) = Genesis .. mined
    BY <1>1, <2>1 DEF IInv, TreeInv, BlockAccounting, Stranded
  <2>2. ASSUME NEW n \in Node, NEW m \in Node, Known(n) = Known(m)
        PROVE  block[mainBranch[n]].height <= block[mainBranch[m]].height
    <3>1. mainBranch[n] \in Known(n)
      <4>1. mainBranch[n] \in branches[n] /\ mainBranch[n] \in 0 .. mined
        BY <1>1, InvariantOfTree DEF IInv, TreeInv, MainBranchIsHighest
      <4> QED BY <1>1, <4>1 DEF IInv, TreeInv, TreeOK, Known
    <3> QED BY <1>1, <2>2, <3>1, KnownBelowMainBranch DEF IInv
  <2>3. ASSUME NEW n \in Node
        PROVE  block[mainBranch[n]].height \in Nat
    BY <1>1, InvariantOfTree DEF IInv, Heap
  <2> SUFFICES ASSUME NEW n \in Node, NEW m \in Node,
                      inFlight[n] = {}, inFlight[m] = {},
                      Stranded(n) = {}, Stranded(m) = {}
               PROVE  /\ Known(n) = Known(m)
                      /\ block[mainBranch[n]].height =
                            block[mainBranch[m]].height
    BY DEF QuiescentAgreement
  <2>4. Known(n) = Known(m)
    BY <2>1
  <2>5. /\ block[mainBranch[n]].height <= block[mainBranch[m]].height
        /\ block[mainBranch[m]].height <= block[mainBranch[n]].height
    BY <2>2, <2>4
  <2> QED BY <2>3, <2>4, <2>5
<1> QED BY <1>1, Invariance, PTL

(* What a step does to the node that takes it and to the others. *)
LEMMA StepOfOneNode ==
    ASSUME IInv, NEW n \in Node,
           Mine(n) \/ \E b \in Block : Receive(n, b)
    PROVE  /\ mined \in Nat
           /\ \A x \in 0 .. mined : block'[x] = block[x]
           /\ Known(n) \subseteq Known(n)'
           /\ mainBranch'[n] # mainBranch[n] =>
                 block'[mainBranch'[n]].height > block[mainBranch[n]].height
           /\ \A m \in Node \ {n} : /\ Known(m)' = Known(m)
                                    /\ mainBranch'[m] = mainBranch[m]
           /\ mainBranch' = [mainBranch EXCEPT ![n] = mainBranch'[n]]
           /\ (\E b \in Block : Receive(n, b)) \/ Known(n)' # Known(n)
<1>1. mined \in Nat /\ branches \in [Node -> SUBSET Block]
      /\ mainBranch \in [Node -> Block]
      /\ \A m \in Node : branches[m] \subseteq 0 .. mined
  BY InvariantOfTree DEF IInv, TreeInv, TypeOK, References
<1>2. CASE \E b \in Block : Receive(n, b)
  <2>1. PICK b \in Block : Receive(n, b)
    BY <1>2
  <2>2. /\ UNCHANGED <<mined, block>>
        /\ branches' = [branches EXCEPT ![n] = branches'[n]]
        /\ mainBranch' = [mainBranch EXCEPT ![n] = mainBranch'[n]]
        /\ Known(n) \subseteq Linked(block, branches'[n])
        /\ mainBranch'[n] # mainBranch[n] =>
              block[mainBranch'[n]].height > block[mainBranch[n]].height
    BY <2>1, ReceiveFilesBlock DEF FiledReceived
  <2>3. \A m \in Node \ {n} : /\ branches'[m] = branches[m]
                              /\ mainBranch'[m] = mainBranch[m]
    BY <1>1, <2>2
  <2> QED BY <1>1, <1>2, <2>2, <2>3 DEF Known, Linked
<1>3. CASE Mine(n)
  <2> DEFINE k == mined + 1
  <2>2. /\ \A x \in 0 .. mined : block'[x] = block[x]
        /\ branches' = [branches EXCEPT ![n] = branches'[n]]
        /\ mainBranch' = [mainBranch EXCEPT ![n] = mainBranch'[n]]
        /\ Known(n) \subseteq Linked(block', branches'[n])
        /\ k \in Linked(block', branches'[n])
        /\ mainBranch'[n] # mainBranch[n] =>
              block'[mainBranch'[n]].height > block[mainBranch[n]].height
    BY <1>3, MineFilesBlock DEF FiledMined
  <2>3. \A m \in Node \ {n} : /\ branches'[m] = branches[m]
                              /\ mainBranch'[m] = mainBranch[m]
    BY <1>1, <2>2
  <2>4. \A m \in Node \ {n} : Known(m)' = Known(m)
    BY <1>1, <2>2, <2>3 DEF Known
  <2>5. Known(n)' = Linked(block', branches'[n])
    BY DEF Known, Linked
  <2>6. k \notin Known(n)
    <3>1. \A x \in Known(n) : x \in 0 .. mined
      BY KnownBelowMainBranch DEF IInv
    <3> QED BY <1>1, <3>1
  <2> HIDE DEF k
  <2> QED BY <1>1, <2>2, <2>3, <2>4, <2>5, <2>6
<1> QED BY <1>2, <1>3

LEMMA NextIsStepOfOneNode ==
    ASSUME [Next]_vars
    PROVE  \/ \E n \in Node : Mine(n) \/ \E b \in Block : Receive(n, b)
           \/ UNCHANGED vars
  BY NodeAssumption DEF Next, TimeLimit

(* A node moves its main branch only to a strictly higher one, and never   *)
(* forgets a block.                                                        *)
THEOREM FirstSeenWinsAlways == Spec => FirstSeenWins
<1> DEFINE A == \A m \in Node :
                   /\ mainBranch'[m] # mainBranch[m] =>
                         block'[mainBranch'[m]].height >
                            block[mainBranch[m]].height
                   /\ Known(m) \subseteq Known(m)'
<1>1. ASSUME IInv, [Next]_vars PROVE [A]_vars
  <2>1. CASE UNCHANGED vars
    BY <2>1
  <2>2. CASE \E n \in Node : Mine(n) \/ \E b \in Block : Receive(n, b)
    <3>1. PICK n \in Node : Mine(n) \/ \E b \in Block : Receive(n, b)
      BY <2>2
    <3>2. A
      BY <1>1, <3>1, StepOfOneNode
    <3> QED BY <3>2
  <2> QED BY <1>1, <2>1, <2>2, NextIsStepOfOneNode
<1>2. [A]_vars => [\A n \in Node :
                      /\ mainBranch'[n] # mainBranch[n] =>
                            block'[mainBranch'[n]].height >
                               block[mainBranch[n]].height
                      /\ Known(n) \subseteq Known(n)']_vars
  OBVIOUS
<1> HIDE DEF A
<1> QED BY <1>1, <1>2, Invariance, PTL DEF Spec, FirstSeenWins

-----------------------------------------------------------------------------
(* BlockchainManager implements LongestChain.                              *)

LEMMA InitImplementsLongestChain == Init => LC!Init
<1> SUFFICES ASSUME Init PROVE LC!Init
  OBVIOUS
<1>1. IInv
  BY InitEstablishesIInv
<1>2. Tree \in [Block -> [prev : Block \cup {Null}, height : Nat]]
  BY <1>1 DEF IInv, TreeInv, TypeOK, Tree
<1>3. Genesis \in Block
  BY MaxBlockAssumption DEF Genesis, Block
<1>4. Tree[Genesis] = [prev |-> Null, height |-> 0]
  BY <1>1, <1>3 DEF IInv, TreeInv, TreeOK, Tree
<1>5. KnownBlocks = [n \in Node |-> {Genesis}]
  <2>1. \A n \in Node : Known(n) = {Genesis}
    BY <1>3 DEF Init, Known
  <2> QED BY <2>1 DEF KnownBlocks
<1>6. mainBranch = [n \in Node |-> Genesis]
  BY DEF Init
<1> QED BY <1>2, <1>4, <1>5, <1>6 DEF LC!Init

(* A step of node n that adds blocks to its tree is LC!Learn(n). *)
LEMMA StepLearns ==
    ASSUME IInv, IInv', NEW n \in Node,
           Mine(n) \/ \E b \in Block : Receive(n, b),
           Known(n)' # Known(n)
    PROVE  LC!Learn(n)
<1> DEFINE new == Known(n)' \ Known(n)
<1>1. /\ mined \in Nat
      /\ \A x \in 0 .. mined : block'[x] = block[x]
      /\ Known(n) \subseteq Known(n)'
      /\ mainBranch'[n] # mainBranch[n] =>
            block'[mainBranch'[n]].height > block[mainBranch[n]].height
      /\ \A m \in Node \ {n} : Known(m)' = Known(m)
      /\ mainBranch' = [mainBranch EXCEPT ![n] = mainBranch'[n]]
  BY StepOfOneNode
<1>2. /\ 0 .. mined \subseteq Block /\ 0 .. mined' \subseteq Block
      /\ mined' \in Nat
  <2>1. mined \in Block /\ mined' \in Block
    BY DEF IInv, TreeInv, TypeOK
  <2> QED BY <2>1, MaxBlockAssumption DEF Block, Genesis
<1>3. \A m \in Node : \A x \in Known(m) : x \in 0 .. mined
  BY KnownBelowMainBranch DEF IInv
<1>4. \A x \in Known(n)' :
         /\ x \in 0 .. mined'
         /\ block'[x].height \in Nat
         /\ block'[x].height <= block'[mainBranch'[n]].height
  <2>1. ASSUME NEW x \in Known(n)'
        PROVE  \E h \in branches'[n] : x \in block'[h].chain
    BY DEF Known
  <2>2. ASSUME NEW h \in branches'[n], NEW x \in block'[h].chain
        PROVE  /\ x \in 0 .. mined'
               /\ block'[x].height \in Nat
               /\ block'[x].height <= block'[mainBranch'[n]].height
    <3>1. /\ h \in 0 .. mined' /\ mainBranch'[n] \in 0 .. mined'
          /\ block'[h].height <= block'[mainBranch'[n]].height
      BY DEF IInv, TreeInv, References, MainBranchIsHighest
    <3>2. \A y \in 0 .. mined' : block'[y].height \in Nat
      BY <1>2 DEF IInv, TreeInv, TypeOK
    <3>3. x \in 0 .. mined' /\ (x = h \/ block'[x].height < block'[h].height)
      BY <3>1 DEF IInv, TreeInv, TreeOK
    <3> QED BY <3>1, <3>2, <3>3
  <2> QED BY <2>1, <2>2
<1>5. /\ \A x \in 0 .. mined' : /\ Tree'[x].prev = block'[x].prev
                                   /\ Tree'[x].height = block'[x].height
      /\ \A x \in 0 .. mined : Tree'[x] = Tree[x]
  BY <1>1, <1>2 DEF Tree
<1>6. new \in SUBSET (Block \ Known(n)) /\ new # {}
  BY <1>1, <1>2, <1>4
<1>7. \A m \in Node : \A x \in Known(m) : Tree'[x] = Tree[x]
  BY <1>3, <1>5
<1>8. \A x \in new : /\ Tree'[x].prev \in Known(n) \cup new
                     /\ Tree'[x].height = Tree'[Tree'[x].prev].height + 1
  <2> SUFFICES ASSUME NEW x \in new
               PROVE  /\ Tree'[x].prev \in Known(n) \cup new
                      /\ Tree'[x].height = Tree'[Tree'[x].prev].height + 1
    OBVIOUS
  <2>1. x \in 0 .. mined' /\ x # Genesis
    <3>1. Genesis \in Known(n)
      <4>1. mainBranch[n] \in branches[n] /\ mainBranch[n] \in 0 .. mined
        BY InvariantOfTree DEF IInv, TreeInv, MainBranchIsHighest
      <4> QED BY <4>1 DEF Known, IInv, TreeInv, TreeOK
    <3> QED BY <3>1, <1>4
  <2>2. /\ x \in 1 .. mined' /\ block'[x].prev \in 0 .. mined'
        /\ block'[x].height = block'[block'[x].prev].height + 1
        /\ block'[x].chain = block'[block'[x].prev].chain \cup {x}
    <3>1. x \in 1 .. mined'
      BY <2>1, <1>2 DEF Genesis
    <3> QED BY <3>1 DEF IInv, TreeInv, TreeOK
  <2>3. block'[x].prev \in Known(n)'
    <3>1. PICK h \in branches'[n] : x \in block'[h].chain
      BY DEF Known
    <3>2. h \in 0 .. mined'
      BY <3>1 DEF IInv, TreeInv, References
    <3>3. block'[x].chain \subseteq block'[h].chain
      BY <3>1, <3>2 DEF IInv, TreeInv, TreeOK
    <3>4. block'[x].prev \in block'[block'[x].prev].chain
      BY <2>2 DEF IInv, TreeInv, TreeOK
    <3> QED BY <3>1, <3>3, <3>4, <2>2 DEF Known
  <2> QED BY <2>1, <2>2, <2>3, <1>5
<1>9. KnownBlocks' = [KnownBlocks EXCEPT ![n] = @ \cup new]
  <2>1. KnownBlocks' = [m \in Node |-> IF m = n THEN Known(n)' ELSE Known(m)]
    BY <1>1 DEF KnownBlocks, Known
  <2>2. new \cup Known(n) = Known(n)'
    BY <1>1
  <2> HIDE DEF new
  <2> QED BY <2>1, <2>2 DEF KnownBlocks
<1>10. /\ mainBranch[n] \in 0 .. mined /\ mainBranch'[n] \in 0 .. mined'
       /\ mainBranch[n] \in 0 .. mined'
       /\ block[mainBranch[n]].height \in Nat
       /\ block'[mainBranch[n]].height = block[mainBranch[n]].height
       /\ block'[mainBranch'[n]].height \in Nat
       /\ mainBranch'[n] \in Known(n)'
  <2>1. mainBranch[n] \in 0 .. mined /\ mainBranch[n] \in Block
        /\ block[mainBranch[n]].height \in Nat
    BY InvariantOfTree DEF IInv, Heap
  <2>2. mainBranch'[n] \in branches'[n] /\ mainBranch'[n] \in 0 .. mined'
    BY DEF IInv, TreeInv, References, MainBranchIsHighest
  <2>3. mainBranch'[n] \in Known(n)'
    BY <2>2 DEF IInv, TreeInv, TreeOK, Known
  <2>4. mainBranch[n] \in 0 .. mined'
    <3>1. mined <= mined'
      BY <1>1, <1>2 DEF Mine, Receive
    <3> QED BY <2>1, <3>1, <1>1, <1>2
  <2> QED BY <2>1, <2>2, <2>3, <2>4, <1>1, <1>4
<1>11. LC!Choose(n, new)
  <2> DEFINE higher == {x \in new : Tree'[x].height > Tree'[mainBranch[n]].height}
  <2>1. \A x \in new \cup {mainBranch[n]} : Tree'[x].height = block'[x].height
    BY <1>4, <1>5, <1>10
  <2>2. CASE mainBranch'[n] = mainBranch[n]
    <3>1. higher = {}
      BY <2>1, <2>2, <1>4, <1>10
    <3>2. mainBranch' = mainBranch
      BY <2>2, <1>1 DEF IInv, TreeInv, TypeOK
    <3> QED BY <3>1, <3>2 DEF LC!Choose
  <2>3. CASE mainBranch'[n] # mainBranch[n]
    <3>1. mainBranch'[n] \notin Known(n)
      <4>1. \A x \in Known(n) : /\ x \in 0 .. mined
                                /\ block[x].height \in Nat
                                /\ block[x].height <=
                                      block[mainBranch[n]].height
        BY KnownBelowMainBranch DEF IInv
      <4> QED BY <4>1, <2>3, <1>1, <1>10
    <3>2. mainBranch'[n] \in higher
      BY <3>1, <2>1, <2>3, <1>1, <1>10
    <3>3. \A c \in higher : Tree'[c].height <= Tree'[mainBranch'[n]].height
      BY <2>1, <3>2, <1>4
    <3> QED BY <3>2, <3>3, <1>1 DEF LC!Choose
  <2> QED BY <2>2, <2>3
<1>12. \A m \in Node : KnownBlocks[m] = Known(m)
  BY DEF KnownBlocks
<1> HIDE DEF new
<1>13. LC!SettledTree
  BY <1>7, <1>12 DEF LC!SettledTree
<1>14. LC!Connected(n, new)
  BY <1>8, <1>12 DEF LC!Connected
<1> QED BY <1>6, <1>9, <1>11, <1>12, <1>13, <1>14 DEF LC!Learn

(* A step of node n that adds nothing to its tree (it files an orphan) is  *)
(* a stuttering step of LongestChain.                                      *)
LEMMA StepStutters ==
    ASSUME IInv, IInv', NEW n \in Node,
           Mine(n) \/ \E b \in Block : Receive(n, b),
           Known(n)' = Known(n)
    PROVE  UNCHANGED <<Tree, KnownBlocks, mainBranch>>
<1>1. /\ \E b \in Block : Receive(n, b)
      /\ \A x \in 0 .. mined : block'[x] = block[x]
      /\ mainBranch'[n] # mainBranch[n] =>
            block'[mainBranch'[n]].height > block[mainBranch[n]].height
      /\ \A m \in Node \ {n} : Known(m)' = Known(m)
      /\ mainBranch' = [mainBranch EXCEPT ![n] = mainBranch'[n]]
  BY StepOfOneNode
<1>2. block' = block
  BY <1>1 DEF Receive
<1>3. Tree' = Tree
  BY <1>2 DEF Tree
<1>4. KnownBlocks' = KnownBlocks
  <2>1. \A m \in Node : Known(m)' = Known(m)
    BY <1>1
  <2> QED BY <2>1 DEF KnownBlocks, Known
<1>5. mainBranch'[n] = mainBranch[n]
  <2>1. mainBranch'[n] \in Known(n)
    <3>1. mainBranch'[n] \in branches'[n] /\ mainBranch'[n] \in 0 .. mined'
      BY DEF IInv, TreeInv, References, MainBranchIsHighest
    <3>2. mainBranch'[n] \in Known(n)'
      BY <3>1 DEF IInv, TreeInv, TreeOK, Known
    <3> QED BY <3>2
  <2>2. /\ block[mainBranch'[n]].height \in Nat
        /\ block[mainBranch'[n]].height <= block[mainBranch[n]].height
    BY <2>1, KnownBelowMainBranch DEF IInv
  <2>3. block[mainBranch[n]].height \in Nat
    BY InvariantOfTree DEF IInv, Heap
  <2> QED BY <1>1, <1>2, <2>2, <2>3
<1>6. mainBranch' = mainBranch
  BY <1>1, <1>5 DEF IInv, TreeInv, TypeOK
<1> QED BY <1>3, <1>4, <1>6

(* Branch heads, orphan lists and the messages between the nodes implement *)
(* the longest-chain rule: each step of the network is one node learning   *)
(* connected blocks and moving to the highest of them only if it is higher *)
(* than its main branch, or changes nothing of the tree.                   *)
THEOREM Refinement == Spec => ImplementsLongestChain
<1>1. Init => LC!Init
  BY InitImplementsLongestChain
<1>2. IInv /\ IInv' /\ [Next]_vars =>
         [LC!Next]_<<Tree, KnownBlocks, mainBranch>>
  <2> SUFFICES ASSUME IInv, IInv', [Next]_vars
               PROVE  [LC!Next]_<<Tree, KnownBlocks, mainBranch>>
    OBVIOUS
  <2>1. CASE UNCHANGED vars
    <3>1. UNCHANGED <<block, branches, mainBranch>>
      BY <2>1 DEF vars
    <3>2. KnownBlocks' = KnownBlocks
      BY <3>1 DEF KnownBlocks, Known
    <3> QED BY <3>1, <3>2 DEF Tree
  <2>2. CASE \E n \in Node : Mine(n) \/ \E b \in Block : Receive(n, b)
    <3>1. PICK n \in Node : Mine(n) \/ \E b \in Block : Receive(n, b)
      BY <2>2
    <3>2. CASE Known(n)' = Known(n)
      BY <3>1, <3>2, StepStutters
    <3>3. CASE Known(n)' # Known(n)
      BY <3>1, <3>3, StepLearns DEF LC!Next
    <3> QED BY <3>2, <3>3
  <2> QED BY <2>1, <2>2, NextIsStepOfOneNode
<1> QED BY <1>1, <1>2, Invariance, PTL DEF Spec, ImplementsLongestChain, LC!Spec
=============================================================================
