------------------------------ MODULE GBM_proofs ------------------------------
(***************************************************************************)
(* What holds of the global blockchain manager for every network, every    *)
(* number of blocks and every number of cuts.  Chains now end where the    *)
(* GBM cut them, and a block that comes in below a cut aborts the run, so  *)
(* most of this is about runs that were not aborted.                       *)
(***************************************************************************)
EXTENDS GBM, BlockchainManager_proofs, WellFoundedInduction

(* The chains of the first k blocks once some have been cut: each ends     *)
(* where a prev pointer is null.                                           *)
CutTree(B, k) ==
    \A b \in 0 .. k :
        /\ B[b].prev \in (0 .. k) \cup {Null}
        /\ B[b].prev # Null =>
              /\ B[b].height = B[B[b].prev].height + 1
              /\ B[b].chain = B[B[b].prev].chain \cup {b}
        /\ B[b].chain \subseteq 0 .. k
        /\ b \in B[b].chain
        /\ \A x \in B[b].chain :
              /\ B[x].chain \subseteq B[b].chain
              /\ x # b => B[x].height < B[b].height
        /\ \A x, y \in B[b].chain : x \in B[y].chain \/ y \in B[x].chain

(* A chain leads down to r, and nothing lies below r. *)
EndsIn(B, b, r) == r \in B[b].chain /\ B[r].chain = {r}

(* The main branches end in one block: genesis, or the last cut. *)
SharedEnd ==
    \E r \in 0 .. mined : \A n \in Node : EndsIn(block, mainBranch[n], r)

(* Blocks that no node has in its tree are below every main branch: a node *)
(* forgets none but those under a cut.                                     *)
KeptOrLow ==
    \A b \in 1 .. mined :
        \/ \E n \in Node : b \in Known(n)
        \/ \A n \in Node : block[b].height <= block[mainBranch[n]].height

(* A block that reached a node is among its orphans, or no higher than its *)
(* main branch.                                                            *)
HandledOrWaiting ==
    \A n \in Node : \A b \in 0 .. mined :
        \/ b \in inFlight[n] \cup orphans[n]
        \/ block[b].height <= block[mainBranch[n]].height

GBMReferences ==
    /\ References
    /\ \A n \in Node : mainBranch[n] \in 0 .. mined
    /\ \A n \in Node : gbmMainBranch[n] \in 0 .. mined

(* The inductive invariant. *)
RunningInv ==
    /\ CutTree(block, mined)
    /\ MainBranchIsHighest
    /\ SharedEnd
    /\ KeptOrLow
    /\ HandledOrWaiting

GBMInv == TypeOK /\ GBMReferences /\ (~aborted => RunningInv)

-----------------------------------------------------------------------------
(* Facts about cut chains.                                                 *)

(* A mined block p extends the tree by the cell k + 1. *)
LEMMA CutTreeGrows ==
    ASSUME NEW B \in Heap, NEW k \in Nat, k + 1 \in Block, CutTree(B, k),
           NEW p \in 0 .. k,
           NEW C \in Heap,
           C[k + 1] = [prev   |-> p,
                       height |-> B[p].height + 1,
                       chain  |-> B[p].chain \cup {k + 1}],
           \A b \in 0 .. k : C[b] = B[b]
    PROVE  CutTree(C, k + 1)
<1> DEFINE l == k + 1
<1>1. 0 .. k \subseteq Block /\ l \notin 0 .. k /\ 0 .. l = 0 .. k \cup {l}
  BY MaxBlockAssumption DEF Block
<1>2. \A x \in 0 .. k : B[x].height \in Nat /\ B[x].chain \subseteq 0 .. k
  BY <1>1 DEF Heap, CutTree
<1>3. ASSUME NEW b \in 0 .. k
      PROVE  /\ C[b].prev \in (0 .. l) \cup {Null}
             /\ C[b].prev # Null =>
                   /\ C[b].height = C[C[b].prev].height + 1
                   /\ C[b].chain = C[C[b].prev].chain \cup {b}
             /\ C[b].chain \subseteq 0 .. l
             /\ b \in C[b].chain
             /\ \A x \in C[b].chain :
                   /\ C[x].chain \subseteq C[b].chain
                   /\ x # b => C[x].height < C[b].height
             /\ \A x, y \in C[b].chain : x \in C[y].chain \/ y \in C[x].chain
  <2>1. C[b] = B[b] /\ \A x \in B[b].chain : x \in 0 .. k /\ C[x] = B[x]
    BY <1>2
  <2>2. B[b].prev # Null => B[b].prev \in 0 .. k /\ C[B[b].prev] = B[B[b].prev]
    BY DEF CutTree
  <2> QED BY <1>1, <2>1, <2>2 DEF CutTree
<1>4. /\ C[l].prev = p /\ p \in 0 .. k /\ C[p] = B[p]
      /\ C[l].height = B[p].height + 1
      /\ C[l].chain = B[p].chain \cup {l}
  OBVIOUS
<1>5. \A x \in B[p].chain : /\ C[x] = B[x]
                            /\ B[x].chain \subseteq B[p].chain
                            /\ B[x].height <= B[p].height
                            /\ B[x].height \in Nat
                            /\ x # l
  BY <1>1, <1>2 DEF CutTree
<1>6. /\ C[l].prev \in (0 .. l) \cup {Null}
      /\ C[l].height = C[C[l].prev].height + 1
      /\ C[l].chain = C[C[l].prev].chain \cup {l}
      /\ C[l].chain \subseteq 0 .. l
      /\ l \in C[l].chain
  BY <1>1, <1>2, <1>4
<1>7. \A x \in C[l].chain : /\ C[x].chain \subseteq C[l].chain
                            /\ x # l => C[x].height < C[l].height
  BY <1>2, <1>4, <1>5
<1>8. \A x, y \in C[l].chain : x \in C[y].chain \/ y \in C[x].chain
  BY <1>4, <1>5 DEF CutTree
<1> HIDE DEF l
<1>9. CutTree(C, l)
  BY <1>1, <1>3, <1>6, <1>7, <1>8 DEF CutTree
<1> QED BY <1>9 DEF l

(* A chain that meets one that ends in r ends there itself.                *)
LEMMA MeetingChains ==
    ASSUME NEW B, NEW k, CutTree(B, k), NEW m \in 0 .. k, NEW r \in 0 .. k,
           EndsIn(B, m, r), NEW b \in 0 .. k, B[b].chain \cap B[m].chain # {},
           NEW t \in 0 .. k, b \in B[t].chain
    PROVE  EndsIn(B, t, r)
<1>1. PICK x \in 0 .. k : x \in B[b].chain /\ x \in B[m].chain
  BY DEF CutTree
<1>2. r \in B[x].chain \/ x \in B[r].chain
  BY <1>1 DEF CutTree, EndsIn
<1>3. r \in B[x].chain
  BY <1>1, <1>2 DEF CutTree, EndsIn
<1>4. B[x].chain \subseteq B[b].chain /\ B[b].chain \subseteq B[t].chain
  BY <1>1 DEF CutTree
<1> QED BY <1>3, <1>4 DEF EndsIn

(* What deletePrevBlock() at p writes. *)
LEMMA CutFields ==
    ASSUME block \in Heap, NEW p \in Block
    PROVE  /\ CutBelow(p) \in Heap
           /\ \A b \in Block :
                 /\ CutBelow(p)[b].height = block[b].height
                 /\ b = p => CutBelow(p)[b].prev = Null
                 /\ b # p => CutBelow(p)[b].prev = block[b].prev
                 /\ p \in block[b].chain =>
                       CutBelow(p)[b].chain =
                          (block[b].chain \ block[p].chain) \cup {p}
                 /\ p \notin block[b].chain =>
                       CutBelow(p)[b].chain = block[b].chain
<1>1. \A b \in Block : block[b] \in [prev   : Block \cup {Null},
                                     height : Nat,
                                     chain  : SUBSET Block]
  BY DEF Heap
<1>2. CutBelow(p) \in Heap
  BY <1>1 DEF CutBelow, Heap
<1>3. ASSUME NEW b \in Block
      PROVE  /\ CutBelow(p)[b].height = block[b].height
             /\ b = p => CutBelow(p)[b].prev = Null
             /\ b # p => CutBelow(p)[b].prev = block[b].prev
             /\ p \in block[b].chain =>
                   CutBelow(p)[b].chain =
                      (block[b].chain \ block[p].chain) \cup {p}
             /\ p \notin block[b].chain =>
                   CutBelow(p)[b].chain = block[b].chain
  BY DEF CutBelow
<1> QED BY <1>2, <1>3

(* deletePrevBlock() at p leaves chains that end in p, where p was, and    *)
(* others as they were.                                                    *)
LEMMA CuttingKeepsTree ==
    ASSUME NEW B \in Heap, NEW k \in Nat, 0 .. k \subseteq Block, CutTree(B, k),
           NEW p \in 0 .. k,
           NEW C \in Heap,
           \A b \in 0 .. k :
              /\ C[b].height = B[b].height
              /\ b = p => C[b].prev = Null
              /\ b # p => C[b].prev = B[b].prev
              /\ p \in B[b].chain =>
                    C[b].chain = (B[b].chain \ B[p].chain) \cup {p}
              /\ p \notin B[b].chain => C[b].chain = B[b].chain
    PROVE  /\ CutTree(C, k)
           /\ \A b \in 0 .. k : /\ C[b].height = B[b].height
                                /\ p \in B[b].chain => EndsIn(C, b, p)
                                /\ C[b].chain \subseteq B[b].chain
                                /\ B[b].chain \subseteq C[b].chain \cup B[p].chain
                                /\ b # p => C[b].prev = B[b].prev
<1>1. ASSUME NEW b \in 0 .. k
      PROVE  /\ C[b].height = B[b].height
             /\ b = p => C[b].prev = Null
             /\ b # p => C[b].prev = B[b].prev
             /\ p \in B[b].chain =>
                   C[b].chain = (B[b].chain \ B[p].chain) \cup {p}
             /\ p \notin B[b].chain => C[b].chain = B[b].chain
  OBVIOUS
<1>2. \A b \in 0 .. k :
         /\ B[b].chain \subseteq 0 .. k /\ b \in B[b].chain
         /\ \A x \in B[b].chain : B[x].chain \subseteq B[b].chain
  BY DEF CutTree
<1>3. \A b \in 0 .. k :
         /\ B[b].height \in Nat
         /\ \A x \in B[b].chain : x # b => B[x].height < B[b].height
  BY DEF Heap, CutTree
<1>30. \A b \in 0 .. k : \A x, y \in B[b].chain :
          x \in B[y].chain \/ y \in B[x].chain
  BY DEF CutTree
<1>31. \A b \in 0 .. k : p \in B[b].chain /\ b # p => b \notin B[p].chain
  BY <1>2, <1>3
<1>4. C[p].chain = {p}
  BY <1>1, <1>2
<1>5. ASSUME NEW b \in 0 .. k, p \in B[b].chain
      PROVE  /\ C[b].chain = (B[b].chain \ B[p].chain) \cup {p}
             /\ C[b].chain \subseteq B[b].chain
             /\ \A x \in C[b].chain :
                   /\ x \in 0 .. k /\ p \in B[x].chain
                   /\ C[x].chain = (B[x].chain \ B[p].chain) \cup {p}
  <2>1. /\ C[b].chain = (B[b].chain \ B[p].chain) \cup {p}
        /\ C[b].chain \subseteq B[b].chain
    BY <1>1, <1>2, <1>5
  <2>2. ASSUME NEW x \in C[b].chain
        PROVE  /\ x \in 0 .. k /\ p \in B[x].chain
               /\ C[x].chain = (B[x].chain \ B[p].chain) \cup {p}
    <3>1. x \in 0 .. k /\ (x = p \/ p \in B[x].chain)
      BY <2>1, <1>2, <1>30, <1>5
    <3>2. p \in B[x].chain
      BY <3>1, <1>2
    <3> QED BY <3>1, <3>2, <1>1
  <2> QED BY <2>1, <2>2
<1>6. ASSUME NEW b \in 0 .. k, p \notin B[b].chain
      PROVE  \A x \in B[b].chain : /\ x \in 0 .. k /\ x # p
                                   /\ C[x].chain = B[x].chain
  BY <1>1, <1>2, <1>6
<1>7. ASSUME NEW b \in 0 .. k
      PROVE  /\ C[b].prev \in (0 .. k) \cup {Null}
             /\ C[b].prev # Null =>
                   /\ C[b].height = C[C[b].prev].height + 1
                   /\ C[b].chain = C[C[b].prev].chain \cup {b}
  <2>1. C[b].prev \in (0 .. k) \cup {Null}
    BY <1>1 DEF CutTree
  <2>2. ASSUME C[b].prev # Null
        PROVE  /\ C[b].height = C[C[b].prev].height + 1
               /\ C[b].chain = C[C[b].prev].chain \cup {b}
    <3> DEFINE q == B[b].prev
    <3>1. b # p /\ C[b].prev = q /\ q # Null /\ q \in 0 .. k
      BY <2>2, <1>1 DEF CutTree
    <3>2. B[b].height = B[q].height + 1 /\ B[b].chain = B[q].chain \cup {b}
      BY <3>1 DEF CutTree
    <3> HIDE DEF q
    <3>3. C[b].height = C[q].height + 1
      BY <3>1, <3>2, <1>1
    <3>4. CASE p \in B[b].chain
      <4>1. p \in B[q].chain
        BY <3>1, <3>2, <3>4
      <4>2. b \notin B[p].chain
        BY <3>1, <3>4, <1>31
      <4>3. C[b].chain = (B[b].chain \ B[p].chain) \cup {p}
        BY <3>4, <1>5
      <4>4. C[q].chain = (B[q].chain \ B[p].chain) \cup {p}
        BY <4>1, <3>1, <1>5
      <4> QED BY <4>2, <4>3, <4>4, <3>1, <3>2, <3>3
    <3>5. CASE p \notin B[b].chain
      <4>1. p \notin B[q].chain
        BY <3>2, <3>5
      <4> QED BY <4>1, <3>1, <3>2, <3>3, <3>5, <1>1
    <3> QED BY <3>4, <3>5
  <2> QED BY <2>1, <2>2
<1>8. ASSUME NEW b \in 0 .. k
      PROVE  /\ C[b].chain \subseteq B[b].chain
             /\ b \in C[b].chain
             /\ \A x \in C[b].chain :
                   /\ C[x].chain \subseteq C[b].chain
                   /\ x # b => C[x].height < C[b].height
             /\ \A x, y \in C[b].chain : x \in C[y].chain \/ y \in C[x].chain
  <2>1. CASE p \in B[b].chain
    <3>1. /\ C[b].chain = (B[b].chain \ B[p].chain) \cup {p}
          /\ C[b].chain \subseteq B[b].chain
          /\ \A x \in C[b].chain :
                /\ x \in 0 .. k /\ p \in B[x].chain
                /\ C[x].chain = (B[x].chain \ B[p].chain) \cup {p}
      BY <2>1, <1>5
    <3>2. b \in C[b].chain
      <4>1. b = p \/ b \notin B[p].chain
        BY <2>1, <1>31
      <4> QED BY <4>1, <3>1, <1>2
    <3>3. \A x \in C[b].chain : C[x].chain \subseteq C[b].chain
      BY <3>1, <1>2
    <3>4. \A x \in C[b].chain : x # b => C[x].height < C[b].height
      BY <3>1, <1>1, <1>3
    <3>5. \A x, y \in C[b].chain : x \in C[y].chain \/ y \in C[x].chain
      BY <3>1, <1>2, <1>30
    <3> QED BY <3>1, <3>2, <3>3, <3>4, <3>5
  <2>2. CASE p \notin B[b].chain
    <3>1. /\ C[b].chain = B[b].chain
          /\ \A x \in B[b].chain : x \in 0 .. k /\ C[x].chain = B[x].chain
      BY <2>2, <1>1, <1>2, <1>6
    <3>2. \A x \in C[b].chain : x # b => C[x].height < C[b].height
      BY <3>1, <1>1, <1>3
    <3> QED BY <3>1, <3>2, <1>2, <1>30
  <2> QED BY <2>1, <2>2
<1>9. CutTree(C, k)
  <2>1. \A b \in 0 .. k : C[b].chain \subseteq 0 .. k
    BY <1>2, <1>8
  <2> QED BY <2>1, <1>7, <1>8 DEF CutTree
<1>10. ASSUME NEW b \in 0 .. k
       PROVE  /\ p \in B[b].chain => EndsIn(C, b, p)
              /\ B[b].chain \subseteq C[b].chain \cup B[p].chain
              /\ b # p => C[b].prev = B[b].prev
              /\ C[b].height = B[b].height
  BY <1>1, <1>2, <1>4, <1>5 DEF EndsIn
<1> QED BY <1>8, <1>9, <1>10

-----------------------------------------------------------------------------
(* appendBlock() when chains may be cut.                                   *)

(* What n makes of a block b that it files without aborting. *)
Filed(n, b, B, k) ==
    /\ branches' = [branches EXCEPT ![n] = branches'[n]]
    /\ mainBranch' = [mainBranch EXCEPT ![n] = mainBranch'[n]]
    /\ gbmMainBranch' = [gbmMainBranch EXCEPT ![n] = mainBranch'[n]]
    /\ orphans' = [orphans EXCEPT ![n] = orphans'[n]]
    /\ branches'[n] \subseteq 0 .. k
    /\ orphans'[n] \subseteq orphans[n] \cup {b}
    /\ \A o \in orphans[n] \ orphans'[n] : o \notin Resident(B)
    /\ Highest(B, branches'[n], mainBranch'[n])
    /\ B[mainBranch[n]].height <= B[mainBranch'[n]].height
    /\ \A x \in Linked(B, branches[n]) : x \in Linked(B, branches'[n])
    /\ b \in orphans'[n] \/ B[b].height <= B[mainBranch'[n]].height
    /\ B[b].prev \in branches[n] => b \in Linked(B, branches'[n])
    /\ \A r \in 0 .. k :
          EndsIn(B, mainBranch[n], r) => EndsIn(B, mainBranch'[n], r)

(* Replacing the head p by the tip t of a chain of blocks on top of p. *)
LEMMA ExtendKeepsHighest ==
    ASSUME NEW B \in Heap, NEW k \in Nat, 0 .. k \subseteq Block,
           CutTree(B, k),
           NEW H \in SUBSET (0 .. k), NEW m, Highest(B, H, m),
           NEW b \in 0 .. k, B[b].prev # Null, B[b].prev \in H,
           NEW t \in 0 .. k, b \in B[t].chain,
           NEW G, G = (H \ {B[b].prev}) \cup {t},
           NEW w, w = IF B[t].height > B[m].height THEN t ELSE m
    PROVE  /\ G \subseteq 0 .. k
           /\ Highest(B, G, w)
           /\ B[m].height <= B[w].height
           /\ B[b].height <= B[w].height
           /\ \A x \in Linked(B, H) : x \in Linked(B, G)
           /\ b \in Linked(B, G)
<1> DEFINE p == B[b].prev
<1>1. /\ p \in 0 .. k
      /\ B[b].height = B[p].height + 1
      /\ B[b].chain = B[p].chain \cup {b}
  BY DEF CutTree
<1>2. \A x \in 0 .. k : B[x].height \in Nat
  BY DEF Heap
<1>3. B[b].chain \subseteq B[t].chain /\ B[b].height <= B[t].height
  BY <1>2 DEF CutTree
<1>4. m \in H /\ m \in 0 .. k /\ \A h \in H : B[h].height <= B[m].height
  BY DEF Highest
<1>5. G \subseteq 0 .. k
  OBVIOUS
<1>6. B[m].height <= B[w].height /\ B[t].height <= B[w].height /\ w \in 0 .. k
  BY <1>2, <1>4
<1>7. w \in G
  <2>1. CASE B[t].height > B[m].height
    BY <2>1
  <2>2. CASE ~(B[t].height > B[m].height)
    <3>1. m # p
      BY <2>2, <1>1, <1>2, <1>3, <1>4
    <3> QED BY <2>2, <3>1, <1>4
  <2> QED BY <2>1, <2>2
<1>8. \A h \in G : B[h].height <= B[w].height
  BY <1>2, <1>4, <1>6
<1>9. B[p].chain \subseteq B[t].chain
  BY <1>1, <1>3
<1>10. ASSUME NEW x \in Linked(B, H) PROVE x \in Linked(B, G)
  <2>1. PICK h \in H : x \in B[h].chain
    BY DEF Linked
  <2>2. \E g \in G : x \in B[g].chain
    BY <2>1, <1>9
  <2> QED BY <2>2 DEF Linked
<1>11. b \in Linked(B, G)
  BY DEF Linked
<1>12. B[b].height <= B[w].height
  BY <1>2, <1>3, <1>6
<1> QED BY <1>5, <1>6, <1>7, <1>8, <1>10, <1>11, <1>12 DEF Highest

(* The parent of b is a head of n. *)
LEMMA ExtendMeets ==
    ASSUME TypeOK, NEW B \in Heap, NEW k \in Nat, 0 .. k \subseteq Block,
           CutTree(B, k), NEW n \in Node, NEW b \in 1 .. k, ~aborted,
           branches[n] \subseteq 0 .. k, orphans[n] \subseteq 1 .. k,
           Highest(B, branches[n], mainBranch[n]),
           gbmMainBranch[n] = mainBranch[n],
           B[b].prev # Null, B[b].prev \in branches[n],
           ExtendBranch(n, b, B)
    PROVE  \/ aborted' = TRUE /\ UNCHANGED nodeVars
           \/ UNCHANGED aborted /\ Filed(n, b, B, k)
<1> DEFINE H == branches[n]
           m == mainBranch[n]
           live == LiveOrphans(n, B)
<1> SUFFICES ASSUME ~(aborted' = TRUE /\ UNCHANGED nodeVars)
             PROVE  UNCHANGED aborted /\ Filed(n, b, B, k)
  OBVIOUS
<1>1. PICK t \in AdoptionTips(n, b, B) :
         LET w == IF B[t].height > B[m].height THEN t ELSE m
         IN  /\ branches' = [branches EXCEPT ![n] = (H \ {B[b].prev}) \cup {t}]
             /\ mainBranch' = [mainBranch EXCEPT ![n] = w]
             /\ gbmMainBranch' = [gbmMainBranch EXCEPT ![n] = w]
             /\ orphans' = [orphans EXCEPT ![n] = live]
             /\ UNCHANGED aborted
             /\ w = t => B[b].prev = m \/ B[b].chain \cap B[m].chain # {} \/ t = m
  <2>1. PICK t \in AdoptionTips(n, b, B) :
           /\ branches' = [branches EXCEPT ![n] = (H \ {B[b].prev}) \cup {t}]
           /\ mainBranch' = [mainBranch EXCEPT ![n] =
                                IF Wins(t, m, B) THEN t ELSE m]
           /\ gbmMainBranch' = [gbmMainBranch EXCEPT ![n] =
                                IF Wins(t, m, B) THEN t ELSE gbmMainBranch[n]]
           /\ orphans' = [orphans EXCEPT ![n] = live]
           /\ UNCHANGED aborted
           /\ ~(Wins(t, m, B) /\ B[b].prev # m /\ ForkLost(b, m, B))
    BY DEF ExtendBranch, Abort
  <2> QED BY <2>1 DEF Wins, ForkLost
<1> DEFINE w == IF B[t].height > B[m].height THEN t ELSE m
           G == (H \ {B[b].prev}) \cup {t}
<1>2. /\ branches' = [branches EXCEPT ![n] = G]
      /\ mainBranch' = [mainBranch EXCEPT ![n] = w]
      /\ gbmMainBranch' = [gbmMainBranch EXCEPT ![n] = w]
      /\ orphans' = [orphans EXCEPT ![n] = live]
      /\ UNCHANGED aborted
      /\ w = t => B[b].prev = m \/ B[b].chain \cap B[m].chain # {} \/ t = m
  BY <1>1
<1>3. /\ branches'[n] = G /\ mainBranch'[n] = w /\ gbmMainBranch'[n] = w
      /\ orphans'[n] = live
  BY <1>2 DEF TypeOK
<1>4. /\ live \subseteq orphans[n]
      /\ \A o \in orphans[n] \ live : o \notin Resident(B)
  BY DEF LiveOrphans
<1>5. b \in 0 .. k /\ t \in 0 .. k /\ b \in B[t].chain
      /\ m \in 0 .. k
  BY <1>4 DEF AdoptionTips, Highest
<1>6. w = t \/ w = m
  OBVIOUS
<1>7. /\ G \subseteq 0 .. k
      /\ Highest(B, G, w)
      /\ B[m].height <= B[w].height
      /\ B[b].height <= B[w].height
      /\ \A x \in Linked(B, H) : x \in Linked(B, G)
      /\ b \in Linked(B, G)
  <2>1. H \in SUBSET (0 .. k) /\ Highest(B, H, m) /\ B[b].prev \in H
    OBVIOUS
  <2> HIDE DEF H, m
  <2> QED BY <2>1, <1>5, ExtendKeepsHighest
<1> HIDE DEF H, m, live, w, G
<1>8. ASSUME NEW r \in 0 .. k, EndsIn(B, m, r)
      PROVE  EndsIn(B, w, r)
  <2>1. CASE w = m
    BY <2>1, <1>8
  <2>2. CASE w # m
    <3>1. w = t /\ (B[b].prev = m \/ B[b].chain \cap B[m].chain # {})
      BY <2>2, <1>2, <1>6
    <3>2. B[b].prev = m => B[b].chain \cap B[m].chain # {}
      BY <1>5 DEF CutTree
    <3> QED BY <3>1, <3>2, <1>5, <1>8, MeetingChains
  <2> QED BY <2>1, <2>2
<1>9. /\ branches' = [branches EXCEPT ![n] = branches'[n]]
      /\ mainBranch' = [mainBranch EXCEPT ![n] = mainBranch'[n]]
      /\ gbmMainBranch' = [gbmMainBranch EXCEPT ![n] = mainBranch'[n]]
      /\ orphans' = [orphans EXCEPT ![n] = orphans'[n]]
  BY <1>2, <1>3
<1> QED BY <1>2, <1>3, <1>4, <1>7, <1>8, <1>9 DEF Filed, H, m

(* The parent of b is not a head of n. *)
LEMMA FileMeets ==
    ASSUME TypeOK, NEW B \in Heap, NEW k \in Nat, 0 .. k \subseteq Block,
           CutTree(B, k), NEW n \in Node, NEW b \in 1 .. k, ~aborted,
           branches[n] \subseteq 0 .. k, orphans[n] \subseteq 1 .. k,
           Highest(B, branches[n], mainBranch[n]),
           gbmMainBranch[n] = mainBranch[n],
           B[b].prev \notin branches[n],
           FileBlock(n, b, B)
    PROVE  \/ aborted' = TRUE /\ UNCHANGED nodeVars
           \/ UNCHANGED aborted /\ Filed(n, b, B, k)
<1> DEFINE H == branches[n]
           m == mainBranch[n]
<1>1. \A x \in 0 .. k : B[x].height \in Nat
  BY DEF Heap
<1>2. m \in H /\ m \in 0 .. k /\ b \in 0 .. k
      /\ \A h \in H : h \in 0 .. k /\ B[h].height <= B[m].height
  BY DEF Highest
<1>3. ASSUME NEW h \in H, NEW x \in B[h].chain
      PROVE  B[x].height <= B[m].height
  <2>1. x \in 0 .. k /\ (x = h \/ B[x].height < B[h].height)
    BY <1>2 DEF CutTree
  <2> QED BY <2>1, <1>1, <1>2
<1>4. B[m].height <= B[m].height
  BY <1>1, <1>2
<1>5. CASE /\ \E h \in H : IsDuplicate(h, b, B)
           /\ UNCHANGED <<nodeVars, aborted>>
  <2>1. B[b].height <= B[m].height
    BY <1>3, <1>5 DEF IsDuplicate, Walked
  <2>2. /\ branches' = branches /\ mainBranch' = mainBranch
        /\ gbmMainBranch' = gbmMainBranch /\ orphans' = orphans
        /\ UNCHANGED aborted
    BY <1>5 DEF nodeVars
  <2>3. /\ branches' = [branches EXCEPT ![n] = branches'[n]]
        /\ mainBranch' = [mainBranch EXCEPT ![n] = mainBranch'[n]]
        /\ gbmMainBranch' = [gbmMainBranch EXCEPT ![n] = mainBranch'[n]]
        /\ orphans' = [orphans EXCEPT ![n] = orphans'[n]]
    BY <2>2 DEF TypeOK
  <2> QED BY <2>1, <2>2, <2>3, <1>4 DEF Filed
<1>6. CASE /\ \E h \in H : HasSibling(h, b, B)
           /\ branches' = [branches EXCEPT ![n] = @ \cup {b}]
           /\ UNCHANGED <<mainBranch, orphans, gbmMainBranch, aborted>>
  <2>1. B[b].height <= B[m].height
    <3>1. PICK h \in H : \E x \in B[h].chain : B[x].height >= B[b].height
      BY <1>6 DEF HasSibling, Walked
    <3>2. PICK x \in B[h].chain : B[x].height >= B[b].height
      BY <3>1
    <3>3. x \in 0 .. k
      BY <1>2 DEF CutTree
    <3> QED BY <3>2, <3>3, <1>1, <1>2, <1>3
  <2>2. /\ branches'[n] = H \cup {b} /\ mainBranch'[n] = m
        /\ gbmMainBranch'[n] = m /\ orphans'[n] = orphans[n]
        /\ UNCHANGED aborted
    BY <1>6 DEF TypeOK
  <2>3. /\ branches' = [branches EXCEPT ![n] = branches'[n]]
        /\ mainBranch' = [mainBranch EXCEPT ![n] = mainBranch'[n]]
        /\ gbmMainBranch' = [gbmMainBranch EXCEPT ![n] = mainBranch'[n]]
        /\ orphans' = [orphans EXCEPT ![n] = orphans'[n]]
    BY <1>6, <2>2 DEF TypeOK
  <2> DEFINE G == H \cup {b}
  <2>4. G \subseteq 0 .. k /\ Highest(B, G, m)
    BY <2>1, <1>2 DEF Highest
  <2>5. \A x \in Linked(B, H) : x \in Linked(B, G)
    BY DEF Linked
  <2>6. branches'[n] = G
    BY <2>2
  <2>7. \A o \in orphans[n] \ orphans'[n] : o \notin Resident(B)
    BY <2>2
  <2>8. \A r \in 0 .. k : EndsIn(B, mainBranch[n], r) => EndsIn(B, mainBranch'[n], r)
    BY <2>2
  <2> HIDE DEF G
  <2>9. orphans'[n] \subseteq orphans[n] \cup {b}
    BY <2>2
  <2>10. /\ B[mainBranch[n]].height <= B[mainBranch'[n]].height
         /\ B[b].height <= B[mainBranch'[n]].height
    BY <2>1, <2>2, <1>4
  <2>11. /\ branches'[n] \subseteq 0 .. k
         /\ Highest(B, branches'[n], mainBranch'[n])
         /\ \A x \in Linked(B, branches[n]) : x \in Linked(B, branches'[n])
    BY <2>2, <2>4, <2>5, <2>6
  <2>12. UNCHANGED aborted
    BY <2>2
  <2> HIDE DEF H, m
  <2> QED BY <2>3, <2>7, <2>8, <2>9, <2>10, <2>11, <2>12 DEF Filed
<1>7. CASE /\ PutAside(n, b)
           /\ UNCHANGED <<branches, mainBranch, gbmMainBranch, aborted>>
  <2>1. orphans' = [orphans EXCEPT ![n] = orphans[n] \cup {b}]
    BY <1>7 DEF PutAside
  <2>2. /\ orphans'[n] = orphans[n] \cup {b}
        /\ branches' = branches /\ mainBranch' = mainBranch
        /\ gbmMainBranch' = gbmMainBranch /\ UNCHANGED aborted
    BY <1>7, <2>1 DEF TypeOK
  <2>3. /\ branches' = [branches EXCEPT ![n] = branches'[n]]
        /\ mainBranch' = [mainBranch EXCEPT ![n] = mainBranch'[n]]
        /\ gbmMainBranch' = [gbmMainBranch EXCEPT ![n] = mainBranch'[n]]
        /\ orphans' = [orphans EXCEPT ![n] = orphans'[n]]
    BY <2>1, <2>2 DEF TypeOK
  <2> QED BY <2>2, <2>3, <1>4 DEF Filed
<1>8. CASE Abort
  BY <1>8 DEF Abort
<1> QED BY <1>5, <1>6, <1>7, <1>8 DEF FileBlock

(* Either appendBlock() aborts and changes nothing, or it files the block. *)
LEMMA AppendMeets ==
    ASSUME TypeOK, NEW B \in Heap, NEW k \in Nat, 0 .. k \subseteq Block,
           CutTree(B, k), NEW n \in Node, NEW b \in 1 .. k, ~aborted,
           branches[n] \subseteq 0 .. k, orphans[n] \subseteq 1 .. k,
           Highest(B, branches[n], mainBranch[n]),
           gbmMainBranch[n] = mainBranch[n],
           AppendBlock(n, b, B)
    PROVE  \/ aborted' = TRUE /\ UNCHANGED nodeVars
           \/ UNCHANGED aborted /\ Filed(n, b, B, k)
<1>1. CASE B[b].prev = Null
  BY <1>1 DEF AppendBlock, Abort
<1>2. CASE B[b].prev # Null /\ B[b].prev \in branches[n]
  <2>1. ExtendBranch(n, b, B)
    BY <1>2 DEF AppendBlock
  <2> QED BY <1>2, <2>1, ExtendMeets
<1>3. CASE B[b].prev # Null /\ B[b].prev \notin branches[n]
  <2>1. FileBlock(n, b, B)
    BY <1>3 DEF AppendBlock
  <2> QED BY <1>3, <2>1, FileMeets
<1> QED BY <1>1, <1>2, <1>3

-----------------------------------------------------------------------------
(* The steps of BlockchainManager.                                         *)

(* The heap and the messages after n was given the block b: b is a block   *)
(* that was on its way to n, or one that n has mined on top of its main    *)
(* branch and that is on its way to every other node.                      *)
Delivered(n, b, C, k) ==
    /\ mined' = k /\ block' = C
    /\ C \in Heap /\ k \in Block /\ 0 .. k \subseteq Block /\ CutTree(C, k)
    /\ b \in 1 .. k
    /\ \A x \in 0 .. mined : x \in 0 .. k /\ C[x] = block[x]
    /\ \A x \in 1 .. k : x \in 1 .. mined \/ x = b
    /\ b \in 1 .. mined \/ C[b].prev \in branches[n]
    /\ inFlight' \in [Node -> SUBSET (1 .. k)]
    /\ \A m \in Node : \A x \in 1 .. k :
          x \in inFlight[m] \/ x \notin 1 .. mined =>
             x \in inFlight'[m] \/ (m = n /\ x = b)

LEMMA FilingKeepsRunning ==
    ASSUME TypeOK, GBMReferences, RunningInv, NEW n \in Node, NEW b,
           NEW C, NEW k, Delivered(n, b, C, k), Filed(n, b, C, k),
           UNCHANGED aborted
    PROVE  TypeOK' /\ GBMReferences' /\ RunningInv'
<1>1. /\ mined \in Nat /\ k \in Nat /\ block \in Heap
      /\ mined' = k /\ block' = C
      /\ C \in Heap /\ k \in Block /\ 0 .. k \subseteq Block /\ CutTree(C, k)
      /\ b \in 1 .. k
      /\ \A x \in 0 .. mined : x \in 0 .. k /\ C[x] = block[x]
      /\ \A x \in 1 .. k : x \in 1 .. mined \/ x = b
      /\ b \in 1 .. mined \/ C[b].prev \in branches[n]
      /\ inFlight' \in [Node -> SUBSET (1 .. k)]
      /\ \A m \in Node : \A x \in 1 .. k :
            x \in inFlight[m] \/ x \notin 1 .. mined =>
               x \in inFlight'[m] \/ (m = n /\ x = b)
  BY MaxBlockAssumption DEF Delivered, TypeOK, Block, Heap
<1>2. /\ branches'[n] \subseteq 0 .. k
      /\ orphans'[n] \subseteq orphans[n] \cup {b}
      /\ \A o \in orphans[n] \ orphans'[n] : o \notin Resident(C)
      /\ Highest(C, branches'[n], mainBranch'[n])
      /\ C[mainBranch[n]].height <= C[mainBranch'[n]].height
      /\ \A x \in Linked(C, branches[n]) : x \in Linked(C, branches'[n])
      /\ b \in orphans'[n] \/ C[b].height <= C[mainBranch'[n]].height
      /\ C[b].prev \in branches[n] => b \in Linked(C, branches'[n])
      /\ \A r \in 0 .. k :
            EndsIn(C, mainBranch[n], r) => EndsIn(C, mainBranch'[n], r)
  BY DEF Filed
<1>3. /\ branches' = [branches EXCEPT ![n] = branches'[n]]
      /\ mainBranch' = [mainBranch EXCEPT ![n] = mainBranch'[n]]
      /\ gbmMainBranch' = [gbmMainBranch EXCEPT ![n] = mainBranch'[n]]
      /\ orphans' = [orphans EXCEPT ![n] = orphans'[n]]
  BY DEF Filed
<1>4. /\ \A m \in Node \ {n} : /\ branches'[m] = branches[m]
                               /\ mainBranch'[m] = mainBranch[m]
                               /\ gbmMainBranch'[m] = gbmMainBranch[m]
                               /\ orphans'[m] = orphans[m]
      /\ gbmMainBranch'[n] = mainBranch'[n]
  BY <1>3 DEF TypeOK
<1>5. /\ \A m \in Node : /\ branches[m] \subseteq 0 .. mined
                         /\ orphans[m] \subseteq 1 .. mined
                         /\ inFlight[m] \subseteq 1 .. mined
                         /\ mainBranch[m] \in 0 .. mined
                         /\ gbmMainBranch[m] \in 0 .. mined
  BY DEF GBMReferences, References
<1>6. mainBranch'[n] \in branches'[n] /\ mainBranch'[n] \in 0 .. k
  BY <1>2 DEF Highest
<1>7. \A x \in 0 .. k : C[x].height \in Nat
  BY <1>1 DEF Heap
<1>8. TypeOK'
  <2>1. /\ branches'[n] \in SUBSET Block /\ orphans'[n] \in SUBSET Block
        /\ mainBranch'[n] \in Block
    BY <1>1, <1>2, <1>5, <1>6
  <2>2. /\ branches' \in [Node -> SUBSET Block]
        /\ mainBranch' \in [Node -> Block]
        /\ gbmMainBranch' \in [Node -> Block]
        /\ orphans' \in [Node -> SUBSET Block]
    BY <2>1, <1>3 DEF TypeOK
  <2>3. inFlight' \in [Node -> SUBSET Block]
    BY <1>1
  <2>4. block' \in [Block -> [prev   : Block \cup {Null},
                              height : Nat,
                              chain  : SUBSET Block]]
    BY <1>1 DEF Heap
  <2>5. aborted' \in BOOLEAN
    BY Zenon DEF TypeOK
  <2> QED BY <2>2, <2>3, <2>4, <2>5, <1>1 DEF TypeOK
<1>9. GBMReferences'
  <2>1. ASSUME NEW m \in Node
        PROVE  /\ branches'[m] \subseteq 0 .. k
               /\ orphans'[m] \subseteq 1 .. k
               /\ inFlight'[m] \subseteq 1 .. k
               /\ mainBranch'[m] \in 0 .. k
               /\ gbmMainBranch'[m] \in 0 .. k
    <3>1. 0 .. mined \subseteq 0 .. k /\ 1 .. mined \subseteq 1 .. k
      <4>1. mined \in 0 .. k
        BY <1>1
      <4> QED BY <4>1, <1>1
    <3>2. CASE m = n
      <4>1. orphans'[n] \subseteq 1 .. k
        BY <3>1, <1>1, <1>2, <1>5
      <4> QED BY <3>2, <4>1, <1>1, <1>2, <1>4, <1>6
    <3>3. CASE m # n
      BY <3>1, <3>3, <1>1, <1>4, <1>5
    <3> QED BY <3>2, <3>3
  <2> QED BY <2>1, <1>1 DEF GBMReferences, References
<1>10. \A m \in Node : block[mainBranch[m]].height <= C[mainBranch'[m]].height
  <2> SUFFICES ASSUME NEW m \in Node
               PROVE  block[mainBranch[m]].height <= C[mainBranch'[m]].height
    OBVIOUS
  <2>1. /\ C[mainBranch[m]] = block[mainBranch[m]]
        /\ block[mainBranch[m]].height \in Nat
    BY <1>1, <1>5, <1>7
  <2>2. CASE m = n
    BY <2>1, <2>2, <1>2
  <2>3. CASE m # n
    BY <2>1, <2>3, <1>4
  <2> QED BY <2>2, <2>3
<1>11. \A m \in Node : \A x \in Known(m) : x \in Known(m)'
  <2> SUFFICES ASSUME NEW m \in Node, NEW x \in Known(m) PROVE x \in Known(m)'
    OBVIOUS
  <2>1. PICK h \in branches[m] : x \in block[h].chain
    BY DEF Known
  <2>2. h \in 0 .. mined /\ C[h] = block[h]
    BY <2>1, <1>1, <1>5
  <2>3. CASE m = n
    <3>1. x \in Linked(C, branches[n])
      BY <2>1, <2>2, <2>3 DEF Linked
    <3>2. x \in Linked(C, branches'[n])
      BY <3>1, <1>2
    <3> QED BY <3>2, <2>3, <1>1 DEF Known, Linked
  <2>4. CASE m # n
    <3>1. h \in branches'[m] /\ x \in block'[h].chain
      BY <2>1, <2>2, <2>4, <1>1, <1>4
    <3> QED BY <3>1 DEF Known
  <2> QED BY <2>3, <2>4
<1>12. CutTree(block, mined)'
  BY <1>1 DEF CutTree
<1>13. MainBranchIsHighest'
  <2>1. ASSUME NEW m \in Node
        PROVE  /\ mainBranch'[m] \in branches'[m]
               /\ \A h \in branches'[m] : C[h].height <= C[mainBranch'[m]].height
               /\ gbmMainBranch'[m] = mainBranch'[m]
    <3>1. CASE m = n
      BY <3>1, <1>2, <1>4 DEF Highest
    <3>2. CASE m # n
      <4>1. /\ mainBranch[m] \in branches[m]
            /\ \A h \in branches[m] :
                  block[h].height <= block[mainBranch[m]].height
            /\ gbmMainBranch[m] = mainBranch[m]
        BY DEF RunningInv, MainBranchIsHighest
      <4>2. \A h \in branches[m] : C[h] = block[h]
        BY <1>1, <1>5
      <4> QED BY <4>1, <4>2, <3>2, <1>4
    <3> QED BY <3>1, <3>2
  <2> QED BY <2>1, <1>1 DEF MainBranchIsHighest
<1>14. SharedEnd'
  <2>1. PICK r \in 0 .. mined : \A m \in Node : EndsIn(block, mainBranch[m], r)
    BY DEF RunningInv, SharedEnd
  <2>2. r \in 0 .. k /\ C[r] = block[r]
    BY <2>1, <1>1
  <2>3. \A m \in Node : EndsIn(C, mainBranch[m], r)
    BY <2>1, <2>2, <1>1, <1>5 DEF EndsIn
  <2>4. \A m \in Node : EndsIn(C, mainBranch'[m], r)
    BY <2>2, <2>3, <1>2, <1>4
  <2>5. \A m \in Node : EndsIn(block, mainBranch[m], r)'
    BY <2>4, <1>1 DEF EndsIn
  <2> QED BY <2>2, <2>5, <1>1 DEF SharedEnd
<1>15. KeptOrLow'
  <2>1. ASSUME NEW x \in 1 .. k
        PROVE  \/ \E m \in Node : x \in Known(m)'
               \/ \A m \in Node : C[x].height <= C[mainBranch'[m]].height
    <3>1. CASE x \in 1 .. mined
      <4>1. CASE \E m \in Node : x \in Known(m)
        BY <4>1, <1>11
      <4>2. CASE \A m \in Node : block[x].height <= block[mainBranch[m]].height
        <5>1. C[x] = block[x] /\ C[x].height \in Nat
          BY <3>1, <1>1, <1>7
        <5>2. \A m \in Node : /\ block[mainBranch[m]].height \in Nat
                              /\ C[mainBranch'[m]].height \in Nat
          BY <1>1, <1>4, <1>5, <1>6, <1>7
        <5> QED BY <4>2, <5>1, <5>2, <1>10
      <4> QED BY <3>1, <4>1, <4>2 DEF RunningInv, KeptOrLow
    <3>2. CASE x \notin 1 .. mined
      <4>1. x = b /\ C[b].prev \in branches[n]
        BY <3>2, <1>1
      <4>2. x \in Linked(C, branches'[n])
        BY <4>1, <1>2
      <4> QED BY <4>2, <1>1 DEF Known, Linked
    <3> QED BY <3>1, <3>2
  <2> QED BY <2>1, <1>1 DEF KeptOrLow
<1>16. HandledOrWaiting'
  <2>1. ASSUME NEW m \in Node, NEW x \in 0 .. k
        PROVE  \/ x \in inFlight'[m] \cup orphans'[m]
               \/ C[x].height <= C[mainBranch'[m]].height
    <3>1. CASE x \in 1 .. k /\ (x \in inFlight[m] \/ x \notin 1 .. mined)
      <4>1. CASE x \in inFlight'[m]
        BY <4>1
      <4>2. CASE m = n /\ x = b
        BY <4>2, <1>2
      <4> QED BY <3>1, <4>1, <4>2, <1>1
    <3>2. CASE x \in 1 .. mined /\ x \in orphans[m] /\ x \notin orphans'[m]
      <4>1. m = n /\ x \notin Resident(C)
        BY <3>2, <1>2, <1>4
      <4>2. \A l \in Node : x \notin Known(l)
        <5> SUFFICES ASSUME NEW l \in Node, x \in Known(l) PROVE FALSE
          OBVIOUS
        <5>1. PICK h \in branches[l] : x \in block[h].chain
          BY DEF Known
        <5>2. x \in C[h].chain
          BY <5>1, <1>1, <1>5
        <5> QED BY <5>1, <5>2, <4>1 DEF Resident
      <4>3. block[x].height <= block[mainBranch[m]].height
        BY <4>2, <3>2 DEF RunningInv, KeptOrLow
      <4>4. C[x] = block[x] /\ C[x].height \in Nat
        BY <3>2, <1>1, <1>7
      <4>5. /\ block[mainBranch[m]].height \in Nat
            /\ C[mainBranch'[m]].height \in Nat
        BY <1>1, <1>4, <1>5, <1>6, <1>7
      <4> QED BY <4>3, <4>4, <4>5, <1>10
    <3>3. CASE x \in 0 .. mined /\ x \notin inFlight[m] \cup orphans[m]
      <4>3. block[x].height <= block[mainBranch[m]].height
        BY <3>3 DEF RunningInv, HandledOrWaiting
      <4>4. C[x] = block[x] /\ C[x].height \in Nat
        BY <3>3, <1>1, <1>7
      <4>5. /\ block[mainBranch[m]].height \in Nat
            /\ C[mainBranch'[m]].height \in Nat
        BY <1>1, <1>4, <1>5, <1>6, <1>7
      <4> QED BY <4>3, <4>4, <4>5, <1>10
    <3>4. x \in 0 .. mined \/ x \in 1 .. k
      BY <1>1
    <3>5. x \in inFlight[m] => x \in 1 .. k
      <4>1. mined \in 0 .. k
        BY <1>1
      <4> QED BY <4>1, <1>1, <1>5
    <3>6. x \in orphans[m] => x \in 1 .. mined
      BY <1>5
    <3>7. x \in 1 .. k => x \in 1 .. mined \/ x \notin 1 .. mined
      OBVIOUS
    <3>8. CASE x \in orphans'[m]
      BY <3>8
    <3>9. x \in 1 .. mined => x \in 0 .. mined
      BY <1>1
    <3> QED BY <3>1, <3>2, <3>3, <3>4, <3>5, <3>6, <3>8, <3>9
  <2> QED BY <2>1, <1>1 DEF HandledOrWaiting
<1> QED
  BY <1>8, <1>9, <1>12, <1>13, <1>14, <1>15, <1>16 DEF RunningInv

LEMMA AbortKeepsReferences ==
    ASSUME TypeOK, GBMReferences, aborted' = TRUE, UNCHANGED nodeVars,
           NEW k \in Block, mined' = k, 0 .. mined \subseteq 0 .. k,
           1 .. mined \subseteq 1 .. k,
           block' \in Heap, inFlight' \in [Node -> SUBSET (1 .. k)],
           1 .. k \subseteq Block
    PROVE  GBMInv'
<1>1. /\ branches' = branches /\ mainBranch' = mainBranch
      /\ orphans' = orphans /\ gbmMainBranch' = gbmMainBranch
  BY DEF nodeVars
<1>2. TypeOK'
  <2>1. inFlight' \in [Node -> SUBSET Block]
    OBVIOUS
  <2>2. aborted' \in BOOLEAN
    BY Zenon
  <2>3. block' \in [Block -> [prev   : Block \cup {Null},
                              height : Nat,
                              chain  : SUBSET Block]]
    BY DEF Heap
  <2> QED BY <2>1, <2>2, <2>3, <1>1 DEF TypeOK
<1>3. \A m \in Node : inFlight'[m] \subseteq 1 .. k
  OBVIOUS
<1>4. GBMReferences'
  <2>1. \A m \in Node : /\ branches'[m] \subseteq 0 .. k
                        /\ orphans'[m] \subseteq 1 .. k
                        /\ inFlight'[m] \subseteq 1 .. k
                        /\ mainBranch'[m] \in 0 .. k
                        /\ gbmMainBranch'[m] \in 0 .. k
    BY <1>1, <1>3 DEF GBMReferences, References
  <2> QED BY <2>1 DEF GBMReferences, References
<1> QED BY <1>2, <1>4 DEF GBMInv

LEMMA RunningFacts ==
    ASSUME TypeOK, GBMReferences, RunningInv, NEW n \in Node
    PROVE  /\ block \in Heap /\ mined \in Nat /\ 0 .. mined \subseteq Block
           /\ CutTree(block, mined)
           /\ Highest(block, branches[n], mainBranch[n])
           /\ gbmMainBranch[n] = mainBranch[n]
           /\ mainBranch[n] \in 0 .. mined
           /\ branches[n] \subseteq 0 .. mined
           /\ orphans[n] \subseteq 1 .. mined
           /\ inFlight[n] \subseteq 1 .. mined
           /\ mined \in Block
  BY MaxBlockAssumption
     DEF TypeOK, Heap, Block, Genesis, Highest, GBMReferences, References,
         RunningInv, MainBranchIsHighest

LEMMA ReceiveKeepsGBMInv ==
    ASSUME GBMInv, NEW n \in Node, NEW b \in Block, Receive(n, b)
    PROVE  GBMInv'
<1>1. /\ TypeOK /\ GBMReferences /\ RunningInv /\ ~aborted
      /\ b \in inFlight[n]
      /\ inFlight' = [inFlight EXCEPT ![n] = inFlight[n] \ {b}]
      /\ AppendBlock(n, b, block)
      /\ mined' = mined /\ block' = block
  BY DEF GBMInv, Receive
<1>2. /\ block \in Heap /\ mined \in Nat /\ 0 .. mined \subseteq Block
      /\ CutTree(block, mined)
      /\ Highest(block, branches[n], mainBranch[n])
      /\ gbmMainBranch[n] = mainBranch[n]
      /\ branches[n] \subseteq 0 .. mined
      /\ orphans[n] \subseteq 1 .. mined
      /\ b \in 1 .. mined
      /\ mined \in Block
  BY <1>1, RunningFacts
<1>3. inFlight \in [Node -> SUBSET (1 .. mined)]
  BY <1>1 DEF TypeOK, GBMReferences, References
<1>4. inFlight' \in [Node -> SUBSET (1 .. mined)]
  <2>1. inFlight[n] \ {b} \in SUBSET (1 .. mined)
    BY <1>3
  <2> QED BY <2>1, <1>1, <1>3
<1>5. \A m \in Node : \A x \in inFlight[m] :
         x \in inFlight'[m] \/ (m = n /\ x = b)
  BY <1>1, <1>3
<1>6. \/ aborted' = TRUE /\ UNCHANGED nodeVars
      \/ UNCHANGED aborted /\ Filed(n, b, block, mined)
  BY <1>1, <1>2, AppendMeets
<1>7. CASE aborted' = TRUE /\ UNCHANGED nodeVars
  BY <1>1, <1>2, <1>4, <1>7, AbortKeepsReferences
<1>8. CASE UNCHANGED aborted /\ Filed(n, b, block, mined)
  <2>1. Delivered(n, b, block, mined)
    BY <1>1, <1>2, <1>4, <1>5 DEF Delivered
  <2>2. TypeOK' /\ GBMReferences' /\ RunningInv'
    BY <2>1, <1>1, <1>8, FilingKeepsRunning
  <2> QED BY <2>2 DEF GBMInv
<1> QED BY <1>6, <1>7, <1>8

LEMMA MineKeepsGBMInv ==
    ASSUME GBMInv, NEW n \in Node, Mine(n)
    PROVE  GBMInv'
<1> DEFINE k == mined + 1
           C == [block EXCEPT ![k] = NewBlock(n)]
           p == mainBranch[n]
           sent == {k}
<1>1. /\ TypeOK /\ GBMReferences /\ RunningInv /\ ~aborted
      /\ mined < MaxBlock /\ mined' = k /\ block' = C
      /\ AppendBlock(n, k, C) /\ Broadcast(n, sent)
  BY DEF GBMInv, Mine
<1>2. /\ block \in Heap /\ mined \in Nat /\ 0 .. mined \subseteq Block
      /\ CutTree(block, mined)
      /\ Highest(block, branches[n], p)
      /\ gbmMainBranch[n] = p
      /\ p \in 0 .. mined /\ p \in branches[n]
      /\ branches[n] \subseteq 0 .. mined
      /\ orphans[n] \subseteq 1 .. mined
  <2>1. p \in branches[n]
    BY <1>1 DEF RunningInv, MainBranchIsHighest
  <2> QED BY <2>1, <1>1, RunningFacts
<1>3. /\ k \in Block /\ 0 .. k \subseteq Block /\ k \in Nat /\ k \in 1 .. k
      /\ 0 .. mined \subseteq 0 .. k /\ 1 .. mined \subseteq 1 .. k
      /\ k \notin 0 .. mined /\ 1 .. k \subseteq Block
      /\ \A x \in 1 .. k : x \in 1 .. mined \/ x = k
  BY <1>1, <1>2, MaxBlockAssumption DEF Block
<1>4. NewBlock(n) = [prev   |-> p,
                     height |-> block[p].height + 1,
                     chain  |-> block[p].chain \cup {k}]
  BY DEF NewBlock
<1>5. NewBlock(n) \in [prev   : Block \cup {Null},
                       height : Nat,
                       chain  : SUBSET Block]
  <2>1. /\ block[p].height + 1 \in Nat
        /\ block[p].chain \cup {k} \in SUBSET Block
        /\ p \in Block
    BY <1>2, <1>3 DEF Heap
  <2> HIDE DEF k, p
  <2> QED BY <2>1, <1>4
<1>6. C \in Heap /\ C[k] = NewBlock(n) /\ \A x \in 0 .. mined : C[x] = block[x]
  <2> HIDE DEF k
  <2> QED BY <1>2, <1>3, <1>5 DEF Heap
<1>7. CutTree(C, k)
  <2> HIDE DEF C, p
  <2> QED BY <1>2, <1>3, <1>4, <1>6, CutTreeGrows
<1>8. Highest(C, branches[n], p)
  <2> HIDE DEF C, k, p
  <2> QED BY <1>2, <1>6 DEF Highest
<1>9. C[k].prev = p /\ p # Null /\ C[k].prev \in branches[n]
  <2>1. p # Null
    BY <1>2 DEF Null
  <2> HIDE DEF C, k, p
  <2> QED BY <2>1, <1>2, <1>4, <1>6
<1>10. inFlight \in [Node -> SUBSET (1 .. mined)]
  BY <1>1 DEF TypeOK, GBMReferences, References
<1>11. /\ inFlight' \in [Node -> SUBSET (1 .. k)]
       /\ \A m \in Node : \A x \in 1 .. k :
             x \in inFlight[m] \/ x \notin 1 .. mined =>
                x \in inFlight'[m] \/ (m = n /\ x = k)
  <2>1. /\ sent \in SUBSET (1 .. k)
        /\ \A m \in Node : inFlight[m] \in SUBSET (1 .. k)
        /\ k \in sent
    BY <1>3, <1>10
  <2> HIDE DEF sent, k
  <2>2. inFlight' = [m \in Node |-> IF m = n THEN inFlight[m]
                                    ELSE inFlight[m] \cup sent]
    BY <1>1 DEF Broadcast
  <2>3. \A m \in Node : inFlight'[m] \in SUBSET (1 .. k)
    BY <2>1, <2>2
  <2> QED BY <2>1, <2>2, <2>3, <1>3
<1> HIDE DEF C, k, p, sent
<1>12. branches[n] \subseteq 0 .. k /\ orphans[n] \subseteq 1 .. k
  BY <1>2, <1>3
<1>13. \/ aborted' = TRUE /\ UNCHANGED nodeVars
       \/ UNCHANGED aborted /\ Filed(n, k, C, k)
  <2>1. gbmMainBranch[n] = mainBranch[n] /\ Highest(C, branches[n], mainBranch[n])
    BY <1>2, <1>8 DEF p
  <2> QED BY <2>1, <1>1, <1>3, <1>6, <1>7, <1>12, AppendMeets
<1>14. CASE aborted' = TRUE /\ UNCHANGED nodeVars
  BY <1>1, <1>3, <1>6, <1>11, <1>14, AbortKeepsReferences
<1>15. CASE UNCHANGED aborted /\ Filed(n, k, C, k)
  <2>1. Delivered(n, k, C, k)
    <3>1. \A x \in 0 .. mined : x \in 0 .. k /\ C[x] = block[x]
      BY <1>3, <1>6
    <3> QED BY <3>1, <1>1, <1>3, <1>6, <1>7, <1>9, <1>11 DEF Delivered
  <2>2. TypeOK' /\ GBMReferences' /\ RunningInv'
    BY <2>1, <1>1, <1>15, FilingKeepsRunning
  <2> QED BY <2>2, <1>1, <1>15 DEF GBMInv
<1> QED BY <1>13, <1>14, <1>15

-----------------------------------------------------------------------------
(* The cleanup.                                                            *)

LEMMA LeastOfNats ==
    ASSUME NEW D, D \subseteq Nat, D # {}
    PROVE  \E d \in D : \A e \in D : d <= e
<1>1. PICK d \in D : \A e \in D : <<e, d>> \notin OpToRel(<, Nat)
  BY WFMin, NatLessThanWellFounded, Zenon
<1>2. \A e \in D : d <= e
  <2> SUFFICES ASSUME NEW e \in D PROVE ~(e < d)
    OBVIOUS
  <2>1. e < d => <<e, d>> \in OpToRel(<, Nat)
    BY Zenon DEF OpToRel
  <2> QED BY <1>1, <2>1, Zenon
<1> QED BY <1>2

(* Blocks whose heights are bounded have a highest one among them. *)
LEMMA HighestExists ==
    ASSUME NEW B, NEW S, S # {}, NEW top \in Nat,
           \A x \in S : B[x].height \in Nat /\ B[x].height <= top
    PROVE  \E f \in S : \A c \in S : B[c].height <= B[f].height
<1> DEFINE D == {top - B[x].height : x \in S}
<1>1. D \subseteq Nat /\ D # {}
  OBVIOUS
<1> HIDE DEF D
<1>2. PICK d \in D : \A e \in D : d <= e
  BY <1>1, LeastOfNats
<1>3. PICK f \in S : d = top - B[f].height
  BY DEF D
<1>4. \A c \in S : d <= top - B[c].height
  BY <1>2 DEF D
<1> QED BY <1>3, <1>4

(* While the network runs, the main branches meet in a block, and one of   *)
(* those they share is the highest.                                        *)
LEMMA ForkBlockFound ==
    ASSUME TypeOK, GBMReferences, RunningInv
    PROVE  /\ Common # {}
           /\ ForkBlock \in Common
           /\ ForkBlock \in 0 .. mined
           /\ \A n \in Node : ForkBlock \in block[mainBranch[n]].chain
           /\ \A c \in Common : block[c].height <= block[ForkBlock].height
<1>1. PICK o \in Node : TRUE
  BY SomeNodeAssumption
<1>2. /\ block \in Heap /\ mined \in Nat /\ 0 .. mined \subseteq Block
      /\ CutTree(block, mined)
      /\ \A n \in Node : /\ mainBranch[n] \in 0 .. mined
                         /\ gbmMainBranch[n] = mainBranch[n]
  BY <1>1, RunningFacts
<1>3. PICK r \in 0 .. mined : \A n \in Node : EndsIn(block, mainBranch[n], r)
  BY DEF RunningInv, SharedEnd
<1>4. r \in Common
  BY <1>2, <1>3 DEF Common, EndsIn
<1> DEFINE top == block[mainBranch[o]].height
<1>5. ASSUME NEW c \in Common
      PROVE  /\ c \in 0 .. mined
             /\ block[c].height \in Nat /\ block[c].height <= top
             /\ \A n \in Node : c \in block[mainBranch[n]].chain
  <2>1. \A n \in Node : c \in block[mainBranch[n]].chain
    BY <1>2 DEF Common
  <2>2. mainBranch[o] \in 0 .. mined /\ c \in block[mainBranch[o]].chain
    BY <2>1, <1>2
  <2>3. /\ c \in 0 .. mined
        /\ c = mainBranch[o] \/ block[c].height < block[mainBranch[o]].height
    BY <2>2, <1>2 DEF CutTree
  <2>4. block[c].height \in Nat /\ top \in Nat
    BY <2>2, <2>3, <1>2 DEF Heap
  <2> QED BY <2>1, <2>3, <2>4
<1>6. top \in Nat
  BY <1>2 DEF Heap
<1> HIDE DEF top
<1>7. \E f \in Common : \A c \in Common : block[c].height <= block[f].height
  BY <1>4, <1>5, <1>6, HighestExists
<1>8. /\ ForkBlock \in Common
      /\ \A c \in Common : block[c].height <= block[ForkBlock].height
  BY <1>7 DEF ForkBlock
<1> QED BY <1>4, <1>5, <1>8

(* The cut at the fork block's parent p, and which blocks the nodes keep.  *)
LEMMA CleanupCuts ==
    ASSUME GBMInv, Cleanup
    PROVE  /\ TypeOK /\ GBMReferences /\ RunningInv
           /\ aborted' = aborted
           /\ UNCHANGED <<mined, inFlight, mainBranch, gbmMainBranch>>
           /\ \/ UNCHANGED <<block, branches, orphans>>
              \/ \E p \in 0 .. mined :
                    /\ p = block[ForkBlock].prev
                    /\ block' = CutBelow(p)
                    /\ \A n \in Node : p \in block[mainBranch[n]].chain
                    /\ \A n \in Node :
                          /\ branches'[n] =
                                {h \in branches[n] : block[h].height >= block[p].height}
                          /\ \/ orphans'[n] = orphans[n]
                             \/ orphans'[n] = orphans[n] \cap Resident(block)'
                    /\ branches' \in [Node -> SUBSET Block]
                    /\ orphans' \in [Node -> SUBSET Block]
<1>1. TypeOK /\ GBMReferences /\ RunningInv
  BY DEF GBMInv, Cleanup
<1>2. /\ Common # {} /\ ForkBlock \in 0 .. mined
      /\ \A n \in Node : ForkBlock \in block[mainBranch[n]].chain
  BY <1>1, ForkBlockFound
<1> DEFINE p == block[ForkBlock].prev
<1>3. /\ UNCHANGED <<mined, inFlight, aborted>>
      /\ \/ p = Null /\ UNCHANGED <<block, nodeVars>>
         \/ /\ p # Null
            /\ block' = CutBelow(p)
            /\ IF block[p].height > 0
               THEN CleanupNodes(block[p].height)
               ELSE UNCHANGED nodeVars
  BY <1>2 DEF Cleanup
<1>4. CASE p = Null
  <2>1. UNCHANGED <<block, nodeVars>>
    BY <1>3, <1>4
  <2> QED BY <2>1, <1>1, <1>3 DEF nodeVars
<1>5. CASE p # Null
  <2>1. PICK o \in Node : TRUE
    BY SomeNodeAssumption
  <2>2. /\ block \in Heap /\ mined \in Nat /\ 0 .. mined \subseteq Block
        /\ CutTree(block, mined)
        /\ \A n \in Node : /\ mainBranch[n] \in 0 .. mined
                           /\ branches[n] \subseteq 0 .. mined
    BY <1>1, <2>1, RunningFacts
  <2>3. p \in 0 .. mined /\ p \in block[ForkBlock].chain
    <3>1. p \in 0 .. mined /\ block[p].chain \subseteq block[ForkBlock].chain
      BY <1>2, <1>5, <2>2 DEF CutTree
    <3>2. p \in block[p].chain
      BY <3>1, <2>2 DEF CutTree
    <3> QED BY <3>1, <3>2
  <2>4. ASSUME NEW n \in Node PROVE p \in block[mainBranch[n]].chain
    <3>1. block[ForkBlock].chain \subseteq block[mainBranch[n]].chain
      BY <1>2, <2>2 DEF CutTree
    <3> QED BY <3>1, <2>3
  <2> HIDE DEF p
  <2>5. \A n \in Node : \A h \in branches[n] : block[h].height \in Nat
    BY <2>2 DEF Heap
  <2>6. block[p].height \in Nat
    BY <2>2, <2>3 DEF Heap
  <2>7. CASE block[p].height > 0
    <3>1. /\ UNCHANGED <<mainBranch, gbmMainBranch>>
          /\ branches' = [n \in Node |->
                {h \in branches[n] : block[h].height >= block[p].height}]
          /\ orphans' = [n \in Node |-> orphans[n] \cap Resident(block)']
      BY <1>3, <1>5, <2>7 DEF CleanupNodes
    <3>2. /\ branches' \in [Node -> SUBSET Block]
          /\ orphans' \in [Node -> SUBSET Block]
      BY <3>1, <1>1 DEF TypeOK
    <3>3. \A n \in Node :
             /\ branches'[n] =
                   {h \in branches[n] : block[h].height >= block[p].height}
             /\ orphans'[n] = orphans[n] \cap Resident(block)'
      BY <3>1
    <3> QED
      BY <3>1, <3>2, <3>3, <1>1, <1>3, <1>5, <2>3, <2>4 DEF p
  <2>8. CASE ~(block[p].height > 0)
    <3>1. UNCHANGED <<branches, orphans, mainBranch, gbmMainBranch>>
      BY <1>3, <1>5, <2>8 DEF nodeVars
    <3>2. \A n \in Node :
             branches'[n] =
                {h \in branches[n] : block[h].height >= block[p].height}
      BY <3>1, <2>5, <2>6, <2>8
    <3>3. /\ branches' \in [Node -> SUBSET Block]
          /\ orphans' \in [Node -> SUBSET Block]
      BY <3>1, <1>1 DEF TypeOK
    <3> QED
      BY <3>1, <3>2, <3>3, <1>1, <1>3, <1>5, <2>3, <2>4 DEF p
  <2> QED BY <2>7, <2>8
<1> QED BY <1>4, <1>5

LEMMA CleanupKeepsGBMInv ==
    ASSUME GBMInv, Cleanup
    PROVE  GBMInv'
<1>1. /\ TypeOK /\ GBMReferences /\ RunningInv /\ ~aborted
      /\ aborted' = aborted
      /\ mined' = mined /\ inFlight' = inFlight
      /\ mainBranch' = mainBranch /\ gbmMainBranch' = gbmMainBranch
  BY CleanupCuts DEF Cleanup
<1>2. CASE UNCHANGED <<block, branches, orphans>>
  <2>1. TypeOK'
    BY <1>1, <1>2 DEF TypeOK
  <2>2. GBMReferences'
    BY <1>1, <1>2 DEF GBMReferences, References
  <2>3. RunningInv'
    BY <1>1, <1>2
       DEF RunningInv, CutTree, MainBranchIsHighest, SharedEnd, EndsIn,
           KeptOrLow, Known, HandledOrWaiting
  <2> QED BY <2>1, <2>2, <2>3 DEF GBMInv
<1>3. CASE ~UNCHANGED <<block, branches, orphans>>
  <2>1. PICK p \in 0 .. mined :
           /\ block' = CutBelow(p)
           /\ \A n \in Node : p \in block[mainBranch[n]].chain
           /\ \A n \in Node :
                 /\ branches'[n] =
                       {h \in branches[n] : block[h].height >= block[p].height}
                 /\ \/ orphans'[n] = orphans[n]
                    \/ orphans'[n] = orphans[n] \cap Resident(block)'
           /\ branches' \in [Node -> SUBSET Block]
           /\ orphans' \in [Node -> SUBSET Block]
    BY <1>3, CleanupCuts
  <2>2. PICK o \in Node : TRUE
    BY SomeNodeAssumption
  <2>3. /\ block \in Heap /\ mined \in Nat /\ 0 .. mined \subseteq Block
        /\ CutTree(block, mined)
        /\ \A n \in Node : /\ mainBranch[n] \in 0 .. mined
                           /\ branches[n] \subseteq 0 .. mined
                           /\ orphans[n] \subseteq 1 .. mined
    BY <1>1, <2>2, RunningFacts
  <2> DEFINE C == CutBelow(p)
  <2>4. /\ C \in Heap
        /\ CutTree(C, mined)
        /\ \A b \in 0 .. mined :
              /\ C[b].height = block[b].height
              /\ p \in block[b].chain => EndsIn(C, b, p)
              /\ C[b].chain \subseteq block[b].chain
              /\ block[b].chain \subseteq C[b].chain \cup block[p].chain
    <3>1. /\ C \in Heap
          /\ \A b \in 0 .. mined :
                /\ C[b].height = block[b].height
                /\ b = p => C[b].prev = Null
                /\ b # p => C[b].prev = block[b].prev
                /\ p \in block[b].chain =>
                      C[b].chain = (block[b].chain \ block[p].chain) \cup {p}
                /\ p \notin block[b].chain => C[b].chain = block[b].chain
      <4>1. p \in Block /\ \A b \in 0 .. mined : b \in Block
        BY <2>3
      <4> QED BY <4>1, <2>3, CutFields
    <3> HIDE DEF C
    <3> QED BY <3>1, <2>3, CuttingKeepsTree
  <2>5. block' = C
    BY <2>1
  <2> HIDE DEF C
  <2>6. \A b \in 0 .. mined : block[b].height \in Nat
    BY <2>3 DEF Heap
  <2>7. \A n \in Node : block[p].height <= block[mainBranch[n]].height
    <3> SUFFICES ASSUME NEW n \in Node
                 PROVE  block[p].height <= block[mainBranch[n]].height
      OBVIOUS
    <3>1. mainBranch[n] \in 0 .. mined /\ p \in block[mainBranch[n]].chain
      BY <2>1, <2>3
    <3>2. p = mainBranch[n] \/ block[p].height < block[mainBranch[n]].height
      BY <3>1, <2>3 DEF CutTree
    <3> QED BY <3>1, <3>2, <2>6
  <2>8. TypeOK'
    <3>1. block' \in [Block -> [prev   : Block \cup {Null},
                                height : Nat,
                                chain  : SUBSET Block]]
      BY <2>4, <2>5 DEF Heap
    <3> QED BY <3>1, <2>1, <1>1 DEF TypeOK
  <2>9. GBMReferences'
    <3>1. \A n \in Node : /\ branches'[n] \subseteq 0 .. mined
                          /\ orphans'[n] \subseteq 1 .. mined
      BY <2>1, <2>3
    <3> QED BY <3>1, <1>1 DEF GBMReferences, References
  <2>10. CutTree(block, mined)'
    BY <2>4, <2>5, <1>1 DEF CutTree
  <2>11. MainBranchIsHighest'
    <3>1. ASSUME NEW n \in Node
          PROVE  /\ mainBranch[n] \in branches'[n]
                 /\ \A h \in branches'[n] :
                       C[h].height <= C[mainBranch[n]].height
                 /\ gbmMainBranch[n] = mainBranch[n]
      <4>1. /\ mainBranch[n] \in branches[n]
            /\ \A h \in branches[n] :
                  block[h].height <= block[mainBranch[n]].height
            /\ gbmMainBranch[n] = mainBranch[n]
        BY <1>1 DEF RunningInv, MainBranchIsHighest
      <4>2. /\ mainBranch[n] \in branches'[n]
            /\ \A h \in branches'[n] : h \in branches[n] /\ h \in 0 .. mined
        BY <4>1, <2>1, <2>3, <2>6, <2>7
      <4> QED BY <4>1, <4>2, <2>3, <2>4
    <3> QED BY <3>1, <2>5, <1>1 DEF MainBranchIsHighest
  <2>12. SharedEnd'
    <3>1. \A n \in Node : EndsIn(C, mainBranch[n], p)
      BY <2>1, <2>3, <2>4
    <3>2. \A n \in Node : EndsIn(block, mainBranch[n], p)'
      BY <3>1, <2>5, <1>1 DEF EndsIn
    <3> QED BY <3>2, <1>1 DEF SharedEnd
  <2>13. \A b \in 1 .. mined :
            \/ \E n \in Node : b \in Known(n)'
            \/ \A n \in Node : block[b].height <= block[mainBranch[n]].height
    <3> SUFFICES ASSUME NEW b \in 1 .. mined,
                        ~\A n \in Node :
                           block[b].height <= block[mainBranch[n]].height
                 PROVE  \E n \in Node : b \in Known(n)'
      OBVIOUS
    <3>1. block[b].height > block[p].height
      BY <2>3, <2>6, <2>7
    <3>2. PICK n \in Node : b \in Known(n)
      BY <1>1 DEF RunningInv, KeptOrLow
    <3>3. PICK h \in branches[n] : b \in block[h].chain
      BY <3>2 DEF Known
    <3>4. h \in 0 .. mined /\ block[b].height <= block[h].height
      BY <3>3, <2>3, <2>6 DEF CutTree
    <3>5. h \in branches'[n]
      <4>1. block[h].height >= block[p].height
        BY <3>1, <3>4, <2>6
      <4> QED BY <4>1, <3>3, <2>1
    <3>6. b \notin block[p].chain
      <4>1. \A x \in block[p].chain :
               x = p \/ block[x].height < block[p].height
        BY <2>3 DEF CutTree
      <4> QED BY <4>1, <3>1, <2>6
    <3>7. b \in C[h].chain
      BY <3>3, <3>4, <3>6, <2>4
    <3> QED BY <3>5, <3>7, <2>5 DEF Known
  <2>14. KeptOrLow'
    <3>1. \A b \in 1 .. mined : C[b].height = block[b].height
      BY <2>4
    <3>2. \A n \in Node : C[mainBranch[n]].height = block[mainBranch[n]].height
      BY <2>3, <2>4
    <3> QED BY <3>1, <3>2, <2>5, <2>13, <1>1 DEF KeptOrLow
  <2>15. ASSUME NEW n \in Node, NEW b \in 0 .. mined
         PROVE  \/ b \in inFlight[n] \cup orphans'[n]
                \/ block[b].height <= block[mainBranch[n]].height
    <3>1. CASE b \in orphans[n] /\ b \notin orphans'[n]
      <4>1. b \notin Resident(block)'
        BY <3>1, <2>1
      <4>2. \A m \in Node : b \notin Known(m)'
        BY <4>1 DEF Resident, Known
      <4>3. b \in 1 .. mined
        BY <3>1, <2>3
      <4> QED BY <4>2, <4>3, <2>13
    <3>2. CASE b \in inFlight[n] \cup orphans'[n]
      BY <3>2
    <3>3. CASE b \notin inFlight[n] \cup orphans[n]
      BY <3>3, <1>1 DEF RunningInv, HandledOrWaiting
    <3> QED BY <3>1, <3>2, <3>3
  <2>16. HandledOrWaiting'
    <3>1. \A b \in 0 .. mined : C[b].height = block[b].height
      BY <2>4
    <3>2. \A n \in Node : C[mainBranch[n]].height = block[mainBranch[n]].height
      BY <2>3, <2>4
    <3> QED BY <3>1, <3>2, <2>5, <2>15, <1>1 DEF HandledOrWaiting
  <2>17. RunningInv'
    BY <2>10, <2>11, <2>12, <2>14, <2>16 DEF RunningInv
  <2> QED BY <2>8, <2>9, <2>17 DEF GBMInv
<1> QED BY <1>2, <1>3

-----------------------------------------------------------------------------
(* The inductive invariant.                                                *)

LEMMA InitEstablishesGBMInv == GBMInit => GBMInv
<1> SUFFICES ASSUME GBMInit PROVE GBMInv
  OBVIOUS
<1>1. Init /\ IInv
  BY InitEstablishesIInv DEF GBMInit
<1>2. TypeOK /\ References
  BY <1>1 DEF IInv, TreeInv
<1>3. /\ mined = 0 /\ 0 \in Block /\ 0 .. mined = {0} /\ 1 .. mined = {}
      /\ block[0].prev = Null /\ block[0].height = 0 /\ block[0].chain = {0}
      /\ \A n \in Node : mainBranch[n] = 0 /\ gbmMainBranch[n] = 0
  BY <1>1, MaxBlockAssumption DEF Init, Genesis, Block
<1>4. GBMReferences
  BY <1>2, <1>3 DEF GBMReferences
<1>5. CutTree(block, mined)
  BY <1>3 DEF CutTree
<1>6. MainBranchIsHighest
  BY <1>1 DEF IInv, TreeInv
<1>7. SharedEnd
  BY <1>3 DEF SharedEnd, EndsIn
<1>8. KeptOrLow
  BY <1>3 DEF KeptOrLow
<1>9. HandledOrWaiting
  BY <1>3 DEF HandledOrWaiting
<1> QED
  BY <1>2, <1>4, <1>5, <1>6, <1>7, <1>8, <1>9 DEF GBMInv, RunningInv

LEMMA StutterKeepsGBMInv ==
    ASSUME GBMInv, UNCHANGED vars
    PROVE  GBMInv'
<1>1. /\ UNCHANGED <<mined, block, branches, mainBranch, orphans>>
      /\ UNCHANGED <<inFlight, gbmMainBranch, aborted>>
  BY DEF vars
<1>2. TypeOK' /\ GBMReferences'
  BY <1>1 DEF GBMInv, TypeOK, GBMReferences, References
<1>3. RunningInv => RunningInv'
  BY <1>1
     DEF RunningInv, CutTree, MainBranchIsHighest, SharedEnd, EndsIn,
         KeptOrLow, Known, HandledOrWaiting
<1> QED BY <1>1, <1>2, <1>3 DEF GBMInv

LEMMA StepKeepsGBMInv == GBMInv /\ [GBMNext]_gbmVars => GBMInv'
<1> SUFFICES ASSUME GBMInv, [GBMNext]_gbmVars PROVE GBMInv'
  OBVIOUS
<1>1. ASSUME NEW n \in Miner, Mine(n) PROVE GBMInv'
  BY <1>1, NodeAssumption, MineKeepsGBMInv
<1>2. ASSUME NEW n \in Node, NEW b \in Block, Receive(n, b) PROVE GBMInv'
  BY <1>2, ReceiveKeepsGBMInv
<1>3. CASE Cleanup
  BY <1>3, CleanupKeepsGBMInv
<1>4. CASE UNCHANGED vars
  BY <1>4, StutterKeepsGBMInv
<1> QED BY <1>1, <1>2, <1>3, <1>4 DEF GBMNext, Next, TimeLimit, gbmVars

LEMMA GBMInvariance == GBMSpec => []GBMInv
  BY InitEstablishesGBMInv, StepKeepsGBMInv, PTL DEF GBMSpec

-----------------------------------------------------------------------------
(* The theorems.                                                           *)

(* Whatever the order of mining, deliveries and cuts, until the run is     *)
(* aborted all main branches lead down to a block that is in memory.       *)
THEOREM MainBranchesAlwaysMeet == GBMSpec => []MainBranchesMeet
<1>1. GBMInv => MainBranchesMeet
  BY ForkBlockFound DEF GBMInv, MainBranchesMeet
<1> QED BY <1>1, GBMInvariance, PTL

(* Nodes that have received every block and stranded none have main        *)
(* branches of one height, whatever each of them forgot in the cleanups.   *)
THEOREM QuiescentNodesAgreeOnHeight == GBMSpec => []QuiescentHeights
<1>1. ASSUME GBMInv PROVE QuiescentHeights
  <2>1. ASSUME NEW n \in Node, NEW m \in Node, ~aborted,
               inFlight[m] = {}, Stranded(m) = {}
        PROVE  /\ block[mainBranch[n]].height <= block[mainBranch[m]].height
               /\ block[mainBranch[n]].height \in Nat
    <3>1. TypeOK /\ GBMReferences /\ RunningInv
      BY <1>1, <2>1 DEF GBMInv
    <3>2. /\ block \in Heap /\ CutTree(block, mined)
          /\ 0 .. mined \subseteq Block
          /\ Highest(block, branches[m], mainBranch[m])
          /\ mainBranch[n] \in 0 .. mined /\ mainBranch[m] \in 0 .. mined
          /\ branches[m] \subseteq 0 .. mined
      BY <3>1, RunningFacts
    <3>3. \A x \in 0 .. mined : block[x].height \in Nat
      BY <3>2 DEF Heap
    <3>4. CASE mainBranch[n] \in orphans[m]
      <4>1. mainBranch[n] \in Known(m)
        BY <3>4, <2>1 DEF Stranded
      <4>2. PICK h \in branches[m] : mainBranch[n] \in block[h].chain
        BY <4>1 DEF Known
      <4>3. /\ h \in 0 .. mined
            /\ block[mainBranch[n]].height <= block[h].height
        BY <4>2, <3>2, <3>3 DEF CutTree
      <4>4. block[h].height <= block[mainBranch[m]].height
        BY <4>2, <3>2 DEF Highest
      <4> QED BY <4>3, <4>4, <3>2, <3>3
    <3>5. CASE mainBranch[n] \notin orphans[m]
      BY <3>1, <3>2, <3>3, <3>5, <2>1 DEF RunningInv, HandledOrWaiting
    <3> QED BY <3>4, <3>5
  <2> SUFFICES ASSUME NEW n \in Node, NEW m \in Node, ~aborted,
                      inFlight[n] = {}, inFlight[m] = {},
                      Stranded(n) = {}, Stranded(m) = {}
               PROVE  block[mainBranch[n]].height = block[mainBranch[m]].height
    BY DEF QuiescentHeights
  <2>2. /\ block[mainBranch[n]].height <= block[mainBranch[m]].height
        /\ block[mainBranch[m]].height <= block[mainBranch[n]].height
        /\ block[mainBranch[n]].height \in Nat
        /\ block[mainBranch[m]].height \in Nat
    BY <2>1
  <2> QED BY <2>2
<1> QED BY <1>1, GBMInvariance, PTL

(* A cut keeps, of each main branch, the block in which they meet and that *)
(* block's parent.                                                         *)
THEOREM CutsRetainForkAndParent == GBMSpec => ForkAndParentRetained
<1>1. ASSUME GBMInv, [GBMNext]_gbmVars, NEW n \in Node,
             ~aborted, cleanups' # cleanups
      PROVE  /\ ForkBlock \in block'[mainBranch'[n]].chain
             /\ block[ForkBlock].prev # Null =>
                   block[ForkBlock].prev \in block'[mainBranch'[n]].chain
  <2>1. Cleanup
    BY <1>1 DEF GBMNext, gbmVars
  <2>2. /\ TypeOK /\ GBMReferences /\ RunningInv
        /\ mainBranch' = mainBranch
    BY <2>1, <1>1, CleanupCuts
  <2> DEFINE f == ForkBlock
             main == mainBranch[n]
  <2>3. /\ block \in Heap /\ 0 .. mined \subseteq Block
        /\ CutTree(block, mined) /\ main \in 0 .. mined
    BY <2>2, RunningFacts
  <2>4. f \in 0 .. mined /\ f \in block[main].chain
    BY <2>2, ForkBlockFound
  <2> HIDE DEF f, main
  <2>5. block[f].prev # Null =>
           /\ block[f].prev \in 0 .. mined
           /\ block[f].height = block[block[f].prev].height + 1
           /\ block[f].prev \in block[f].chain
    BY <2>3, <2>4 DEF CutTree
  <2>6. block[f].chain \subseteq block[main].chain
    BY <2>3, <2>4 DEF CutTree
  <2>7. CASE block' = block
    BY <2>2, <2>4, <2>5, <2>6, <2>7 DEF f, main
  <2>8. CASE block' # block
    <3> DEFINE p == block[f].prev
    <3>1. p \in 0 .. mined /\ block' = CutBelow(p) /\ p \in block[main].chain
      BY <2>1, <2>8, <1>1, CleanupCuts DEF f, main
    <3>2. p # Null
      BY <3>1 DEF Null
    <3>3. f \notin block[p].chain
      <4>1. block[f].height = block[p].height + 1
        BY <2>5, <3>2
      <4>2. block[p].height \in Nat /\ block[f].height \in Nat
        BY <2>3, <2>4, <3>1 DEF Heap
      <4>3. f \in block[p].chain => f = p \/ block[f].height < block[p].height
        BY <2>3, <3>1 DEF CutTree
      <4> QED BY <4>1, <4>2, <4>3
    <3> HIDE DEF p
    <3>4. p \in Block /\ main \in Block
      BY <2>3, <3>1
    <3>5. CutBelow(p)[main].chain =
             (block[main].chain \ block[p].chain) \cup {p}
      BY <2>3, <3>1, <3>4, CutFields
    <3>6. f \in block'[main].chain /\ p \in block'[main].chain
      BY <2>4, <3>1, <3>3, <3>5
    <3> QED BY <2>2, <3>6 DEF f, main, p
  <2> QED BY <2>7, <2>8
<1> DEFINE A == \A n \in Node :
                   (~aborted /\ cleanups' # cleanups) =>
                      /\ ForkBlock \in block'[mainBranch'[n]].chain
                      /\ block[ForkBlock].prev # Null =>
                            block[ForkBlock].prev \in
                               block'[mainBranch'[n]].chain
<1>2. GBMInv /\ [GBMNext]_gbmVars => A
  BY <1>1
<1>3. [A]_gbmVars =>
         [\A n \in Node :
             (~aborted /\ cleanups' # cleanups) =>
                /\ ForkBlock \in block'[mainBranch'[n]].chain
                /\ block[ForkBlock].prev # Null =>
                      block[ForkBlock].prev \in
                         block'[mainBranch'[n]].chain]_gbmVars
  OBVIOUS
<1> HIDE DEF A
<1> QED
  BY <1>2, <1>3, GBMInvariance, PTL DEF GBMSpec, ForkAndParentRetained
=============================================================================
