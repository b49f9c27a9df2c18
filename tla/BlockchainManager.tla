------------------------- MODULE BlockchainManager -------------------------
(***************************************************************************)
(* The blockchain of every node of the simulated Bitcoin network.          *)
(*                                                                         *)
(* Each node runs a BlockchainManager (apps/BlockchainManager.cc).  Its    *)
(* Miner extends the node's main branch; the manager appends the new block *)
(* and sends it to every other node in a DirectBlockMsg, whose delay is    *)
(* drawn at random, so blocks reach a node in any order.  appendBlock()    *)
(* files a received block as an extension of a branch (possibly making it  *)
(* the new main branch), as a new side branch, or as an orphan.            *)
(*                                                                         *)
(* A handler of the simulator runs to completion, so each one is a single  *)
(* step here.  Wallets, mempools and difficulty are modelled elsewhere.    *)
(***************************************************************************)
EXTENDS Integers, FiniteSets

CONSTANTS
    Node,      \* the nodes of the network, one BlockchainManager each
    Miner,     \* the nodes whose Miner has a hash rate
    MaxBlock   \* bound: how many blocks are mined on top of genesis

ASSUME NodeAssumption == Miner \subseteq Node
ASSUME MaxBlockAssumption == MaxBlock \in Nat

(* Blocks are numbered in the order in which they are mined. *)
Genesis == 0
Block == 0 .. MaxBlock

(* The null pointer in a header's prevBlock. *)
Null == -1

VARIABLES
    mined,          \* the number of the last block mined
    block,          \* the heap of blocks: prev pointer, height, and the
                    \* blocks that the prev pointers still lead to
    branches,       \* per node: the heads of the branches it knows
    mainBranch,     \* per node: the head of its main branch
    orphans,        \* per node: weak references to blocks put aside because
                    \* their parent was missing
    inFlight,       \* per node: the blocks of the DirectBlockMsgs on their way
    gbmMainBranch,  \* the main branch each node last reported to the GBM
    aborted         \* an exception, or a null dereference, ended the run

nodeVars == <<branches, mainBranch, orphans, gbmMainBranch>>
vars == <<mined, block, branches, mainBranch, orphans, inFlight,
          gbmMainBranch, aborted>>

-----------------------------------------------------------------------------
(* The state of the network.                                               *)

(* Blocks that some shared_ptr still reaches.  A weak reference to any     *)
(* other block has expired.                                                *)
Resident(B) ==
    UNION {B[h].chain : h \in UNION {branches[m] \cup inFlight[m] \cup
                              {mainBranch[m], gbmMainBranch[m]} : m \in Node}}

LiveOrphans(n, B) == orphans[n] \cap Resident(B)

(* The blocks a node has linked into one of its branches. *)
Known(n) == UNION {block[h].chain : h \in branches[n]}

(* Orphans that no branch of the node contains. *)
Stranded(n) == orphans[n] \ Known(n)

-----------------------------------------------------------------------------
(* appendBlock() of a block b at node n, given the heap B.                 *)

(* std::runtime_error or a null dereference: the simulation is over. *)
Abort ==
    /\ aborted' = TRUE
    /\ UNCHANGED nodeVars

(* Appending b makes the manager look for an orphan whose parent is b,     *)
(* append that one, look for an orphan whose parent it is, and so on.  The *)
(* list may hold several orphans of one parent: only the first is taken,   *)
(* and since blocks arrive in any order it may be any of them.  A tip is   *)
(* the block where such a chain of adoptions stops.                        *)
AdoptionTips(n, b, B) ==
    LET live == LiveOrphans(n, B)
    IN  {t \in {b} \cup live :
            /\ b \in B[t].chain
            /\ B[t].chain \ B[b].chain \subseteq live
            /\ \A o \in live : B[o].prev # t}

(* findForkBlock() reaches a null prev pointer before the two chains meet. *)
ForkLost(a, c, B) == B[a].chain \cap B[c].chain = {}

(* A branch with head t displaces the main branch.  (The first two are     *)
(* faults: ties are won, or a lead of one is not enough.)                  *)
WinsOnTie(t, main, B) == B[t].height >= B[main].height
WinsByTwo(t, main, B) == B[t].height > B[main].height + 1
Wins(t, main, B) == B[t].height > B[main].height

(* The parent of b is the head of a branch.  The whole chain from b to tip *)
(* replaces it, and the main branch moves iff the chain becomes strictly   *)
(* the highest: by extension, or by a swap from the fork block up.         *)
ExtendBranch(n, b, B) ==
    \E tip \in AdoptionTips(n, b, B) :
        LET main == mainBranch[n]
            wins == Wins(tip, main, B)
        IN  IF wins /\ B[b].prev # main /\ ForkLost(b, main, B)
            THEN Abort
            ELSE /\ branches' = [branches EXCEPT ![n] =
                                    (@ \ {B[b].prev}) \cup {tip}]
                 /\ mainBranch' = [mainBranch EXCEPT ![n] =
                                      IF wins THEN tip ELSE @]
                 /\ gbmMainBranch' = [gbmMainBranch EXCEPT ![n] =
                                         IF wins THEN tip ELSE @]
                 /\ orphans' = [orphans EXCEPT ![n] = LiveOrphans(n, B)]
                 /\ UNCHANGED aborted

(* What the walk down the branch h meets at the height of b and above.     *)
(* (Fault: the walk does not stop at that height.)                         *)
WalkedDown(h, b, B) == B[h].chain
Walked(h, b, B) == {x \in B[h].chain : B[x].height >= B[b].height}

(* The walk meets b itself.  (Fault: blocks are compared by height.) *)
SameHeight(h, b, B) == \E x \in Walked(h, b, B) : B[x].height = B[b].height
IsDuplicate(h, b, B) == b \in Walked(h, b, B)

(* The walk meets a child of b's parent.  (Fault: any block will do.) *)
HasRival(h, b, B) == \E x \in Walked(h, b, B) : x # b
HasSibling(h, b, B) ==
    \E x \in Walked(h, b, B) : x # b /\ B[x].prev = B[b].prev

(* The branch was cut above the height of b: the walk follows a null prev. *)
RunsOffEnd(h, b, B) ==
    /\ ~IsDuplicate(h, b, B)
    /\ ~HasSibling(h, b, B)
    /\ Walked(h, b, B) = B[h].chain

(* b is put aside.  (Fault: it is forgotten.) *)
Forget(n, b) == orphans' = orphans
PutAside(n, b) == orphans' = [orphans EXCEPT ![n] = @ \cup {b}]

(* The parent of b is not a head.  The branches are walked in no fixed     *)
(* order and the first one that settles the matter ends the search.        *)
FileBlock(n, b, B) ==
    \/ /\ \E h \in branches[n] : IsDuplicate(h, b, B)
       /\ UNCHANGED <<nodeVars, aborted>>
    \/ /\ \E h \in branches[n] : HasSibling(h, b, B)
       /\ branches' = [branches EXCEPT ![n] = @ \cup {b}]
       /\ UNCHANGED <<mainBranch, orphans, gbmMainBranch, aborted>>
    \/ /\ \E h \in branches[n] : RunsOffEnd(h, b, B)
       /\ Abort
    \/ /\ \A h \in branches[n] : ~( \/ IsDuplicate(h, b, B)
                                    \/ HasSibling(h, b, B)
                                    \/ RunsOffEnd(h, b, B))
       /\ PutAside(n, b)
       /\ UNCHANGED <<branches, mainBranch, gbmMainBranch, aborted>>

AppendBlock(n, b, B) ==
    IF B[b].prev = Null
    THEN Abort
    ELSE IF B[b].prev \in branches[n]
         THEN ExtendBranch(n, b, B)
         ELSE FileBlock(n, b, B)

-----------------------------------------------------------------------------
(* A mined block is sent once to every node but the one that mined it.     *)
(* (Fault: to that one as well.)                                           *)
BroadcastToAll(n, sent) == inFlight' = [m \in Node |-> inFlight[m] \cup sent]
Broadcast(n, sent) ==
    inFlight' = [m \in Node |-> IF m = n THEN inFlight[m]
                                ELSE inFlight[m] \cup sent]

(* What Miner::mineBlock() builds.  (Fault: the height goes down.) *)
LowerBlock(n) ==
    [prev   |-> mainBranch[n],
     height |-> block[mainBranch[n]].height - 1,
     chain  |-> block[mainBranch[n]].chain \cup {mined + 1}]
NewBlock(n) ==
    LET main == mainBranch[n]
    IN  [prev   |-> main,
         height |-> block[main].height + 1,
         chain  |-> block[main].chain \cup {mined + 1}]

(* Miner::mineBlock() at node n, and BlockchainManager::addBlock(). *)
Mine(n) ==
    /\ ~aborted
    /\ mined < MaxBlock
    /\ mined' = mined + 1
    /\ block' = [block EXCEPT ![mined + 1] = NewBlock(n)]
    /\ AppendBlock(n, mined + 1, [block EXCEPT ![mined + 1] = NewBlock(n)])
    /\ Broadcast(n, {mined + 1})

(* handleOtherMessage(): a DirectBlockMsg reaches node n. *)
Receive(n, b) ==
    /\ ~aborted
    /\ b \in inFlight[n]
    /\ inFlight' = [inFlight EXCEPT ![n] = @ \ {b}]
    /\ AppendBlock(n, b, block)
    /\ UNCHANGED <<mined, block>>

(* addGenesisBlock() has run at every node. *)
Init ==
    /\ mined = Genesis
    /\ block = [b \in Block |->
                  [prev   |-> Null,
                   height |-> 0,
                   chain  |-> IF b = Genesis THEN {Genesis} ELSE {}]]
    /\ branches = [n \in Node |-> {Genesis}]
    /\ mainBranch = [n \in Node |-> Genesis]
    /\ orphans = [n \in Node |-> {}]
    /\ inFlight = [n \in Node |-> {}]
    /\ gbmMainBranch = [n \in Node |-> Genesis]
    /\ aborted = FALSE

(* The time limit of the simulation, placed where the bounded model ends. *)
TimeLimit ==
    /\ \/ aborted
       \/ mined = MaxBlock /\ \A n \in Node : inFlight[n] = {}
    /\ UNCHANGED vars

Next ==
    \/ \E n \in Miner : Mine(n)
    \/ \E n \in Node : \E b \in Block : Receive(n, b)
    \/ TimeLimit

Spec == Init /\ [][Next]_vars

-----------------------------------------------------------------------------
(* Properties                                                              *)

(* Every variable holds a value of its type (BlockchainManager.h and       *)
(* GBM.h declare them).                                                    *)
TypeOK ==
    /\ mined \in Block
    /\ block \in [Block -> [prev   : Block \cup {Null},
                            height : Nat,
                            chain  : SUBSET Block]]
    /\ branches \in [Node -> SUBSET Block]
    /\ mainBranch \in [Node -> Block]
    /\ orphans \in [Node -> SUBSET Block]
    /\ inFlight \in [Node -> SUBSET Block]
    /\ gbmMainBranch \in [Node -> Block]
    /\ aborted \in BOOLEAN

(* The main branch of a node is one of its branches and none of them is    *)
(* higher, whatever the order in which appendBlock() received the blocks   *)
(* and however long a chain of orphans it adopted at once; and the GBM,    *)
(* which cuts the chain below the main branches, has the same idea of it.  *)
MainBranchIsHighest ==
    \A n \in Node :
        /\ mainBranch[n] \in branches[n]
        /\ \A h \in branches[n] :
              block[h].height <= block[mainBranch[n]].height
        /\ gbmMainBranch[n] = mainBranch[n]

(* The heads of a node are the leaves of its tree: no head is an ancestor  *)
(* of another.  appendBlock() relies on it to tell an extension (replace   *)
(* the head) from a fork (add a head).                                     *)
HeadsAreLeaves ==
    \A n \in Node : \A g, h \in branches[n] : g \in block[h].chain => g = h

(* No block is lost and none is handled twice: at every node, each block   *)
(* that was mined is either still on its way, or in the tree, or put aside *)
(* as an orphan, and a block on its way is in neither of the other two.    *)
BlockAccounting ==
    \A n \in Node :
        /\ Genesis .. mined = inFlight[n] \cup Known(n) \cup orphans[n]
        /\ inFlight[n] \cap (Known(n) \cup orphans[n]) = {}

(* Nothing in the network makes appendBlock() or findForkBlock() throw or  *)
(* dereference null as long as no block is cut off by the GBM.             *)
NeverAborts == ~aborted

(* Two nodes that have received everything and have no stranded orphan     *)
(* know the same blocks and have main branches of the same height.         *)
QuiescentAgreement ==
    \A n, m \in Node :
        (/\ inFlight[n] = {} /\ inFlight[m] = {}
         /\ Stranded(n) = {} /\ Stranded(m) = {})
        => /\ Known(n) = Known(m)
           /\ block[mainBranch[n]].height = block[mainBranch[m]].height

(* The documentation of BlockchainManager: "Orphan blocks, which lack      *)
(* their parent block, are stored until the parent arrives.  Once          *)
(* received, the orphan is added to the blockchain".  So no orphan is left *)
(* out of the tree once its parent is in it.                               *)
OrphanAdoptedOnceParentKnown ==
    \A n \in Node : \A o \in Stranded(n) : block[o].prev \notin Known(n)

(* First seen wins: a node leaves its main branch only for a strictly      *)
(* higher one, and forgets no block when it does.                          *)
FirstSeenWins ==
    [][\A n \in Node :
          /\ mainBranch'[n] # mainBranch[n] =>
                block'[mainBranch'[n]].height > block[mainBranch[n]].height
          /\ Known(n) \subseteq Known(n)']_vars

(* The tree of blocks, and what each node has of it. *)
Tree == [b \in Block |-> [prev |-> block[b].prev, height |-> block[b].height]]
KnownBlocks == [n \in Node |-> Known(n)]

LC == INSTANCE LongestChain WITH
          Root    <- Genesis,
          NoBlock <- Null,
          tree    <- Tree,
          known   <- KnownBlocks,
          best    <- mainBranch

(* The longest-chain rule, which the tree, the branches and the orphans of *)
(* appendBlock() implement: what a node knows is the union of its          *)
(* branches, and its best block is the head of its main branch.            *)
ImplementsLongestChain == LC!Spec

(* Every block sent to a node ends up in its tree or among its orphans. *)
EveryBlockIsFiled ==
    \A n \in Node : \A b \in Block :
        b \in inFlight[n] ~> b \in Known(n) \cup orphans[n]
=============================================================================
