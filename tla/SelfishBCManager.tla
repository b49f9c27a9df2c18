-------------------------- MODULE SelfishBCManager --------------------------
(***************************************************************************)
(* Networks in which some miners run a SelfishBCManager                    *)
(* (apps/SelfishBCManager.cc): the blockchain of a selfish node takes its  *)
(* own blocks but keeps them from the others, and publishes them when the  *)
(* private chain is long enough or the others have come within one block.  *)
(* appendBlock() is inherited; the hooks it calls are overridden.          *)
(***************************************************************************)
EXTENDS BlockchainManager, FiniteSetsExt

CONSTANTS
    Selfish,               \* the nodes with a SelfishBCManager
    MaxSelfishChainLength  \* its maxSelfishChainLength parameter

ASSUME SelfishAssumption == Selfish \subseteq Miner
ASSUME MaxLengthAssumption == MaxSelfishChainLength \in Nat

VARIABLES
    selfishChain,         \* per selfish node: the blocks it keeps private
    selfishChainDistance  \* per selfish node: its lead, as it counts it

selfishVars == <<selfishChain, selfishChainDistance>>
allVars == <<vars, selfishVars>>

-----------------------------------------------------------------------------
(* relaySelfishChain(): every private block goes out as if just mined.     *)
(* (Faults: the private chain, or the distance, is not reset.)             *)
RelayKeepsChain(n, private) ==
    /\ Broadcast(n, private)
    /\ selfishChain' = [selfishChain EXCEPT ![n] = private]
    /\ selfishChainDistance' = [selfishChainDistance EXCEPT ![n] = 0]
RelayKeepsDistance(n, private) ==
    /\ Broadcast(n, private)
    /\ selfishChain' = [selfishChain EXCEPT ![n] = {}]
    /\ UNCHANGED selfishChainDistance
Relay(n, private) ==
    /\ Broadcast(n, private)
    /\ selfishChain' = [selfishChain EXCEPT ![n] = {}]
    /\ selfishChainDistance' = [selfishChainDistance EXCEPT ![n] = 0]

(* onBeforeMinedBlockAppend(), appendBlock(), onAfterMinedBlockAppend(). *)
SelfishMine(n) ==
    LET b == mined + 1
        private == selfishChain[n] \cup {b}
    IN  /\ ~aborted
        /\ mined < MaxBlock
        /\ mined' = b
        /\ block' = [block EXCEPT ![b] = NewBlock(n)]
        /\ AppendBlock(n, b, [block EXCEPT ![b] = NewBlock(n)])
        /\ IF Cardinality(private) < MaxSelfishChainLength
           THEN /\ selfishChain' = [selfishChain EXCEPT ![n] = private]
                /\ selfishChainDistance' =
                      [selfishChainDistance EXCEPT ![n] = @ + 1]
                /\ UNCHANGED inFlight
           ELSE Relay(n, private)

(* The blocks the step linked beside the main branch of n, each of which   *)
(* made appendBlock() call onNewSideBranch() or onSideBranchAppend(): none *)
(* if the step extends the main branch, and if it ends by replacing the    *)
(* main branch, those that did not yet exceed it.                          *)
SideBlocks(n, b) ==
    {x \in Known(n)' \ Known(n) :
        /\ block[b].prev # mainBranch[n]
        /\ block[x].height <= block[mainBranch[n]].height}

(* computeDistance() for each of them, in relaySelfishChainIfNeeded().     *)
(* (Fault: the operands of the subtraction are swapped.)                   *)
Shortfalls(n, b) ==
    {block[x].height - block[mainBranch[n]].height : x \in SideBlocks(n, b)}
Distances(n, b) ==
    {block[mainBranch[n]].height - block[x].height : x \in SideBlocks(n, b)}

(* The calls come in ascending height.  Each distance below the lead       *)
(* becomes the lead, and a lead of exactly one publishes the chain.        *)
Approaches(n, b) == {d \in Distances(n, b) : d < selfishChainDistance[n]}

(* handleOtherMessage() of a SelfishBCManager.  appendBlock() comes first  *)
(* here because the hooks are told by what it did.                         *)
SelfishReceive(n, b) ==
    /\ ~aborted
    /\ b \in inFlight[n]
    /\ UNCHANGED <<mined, block>>
    /\ AppendBlock(n, b, block)
    /\ LET swapped == /\ mainBranch'[n] # mainBranch[n]
                      /\ block[b].prev # mainBranch[n]
           near == Approaches(n, b)
           private == IF 1 \in near THEN selfishChain[n] ELSE {}
       IN  /\ inFlight' = [m \in Node |-> IF m = n THEN inFlight[m] \ {b}
                                          ELSE inFlight[m] \cup private]
           /\ selfishChain' = [selfishChain EXCEPT ![n] =
                  IF swapped THEN {} ELSE @ \ private]
           /\ selfishChainDistance' = [selfishChainDistance EXCEPT ![n] =
                  IF swapped \/ 1 \in near THEN 0
                  ELSE IF near = {} THEN @ ELSE Min(near)]

SelfishInit ==
    /\ Init
    /\ selfishChain = [n \in Selfish |-> {}]
    /\ selfishChainDistance = [n \in Selfish |-> 0]

SelfishNext ==
    \/ \E n \in Selfish : SelfishMine(n)
    \/ \E n \in Selfish : \E b \in Block : SelfishReceive(n, b)
    \/ \E n \in Miner \ Selfish : Mine(n) /\ UNCHANGED selfishVars
    \/ \E n \in Node \ Selfish : \E b \in Block :
          Receive(n, b) /\ UNCHANGED selfishVars
    \/ TimeLimit /\ UNCHANGED selfishVars

SelfishSpec == SelfishInit /\ [][SelfishNext]_allVars

-----------------------------------------------------------------------------
(* Properties                                                              *)

(* The blocks a node has been sent, in whatever state it keeps them. *)
Reached(n) == inFlight[n] \cup Known(n) \cup orphans[n]

(* The types of the blockchain, and of the two fields SelfishBCManager     *)
(* adds.                                                                   *)
SelfishTypeOK ==
    /\ TypeOK
    /\ selfishChain \in [Selfish -> SUBSET Block]
    /\ selfishChainDistance \in [Selfish -> Nat]

(* The private chain is the top of the node's own main branch, without     *)
(* gaps, and none of its blocks has ever been sent to another node: the    *)
(* node builds on its secret, and what it clears or publishes is exactly   *)
(* what it was hiding.                                                     *)
PrivateChainTopsMainBranch ==
    \A n \in Selfish : \A x \in selfishChain[n] :
        /\ x \in block[mainBranch[n]].chain
        /\ \A y \in block[mainBranch[n]].chain :
              block[y].height >= block[x].height => y \in selfishChain[n]
        /\ \A m \in Node \ {n} : x \notin Reached(m)

(* A block is either known to its miner alone or has gone to every node;   *)
(* it is never on its way to a node that already has it.                   *)
PublishedToAllOrNone ==
    /\ \A b \in 1 .. mined :
          Cardinality({n \in Node : b \in Reached(n)})
             \in {1, Cardinality(Node)}
    /\ \A n \in Node : inFlight[n] \cap (Known(n) \cup orphans[n]) = {}

(* The distance that relaySelfishChainIfNeeded() patches from call to call *)
(* is the true lead of the private chain over every public block the node  *)
(* has linked, including those of several branches and of adopted orphans; *)
(* with nothing private it is zero.                                        *)
DistanceIsLead ==
    \A n \in Selfish :
        IF selfishChain[n] = {}
        THEN selfishChainDistance[n] = 0
        ELSE /\ \A x \in Known(n) \ selfishChain[n] :
                   block[x].height + selfishChainDistance[n]
                      <= block[mainBranch[n]].height
             /\ \E x \in Known(n) \ selfishChain[n] :
                   block[x].height + selfishChainDistance[n]
                      = block[mainBranch[n]].height
=============================================================================
