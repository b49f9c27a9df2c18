-------------------------------- MODULE GBM --------------------------------
(***************************************************************************)
(* The Global Blockchain Manager (global/GBM.cc) over the blockchains of   *)
(* the nodes: every cleanupInterval it cuts the chain below the blocks all *)
(* main branches share, which frees the blocks nothing else refers to, and *)
(* has every BlockchainManager forget its low branches.                    *)
(***************************************************************************)
EXTENDS BlockchainManager

CONSTANT MaxCleanups   \* bound: how often the cleanup timer fires

ASSUME MaxCleanupsAssumption == MaxCleanups \in Nat

(* deleteOldBlocks() dereferences the first of the main branches. *)
ASSUME SomeNodeAssumption == Node # {}

VARIABLE cleanups      \* how often it has fired

gbmVars == <<vars, cleanups>>

-----------------------------------------------------------------------------
(* The blocks that every reported main branch still leads to. *)
Common == {b \in Block : \A n \in Node : b \in block[gbmMainBranch[n]].chain}

(* findForkBlock() folded over the map of main branches.  (Fault: the      *)
(* highest of them instead.)                                               *)
HighestMain ==
    CHOOSE f \in Block : \A n \in Node :
        /\ f \in {gbmMainBranch[m] : m \in Node}
        /\ block[gbmMainBranch[n]].height <= block[f].height
ForkBlock ==
    CHOOSE f \in Common : \A c \in Common : block[c].height <= block[f].height

(* deletePrevBlock() on the header of p: no prev pointer of p's            *)
(* descendants leads below p any more.  (Fault: nor to p itself.)          *)
CutAbove(p) ==
    [b \in Block |->
        [prev   |-> IF block[b].prev = p THEN Null ELSE block[b].prev,
         height |-> block[b].height,
         chain  |-> IF b # p THEN block[b].chain \ block[p].chain
                    ELSE block[b].chain]]
CutBelow(p) ==
    [b \in Block |->
        [prev   |-> IF b = p THEN Null ELSE block[b].prev,
         height |-> block[b].height,
         chain  |-> IF p \in block[b].chain
                    THEN (block[b].chain \ block[p].chain) \cup {p}
                    ELSE block[b].chain]]

(* BlockchainManager::cleanup() at every node.  An expired orphan is never *)
(* read again, so when its list entry goes makes no difference.            *)
CleanupNodes(cutoffHeight) ==
    /\ branches' = [n \in Node |->
                      {h \in branches[n] : block[h].height >= cutoffHeight}]
    /\ UNCHANGED <<mainBranch, gbmMainBranch>>
    /\ orphans' = [n \in Node |-> orphans[n] \cap Resident(block)']

(* handleMessage(cleanupMsg): deleteOldBlocks(), then the nodes' cleanup() *)
(* with the height of the fork block's parent, unless that is 0.           *)
Cleanup ==
    /\ ~aborted
    /\ cleanups < MaxCleanups
    /\ cleanups' = cleanups + 1
    /\ UNCHANGED <<mined, inFlight>>
    /\ IF Common = {}
       THEN Abort /\ UNCHANGED block
       ELSE LET parent == block[ForkBlock].prev
            IN  IF parent = Null
                THEN UNCHANGED <<block, nodeVars, aborted>>
                ELSE /\ block' = CutBelow(parent)
                     /\ IF block[parent].height > 0
                        THEN CleanupNodes(block[parent].height)
                        ELSE UNCHANGED nodeVars
                     /\ UNCHANGED aborted

GBMInit == Init /\ cleanups = 0

GBMNext ==
    \/ Next /\ UNCHANGED cleanups
    \/ Cleanup

GBMSpec == GBMInit /\ [][GBMNext]_gbmVars

-----------------------------------------------------------------------------
(* Properties                                                              *)

(* However the cuts fall between the nodes' reorganisations, the main      *)
(* branches of a running network still meet in a block that is in memory,  *)
(* so the GBM's own findForkBlock() always finds one.                      *)
MainBranchesMeet == ~aborted => Common # {}

(* A cut never takes away what a later step of the protocol needs of the   *)
(* main branches: each keeps the block where it leaves the others, and     *)
(* that block's parent unless an earlier cut ended there or it is genesis. *)
ForkAndParentRetained ==
    [][\A n \in Node :
          (~aborted /\ cleanups' # cleanups) =>
             /\ ForkBlock \in block'[mainBranch'[n]].chain
             /\ block[ForkBlock].prev # Null =>
                   block[ForkBlock].prev \in block'[mainBranch'[n]].chain]_gbmVars

(* Nodes that have received everything, and stranded nothing, agree on the *)
(* height of the main branch even though they forgot branches at different *)
(* points of their histories.                                              *)
QuiescentHeights ==
    \A n, m \in Node :
        (/\ ~aborted
         /\ inFlight[n] = {} /\ inFlight[m] = {}
         /\ Stranded(n) = {} /\ Stranded(m) = {})
        => block[mainBranch[n]].height = block[mainBranch[m]].height
=============================================================================
