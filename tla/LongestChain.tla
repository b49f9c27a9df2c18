---------------------------- MODULE LongestChain ----------------------------
(***************************************************************************)
(* What the blockchain of a network of nodes promises, without messages,   *)
(* branches or orphans.  Every node knows a set of blocks that contains    *)
(* the parent of each of its members.  A step adds blocks to the set of    *)
(* one node.  The node's best block stays what it was unless a strictly    *)
(* higher block was added; then it becomes the highest of those.           *)
(***************************************************************************)
EXTENDS Integers

CONSTANTS
    Node,   \* the nodes
    Block,  \* the blocks that may exist
    Root,   \* the block every node starts with
    NoBlock \* the parent of Root

VARIABLES
    tree,   \* parent and height of each block
    known,  \* per node: the blocks it knows
    best    \* per node: the block it builds on

(* The parent and the height of a block that some node knows are settled. *)
SettledTree ==
    \A n \in Node : \A b \in known[n] : tree'[b] = tree[b]

(* A node may learn only blocks that connect to what it knows, or to each  *)
(* other, each one higher than its parent by one.                          *)
Connected(n, new) ==
    \A b \in new :
        /\ tree'[b].prev \in known[n] \cup new
        /\ tree'[b].height = tree'[tree'[b].prev].height + 1

(* First seen wins among the highest blocks. *)
Choose(n, new) ==
    LET higher == {b \in new : tree'[b].height > tree'[best[n]].height}
    IN  IF higher = {}
        THEN best' = best
        ELSE \E b \in higher :
                /\ \A c \in higher : tree'[c].height <= tree'[b].height
                /\ best' = [best EXCEPT ![n] = b]

Learn(n) ==
    \E new \in SUBSET (Block \ known[n]) :
        /\ new # {}
        /\ SettledTree
        /\ Connected(n, new)
        /\ known' = [known EXCEPT ![n] = @ \cup new]
        /\ Choose(n, new)

Init ==
    /\ tree \in [Block -> [prev : Block \cup {NoBlock}, height : Nat]]
    /\ tree[Root] = [prev |-> NoBlock, height |-> 0]
    /\ known = [n \in Node |-> {Root}]
    /\ best = [n \in Node |-> Root]

Next == \E n \in Node : Learn(n)

Spec == Init /\ [][Next]_<<tree, known, best>>
=============================================================================
